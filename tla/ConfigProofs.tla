---------------------------- MODULE ConfigProofs ----------------------------
(***************************************************************************)
(* Theorems about the configuration a conversion ends with, for every      *)
(* input: what it refers to is there, its routes, and its DNS rules.       *)
(*                                                                         *)
(* Of the outbounds an invariant says what each step leaves (LinkInv).     *)
(* The rest of the configuration is computed at one go from the input, the *)
(* first group and the domains of ECH queries: FormInv says it is, and     *)
(* lemmas about the operators say what that means.                         *)
(***************************************************************************)
EXTENDS TranslatorProofs

DNSOf(i, first) == TranslateDNS(i.dns, i.hosts, first)

WithRules(i, first, ech) == GenerateDNSRules(DNSOf(i, first), i.cc, ech)

FullDNS(i, first, ech) ==
  [WithRules(i, first, ech) EXCEPT !.rules = AddDNSRouteAction(@)]

DefinedSets(i, first) ==
  RouteRuleSets(TranslateRules(i.cc, first)) \cup DNSRuleSets(DNSOf(i, first), i.cc)

Configuration(i, first, tt) ==
  [outbounds |-> <<Direct>> \o tt.proxies \o tt.groups,
   route |-> [rules |-> FilterOrphanRules(AssembleRules(tt.rules, first), tt.ruleSets),
              final |-> RouteFinal(first),
              ruleSets |-> tt.ruleSets,
              resolver |-> tt.dns.resolver],
   dns |-> [tt.dns EXCEPT !.rules = FilterOrphanRules(@, tt.ruleSets)]]

FormInv ==
  /\ pc \in {"dns", "dnsrules", "assemble", "validate"} \/ Ended =>
       t.rules = TranslateRules(input.cc, FirstGroupTag)
  /\ pc \in {"dns", "dnsrules"} => t.ruleSets = RouteRuleSets(t.rules)
  /\ pc = "dnsrules" => t.dns = DNSOf(input, FirstGroupTag)
  /\ pc \in {"assemble", "validate"} \/ Ended =>
       /\ t.ruleSets = DefinedSets(input, FirstGroupTag)
       /\ t.dns = FullDNS(input, FirstGroupTag, t.ech)
  /\ pc = "validate" \/ Ended => out = Configuration(input, FirstGroupTag, t)
  /\ Ended => result = IF DuplicateTag(out) THEN "duplicate"
                       ELSE IF DanglingMember(out) \/ out.route.final \notin OutboundTags(out)
                                 \/ DanglingDNS(out)
                         THEN "dangling"
                       ELSE "ok"

LEMMA FormNext == StubInv /\ FormInv /\ [Next]_vars => FormInv'
<1> SUFFICES ASSUME StubInv, FormInv, [Next]_vars PROVE FormInv'
  OBVIOUS
<1>0. DOMAIN t = Fields
  BY DEF StubInv, InputInv
<1>1. CASE UNCHANGED vars
  BY <1>1 DEF FormInv, Ended, vars, FirstGroupTag
<1>2. CASE Detect
  <2>1. pc' \in {"upgrade", "proxies"} \/ (pc' = "done" /\ input'.kind # "yaml")
    BY <1>2 DEF Detect, Goto, End
  <2> QED
    BY <2>1 DEF FormInv, Ended
<1>3. CASE UpgradeStored \/ Reconvert
  <2>1. pc' = "detect" \/ (pc' = "done" /\ input'.kind # "yaml")
    BY <1>3 DEF UpgradeStored, Reconvert, Goto, End, StubInv, InputInv
  <2> QED
    BY <2>1 DEF FormInv, Ended
<1>4. CASE Proxies \/ Groups \/ CleanupGroups \/ DefaultGroups
  <2>1. pc' \in {"groups", "cleanup", "default", "rules"}
    BY <1>4 DEF Proxies, Groups, CleanupGroups, DefaultGroups, Goto
  <2> QED
    BY <2>1 DEF FormInv, Ended
<1>5. CASE Rules
  <2> DEFINE rules == TranslateRules(input.cc, FirstGroupTag)
  <2>1. /\ pc' = "dns" /\ input' = input
        /\ t' = [t EXCEPT !.rules = rules, !.ruleSets = RouteRuleSets(rules)]
    BY <1>5 DEF Rules, Goto
  <2> HIDE DEF rules
  <2>2. t'.rules = rules /\ t'.ruleSets = RouteRuleSets(rules) /\ t'.order = t.order
    BY <1>0, <2>1 DEF Fields
  <2>3. FirstGroupTag' = FirstGroupTag
    BY <2>2 DEF FirstGroupTag
  <2> QED
    BY <2>1, <2>2, <2>3 DEF FormInv, Ended, rules
<1>6. CASE DNS
  <2> DEFINE dns == DNSOf(input, FirstGroupTag)
  <2>1. /\ pc = "dns" /\ pc' = "dnsrules" /\ input' = input
        /\ t' = [t EXCEPT !.dns = dns]
    BY <1>6 DEF DNS, Goto, DNSOf
  <2> HIDE DEF dns
  <2>2. /\ t'.rules = t.rules /\ t'.ruleSets = t.ruleSets /\ t'.order = t.order
        /\ t'.dns = dns
    BY <1>0, <2>1 DEF Fields
  <2>3. FirstGroupTag' = FirstGroupTag
    BY <2>2 DEF FirstGroupTag
  <2> QED
    BY <2>1, <2>2, <2>3 DEF FormInv, Ended, dns
<1>7. CASE DNSRules
  <2> DEFINE dns == FullDNS(input, FirstGroupTag, t.ech)
             sets == DefinedSets(input, FirstGroupTag)
  <2>1. /\ pc = "dnsrules" /\ pc' = "assemble" /\ input' = input
    BY <1>7 DEF DNSRules, Goto
  <2>2. /\ t.rules = TranslateRules(input.cc, FirstGroupTag)
        /\ t.ruleSets = RouteRuleSets(t.rules)
        /\ t.dns = DNSOf(input, FirstGroupTag)
    BY <2>1 DEF FormInv
  <2>3. t' = [t EXCEPT !.dns = dns, !.ruleSets = sets]
    BY <1>7, <2>2 DEF DNSRules, FullDNS, WithRules, DefinedSets
  <2> HIDE DEF dns, sets
  <2>4. /\ t'.rules = t.rules /\ t'.ruleSets = sets /\ t'.order = t.order
        /\ t'.dns = dns /\ t'.ech = t.ech
    BY <1>0, <2>3 DEF Fields
  <2>5. FirstGroupTag' = FirstGroupTag
    BY <2>4 DEF FirstGroupTag
  <2> QED
    BY <2>1, <2>2, <2>4, <2>5 DEF FormInv, Ended, dns, sets
<1>8. CASE Assemble
  <2>1. /\ pc = "assemble" /\ pc' = "validate" /\ UNCHANGED <<input, t>>
        /\ out' = Configuration(input, FirstGroupTag, t)
    BY <1>8 DEF Assemble, Goto, Configuration
  <2> QED
    BY <2>1 DEF FormInv, Ended, FirstGroupTag
<1>9. CASE Validate
  <2>1. pc = "validate" /\ pc' = "done" /\ UNCHANGED <<input, t, out>>
    BY <1>9 DEF Validate, End
  <2>2. result' = IF DuplicateTag(out) THEN "duplicate"
                  ELSE IF DanglingMember(out) \/ out.route.final \notin OutboundTags(out)
                            \/ DanglingDNS(out)
                    THEN "dangling"
                  ELSE "ok"
    BY <1>9 DEF Validate, End
  <2> QED
    BY <2>1, <2>2 DEF FormInv, Ended, FirstGroupTag
<1> QED
  BY <1>1, <1>2, <1>3, <1>4, <1>5, <1>6, <1>7, <1>8, <1>9 DEF Next

----------------------------------------------------------------------------
(* The empty string, by a name: the SMT backend does not know the literal. *)
NoName == ""

(* The rules of a route. *)
RouteFields == {"mode", "private", "ruleSet", "suffix", "dns", "outbound", "action"}

IsRoute(r) == r = [f \in RouteFields |-> r[f]]

LEMMA RouteRecords ==
  /\ IsRoute(NoRoute)
  /\ \A r, sets, out1 : IsRoute(r) => IsRoute([r EXCEPT !.ruleSet = sets, !.outbound = out1])
  /\ \A r, x, y : IsRoute(r) => /\ IsRoute([r EXCEPT !.private = x, !.outbound = y])
                                /\ IsRoute([r EXCEPT !.suffix = x, !.outbound = y])
                                /\ IsRoute([r EXCEPT !.outbound = x, !.action = y])
                                /\ IsRoute([r EXCEPT !.dns = x, !.action = y])
  /\ \A r, x : IsRoute(r) => /\ IsRoute([r EXCEPT !.action = x])
                             /\ IsRoute([r EXCEPT !.mode = x])
                             /\ IsRoute([r EXCEPT !.ruleSet = x])
<1>1. IsRoute(NoRoute)
  BY DEF IsRoute, NoRoute, RouteFields
<1>2. ASSUME NEW r, IsRoute(r), NEW x, NEW y
      PROVE  /\ IsRoute([r EXCEPT !.ruleSet = x, !.outbound = y])
             /\ IsRoute([r EXCEPT !.private = x, !.outbound = y])
             /\ IsRoute([r EXCEPT !.suffix = x, !.outbound = y])
             /\ IsRoute([r EXCEPT !.outbound = x, !.action = y])
             /\ IsRoute([r EXCEPT !.dns = x, !.action = y])
             /\ IsRoute([r EXCEPT !.action = x])
             /\ IsRoute([r EXCEPT !.mode = x])
             /\ IsRoute([r EXCEPT !.ruleSet = x])
  BY <1>2 DEF IsRoute
<1> QED
  BY <1>1, <1>2

(* A rule of the country: it has a condition, and its outbound is DIRECT or *)
(* the first group.                                                        *)
CountryRoute(r, first) ==
  /\ IsRoute(r)
  /\ r.mode = "" /\ r.action = "" /\ r.dns = FALSE
  /\ r.outbound # "" /\ r.outbound \in {"DIRECT", first}
  /\ ~r.private => r.ruleSet \cup r.suffix # {}

LEMMA CountryRecords ==
  ASSUME NEW first, NEW to, to # "", to \in {"DIRECT", first}
  PROVE  /\ \A set : CountryRoute(RuleSetTo({set}, to), first)
         /\ \A suffix : CountryRoute([NoRoute EXCEPT !.suffix = {suffix}, !.outbound = to], first)
         /\ CountryRoute([NoRoute EXCEPT !.private = TRUE, !.outbound = to], first)
<1>1. /\ NoRoute.mode = "" /\ NoRoute.action = "" /\ NoRoute.dns = FALSE
      /\ IsRoute(NoRoute) /\ DOMAIN NoRoute = RouteFields
  BY RouteRecords DEF NoRoute, RouteFields
<1>2. ASSUME NEW x
      PROVE  /\ CountryRoute([NoRoute EXCEPT !.ruleSet = {x}, !.outbound = to], first)
             /\ CountryRoute([NoRoute EXCEPT !.suffix = {x}, !.outbound = to], first)
             /\ CountryRoute([NoRoute EXCEPT !.private = TRUE, !.outbound = to], first)
  <2>1. /\ IsRoute([NoRoute EXCEPT !.ruleSet = {x}, !.outbound = to])
        /\ IsRoute([NoRoute EXCEPT !.suffix = {x}, !.outbound = to])
        /\ IsRoute([NoRoute EXCEPT !.private = TRUE, !.outbound = to])
    BY <1>1, RouteRecords
  <2>2. CountryRoute([NoRoute EXCEPT !.ruleSet = {x}, !.outbound = to], first)
    BY <1>1, <2>1 DEF CountryRoute, RouteFields
  <2>3. CountryRoute([NoRoute EXCEPT !.suffix = {x}, !.outbound = to], first)
    BY <1>1, <2>1 DEF CountryRoute, RouteFields
  <2>4. CountryRoute([NoRoute EXCEPT !.private = TRUE, !.outbound = to], first)
    BY <1>1, <2>1 DEF CountryRoute, RouteFields
  <2> QED
    BY <2>2, <2>3, <2>4
<1> QED
  BY <1>2 DEF RuleSetTo

Services == [i \in DOMAIN DomesticServices |-> RuleSetTo({DomesticServices[i]}, "DIRECT")]

LEMMA ServiceRules ==
  /\ IsList(Services)
  /\ ToSet(Services) = {RuleSetTo({s}, "DIRECT") : s \in ToSet(DomesticServices)}
<1>1. DOMAIN DomesticServices = 1..4
  BY DEF DomesticServices
<1>2. Services = [i \in 1..4 |-> Services[i]] /\ 4 \in Nat
  BY <1>1 DEF Services
<1>3. IsList(Services) /\ ToSet(Services) = {Services[i] : i \in 1..4}
  BY <1>2, MadeList
<1> QED
  BY <1>1, <1>3 DEF ToSet, Services

LEMMA TranslatedRoutes ==
  ASSUME NEW cc, NEW first
  PROVE  /\ IsList(TranslateRules(cc, first))
         /\ \A r \in ToSet(TranslateRules(cc, first)) : CountryRoute(r, first)
<1> DEFINE proxy == IF first = "" THEN "DIRECT" ELSE first
           Good(s) == IsList(s) /\ \A r \in ToSet(s) : CountryRoute(r, first)
           a == [NoRoute EXCEPT !.private = TRUE, !.outbound = "DIRECT"]
           b == RuleSetTo({"geosite-private"}, "DIRECT")
           cn1 == RuleSetTo({"overseas-ai"}, proxy)
           cn2 == RuleSetTo({"geosite-geolocation-!cn"}, proxy)
           cn3 == RuleSetTo({"geosite-cn"}, "DIRECT")
           cn4 == RuleSetTo({"geoip-cn"}, "DIRECT")
           cn5 == [NoRoute EXCEPT !.suffix = {".cn"}, !.outbound = "DIRECT"]
           c1 == RuleSetTo({"geoip-" \o cc}, "DIRECT")
           c2 == [NoRoute EXCEPT !.suffix = {"." \o cc}, !.outbound = "DIRECT"]
<1>1. ASSUME NEW s, NEW u, Good(s), Good(u) PROVE Good(s \o u)
  BY <1>1, ConcatList
<1>2. "DIRECT" # "" /\ "DIRECT" \in {"DIRECT", first}
      /\ proxy # "" /\ proxy \in {"DIRECT", first}
  OBVIOUS
<1> HIDE DEF proxy
<1>3. /\ CountryRoute(a, first) /\ CountryRoute(b, first)
      /\ CountryRoute(cn1, first) /\ CountryRoute(cn2, first) /\ CountryRoute(cn3, first)
      /\ CountryRoute(cn4, first) /\ CountryRoute(cn5, first)
      /\ CountryRoute(c1, first) /\ CountryRoute(c2, first)
  BY <1>2, CountryRecords
<1>4. Good(Services)
  BY <1>2, ServiceRules, CountryRecords
<1>5. TranslateRules(cc, first) =
        <<a, b>> \o IF cc = "cn" THEN (<<cn1>> \o Services) \o <<cn2, cn3, cn4, cn5>>
                    ELSE <<c1>> \o IF cc \in GenericCCTLDs THEN <<>> ELSE <<c2>>
  BY DEF TranslateRules, GenerateCNRoutes, GenerateCountryRoutes, Services, proxy
<1> HIDE DEF a, b, cn1, cn2, cn3, cn4, cn5, c1, c2
<1>6. /\ Good(<<a, b>>) /\ Good(<<cn1>>) /\ Good(<<cn2, cn3, cn4, cn5>>)
      /\ Good(<<c1>>) /\ Good(<<c2>>) /\ Good(<<>>)
  BY <1>3, ShortLists
<1> HIDE DEF Good
<1>7. Good((<<cn1>> \o Services) \o <<cn2, cn3, cn4, cn5>>)
  BY <1>1, <1>4, <1>6
<1>8. Good(<<c1>> \o IF cc \in GenericCCTLDs THEN <<>> ELSE <<c2>>)
  BY <1>1, <1>6
<1>9. Good(TranslateRules(cc, first))
  BY <1>1, <1>5, <1>6, <1>7, <1>8
<1> QED
  BY <1>9 DEF Good

(* What assemble makes of a rule of the country. *)
Finished(r) == AddClashModeCondition(AddRouteAction(ConvertRejectAction(r)))

LEMMA FinishedRoute ==
  ASSUME NEW first, NEW r, CountryRoute(r, first)
  PROVE  /\ IsRoute(Finished(r))
         /\ Finished(r).ruleSet = r.ruleSet /\ Finished(r).suffix = r.suffix
         /\ Finished(r).private = r.private /\ Finished(r).dns = FALSE
         /\ r.outbound # "REJECT" => /\ Finished(r).outbound = r.outbound
                                     /\ Finished(r).action = "route"
                                     /\ Finished(r).mode = "Rule"
         /\ r.outbound = "REJECT" => /\ Finished(r).outbound = ""
                                     /\ Finished(r).action = "reject"
                                     /\ Finished(r).mode = ""
<1>1. /\ IsRoute(r) /\ DOMAIN r = RouteFields
      /\ r.mode = "" /\ r.action = "" /\ r.dns = FALSE /\ r.outbound # ""
  BY DEF CountryRoute, IsRoute
<1>2. CASE r.outbound = "REJECT"
  <2> DEFINE c == [r EXCEPT !.outbound = "", !.action = "reject"]
  <2>1. /\ IsRoute(c) /\ c.outbound = "" /\ c.action = "reject" /\ c.mode = ""
        /\ c.ruleSet = r.ruleSet /\ c.suffix = r.suffix /\ c.private = r.private
        /\ c.dns = FALSE
    BY <1>1, RouteRecords DEF RouteFields
  <2>2. ConvertRejectAction(r) = c
    BY <1>2 DEF ConvertRejectAction
  <2> HIDE DEF c
  <2>3. Finished(r) = c
    BY <2>1, <2>2 DEF Finished, AddRouteAction, AddClashModeCondition
  <2> QED
    BY <1>2, <2>1, <2>3
<1>3. CASE r.outbound # "REJECT"
  <2> DEFINE a == [r EXCEPT !.action = "route"]
             c == [a EXCEPT !.mode = "Rule"]
  <2>1. ConvertRejectAction(r) = r /\ AddRouteAction(r) = a
    BY <1>1, <1>3 DEF ConvertRejectAction, AddRouteAction
  <2>2. /\ IsRoute(a) /\ a.outbound = r.outbound /\ a.action = "route" /\ a.mode = ""
        /\ a.ruleSet = r.ruleSet /\ a.suffix = r.suffix /\ a.private = r.private
        /\ a.dns = FALSE /\ DOMAIN a = RouteFields
    BY <1>1, RouteRecords DEF RouteFields
  <2> HIDE DEF a
  <2>3. /\ IsRoute(c) /\ c.outbound = r.outbound /\ c.action = "route" /\ c.mode = "Rule"
        /\ c.ruleSet = r.ruleSet /\ c.suffix = r.suffix /\ c.private = r.private
        /\ c.dns = FALSE
    BY <2>2, RouteRecords DEF RouteFields
  <2>4. Finished(r) = c
    BY <1>1, <2>1, <2>2 DEF Finished, AddClashModeCondition
  <2> HIDE DEF c
  <2> QED
    BY <1>3, <2>3, <2>4
<1> QED
  BY <1>2, <1>3

(* The rules that come first: two actions and the rules of the other modes. *)
Sniff == [NoRoute EXCEPT !.action = "sniff"]
Hijack == [NoRoute EXCEPT !.dns = TRUE, !.action = "hijack-dns"]
ModeRule(mode, to) == [NoRoute EXCEPT !.mode = mode, !.outbound = to, !.action = "route"]

LEMMA DefaultRecords ==
  /\ IsRoute(Sniff) /\ Sniff.action = "sniff" /\ Sniff.outbound = "" /\ Sniff.ruleSet = {}
  /\ IsRoute(Hijack) /\ Hijack.action = "hijack-dns" /\ Hijack.outbound = ""
  /\ Hijack.mode = "" /\ Hijack.dns = TRUE /\ Hijack.private = FALSE
  /\ Hijack.ruleSet = {} /\ Hijack.suffix = {}
  /\ \A mode, to : /\ IsRoute(ModeRule(mode, to))
                   /\ ModeRule(mode, to).mode = mode /\ ModeRule(mode, to).outbound = to
                   /\ ModeRule(mode, to).action = "route" /\ ModeRule(mode, to).dns = FALSE
                   /\ ModeRule(mode, to).private = FALSE
                   /\ ModeRule(mode, to).ruleSet = {} /\ ModeRule(mode, to).suffix = {}
<1>1. /\ DOMAIN NoRoute = RouteFields /\ IsRoute(NoRoute)
      /\ NoRoute.mode = "" /\ NoRoute.outbound = "" /\ NoRoute.private = FALSE
      /\ NoRoute.ruleSet = {} /\ NoRoute.suffix = {} /\ NoRoute.dns = FALSE
  BY RouteRecords DEF NoRoute, RouteFields
<1>2. /\ IsRoute(Sniff) /\ Sniff.action = "sniff" /\ Sniff.outbound = "" /\ Sniff.ruleSet = {}
  BY <1>1, RouteRecords DEF Sniff, RouteFields
<1>3. /\ IsRoute(Hijack) /\ Hijack.action = "hijack-dns" /\ Hijack.outbound = ""
      /\ Hijack.mode = "" /\ Hijack.dns = TRUE /\ Hijack.private = FALSE
      /\ Hijack.ruleSet = {} /\ Hijack.suffix = {}
  BY <1>1, RouteRecords DEF Hijack, RouteFields
<1>4. ASSUME NEW mode, NEW to
      PROVE  /\ IsRoute(ModeRule(mode, to))
             /\ ModeRule(mode, to).mode = mode /\ ModeRule(mode, to).outbound = to
             /\ ModeRule(mode, to).action = "route" /\ ModeRule(mode, to).dns = FALSE
             /\ ModeRule(mode, to).private = FALSE
             /\ ModeRule(mode, to).ruleSet = {} /\ ModeRule(mode, to).suffix = {}
  BY <1>1 DEF ModeRule, RouteFields, IsRoute
<1> QED
  BY <1>2, <1>3, <1>4

ModeRules(first) ==
  IF first = "" THEN <<>> ELSE <<ModeRule("Direct", "DIRECT"), ModeRule("Global", first)>>

LEMMA AssembledParts ==
  ASSUME NEW rules, NEW first, IsList(rules), \A r \in ToSet(rules) : CountryRoute(r, first)
  PROVE  LET finished == [i \in DOMAIN rules |-> Finished(rules[i])]
             all == AssembleRules(rules, first)
         IN /\ IsList(<<Sniff, Hijack>>) /\ IsList(ModeRules(first))
            /\ IsList(finished) /\ ToSet(finished) = {Finished(r) : r \in ToSet(rules)}
            /\ all = (<<Sniff, Hijack>> \o ModeRules(first)) \o finished
            /\ IsList(all)
            /\ ToSet(all) = {Sniff, Hijack} \cup ToSet(ModeRules(first))
                              \cup {Finished(r) : r \in ToSet(rules)}
<1> DEFINE finished == [i \in DOMAIN rules |-> Finished(rules[i])]
           all == AssembleRules(rules, first)
           modes == ModeRules(first)
           pair == <<Sniff, Hijack>>
<1>1. all = (pair \o modes) \o finished
  BY DEF AssembleRules, DefaultRules, Finished, Sniff, Hijack, ModeRules, ModeRule
<1>2. IsList(pair) /\ ToSet(pair) = {Sniff, Hijack}
  BY ShortLists
<1>3. IsList(modes)
      /\ ToSet(modes) \subseteq {ModeRule("Direct", "DIRECT"), ModeRule("Global", first)}
  BY ShortLists DEF ModeRules
<1>4. IsList(finished) /\ ToSet(finished) = {Finished(r) : r \in ToSet(rules)}
  <2>1. DOMAIN rules = 1..Len(rules) /\ Len(rules) \in Nat
    BY ListFacts
  <2>2. finished = [i \in 1..Len(rules) |-> finished[i]]
    BY <2>1
  <2>3. IsList(finished) /\ ToSet(finished) = {finished[i] : i \in 1..Len(rules)}
    BY <2>1, <2>2, MadeList
  <2> QED
    BY <2>1, <2>3 DEF ToSet
<1> HIDE DEF finished, all, modes, pair
<1>5. /\ IsList(all)
      /\ ToSet(all) = {Sniff, Hijack} \cup ToSet(modes) \cup {Finished(r) : r \in ToSet(rules)}
  <2>1. IsList(pair \o modes) /\ ToSet(pair \o modes) = ToSet(pair) \cup ToSet(modes)
    BY <1>2, <1>3, ConcatList
  <2> QED
    BY <1>1, <1>2, <1>4, <2>1, ConcatList
<1> QED
  BY <1>1, <1>2, <1>3, <1>4, <1>5 DEF finished, all, modes, pair

LEMMA AssembledRoutes ==
  ASSUME NEW rules, NEW first, IsList(rules), \A r \in ToSet(rules) : CountryRoute(r, first),
         NEW all, all = AssembleRules(rules, first)
  PROVE  /\ IsList(all)
         /\ \A r \in ToSet(all) : IsRoute(r) /\ r.outbound \in {NoName, "DIRECT", first}
         /\ \A r \in ToSet(all) : r.ruleSet = {} \/ \E q \in ToSet(rules) : r.ruleSet = q.ruleSet
<1> DEFINE modes == ModeRules(first)
<1>3. ToSet(modes) \subseteq {ModeRule("Direct", "DIRECT"), ModeRule("Global", first)}
  <2>1. /\ ToSet(<<>>) = {}
        /\ ToSet(<<ModeRule("Direct", "DIRECT"), ModeRule("Global", first)>>) =
             {ModeRule("Direct", "DIRECT"), ModeRule("Global", first)}
    BY ShortLists
  <2> QED
    BY <2>1 DEF ModeRules
<1>5. /\ IsList(all)
      /\ ToSet(all) = {Sniff, Hijack} \cup ToSet(modes) \cup {Finished(r) : r \in ToSet(rules)}
  BY AssembledParts
<1> HIDE DEF modes
<1>6. ASSUME NEW r \in ToSet(rules)
      PROVE  /\ IsRoute(Finished(r)) /\ Finished(r).outbound \in {NoName, "DIRECT", first}
             /\ Finished(r).ruleSet = r.ruleSet
  <2>1. CountryRoute(r, first) /\ r.outbound \in {"DIRECT", first}
    BY DEF CountryRoute
  <2>2. /\ IsRoute(Finished(r)) /\ Finished(r).outbound \in {"", "DIRECT", first}
        /\ Finished(r).ruleSet = r.ruleSet
    BY <2>1, FinishedRoute
  <2> QED
    BY <2>2, Zenon DEF NoName
<1>7. \A mode, to : /\ IsRoute(ModeRule(mode, to)) /\ ModeRule(mode, to).outbound = to
                    /\ ModeRule(mode, to).ruleSet = {}
  BY DefaultRecords, ZenonT(40)
<1>8. ASSUME NEW r \in {Sniff, Hijack} \cup ToSet(modes)
      PROVE  IsRoute(r) /\ r.outbound \in {NoName, "DIRECT", first} /\ r.ruleSet = {}
  <2>1. CASE r \in {Sniff, Hijack}
    <3>1. /\ IsRoute(Sniff) /\ Sniff.outbound = NoName /\ Sniff.ruleSet = {}
          /\ IsRoute(Hijack) /\ Hijack.outbound = NoName /\ Hijack.ruleSet = {}
      BY DefaultRecords, Zenon DEF NoName
    <3> QED
      BY <2>1, <3>1
  <2>2. CASE r \in ToSet(modes)
    <3>1. r = ModeRule("Direct", "DIRECT") \/ r = ModeRule("Global", first)
      BY <1>3, <2>2
    <3>2. PICK mode, to : to \in {"DIRECT", first} /\ r = ModeRule(mode, to)
      BY <3>1
    <3>3. IsRoute(r) /\ r.outbound = to /\ r.ruleSet = {}
      BY <1>7, <3>2, Zenon
    <3> QED
      BY <3>2, <3>3
  <2> QED
    BY <2>1, <2>2
<1>9. ASSUME NEW r \in ToSet(all)
      PROVE  /\ IsRoute(r) /\ r.outbound \in {NoName, "DIRECT", first}
             /\ r.ruleSet = {} \/ \E q \in ToSet(rules) : r.ruleSet = q.ruleSet
  <2>1. CASE r \in {Sniff, Hijack} \cup ToSet(modes)
    BY <1>8, <2>1
  <2>2. CASE \E q \in ToSet(rules) : r = Finished(q)
    BY <1>6, <2>2
  <2> QED
    BY <1>5, <2>1, <2>2
<1> QED
  BY <1>5, <1>9

----------------------------------------------------------------------------
(* The servers of the DNS section. *)
ServerFields == {"tag", "type", "addr", "detour", "resolver"}

IsServer(s) == s = [f \in ServerFields |-> s[f]]

(* A server a name server of the input is translated to. *)
Parsed(s, ns, tag, detour) ==
  /\ ParseDNSServer(ns, tag, detour) = <<s>>
  /\ IsServer(s) /\ s.tag = tag /\ s.resolver = "" /\ s.detour \in {"", detour}
  /\ s.type # "hosts"
  /\ s.type = "fakeip" => ns.scheme = "fakeip"
  /\ s.type = "local" => ns.scheme = "system"
  /\ s.addr = "domain" => ~ns.ip /\ ns.scheme \notin {"system", "fakeip", "dhcp", "rcode", ""}

LEMMA ParsedServer ==
  ASSUME NEW ns \in NameServerInput, NEW tag, NEW detour
  PROVE  \/ ParseDNSServer(ns, tag, detour) = <<>>
         \/ \E s : Parsed(s, ns, tag, detour)
<1> DEFINE type == SchemeToDNSType(ns)
           addr == IF ns.ip THEN "ip" ELSE "domain"
<1>1. CASE ns.scheme = "system"
  <2> DEFINE s == Server(tag, "local", "", "")
  <2>1. ParseDNSServer(ns, tag, detour) = <<s>>
    BY <1>1 DEF ParseDNSServer
  <2>4. s = Server(tag, "local", "", "")
    OBVIOUS
  <2> HIDE DEF s
  <2>2. IsServer(s) /\ s.tag = tag /\ s.type = "local" /\ s.addr = "" /\ s.detour = ""
        /\ s.resolver = ""
    BY <2>4 DEF Server, IsServer, ServerFields
  <2> QED
    BY <1>1, <2>1, <2>2 DEF Parsed
<1>2. CASE ns.scheme \in {"fakeip", "dhcp"}
  <2> DEFINE s == Server(tag, ns.scheme, "", "")
  <2>1. ParseDNSServer(ns, tag, detour) = <<s>>
    BY <1>2 DEF ParseDNSServer
  <2>4. s = Server(tag, ns.scheme, "", "")
    OBVIOUS
  <2> HIDE DEF s
  <2>2. IsServer(s) /\ s.tag = tag /\ s.type = ns.scheme /\ s.addr = "" /\ s.detour = ""
        /\ s.resolver = ""
    BY <2>4 DEF Server, IsServer, ServerFields
  <2> QED
    BY <1>2, <2>1, <2>2 DEF Parsed
<1>3. CASE ns.scheme \in {"", "rcode"}
  BY <1>3 DEF ParseDNSServer
<1>4. CASE /\ ns.scheme \notin {"system", "fakeip", "dhcp", "", "rcode"}
           /\ type = ""
  BY <1>4 DEF ParseDNSServer
<1>5. CASE /\ ns.scheme \notin {"system", "fakeip", "dhcp", "", "rcode"}
           /\ type # ""
  <2> DEFINE s == Server(tag, type, addr, detour)
  <2>0. type \notin {"hosts", "fakeip", "local"}
    BY <1>5 DEF SchemeToDNSType, NameServerInput, Schemes
  <2>1. ParseDNSServer(ns, tag, detour) = <<s>>
    BY <1>5 DEF ParseDNSServer
  <2>3. addr = "domain" => ~ns.ip
    OBVIOUS
  <2>4. s = Server(tag, type, addr, detour)
    OBVIOUS
  <2> HIDE DEF type, addr, s
  <2>2. IsServer(s) /\ s.tag = tag /\ s.type = type /\ s.addr = addr /\ s.detour = detour
        /\ s.resolver = ""
    BY <2>4 DEF Server, IsServer, ServerFields
  <2> QED
    BY <1>5, <2>0, <2>1, <2>2, <2>3 DEF Parsed
<1> QED
  BY <1>1, <1>2, <1>3, <1>4, <1>5

(* Whether there is one does not depend on its tag and its detour. *)
LEMMA ParsedAnyway ==
  ASSUME NEW ns, NEW tag1, NEW tag2, NEW detour1, NEW detour2,
         ParseDNSServer(ns, tag1, detour1) # <<>>
  PROVE  ParseDNSServer(ns, tag2, detour2) # <<>>
BY DEF ParseDNSServer

(* buildDNSServerEntries: every server has the number its name server has. *)
LEMMA BuiltServers ==
  ASSUME NEW servers \in Seq(NameServerInput), NEW prefix, NEW detour
  PROVE  LET b == BuildDNSServerEntries(servers, prefix, detour)
         IN /\ IsList(b)
            /\ \E p \in [DOMAIN b -> DOMAIN servers] :
                  /\ \A n \in DOMAIN b :
                        Parsed(b[n], servers[p[n]], NumberedTag(prefix, p[n]), detour)
                  /\ \A m, n \in DOMAIN b : m < n => p[m] < p[n]
<1> DEFINE Tag(i) == NumberedTag(prefix, i)
           parsed == [i \in DOMAIN servers |-> ParseDNSServer(servers[i], Tag(i), detour)]
           found == Keep(parsed, ToSet(parsed) \ {<<>>})
           b == BuildDNSServerEntries(servers, prefix, detour)
<1>1. b = [n \in DOMAIN found |-> found[n][1]]
  BY DEF BuildDNSServerEntries
<1>2. DOMAIN servers = 1..Len(servers) /\ Len(servers) \in Nat
  <2> HIDE DEF Tag, parsed, found, b
  <2>1. \A S : servers \in Seq(S) => DOMAIN servers = 1..Len(servers) /\ Len(servers) \in Nat
    OBVIOUS
  <2> QED
    BY <2>1
<1>3. IsList(parsed) /\ DOMAIN parsed = DOMAIN servers
  <2>1. parsed = [i \in 1..Len(servers) |-> parsed[i]]
    BY <1>2
  <2> HIDE DEF parsed
  <2> QED
    BY <1>2, <2>1, MadeList
<1>4. \A i \in DOMAIN servers : parsed[i] = ParseDNSServer(servers[i], Tag(i), detour)
  OBVIOUS
<1>5. \A i \in DOMAIN servers : servers[i] \in NameServerInput
  <2> HIDE DEF NameServerInput
  <2> QED
    OBVIOUS
<1> HIDE DEF parsed, Tag
<1>6. PICK p \in [DOMAIN found -> DOMAIN parsed] :
        /\ \A n \in DOMAIN found : found[n] = parsed[p[n]] /\ parsed[p[n]] \in ToSet(parsed) \ {<<>>}
        /\ \A m, n \in DOMAIN found : m < n => p[m] < p[n]
  BY <1>3, KeepPlaces DEF IsList
<1>7. IsList(found)
  BY <1>3, KeepList
<1> HIDE DEF found
<1>8. \A n \in DOMAIN found : Parsed(found[n][1], servers[p[n]], Tag(p[n]), detour)
  <2> TAKE n \in DOMAIN found
  <2>1. p[n] \in DOMAIN servers /\ servers[p[n]] \in NameServerInput
    BY <1>3, <1>5, <1>6
  <2>2. found[n] = ParseDNSServer(servers[p[n]], Tag(p[n]), detour) /\ found[n] # <<>>
    BY <1>4, <1>6, <2>1
  <2>3. PICK s : Parsed(s, servers[p[n]], Tag(p[n]), detour)
    BY <2>1, <2>2, ParsedServer
  <2>4. found[n] = <<s>>
    BY <2>2, <2>3 DEF Parsed
  <2> QED
    BY <2>3, <2>4
<1>9. b = [n \in 1..Len(found) |-> b[n]] /\ Len(found) \in Nat /\ DOMAIN found = 1..Len(found)
  BY <1>1, <1>7, ListFacts
<1>10. IsList(b)
  <2> HIDE DEF b
  <2> QED
    BY <1>9, MadeList
<1>11. DOMAIN b = DOMAIN found /\ \A n \in DOMAIN b : b[n] = found[n][1]
  BY <1>1
<1> HIDE DEF b
<1>12. p \in [DOMAIN b -> DOMAIN servers]
  BY <1>3, <1>6, <1>11
<1>13. \A n \in DOMAIN b : Parsed(b[n], servers[p[n]], NumberedTag(prefix, p[n]), detour)
  BY <1>8, <1>11 DEF Tag
<1> QED
  BY <1>6, <1>10, <1>11, <1>12, <1>13 DEF b

(* What the lists of the input are turned into: servers that have no resolver *)
(* yet, of which the detour is the one of the list.                        *)
Plain(s, detour) ==
  IsServer(s) /\ s.resolver = "" /\ s.detour \in {"", detour} /\ s.type # "hosts"

LEMMA PlainServers ==
  ASSUME NEW servers \in Seq(NameServerInput), NEW prefix, NEW detour,
         NEW b, b = BuildDNSServerEntries(servers, prefix, detour)
  PROVE  IsList(b) /\ \A s \in ToSet(b) : Plain(s, detour)
<1>1. IsList(b)
  BY BuiltServers
<1>2. PICK p \in [DOMAIN b -> DOMAIN servers] : \A n \in DOMAIN b :
         Parsed(b[n], servers[p[n]], NumberedTag(prefix, p[n]), detour)
  BY BuiltServers
<1>3. \A n \in DOMAIN b : Plain(b[n], detour)
  BY <1>2 DEF Parsed, Plain
<1> QED
  BY <1>1, <1>3 DEF ToSet

(* The first of the name servers with an address. *)
LEMMA AutoServers ==
  ASSUME NEW nameserver \in Seq(NameServerInput), NEW b, b = AutoBootstrap(nameserver)
  PROVE  /\ IsList(b)
         /\ \A s \in ToSet(b) : \E ns \in ToSet(nameserver) : \E tag : ns.ip /\ Parsed(s, ns, tag, "")
         /\ \A i \in DOMAIN b : i \in 1..MaxBootstrap /\ b[i].tag = NumberedTag("def-auto-", i)
<1> DEFINE good == {ns \in ToSet(nameserver) : ns.ip /\ ParseDNSServer(ns, "", "") # <<>>}
           usable == Keep(nameserver, good)
           n == Min({MaxBootstrap, Len(usable)})
           Tag(i) == NumberedTag("def-auto-", i)
<1>1. usable \in Seq(NameServerInput) /\ ToSet(usable) = ToSet(nameserver) \cap good
  BY KeepElements
<1>2. b = [i \in 1..n |-> ParseDNSServer(usable[i], Tag(i), "")[1]]
  BY DEF AutoBootstrap
<1> HIDE DEF usable
<1>3. Len(usable) \in Nat /\ DOMAIN usable = 1..Len(usable)
  BY <1>1, ListFacts, Zenon
<1>4. n \in Nat /\ n <= Len(usable) /\ n <= MaxBootstrap
  <2>1. \A x, y \in Nat : Min({x, y}) \in Nat /\ Min({x, y}) <= x /\ Min({x, y}) <= y
    <3> TAKE x, y \in Nat
    <3>1. \E m \in {x, y} : \A z \in {x, y} : m <= z
      OBVIOUS
    <3>2. Min({x, y}) \in {x, y} /\ \A z \in {x, y} : Min({x, y}) <= z
      BY <3>1 DEF Min
    <3> QED
      BY <3>2
  <2>2. MaxBootstrap \in Nat
    BY DEF MaxBootstrap
  <2> QED
    BY <1>3, <2>1, <2>2
<1> HIDE DEF n
<1>5. \A i \in 1..n : \E ns \in ToSet(nameserver) : ns.ip /\ Parsed(b[i], ns, Tag(i), "")
  <2> TAKE i \in 1..n
  <2> DEFINE ns == usable[i]
  <2>1. ns \in ToSet(usable)
    BY <1>3, <1>4 DEF ToSet
  <2>2. ns \in NameServerInput /\ ns \in ToSet(nameserver) /\ ns \in good
    BY <1>1, <2>1, ListFacts
  <2> HIDE DEF ns, Tag
  <2>3. ParseDNSServer(ns, "", "") # <<>> /\ ns.ip
    BY <2>2
  <2>4. ParseDNSServer(ns, Tag(i), "") # <<>>
    BY <2>3, ParsedAnyway
  <2>5. PICK s : Parsed(s, ns, Tag(i), "")
    BY <2>2, <2>4, ParsedServer
  <2>6. b[i] = s
    <3>1. b[i] = ParseDNSServer(ns, Tag(i), "")[1]
      BY <1>2 DEF ns
    <3>2. ParseDNSServer(ns, Tag(i), "") = <<s>>
      BY <2>5 DEF Parsed
    <3>3. <<s>>[1] = s
      OBVIOUS
    <3> QED
      BY <3>1, <3>2, <3>3, Zenon
  <2> QED
    BY <2>2, <2>3, <2>5, <2>6
<1>6. b = [i \in 1..n |-> b[i]]
  BY <1>2
<1>7. IsList(b) /\ ToSet(b) = {b[i] : i \in 1..n}
  <2>1. n \in Nat
    BY <1>4
  <2> HIDE DEF Tag
  <2> QED
    BY <1>6, <2>1, MadeList
<1>8. DOMAIN b = 1..n
  BY <1>6
<1>9. ASSUME NEW i \in DOMAIN b
      PROVE  i \in 1..MaxBootstrap /\ b[i].tag = NumberedTag("def-auto-", i)
  <2>1. i \in 1..MaxBootstrap
    BY <1>4, <1>8 DEF MaxBootstrap
  <2>2. b[i].tag = Tag(i)
    BY <1>5, <1>8 DEF Parsed
  <2> QED
    BY <2>1, <2>2
<1> QED
  BY <1>5, <1>7, <1>9

(* The bootstrap servers, and every server of the input. *)
AllServers(dns, detour) ==
  BuildDNSServerEntries(dns.def, "def-", "")
    \o BuildDNSServerEntries(dns.ns, "ns-", detour)
    \o BuildDNSServerEntries(dns.fallback, "fb-", detour)
    \o BuildDNSServerEntries(dns.psn, "psn-", "")
    \o (IF BuildDNSServerEntries(dns.def, "def-", "") = <<>> THEN BootstrapServers(dns) ELSE <<>>)

LEMMA InputServers ==
  ASSUME NEW dns, DNSLists(dns), NEW detour
  PROVE  /\ IsList(BootstrapServers(dns)) /\ IsList(AllServers(dns, detour))
         /\ IsList(BuildDNSServerEntries(dns.ns, "ns-", detour))
         /\ IsList(BuildDNSServerEntries(dns.fallback, "fb-", detour))
         /\ \A s \in ToSet(BootstrapServers(dns)) : Plain(s, "")
         /\ \A s \in ToSet(AllServers(dns, detour)) : Plain(s, detour)
         /\ ToSet(BootstrapServers(dns)) \subseteq ToSet(AllServers(dns, detour))
         /\ ToSet(BuildDNSServerEntries(dns.ns, "ns-", detour))
              \subseteq ToSet(AllServers(dns, detour))
         /\ ToSet(BuildDNSServerEntries(dns.fallback, "fb-", detour))
              \subseteq ToSet(AllServers(dns, detour))
<1> DEFINE def == BuildDNSServerEntries(dns.def, "def-", "")
           ns == BuildDNSServerEntries(dns.ns, "ns-", detour)
           fb == BuildDNSServerEntries(dns.fallback, "fb-", detour)
           psn == BuildDNSServerEntries(dns.psn, "psn-", "")
           auto == AutoBootstrap(dns.ns)
           boot == BootstrapServers(dns)
           rest == IF def = <<>> THEN boot ELSE <<>>
           all == AllServers(dns, detour)
<1>1. IsList(def) /\ \A s \in ToSet(def) : Plain(s, "")
  BY PlainServers DEF DNSLists
<1>2. IsList(ns) /\ \A s \in ToSet(ns) : Plain(s, detour)
  BY PlainServers DEF DNSLists
<1>3. IsList(fb) /\ \A s \in ToSet(fb) : Plain(s, detour)
  BY PlainServers DEF DNSLists
<1>4. IsList(psn) /\ \A s \in ToSet(psn) : Plain(s, "")
  BY PlainServers DEF DNSLists
<1>5. IsList(auto) /\ \A s \in ToSet(auto) : Plain(s, "")
  <2>1. \A s \in ToSet(auto) : \E n \in ToSet(dns.ns) : \E tag : n.ip /\ Parsed(s, n, tag, "")
    BY AutoServers DEF DNSLists
  <2>2. IsList(auto)
    BY AutoServers DEF DNSLists
  <2> QED
    BY <2>1, <2>2 DEF Parsed, Plain
<1>6. boot = IF def # <<>> THEN def ELSE auto
  BY DEF BootstrapServers
<1>7. all = def \o ns \o fb \o psn \o rest
  BY DEF AllServers
<1> HIDE DEF def, ns, fb, psn, auto, boot, all
<1>8. IsList(boot) /\ \A s \in ToSet(boot) : Plain(s, "")
  BY <1>1, <1>5, <1>6
<1>9. IsList(rest) /\ ToSet(boot) \subseteq ToSet(def) \cup ToSet(rest)
      /\ ToSet(rest) \subseteq ToSet(boot)
  BY <1>6, <1>8, ShortLists
<1> HIDE DEF rest
<1>10. /\ IsList(all)
       /\ ToSet(all) = ToSet(def) \cup ToSet(ns) \cup ToSet(fb) \cup ToSet(psn) \cup ToSet(rest)
  <2> DEFINE two == def \o ns
             three == two \o fb
             four == three \o psn
  <2>1. IsList(two) /\ ToSet(two) = ToSet(def) \cup ToSet(ns)
    BY <1>1, <1>2, ConcatList
  <2> HIDE DEF two
  <2>2. IsList(three) /\ ToSet(three) = ToSet(two) \cup ToSet(fb)
    BY <1>3, <2>1, ConcatList
  <2> HIDE DEF three
  <2>3. IsList(four) /\ ToSet(four) = ToSet(three) \cup ToSet(psn)
    BY <1>4, <2>2, ConcatList
  <2>4. all = four \o rest
    BY <1>7 DEF two, three
  <2> HIDE DEF four
  <2>5. IsList(four \o rest) /\ ToSet(four \o rest) = ToSet(four) \cup ToSet(rest)
    BY <1>9, <2>3, ConcatList
  <2> QED
    BY <2>1, <2>2, <2>3, <2>4, <2>5
<1>11. \A s : Plain(s, "") => Plain(s, detour)
  BY DEF Plain
<1>12. \A s \in ToSet(all) : Plain(s, detour)
  BY <1>1, <1>2, <1>3, <1>4, <1>8, <1>9, <1>10, <1>11
<1> QED
  BY <1>2, <1>3, <1>8, <1>9, <1>10, <1>12 DEF ns, fb, boot, all

LEMMA TagsOfList == ASSUME NEW s PROVE ToTags(s) = {x.tag : x \in ToSet(s)}
BY DEF ToTags, ToSet

(* A server keeps what it is when it is given a resolver. *)
Same(s, srv) ==
  IsServer(s) /\ s.tag = srv.tag /\ s.detour = srv.detour /\ s.addr = srv.addr

LEMMA Resolved ==
  ASSUME NEW srv, IsServer(srv), srv.resolver = "", NEW boot, IsList(boot),
         NEW s, s = SetDomainResolver(srv, boot)
  PROVE  /\ Same(s, srv) /\ s.type = srv.type
         /\ s.resolver \in ToTags(boot) \cup {""}
<1> DEFINE others == Keep(boot, {x \in ToSet(boot) : x.tag # srv.tag})
<1>1. IsList(others) /\ ToSet(others) \subseteq ToSet(boot)
  BY KeepList
<1>2. s = IF srv.addr = "domain" /\ others # <<>>
            THEN [srv EXCEPT !.resolver = others[1].tag] ELSE srv
  BY DEF SetDomainResolver
<1> HIDE DEF others
<1>3. ASSUME others # <<>> PROVE others[1].tag \in ToTags(boot)
  <2>1. 1 \in DOMAIN others
    BY <1>1, <1>3, FirstPlace
  <2>2. others[1] \in ToSet(boot)
    BY <1>1, <2>1 DEF ToSet
  <2> QED
    BY <2>2, TagsOfList
<1> QED
  BY <1>2, <1>3 DEF Same, IsServer, ServerFields

LEMMA Preferred ==
  ASSUME NEW srv, IsServer(srv), NEW dns, NEW s,
         s = IF dns.preferH3 /\ srv.type = "https" THEN [srv EXCEPT !.type = "h3"] ELSE srv
  PROVE  /\ Same(s, srv) /\ s.resolver = srv.resolver
         /\ s.type \in {srv.type, "h3"}
         /\ s.type # srv.type => srv.type = "https"
BY DEF Same, IsServer, ServerFields

(* The servers before the one for a bootstrap is added. *)
UserServers(dns, hosts, detour) ==
  PreferH3(dns, ListedServers(dns, detour)
     \o (IF dns.fakeip THEN <<Server("fakeip-dns", "fakeip", "", "")>> ELSE <<>>)
     \o (IF UsesHosts(dns, hosts) THEN <<Server("hosts", "hosts", "", "")>> ELSE <<>>))

(* Where a server comes from. *)
Made(s, dns, hosts, detour) ==
  \/ \E srv \in ToSet(AllServers(dns, detour)) :
        /\ Same(s, srv) /\ s.type \in {srv.type, "h3"}
        /\ s.type # srv.type => srv.type = "https"
        /\ s.resolver \in ToTags(BootstrapServers(dns)) \cup {""}
  \/ dns.fakeip /\ s = Server("fakeip-dns", "fakeip", "", "")
  \/ UsesHosts(dns, hosts) /\ s = Server("hosts", "hosts", "", "")

LEMMA UserServersMade ==
  ASSUME NEW dns, DNSLists(dns), NEW hosts, NEW detour,
         NEW b, b = UserServers(dns, hosts, detour)
  PROVE  /\ IsList(b) /\ \A s \in ToSet(b) : Made(s, dns, hosts, detour)
         /\ ToTags(AllServers(dns, detour)) \subseteq ToTags(b)
         /\ dns.fakeip => "fakeip-dns" \in ToTags(b)
         /\ UsesHosts(dns, hosts) => "hosts" \in ToTags(b)
<1> DEFINE all == AllServers(dns, detour)
           boot == BootstrapServers(dns)
           listed == ListedServers(dns, detour)
           F == Server("fakeip-dns", "fakeip", "", "")
           H == Server("hosts", "hosts", "", "")
           fake == IF dns.fakeip THEN <<F>> ELSE <<>>
           host == IF UsesHosts(dns, hosts) THEN <<H>> ELSE <<>>
           both == listed \o fake
           full == both \o host
           Prefer(s) == IF dns.preferH3 /\ s.type = "https" THEN [s EXCEPT !.type = "h3"] ELSE s
<1>1. /\ IsList(boot) /\ IsList(all)
      /\ \A s \in ToSet(all) : Plain(s, detour)
  BY InputServers
<1>2. listed = [i \in DOMAIN all |-> SetDomainResolver(all[i], boot)]
  BY DEF ListedServers, AllServers
<1>3. b = [i \in DOMAIN full |-> Prefer(full[i])]
  BY DEF UserServers, PreferH3
<1>4. /\ IsServer(F) /\ F.tag = "fakeip-dns" /\ F.type = "fakeip"
      /\ IsServer(H) /\ H.tag = "hosts" /\ H.type = "hosts"
  BY DEF Server, IsServer, ServerFields
<1> HIDE DEF all, boot, listed, F, H
<1>5. IsList(listed) /\ DOMAIN listed = DOMAIN all /\ ToSet(listed) = {listed[i] : i \in DOMAIN all}
  <2>1. listed = [i \in DOMAIN all |-> listed[i]]
    BY <1>2
  <2> QED
    BY <1>1, <2>1, MappedList
<1>6. \A i \in DOMAIN all : /\ Same(listed[i], all[i]) /\ listed[i].type = all[i].type
                            /\ listed[i].resolver \in ToTags(boot) \cup {""}
  <2> TAKE i \in DOMAIN all
  <2>1. all[i] \in ToSet(all)
    BY DEF ToSet
  <2>2. IsServer(all[i]) /\ all[i].resolver = ""
    BY <1>1, <2>1 DEF Plain
  <2>3. listed[i] = SetDomainResolver(all[i], boot)
    BY <1>2
  <2> QED
    BY <1>1, <2>2, <2>3, Resolved
<1>7. /\ IsList(fake) /\ ToSet(fake) = IF dns.fakeip THEN {F} ELSE {}
      /\ IsList(host) /\ ToSet(host) = IF UsesHosts(dns, hosts) THEN {H} ELSE {}
  BY ShortLists
<1> HIDE DEF fake, host
<1>8. IsList(both) /\ ToSet(both) = ToSet(listed) \cup ToSet(fake)
  BY <1>5, <1>7, ConcatList
<1> HIDE DEF both
<1>9. IsList(full) /\ ToSet(full) = ToSet(both) \cup ToSet(host)
  BY <1>7, <1>8, ConcatList
<1> HIDE DEF full
<1>10. IsList(b) /\ DOMAIN b = DOMAIN full
  <2>1. b = [i \in DOMAIN full |-> b[i]]
    BY <1>3
  <2> QED
    BY <1>9, <2>1, MappedList
<1>11. \A s \in ToSet(b) : \E x \in ToSet(full) : s = Prefer(x)
  BY <1>3, <1>10 DEF ToSet
<1>12. \A x \in ToSet(full) : \E s \in ToSet(b) : s = Prefer(x)
  BY <1>3, <1>10 DEF ToSet
<1>13. \A x \in ToSet(listed) : \E srv \in ToSet(all) :
         Same(x, srv) /\ x.type = srv.type /\ x.resolver \in ToTags(boot) \cup {""}
  BY <1>5, <1>6 DEF ToSet
<1>14. \A srv \in ToSet(all) : \E x \in ToSet(listed) : Same(x, srv)
  BY <1>5, <1>6 DEF ToSet
<1>15. \A x \in ToSet(full) : IsServer(x)
  BY <1>4, <1>7, <1>8, <1>9, <1>13 DEF Same
<1>16. \A x \in ToSet(full) : /\ Same(Prefer(x), x) /\ Prefer(x).resolver = x.resolver
                              /\ Prefer(x).type \in {x.type, "h3"}
                              /\ Prefer(x).type # x.type => x.type = "https"
  <2> TAKE x \in ToSet(full)
  <2> DEFINE s == Prefer(x)
  <2>1. s = IF dns.preferH3 /\ x.type = "https" THEN [x EXCEPT !.type = "h3"] ELSE x
    OBVIOUS
  <2>2. IsServer(x)
    BY <1>15
  <2> HIDE DEF s
  <2>3. Same(s, x) /\ s.resolver = x.resolver /\ s.type \in {x.type, "h3"}
        /\ (s.type # x.type => x.type = "https")
    BY <2>1, <2>2, Preferred
  <2> QED
    BY <2>3 DEF s
<1>17. Prefer(F) = F /\ Prefer(H) = H
  BY <1>4
<1> HIDE DEF Prefer
<1>18. ASSUME NEW s \in ToSet(b) PROVE Made(s, dns, hosts, detour)
  <2>1. PICK x \in ToSet(full) : s = Prefer(x)
    BY <1>11
  <2>2. CASE x \in ToSet(listed)
    <3>1. PICK srv \in ToSet(all) :
            Same(x, srv) /\ x.type = srv.type /\ x.resolver \in ToTags(boot) \cup {""}
      BY <1>13, <2>2
    <3>2. /\ Same(s, srv) /\ s.type \in {srv.type, "h3"}
          /\ s.type # srv.type => srv.type = "https"
          /\ s.resolver \in ToTags(boot) \cup {""}
      BY <1>16, <2>1, <3>1 DEF Same
    <3> QED
      BY <3>2 DEF Made, all, boot
  <2>3. CASE x \in ToSet(fake)
    BY <1>7, <1>17, <2>1, <2>3 DEF Made, F
  <2>4. CASE x \in ToSet(host)
    BY <1>7, <1>17, <2>1, <2>4 DEF Made, H
  <2> QED
    BY <1>8, <1>9, <2>2, <2>3, <2>4
<1>19. ToTags(all) \subseteq ToTags(b)
  <2> SUFFICES ASSUME NEW srv \in ToSet(all) PROVE srv.tag \in ToTags(b)
    BY TagsOfList
  <2>1. PICK x \in ToSet(listed) : Same(x, srv)
    BY <1>14
  <2>2. PICK s \in ToSet(b) : s = Prefer(x)
    BY <1>8, <1>9, <1>12
  <2>3. s.tag = srv.tag
    BY <1>8, <1>9, <1>16, <2>1, <2>2 DEF Same
  <2> QED
    BY <2>3, TagsOfList
<1>20. dns.fakeip => "fakeip-dns" \in ToTags(b)
  <2> HAVE dns.fakeip
  <2>1. F \in ToSet(b)
    BY <1>7, <1>8, <1>9, <1>12, <1>17
  <2> QED
    BY <1>4, <2>1, TagsOfList
<1>21. UsesHosts(dns, hosts) => "hosts" \in ToTags(b)
  <2> HAVE UsesHosts(dns, hosts)
  <2>1. H \in ToSet(b)
    BY <1>7, <1>9, <1>12, <1>17
  <2> QED
    BY <1>4, <2>1, TagsOfList
<1> QED
  BY <1>10, <1>18, <1>19, <1>20, <1>21 DEF all

(***************************************************************************)
(* The DNS section as translateDNS leaves it.                              *)
(***************************************************************************)
RuleFields == {"mode", "domain", "suffix", "ruleSet", "qtype", "match", "action", "server"}

IsRule(r) == r = [f \in RuleFields |-> r[f]]

(* A rule of the user: no geography and no response. *)
PlainRule(r, tags) ==
  IsRule(r) /\ r.ruleSet = {} /\ r.match = FALSE /\ r.action = "" /\ r.server \in tags

LEMMA NoRuleFacts ==
  /\ IsRule(NoRule) /\ NoRule.ruleSet = {} /\ NoRule.match = FALSE /\ NoRule.action = ""
  /\ NoRule.mode = "" /\ NoRule.qtype = {} /\ NoRule.domain = {} /\ NoRule.suffix = {}
BY DEF NoRule, IsRule, RuleFields

LEMMA UserRules ==
  ASSUME NEW dns, NEW firstNS, NEW tags, firstNS # "" => firstNS \in tags,
         dns.fakeip => "fakeip-dns" \in tags
  PROVE  /\ IsList(FakeIPFilterRules(dns, firstNS)) /\ IsList(TerminalRules(dns, firstNS))
         /\ \A r \in ToSet(FakeIPFilterRules(dns, firstNS)) : PlainRule(r, tags)
         /\ \A r \in ToSet(TerminalRules(dns, firstNS)) : PlainRule(r, tags)
<1> DEFINE entries == ToSet(dns.filter)
           suffixes == {e.name : e \in {f \in entries : f.suffix}}
           domains == {e.name : e \in {f \in entries : ~f.suffix}}
           server == IF dns.whitelist THEN "fakeip-dns" ELSE firstNS
           S == [NoRule EXCEPT !.suffix = suffixes, !.server = server]
           D == [NoRule EXCEPT !.domain = domains, !.server = server]
           T == [NoRule EXCEPT !.server = firstNS]
           left == IF suffixes = {} THEN <<>> ELSE <<S>>
           right == IF domains = {} THEN <<>> ELSE <<D>>
           fake == FakeIPFilterRules(dns, firstNS)
           terminal == TerminalRules(dns, firstNS)
<1>1. fake = IF ~dns.fakeip \/ entries = {} \/ firstNS = "" THEN <<>> ELSE left \o right
  BY DEF FakeIPFilterRules
<1>2. terminal = IF dns.fakeip /\ dns.filter # <<>> /\ firstNS # "" /\ dns.whitelist
                   THEN <<T>> ELSE <<>>
  BY DEF TerminalRules
<1>3. dns.fakeip /\ firstNS # "" => server \in tags /\ firstNS \in tags
  OBVIOUS
<1> HIDE DEF suffixes, domains, server, entries, fake, terminal
<1>4. server \in tags => PlainRule(S, tags)
  BY NoRuleFacts DEF PlainRule, IsRule, RuleFields
<1>5. server \in tags => PlainRule(D, tags)
  BY NoRuleFacts DEF PlainRule, IsRule, RuleFields
<1>6. firstNS \in tags => PlainRule(T, tags)
  BY NoRuleFacts DEF PlainRule, IsRule, RuleFields
<1> HIDE DEF S, D, T
<1>7. /\ IsList(left) /\ ToSet(left) \subseteq {S}
      /\ IsList(right) /\ ToSet(right) \subseteq {D}
      /\ IsList(<<>>) /\ ToSet(<<>>) = {}
      /\ IsList(<<T>>) /\ ToSet(<<T>>) = {T}
  BY ShortLists
<1> HIDE DEF left, right
<1>8. IsList(left \o right) /\ ToSet(left \o right) \subseteq {S, D}
  <2>1. IsList(left \o right) /\ ToSet(left \o right) = ToSet(left) \cup ToSet(right)
    BY <1>7, ConcatList, Zenon
  <2> QED
    BY <1>7, <2>1
<1>9. IsList(fake) /\ \A r \in ToSet(fake) : PlainRule(r, tags)
  BY <1>1, <1>3, <1>4, <1>5, <1>7, <1>8
<1>10. IsList(terminal) /\ \A r \in ToSet(terminal) : PlainRule(r, tags)
  BY <1>2, <1>3, <1>6, <1>7
<1> QED
  BY <1>9, <1>10 DEF fake, terminal

LEMMA AppendedTags ==
  ASSUME NEW s, IsList(s), NEW x
  PROVE  /\ IsList(Append(s, x)) /\ ToSet(Append(s, x)) = ToSet(s) \cup {x}
         /\ ToTags(Append(s, x)) = ToTags(s) \cup {x.tag}
<1>1. IsList(<<x>>) /\ ToSet(<<x>>) = {x}
  BY ShortLists
<1>2. Append(s, x) = s \o <<x>>
  BY DEF IsList
<1>3. IsList(s \o <<x>>) /\ ToSet(s \o <<x>>) = ToSet(s) \cup {x}
  BY <1>1, ConcatList
<1> QED
  BY <1>2, <1>3, TagsOfList

LEMMA PreferredUDP ==
  ASSUME NEW servers, IsList(servers)
  PROVE  PreferUDPServer(servers) \in ToTags(servers) \cup {""}
<1> DEFINE udp == Keep(servers, {s \in ToSet(servers) : s.type = "udp"})
<1>1. IsList(udp) /\ ToSet(udp) \subseteq ToSet(servers)
  BY KeepList
<1>2. PreferUDPServer(servers) =
        IF servers = <<>> THEN "" ELSE IF udp # <<>> THEN udp[1].tag ELSE servers[1].tag
  BY DEF PreferUDPServer
<1> HIDE DEF udp
<1>3. udp # <<>> => udp[1].tag \in ToTags(servers)
  BY <1>1, FirstPlace, TagsOfList
<1>4. servers # <<>> => servers[1].tag \in ToTags(servers)
  BY FirstPlace, TagsOfList
<1> QED
  BY <1>2, <1>3, <1>4

DNSFields == {"servers", "rules", "final", "resolver", "terminal", "enabled"}

IsDNS(d) == d = [f \in DNSFields |-> d[f]]

(* The rules of the user are what they were before the ones of the country. *)
UserPart(dns, hosts, detour) ==
  LET ns == BuildDNSServerEntries(dns.ns, "ns-", detour)
      firstNS == IF ns # <<>> THEN ns[1].tag ELSE ""
  IN FakeIPFilterRules(dns, firstNS)
       \o (IF UsesHosts(dns, hosts)
             THEN <<[NoRule EXCEPT !.domain = hosts, !.server = "hosts"]>>
             ELSE <<>>)

LEMMA UserPartRules ==
  ASSUME NEW dns, DNSLists(dns), NEW hosts, NEW detour, NEW tags,
         ToTags(UserServers(dns, hosts, detour)) \subseteq tags
  PROVE  /\ IsList(UserPart(dns, hosts, detour))
         /\ \A r \in ToSet(UserPart(dns, hosts, detour)) : PlainRule(r, tags)
<1> DEFINE ns == BuildDNSServerEntries(dns.ns, "ns-", detour)
           firstNS == IF ns # <<>> THEN ns[1].tag ELSE ""
           H == [NoRule EXCEPT !.domain = hosts, !.server = "hosts"]
           fake == FakeIPFilterRules(dns, firstNS)
           host == IF UsesHosts(dns, hosts) THEN <<H>> ELSE <<>>
<1>1. IsList(ns) /\ ToSet(ns) \subseteq ToSet(AllServers(dns, detour))
  BY InputServers
<1>2. /\ ToTags(AllServers(dns, detour)) \subseteq tags
      /\ dns.fakeip => "fakeip-dns" \in tags
      /\ UsesHosts(dns, hosts) => "hosts" \in tags
  BY UserServersMade
<1>3. UserPart(dns, hosts, detour) = fake \o host
  BY DEF UserPart
<1>4. firstNS # "" => firstNS \in tags
  <2> HIDE DEF ns
  <2>1. ns # <<>> => ns[1].tag \in ToTags(AllServers(dns, detour))
    BY <1>1, FirstPlace, TagsOfList
  <2> QED
    BY <1>2, <2>1
<1> HIDE DEF firstNS
<1>5. IsList(fake) /\ \A r \in ToSet(fake) : PlainRule(r, tags)
  BY <1>2, <1>4, UserRules
<1>6. UsesHosts(dns, hosts) => PlainRule(H, tags)
  BY <1>2, NoRuleFacts DEF PlainRule, IsRule, RuleFields
<1> HIDE DEF H
<1>7. IsList(host) /\ \A r \in ToSet(host) : PlainRule(r, tags)
  BY <1>6, ShortLists
<1> HIDE DEF fake, host
<1> QED
  BY <1>3, <1>5, <1>7, ConcatList

LEMMA DNSFacts ==
  ASSUME NEW dns, DNSLists(dns), NEW hosts, NEW detour,
         NEW d, d = TranslateDNS(dns, hosts, detour)
  PROVE  /\ IsDNS(d)
         /\ d.enabled <=> dns.enable
         /\ IsList(d.servers) /\ d.resolver \in ToTags(d.servers)
         /\ d.final \in ToTags(d.servers) \cup {""}
         /\ IsList(d.rules) /\ \A r \in ToSet(d.rules) : PlainRule(r, ToTags(d.servers))
         /\ IsList(d.terminal) /\ \A r \in ToSet(d.terminal) : PlainRule(r, ToTags(d.servers))
<1> DEFINE b == UserServers(dns, hosts, detour)
           ns == BuildDNSServerEntries(dns.ns, "ns-", detour)
           fb == BuildDNSServerEntries(dns.fallback, "fb-", detour)
           firstNS == IF ns # <<>> THEN ns[1].tag ELSE ""
           resolver == PreferUDPServer(BootstrapServers(dns))
           bootstrap == NeedsBootstrap(resolver, b)
           rules == UserPart(dns, hosts, detour)
           terminal == TerminalRules(dns, firstNS)
           full == [servers  |-> IF bootstrap THEN Append(b, BootstrapDNS) ELSE b,
                    rules    |-> rules,
                    final    |-> IF fb # <<>> THEN fb[1].tag ELSE firstNS,
                    resolver |-> IF bootstrap THEN BootstrapDNS.tag ELSE resolver,
                    terminal |-> terminal,
                    enabled  |-> TRUE]
<1>1. d = IF ~dns.enable THEN DisabledDNS ELSE full
  BY DEF TranslateDNS, UserServers, UserPart
<1>2. CASE ~dns.enable
  <2>1. /\ d.servers = <<BootstrapDNS>> /\ d.rules = <<>> /\ d.terminal = <<>>
        /\ d.final = BootstrapDNS.tag /\ d.resolver = BootstrapDNS.tag
        /\ IsDNS(d) /\ d.enabled = FALSE
    BY <1>1, <1>2 DEF DisabledDNS, IsDNS, DNSFields
  <2>2. IsList(d.servers) /\ BootstrapDNS.tag \in ToTags(d.servers)
    BY <2>1, ShortLists, TagsOfList
  <2>3. IsList(<<>>) /\ ToSet(<<>>) = {}
    BY ShortLists
  <2> QED
    BY <1>2, <2>1, <2>2, <2>3
<1>3. CASE dns.enable
  <2>1. IsList(b) /\ ToTags(AllServers(dns, detour)) \subseteq ToTags(b)
        /\ (dns.fakeip => "fakeip-dns" \in ToTags(b))
    BY UserServersMade
  <2>2. /\ IsList(BootstrapServers(dns)) /\ IsList(ns) /\ IsList(fb)
        /\ ToSet(BootstrapServers(dns)) \subseteq ToSet(AllServers(dns, detour))
        /\ ToSet(ns) \subseteq ToSet(AllServers(dns, detour))
        /\ ToSet(fb) \subseteq ToSet(AllServers(dns, detour))
    BY InputServers
  <2>3. resolver \in ToTags(BootstrapServers(dns)) \cup {""}
    BY <2>2, PreferredUDP
  <2>4. bootstrap \/ resolver \in ToTags(b)
    <3>1. resolver = "" => bootstrap
      BY DEF NeedsBootstrap
    <3>2. ToTags(BootstrapServers(dns)) \subseteq ToTags(AllServers(dns, detour))
      BY <2>2, TagsOfList
    <3> QED
      BY <2>1, <2>3, <3>1, <3>2
  <2>5. ns # <<>> => ns[1].tag \in ToTags(b)
    <3> HIDE DEF ns
    <3> QED
      BY <2>1, <2>2, FirstPlace, TagsOfList
  <2>6. fb # <<>> => fb[1].tag \in ToTags(b)
    <3> HIDE DEF fb
    <3> QED
      BY <2>1, <2>2, FirstPlace, TagsOfList
  <2>7. IsList(rules) /\ \A r \in ToSet(rules) : PlainRule(r, ToTags(b))
    BY UserPartRules
  <2>8. IsList(terminal) /\ \A r \in ToSet(terminal) : PlainRule(r, ToTags(b))
    <3>1. firstNS # "" => firstNS \in ToTags(b)
      BY <2>5
    <3> HIDE DEF firstNS
    <3> QED
      BY <2>1, <3>1, UserRules
  <2> HIDE DEF b, ns, fb, firstNS, resolver, bootstrap, rules, terminal
  <2>9. /\ IsList(Append(b, BootstrapDNS))
        /\ ToTags(Append(b, BootstrapDNS)) = ToTags(b) \cup {BootstrapDNS.tag}
    BY <2>1, AppendedTags
  <2>10. d = full
    BY <1>1, <1>3
  <2>11. /\ d.servers = IF bootstrap THEN Append(b, BootstrapDNS) ELSE b
         /\ d.rules = rules /\ d.terminal = terminal /\ d.enabled = TRUE
         /\ d.final = IF fb # <<>> THEN fb[1].tag ELSE firstNS
         /\ d.resolver = IF bootstrap THEN BootstrapDNS.tag ELSE resolver
         /\ IsDNS(d)
    <3>1. /\ full.servers = IF bootstrap THEN Append(b, BootstrapDNS) ELSE b
          /\ full.rules = rules /\ full.terminal = terminal /\ full.enabled = TRUE
          /\ full.final = IF fb # <<>> THEN fb[1].tag ELSE firstNS
          /\ full.resolver = IF bootstrap THEN BootstrapDNS.tag ELSE resolver
      BY Zenon
    <3>2. IsDNS(full)
      BY DEF IsDNS, DNSFields
    <3> HIDE DEF full
    <3> QED
      BY <2>10, <3>1, <3>2
  <2> HIDE DEF full
  <2>12. IsList(d.servers) /\ ToTags(b) \subseteq ToTags(d.servers)
    BY <2>1, <2>9, <2>11
  <2>13. d.resolver \in ToTags(d.servers)
    BY <2>4, <2>9, <2>11
  <2>14. d.final \in ToTags(d.servers) \cup {""}
    BY <2>5, <2>6, <2>11, <2>12 DEF firstNS
  <2>15. \A r : PlainRule(r, ToTags(b)) => PlainRule(r, ToTags(d.servers))
    BY <2>12 DEF PlainRule
  <2> QED
    BY <1>3, <2>7, <2>8, <2>11, <2>12, <2>13, <2>14, <2>15
<1> QED
  BY <1>2, <1>3

(* Where its servers come from, and what they refer to. *)
LEMMA DNSServers ==
  ASSUME NEW dns, DNSLists(dns), NEW hosts, NEW detour,
         NEW d, d = TranslateDNS(dns, hosts, detour)
  PROVE  /\ \A s \in ToSet(d.servers) : s = BootstrapDNS \/ Made(s, dns, hosts, detour)
         /\ \A s \in ToSet(d.servers) : /\ IsServer(s) /\ s.detour \in {"", detour}
                                        /\ s.resolver \in ToTags(d.servers) \cup {""}
         /\ dns.enable => ToTags(AllServers(dns, detour)) \subseteq ToTags(d.servers)
<1> DEFINE b == UserServers(dns, hosts, detour)
           boot == BootstrapServers(dns)
           bootstrap == NeedsBootstrap(PreferUDPServer(boot), b)
<1>1. d.servers = IF ~dns.enable THEN <<BootstrapDNS>>
                  ELSE IF bootstrap THEN Append(b, BootstrapDNS) ELSE b
  BY DEF TranslateDNS, UserServers, DisabledDNS
<1>2. /\ IsList(b) /\ \A s \in ToSet(b) : Made(s, dns, hosts, detour)
      /\ ToTags(AllServers(dns, detour)) \subseteq ToTags(b)
  BY UserServersMade
<1>3. /\ \A s \in ToSet(AllServers(dns, detour)) : Plain(s, detour)
      /\ ToSet(boot) \subseteq ToSet(AllServers(dns, detour))
  BY InputServers
<1> HIDE DEF b, bootstrap, boot
<1>4. ToTags(boot) \subseteq ToTags(AllServers(dns, detour))
  BY <1>3, TagsOfList
<1>5. /\ ToSet(Append(b, BootstrapDNS)) = ToSet(b) \cup {BootstrapDNS}
      /\ ToTags(Append(b, BootstrapDNS)) = ToTags(b) \cup {BootstrapDNS.tag}
  BY <1>2, AppendedTags
<1>6. ToSet(<<BootstrapDNS>>) = {BootstrapDNS}
  BY ShortLists
<1>7. dns.enable => ToTags(b) \subseteq ToTags(d.servers)
  BY <1>1, <1>5
<1>8. \A s \in ToSet(d.servers) : s = BootstrapDNS \/ (dns.enable /\ s \in ToSet(b))
  <2>1. CASE ~dns.enable
    <3>1. d.servers = <<BootstrapDNS>>
      BY <1>1, <2>1
    <3>2. ToSet(d.servers) = {BootstrapDNS}
      BY <1>6, <3>1
    <3> QED
      BY <3>2
  <2>2. CASE dns.enable
    <3>1. ToSet(d.servers) \subseteq ToSet(b) \cup {BootstrapDNS}
      BY <1>1, <1>5, <2>2
    <3>2. \A s \in ToSet(d.servers) : s = BootstrapDNS \/ s \in ToSet(b)
      BY <3>1
    <3> QED
      BY <2>2, <3>2, Zenon
  <2> QED
    BY <2>1, <2>2
<1>9. IsServer(BootstrapDNS) /\ BootstrapDNS.detour = "" /\ BootstrapDNS.resolver = ""
  BY DEF BootstrapDNS, Server, IsServer, ServerFields
<1>10. ASSUME NEW s, Made(s, dns, hosts, detour)
       PROVE  /\ IsServer(s) /\ s.detour \in {"", detour}
              /\ s.resolver \in ToTags(boot) \cup {""}
  <2>1. CASE \E srv \in ToSet(AllServers(dns, detour)) :
               Same(s, srv) /\ s.resolver \in ToTags(boot) \cup {""}
    BY <1>3, <2>1 DEF Same, Plain
  <2>2. CASE s = Server("fakeip-dns", "fakeip", "", "")
    <3>1. IsServer(s) /\ s.detour = "" /\ s.resolver = ""
      BY <2>2 DEF Server, IsServer, ServerFields
    <3> QED
      BY <3>1
  <2>3. CASE s = Server("hosts", "hosts", "", "")
    <3>1. IsServer(s) /\ s.detour = "" /\ s.resolver = ""
      BY <2>3 DEF Server, IsServer, ServerFields
    <3> QED
      BY <3>1
  <2> QED
    BY <1>10, <2>1, <2>2, <2>3 DEF Made, boot
<1>11. \A s \in ToSet(d.servers) : /\ IsServer(s) /\ s.detour \in {"", detour}
                                   /\ s.resolver \in ToTags(d.servers) \cup {""}
  <2> TAKE s \in ToSet(d.servers)
  <2>1. CASE s = BootstrapDNS
    BY <1>9, <2>1
  <2>2. CASE dns.enable /\ s \in ToSet(b)
    <3>1. Made(s, dns, hosts, detour)
      BY <1>2, <2>2
    <3> QED
      BY <1>2, <1>4, <1>7, <1>10, <2>2, <3>1
  <2> QED
    BY <1>8, <2>1, <2>2
<1> QED
  BY <1>2, <1>7, <1>8, <1>11

(***************************************************************************)
(* The rules of the country around those of the user.                      *)
(***************************************************************************)
GoodRule(r, tags, sets) ==
  /\ IsRule(r) /\ r.server \in tags
  /\ r.ruleSet \subseteq sets /\ (r.ruleSet # {} => r.match)

(* A rule that looks at a response comes after one that obtains it. *)
Justified(rules) ==
  \A i \in DOMAIN rules : rules[i].match =>
    \E j \in DOMAIN rules :
       /\ j < i /\ rules[j].action = "evaluate" /\ rules[j].server = rules[i].server
       /\ rules[i].qtype \cap AddressQueryTypes \subseteq rules[j].qtype

LEMMA JustifiedConcat ==
  ASSUME NEW s, NEW u, IsList(s), IsList(u), Justified(s), Justified(u)
  PROVE  Justified(s \o u)
<1> DEFINE su == s \o u
<1>1. /\ \A i \in DOMAIN s : i \in DOMAIN su /\ su[i] = s[i]
      /\ \A i \in DOMAIN u : i + Len(s) \in DOMAIN su /\ su[i + Len(s)] = u[i]
      /\ \A i \in DOMAIN su : i \in DOMAIN s \/ i - Len(s) \in DOMAIN u
      /\ IsList(su)
  <2>1. IsList(su)
    BY ConcatList
  <2>2. \A i \in DOMAIN s : i \in DOMAIN su /\ su[i] = s[i]
    BY ConcatList, Zenon
  <2>3. \A i \in DOMAIN u : i + Len(s) \in DOMAIN su /\ su[i + Len(s)] = u[i]
    BY ConcatList, SMT
  <2>4. \A i \in DOMAIN su : i \in DOMAIN s \/ i - Len(s) \in DOMAIN u
    BY ConcatList, SMT
  <2> QED
    BY <2>1, <2>2, <2>3, <2>4, Zenon
<1>2. /\ DOMAIN s = 1..Len(s) /\ Len(s) \in Nat
      /\ DOMAIN u = 1..Len(u) /\ Len(u) \in Nat
      /\ DOMAIN su = 1..Len(su) /\ Len(su) \in Nat
  BY <1>1, ListFacts
<1> HIDE DEF su
<1> SUFFICES ASSUME NEW i \in DOMAIN su, su[i].match
             PROVE  \E j \in DOMAIN su :
                       /\ j < i /\ su[j].action = "evaluate" /\ su[j].server = su[i].server
                       /\ su[i].qtype \cap AddressQueryTypes \subseteq su[j].qtype
  BY DEF Justified, su
<1>3. CASE i \in DOMAIN s
  <2>1. PICK j \in DOMAIN s :
          /\ j < i /\ s[j].action = "evaluate" /\ s[j].server = s[i].server
          /\ s[i].qtype \cap AddressQueryTypes \subseteq s[j].qtype
    BY <1>1, <1>3 DEF Justified
  <2> QED
    BY <1>1, <1>3, <2>1
<1>4. CASE i - Len(s) \in DOMAIN u
  <2> DEFINE k == i - Len(s)
  <2>1. i = k + Len(s) /\ i \in Nat /\ k \in Nat
    BY <1>2, <1>4
  <2>2. su[i] = u[k]
    BY <1>1, <1>4, <2>1
  <2>3. PICK j \in DOMAIN u :
          /\ j < k /\ u[j].action = "evaluate" /\ u[j].server = u[k].server
          /\ u[k].qtype \cap AddressQueryTypes \subseteq u[j].qtype
    BY <1>4, <2>2 DEF Justified
  <2>4. j + Len(s) \in DOMAIN su /\ su[j + Len(s)] = u[j] /\ j + Len(s) < i
    BY <1>1, <1>2, <2>1, <2>3
  <2> QED
    BY <2>2, <2>3, <2>4
<1> QED
  BY <1>1, <1>3, <1>4

LEMMA NothingToJustify ==
  ASSUME NEW s, \A r \in ToSet(s) : r.match = FALSE
  PROVE  Justified(s)
BY DEF Justified, ToSet

LEMMA JustifiedPair ==
  ASSUME NEW e, NEW m, e.match = FALSE, e.action = "evaluate", e.server = m.server,
         e.qtype = AddressQueryTypes
  PROVE  Justified(<<e, m>>)
<1> DEFINE pair == <<e, m>>
<1>1. DOMAIN pair = 1..2 /\ pair[1] = e /\ pair[2] = m
  OBVIOUS
<1> HIDE DEF pair
<1>2. ASSUME NEW i \in DOMAIN pair, pair[i].match
      PROVE  \E j \in DOMAIN pair :
                /\ j < i /\ pair[j].action = "evaluate" /\ pair[j].server = pair[i].server
                /\ pair[i].qtype \cap AddressQueryTypes \subseteq pair[j].qtype
  <2>1. i = 1 \/ i = 2
    BY <1>1
  <2>2. i # 1
    BY <1>1, <1>2
  <2>3. i = 2 /\ 1 \in DOMAIN pair /\ 1 < i
    BY <1>1, <2>1, <2>2
  <2> QED
    BY <1>1, <2>3
<1>3. Justified(pair)
  BY <1>2 DEF Justified
<1> QED
  BY <1>3 DEF pair

LEMMA FirstTag ==
  ASSUME NEW servers, IsList(servers), NEW types
  PROVE  /\ FirstOfTypes(servers, types) \in ToTags(servers) \cup {""}
         /\ servers # <<>> => FirstOfTypes(servers, types) \in ToTags(servers)
<1> DEFINE good == Keep(servers, {s \in ToSet(servers) : s.type \in types})
<1>1. IsList(good) /\ ToSet(good) \subseteq ToSet(servers)
  BY KeepList
<1>2. FirstOfTypes(servers, types) =
        IF good # <<>> THEN good[1].tag ELSE IF servers # <<>> THEN servers[1].tag ELSE ""
  BY DEF FirstOfTypes
<1> HIDE DEF good
<1>3. good # <<>> => good[1].tag \in ToTags(servers)
  BY <1>1, FirstPlace, TagsOfList
<1>4. servers # <<>> => servers[1].tag \in ToTags(servers)
  BY FirstPlace, TagsOfList
<1> QED
  BY <1>2, <1>3, <1>4

LEMMA ChosenServers ==
  ASSUME NEW servers, IsList(servers)
  PROVE  /\ IsList(DirectServers(servers))
         /\ ToSet(DirectServers(servers)) =
              {s \in ToSet(servers) : s.type \notin {"fakeip", "hosts"} /\ s.detour = ""}
         /\ FindFirstDirectDNSTag(servers) # "" => DirectServers(servers) # <<>>
         /\ DirectServers(servers) # <<>> =>
              /\ FindFirstDirectDNSTag(servers) \in ToTags(DirectServers(servers))
              /\ FindFirstECHCapableDNSTag(servers) \in ToTags(DirectServers(servers))
         /\ ToTags(DirectServers(servers)) \subseteq ToTags(servers)
         /\ FindFakeIPTag(servers) \in {s.tag : s \in {x \in ToSet(servers) : x.type = "fakeip"}} \cup {""}
<1> DEFINE good == {s \in ToSet(servers) : s.type \notin {"fakeip", "hosts"} /\ s.detour = ""}
           direct == DirectServers(servers)
           fake == Keep(servers, {s \in ToSet(servers) : s.type = "fakeip"})
<1>1. IsList(direct) /\ ToSet(direct) = good
  <2>1. direct = Keep(servers, good)
    BY DEF DirectServers
  <2>2. IsList(Keep(servers, good)) /\ ToSet(Keep(servers, good)) = ToSet(servers) \cap good
    BY KeepList
  <2> QED
    BY <2>1, <2>2
<1>2. IsList(fake) /\ ToSet(fake) = {s \in ToSet(servers) : s.type = "fakeip"}
  BY KeepList
<1>3. FindFakeIPTag(servers) = IF fake # <<>> THEN fake[1].tag ELSE ""
  BY DEF FindFakeIPTag
<1> HIDE DEF direct, fake
<1>4. FindFakeIPTag(servers) \in {s.tag : s \in {x \in ToSet(servers) : x.type = "fakeip"}} \cup {""}
  BY <1>2, <1>3, FirstPlace
<1>5. /\ FindFirstDirectDNSTag(servers) \in ToTags(direct) \cup {""}
      /\ direct # <<>> => FindFirstDirectDNSTag(servers) \in ToTags(direct)
  BY <1>1, FirstTag DEF FindFirstDirectDNSTag, direct
<1>6. direct # <<>> => FindFirstECHCapableDNSTag(servers) \in ToTags(direct)
  BY <1>1, FirstTag DEF FindFirstECHCapableDNSTag, direct
<1>7. direct = <<>> => ToTags(direct) = {}
  BY DEF ToTags
<1>8. ToTags(direct) \subseteq ToTags(servers)
  BY <1>1, TagsOfList
<1> QED
  BY <1>1, <1>4, <1>5, <1>6, <1>7, <1>8 DEF direct

LEMMA AutoPart ==
  ASSUME NEW servers, IsList(servers), NEW cc, NEW ech, FindFirstDirectDNSTag(servers) # "",
         NEW rules, rules = AutoRules(servers, cc, ech)
  PROVE  /\ IsList(rules) /\ Justified(rules)
         /\ \A r \in ToSet(rules) : GoodRule(r, ToTags(servers), DomesticRuleSets(cc))
<1> DEFINE tags == ToTags(servers)
           sets == DomesticRuleSets(cc)
           direct == FindFirstDirectDNSTag(servers)
           capable == FindFirstECHCapableDNSTag(servers)
           fake == FindFakeIPTag(servers)
           Q == [NoRule EXCEPT !.domain = ech, !.server = capable]
           E == Evaluate(direct)
           M == [NoRule EXCEPT !.match = TRUE, !.ruleSet = sets,
                               !.server = direct, !.qtype = AddressQueryTypes]
           F == [NoRule EXCEPT !.qtype = {"A", "AAAA"}, !.server = fake]
           first == IF ech = {} THEN <<>> ELSE <<Q>>
           pair == <<E, M>>
           last == IF fake = "" THEN <<>> ELSE <<F>>
           front == first \o pair
<1>1. rules = front \o last
  BY DEF AutoRules
<1>2. direct \in tags /\ capable \in tags /\ fake \in tags \cup {""}
  <2>1. ToTags(DirectServers(servers)) \subseteq tags
    BY ChosenServers
  <2>2. direct \in tags /\ capable \in tags
    BY <2>1, ChosenServers
  <2>3. fake \in {s.tag : s \in {x \in ToSet(servers) : x.type = "fakeip"}} \cup {""}
    BY ChosenServers
  <2> QED
    BY <2>2, <2>3, TagsOfList
<1> HIDE DEF tags, sets, direct, capable, fake
<1>3. GoodRule(Q, tags, sets) /\ Q.match = FALSE
  <2>1. IsRule(Q) /\ Q.server = capable /\ Q.ruleSet = {} /\ Q.match = FALSE
    BY NoRuleFacts DEF IsRule, RuleFields
  <2> HIDE DEF Q
  <2> QED
    BY <1>2, <2>1 DEF GoodRule
<1>4. /\ GoodRule(E, tags, sets) /\ E.match = FALSE
      /\ E.action = "evaluate" /\ E.server = direct /\ E.qtype = AddressQueryTypes
  <2>1. /\ IsRule(E) /\ E.server = direct /\ E.ruleSet = {} /\ E.match = FALSE
        /\ E.action = "evaluate" /\ E.qtype = AddressQueryTypes
    BY NoRuleFacts DEF Evaluate, IsRule, RuleFields
  <2> HIDE DEF E
  <2> QED
    BY <1>2, <2>1 DEF GoodRule
<1>5. GoodRule(M, tags, sets) /\ M.server = direct
  <2>1. /\ IsRule(M) /\ M.server = direct /\ M.ruleSet = sets /\ M.match = TRUE
    BY NoRuleFacts DEF IsRule, RuleFields
  <2> HIDE DEF M
  <2> QED
    BY <1>2, <2>1 DEF GoodRule
<1>6. fake # "" => GoodRule(F, tags, sets) /\ F.match = FALSE
  <2>1. IsRule(F) /\ F.server = fake /\ F.ruleSet = {} /\ F.match = FALSE
    BY NoRuleFacts DEF IsRule, RuleFields
  <2> HIDE DEF F
  <2> QED
    BY <1>2, <2>1 DEF GoodRule
<1> HIDE DEF Q, E, M, F
<1>7. /\ IsList(first) /\ ToSet(first) \subseteq {Q}
      /\ IsList(last) /\ ToSet(last) \subseteq {F} /\ (fake = "" => ToSet(last) = {})
      /\ IsList(pair) /\ ToSet(pair) = {E, M}
  BY ShortLists
<1>8. Justified(first)
  BY <1>3, <1>7, NothingToJustify
<1>9. Justified(last)
  BY <1>6, <1>7, NothingToJustify
<1>10. Justified(pair)
  BY <1>4, <1>5, JustifiedPair
<1> HIDE DEF first, pair, last
<1>11. /\ IsList(front) /\ Justified(front)
       /\ ToSet(front) = ToSet(first) \cup ToSet(pair)
  BY <1>7, <1>8, <1>10, ConcatList, JustifiedConcat
<1> HIDE DEF front
<1>12. /\ IsList(rules) /\ Justified(rules)
       /\ ToSet(rules) = ToSet(front) \cup ToSet(last)
  <2>1. /\ IsList(front \o last)
        /\ ToSet(front \o last) = ToSet(front) \cup ToSet(last)
    BY <1>7, <1>11, ConcatList
  <2>2. Justified(front \o last)
    BY <1>7, <1>9, <1>11, JustifiedConcat
  <2> QED
    BY <1>1, <2>1, <2>2
<1>13. \A r \in ToSet(rules) : GoodRule(r, tags, sets)
  BY <1>3, <1>4, <1>5, <1>6, <1>7, <1>11, <1>12
<1> QED
  BY <1>12, <1>13 DEF tags, sets

(* The action that is added to a rule changes nothing else. *)
WithActions(done, rules) ==
  /\ IsList(done) /\ DOMAIN done = DOMAIN rules
  /\ \A i \in DOMAIN rules :
        /\ IsRule(done[i])
        /\ \A f \in RuleFields \ {"action"} : done[i][f] = rules[i][f]
        /\ done[i].action = IF rules[i].action = "" /\ rules[i].server # ""
                              THEN "route" ELSE rules[i].action

LEMMA ActionAdded ==
  ASSUME NEW rules, IsList(rules), \A r \in ToSet(rules) : IsRule(r)
  PROVE  WithActions(AddDNSRouteAction(rules), rules)
<1> DEFINE done == AddDNSRouteAction(rules)
<1>1. done = [i \in DOMAIN rules |->
               IF rules[i].action = "" /\ rules[i].server # ""
                 THEN [rules[i] EXCEPT !.action = "route"] ELSE rules[i]]
  BY DEF AddDNSRouteAction
<1> HIDE DEF done
<1>2. done = [i \in DOMAIN rules |-> done[i]]
  BY <1>1
<1>3. IsList(done) /\ DOMAIN done = DOMAIN rules
  BY <1>2, MappedList
<1>4. ASSUME NEW i \in DOMAIN rules
      PROVE  /\ IsRule(done[i])
             /\ \A f \in RuleFields \ {"action"} : done[i][f] = rules[i][f]
             /\ done[i].action = IF rules[i].action = "" /\ rules[i].server # ""
                                   THEN "route" ELSE rules[i].action
  <2> DEFINE r == rules[i]
             x == done[i]
  <2>1. IsRule(r)
    BY DEF ToSet
  <2>2. x = IF r.action = "" /\ r.server # "" THEN [r EXCEPT !.action = "route"] ELSE r
    BY <1>1
  <2> HIDE DEF r, x
  <2>3. /\ IsRule(x)
        /\ \A f \in RuleFields \ {"action"} : x[f] = r[f]
        /\ x.action = IF r.action = "" /\ r.server # "" THEN "route" ELSE r.action
    BY <2>1, <2>2 DEF IsRule, RuleFields
  <2> QED
    BY <2>3 DEF r, x
<1>5. WithActions(done, rules)
  BY <1>3, <1>4, Zenon DEF WithActions
<1> QED
  BY <1>5 DEF done

(* The rules before they are given an action. *)
LEMMA GeneratedRules ==
  ASSUME NEW dns, DNSLists(dns), NEW hosts, NEW detour, NEW cc, NEW ech,
         NEW d, d = TranslateDNS(dns, hosts, detour),
         NEW w, w = GenerateDNSRules(d, cc, ech)
  PROVE  /\ IsDNS(w)
         /\ w.servers = d.servers /\ w.final = d.final /\ w.resolver = d.resolver
         /\ w.enabled = d.enabled /\ w.terminal = d.terminal
         /\ IsList(w.rules) /\ Justified(w.rules)
         /\ \A r \in ToSet(w.rules) : GoodRule(r, ToTags(d.servers), DNSRuleSets(d, cc))
<1> DEFINE tags == ToTags(d.servers)
           sets == DNSRuleSets(d, cc)
           direct == FindFirstDirectDNSTag(d.servers)
           M == [NoRule EXCEPT !.mode = "Direct", !.server = direct]
           mode == <<M>>
           auto == AutoRules(d.servers, cc, ech)
           short == d.rules \o d.terminal
           front == mode \o d.rules
           middle == front \o auto
           long == middle \o d.terminal
           rules == IF ~d.enabled THEN d.rules ELSE IF direct = "" THEN short ELSE long
<1>1. /\ IsDNS(d)
      /\ IsList(d.servers) /\ IsList(d.rules) /\ IsList(d.terminal)
      /\ \A r \in ToSet(d.rules) : PlainRule(r, tags)
      /\ \A r \in ToSet(d.terminal) : PlainRule(r, tags)
  <2>1. IsDNS(d)
    BY DNSFacts
  <2>2. IsList(d.servers) /\ IsList(d.rules) /\ IsList(d.terminal)
    BY DNSFacts
  <2>3. \A r \in ToSet(d.rules) : PlainRule(r, tags)
    BY DNSFacts
  <2>4. \A r \in ToSet(d.terminal) : PlainRule(r, tags)
    BY DNSFacts
  <2> QED
    BY <2>1, <2>2, <2>3, <2>4
<1>2. w = IF ~d.enabled THEN d
          ELSE IF direct = "" THEN [d EXCEPT !.rules = short]
          ELSE [d EXCEPT !.rules = long]
  BY DEF GenerateDNSRules, OrderRules
<1>3. sets = IF d.enabled /\ direct # "" THEN DomesticRuleSets(cc) ELSE {}
  BY DEF DNSRuleSets
<1>4. \A r : PlainRule(r, tags) => GoodRule(r, tags, sets) /\ r.match = FALSE
  BY DEF PlainRule, GoodRule
<1>5. /\ Justified(d.rules) /\ Justified(d.terminal)
      /\ \A r \in ToSet(d.rules) \cup ToSet(d.terminal) : GoodRule(r, tags, sets)
  BY <1>1, <1>4, NothingToJustify
<1>6. /\ IsList(short) /\ Justified(short)
      /\ \A r \in ToSet(short) : GoodRule(r, tags, sets)
  <2>1. IsList(short) /\ ToSet(short) = ToSet(d.rules) \cup ToSet(d.terminal)
    BY <1>1, ConcatList
  <2>2. Justified(short)
    BY <1>1, <1>5, JustifiedConcat
  <2> QED
    BY <1>5, <2>1, <2>2
<1>7. ASSUME d.enabled, direct # ""
      PROVE  IsList(long) /\ Justified(long) /\ \A r \in ToSet(long) : GoodRule(r, tags, sets)
  <2>1. /\ IsList(auto) /\ Justified(auto)
        /\ \A r \in ToSet(auto) : GoodRule(r, tags, sets)
    BY <1>1, <1>3, <1>7, AutoPart
  <2>2. direct \in tags
    BY <1>1, <1>7, ChosenServers
  <2>3. GoodRule(M, tags, sets) /\ M.match = FALSE
    <3> HIDE DEF direct, tags, sets
    <3>1. IsRule(M) /\ M.server = direct /\ M.ruleSet = {} /\ M.match = FALSE
      BY NoRuleFacts DEF IsRule, RuleFields
    <3> HIDE DEF M
    <3> QED
      BY <2>2, <3>1 DEF GoodRule
  <2> HIDE DEF M, auto, tags, sets, direct
  <2>4. IsList(mode) /\ ToSet(mode) = {M}
    BY ShortLists, ZenonT(40)
  <2>10. Justified(mode)
    BY <2>3, <2>4, NothingToJustify
  <2> HIDE DEF mode
  <2>5. /\ IsList(front) /\ Justified(front)
        /\ ToSet(front) = ToSet(mode) \cup ToSet(d.rules)
    BY <1>1, <1>5, <2>4, <2>10, ConcatList, JustifiedConcat
  <2> HIDE DEF front
  <2>6. /\ IsList(middle) /\ Justified(middle)
        /\ ToSet(middle) = ToSet(front) \cup ToSet(auto)
    BY <2>1, <2>5, ConcatList, JustifiedConcat
  <2> HIDE DEF middle
  <2>7. IsList(long) /\ ToSet(long) = ToSet(middle) \cup ToSet(d.terminal)
    BY <1>1, <2>6, ConcatList
  <2>8. Justified(long)
    BY <1>1, <1>5, <2>6, JustifiedConcat
  <2> QED
    BY <1>5, <2>1, <2>3, <2>4, <2>5, <2>6, <2>7, <2>8
<1> HIDE DEF short, long, direct, tags, sets
<1>8. /\ IsList(rules) /\ Justified(rules)
      /\ \A r \in ToSet(rules) : GoodRule(r, tags, sets)
  BY <1>1, <1>5, <1>6, <1>7
<1>9. /\ IsDNS(w) /\ w.rules = rules
      /\ w.servers = d.servers /\ w.final = d.final /\ w.resolver = d.resolver
      /\ w.enabled = d.enabled /\ w.terminal = d.terminal
  <2>1. CASE ~d.enabled
    <3>1. w = d /\ rules = d.rules
      BY <1>2, <2>1
    <3> QED
      BY <1>1, <3>1
  <2>2. CASE d.enabled /\ direct = ""
    <3>1. w = [d EXCEPT !.rules = short] /\ rules = short
      BY <1>2, <2>2
    <3> QED
      BY <1>1, <3>1 DEF IsDNS, DNSFields
  <2>3. CASE d.enabled /\ direct # ""
    <3>1. w = [d EXCEPT !.rules = long] /\ rules = long
      BY <1>2, <2>3
    <3> QED
      BY <1>1, <3>1 DEF IsDNS, DNSFields
  <2> QED
    BY <2>1, <2>2, <2>3
<1> HIDE DEF rules
<1> QED
  BY <1>8, <1>9 DEF tags, sets

(* The whole section. *)
LEMMA FullDNSFacts ==
  ASSUME NEW i, DNSLists(i.dns), NEW first, NEW ech,
         NEW d, d = DNSOf(i, first), NEW f, f = FullDNS(i, first, ech)
  PROVE  /\ IsDNS(f)
         /\ f.servers = d.servers /\ f.final = d.final /\ f.resolver = d.resolver
         /\ f.enabled = d.enabled
         /\ IsList(f.rules) /\ Justified(f.rules)
         /\ \A r \in ToSet(f.rules) : GoodRule(r, ToTags(d.servers), DNSRuleSets(d, i.cc))
<1> DEFINE w == WithRules(i, first, ech)
           tags == ToTags(d.servers)
           sets == DNSRuleSets(d, i.cc)
           done == AddDNSRouteAction(w.rules)
<1>1. /\ IsDNS(w)
      /\ w.servers = d.servers /\ w.final = d.final /\ w.resolver = d.resolver
      /\ w.enabled = d.enabled
      /\ IsList(w.rules) /\ Justified(w.rules)
      /\ \A r \in ToSet(w.rules) : GoodRule(r, tags, sets)
  BY GeneratedRules DEF WithRules, DNSOf
<1>2. f = [w EXCEPT !.rules = done]
  BY DEF FullDNS
<1> HIDE DEF w, tags, sets
<1>3. \A r \in ToSet(w.rules) : IsRule(r)
  BY <1>1 DEF GoodRule
<1>4. /\ IsList(done) /\ DOMAIN done = DOMAIN w.rules
      /\ \A n \in DOMAIN w.rules :
            /\ IsRule(done[n])
            /\ \A x \in RuleFields \ {"action"} : done[n][x] = w.rules[n][x]
            /\ done[n].action = IF w.rules[n].action = "" /\ w.rules[n].server # ""
                                  THEN "route" ELSE w.rules[n].action
  <2>1. WithActions(AddDNSRouteAction(w.rules), w.rules)
    BY <1>1, <1>3, ActionAdded, Zenon
  <2> QED
    BY <2>1, Zenon DEF WithActions
<1> HIDE DEF done
<1>5. \A n \in DOMAIN w.rules :
        /\ done[n].ruleSet = w.rules[n].ruleSet /\ done[n].match = w.rules[n].match
        /\ done[n].server = w.rules[n].server /\ done[n].qtype = w.rules[n].qtype
        /\ w.rules[n].action = "evaluate" => done[n].action = "evaluate"
  BY <1>4 DEF RuleFields
<1>6. Justified(done)
  <2>1. ASSUME NEW n \in DOMAIN done, done[n].match
        PROVE  \E j \in DOMAIN done :
                  /\ j < n /\ done[j].action = "evaluate" /\ done[j].server = done[n].server
                  /\ done[n].qtype \cap AddressQueryTypes \subseteq done[j].qtype
    <3>1. n \in DOMAIN w.rules /\ w.rules[n].match
      BY <1>4, <1>5, <2>1
    <3>2. PICK j \in DOMAIN w.rules :
            /\ j < n /\ w.rules[j].action = "evaluate" /\ w.rules[j].server = w.rules[n].server
            /\ w.rules[n].qtype \cap AddressQueryTypes \subseteq w.rules[j].qtype
      BY <1>1, <3>1 DEF Justified
    <3>3. /\ done[j].action = "evaluate" /\ done[j].server = done[n].server
          /\ done[n].qtype = w.rules[n].qtype /\ done[j].qtype = w.rules[j].qtype
      BY <1>5, <3>1, <3>2
    <3> QED
      BY <1>4, <3>2, <3>3
  <2> QED
    BY <2>1 DEF Justified
<1>7. \A r \in ToSet(done) : GoodRule(r, tags, sets)
  <2>1. \A n \in DOMAIN w.rules : GoodRule(w.rules[n], tags, sets)
    BY <1>1 DEF ToSet
  <2>2. \A n \in DOMAIN w.rules : GoodRule(done[n], tags, sets)
    BY <1>4, <1>5, <2>1 DEF GoodRule
  <2> QED
    BY <1>4, <2>2 DEF ToSet
<1>8. /\ IsDNS(f) /\ f.rules = done
      /\ f.servers = w.servers /\ f.final = w.final /\ f.resolver = w.resolver
      /\ f.enabled = w.enabled
  BY <1>1, <1>2 DEF IsDNS, DNSFields
<1> QED
  BY <1>1, <1>4, <1>6, <1>7, <1>8 DEF tags, sets

(***************************************************************************)
(* The outbounds: what is left of a group is enough for the kernel.        *)
(***************************************************************************)
Linked(o) ==
  /\ o.type \in {"selector", "urltest"}
  /\ ToSet(o.members) # {} /\ NoName \notin ToSet(o.members)
  /\ o.type = "selector" => o.default \in ToSet(o.members)
  /\ o.type = "urltest" => o.idle > o.interval

(* A url test stays idle longer than its interval. *)
LEMMA IntervalFacts ==
  ASSUME NEW g, g.interval \in Int
  PROVE  IdleTimeout(GroupInterval(g)) > GroupInterval(g)
<1> DEFINE n == GroupInterval(g)
<1>1. n \in Int /\ n <= 1800
  BY DEF GroupInterval, MaxGroupInterval
<1>2. n > 0
  BY DEF GroupInterval, MaxGroupInterval
<1> HIDE DEF n
<1>3. IdleTimeout(n) > n
  BY <1>1, <1>2 DEF IdleTimeout
<1> QED
  BY <1>3 DEF n

(* The parts of a group that are translated from its type. *)
LEMMA TypedGroup ==
  ASSUME NEW g, NEW members, NEW o, o = TranslateGroup(g, members)
  PROVE  /\ o.tag = g.name /\ o.members = members
         /\ o.type \in {"selector", "urltest"}
         /\ o.type = "selector" => o.default = members[1]
         /\ o.type = "urltest" => /\ o.interval = GroupInterval(g)
                                 /\ o.idle = IdleTimeout(GroupInterval(g))
<1>1. CASE g.type \in SelectorTypes
  BY <1>1, Zenon DEF TranslateGroup
<1>2. CASE g.type \notin SelectorTypes
  BY <1>2, Zenon DEF TranslateGroup
<1> QED
  BY <1>1, <1>2

LEMMA MadeLinked ==
  ASSUME NEW g, g.interval \in Int, NEW members, IsList(members), members # <<>>,
         NoName \notin ToSet(members)
  PROVE  Linked(TranslateGroup(g, members))
<1> DEFINE o == TranslateGroup(g, members)
           n == GroupInterval(g)
<1>1. /\ o.members = members
      /\ o.type \in {"selector", "urltest"}
      /\ o.type = "selector" => o.default = members[1]
      /\ o.type = "urltest" => o.interval = n /\ o.idle = IdleTimeout(n)
  BY TypedGroup
<1>2. IdleTimeout(n) > n
  BY IntervalFacts
<1>3. members[1] \in ToSet(members)
  BY FirstPlace
<1> HIDE DEF o, n
<1>4. Linked(o)
  BY <1>1, <1>2, <1>3 DEF Linked
<1> QED
  BY <1>4 DEF o

LEMMA FixedLinked ==
  ASSUME NEW o \in Outbound, Linked(o), NEW valid,
         NEW clean, IsList(clean), clean # <<>>, ToSet(clean) = ToSet(o.members) \cap valid
  PROVE  Linked(FixDefault(o, clean, valid))
<1> DEFINE f == FixDefault(o, clean, valid)
<1>1. /\ f.type = o.type /\ f.members = clean
      /\ f.default = IF o.default # NoName /\ o.default \notin valid THEN clean[1] ELSE o.default
      /\ f.idle = o.idle /\ f.interval = o.interval
  BY DEF FixDefault, Outbound, NoName
<1>2. clean[1] \in ToSet(clean)
  BY FirstPlace
<1> HIDE DEF f
<1>3. Linked(f)
  BY <1>1, <1>2 DEF Linked
<1> QED
  BY <1>3 DEF f

(* The names a group may refer to are not empty. *)
LEMMA NamedOnly ==
  ASSUME NEW proxies, NEW groups
  PROVE  NoName \notin NamesOf(Named(proxies)) \cup GroupNames(groups) \cup {"DIRECT"}
BY DEF NamesOf, Named, GroupNames, NoName

LEMMA DefaultLinked ==
  ASSUME NEW tags, NEW sorted \in Seq(tags), tags \subseteq Text, NoName \notin tags,
         NEW invalid, NEW groups, groups = GenerateDefaultGroups(sorted, invalid)
  PROVE  /\ \A o \in ToSet(groups) : /\ Linked(o)
                                     /\ ToSet(o.members) \subseteq tags \cup ToTags(groups)
         /\ sorted # <<>> => "PROXY" \in ToTags(groups)
<1> DEFINE healthy == FilterHealthCheckProxies(sorted, invalid)
           two == Len(healthy) >= 2
           auto == [name |-> "Auto", type |-> "url-test", proxies |-> healthy, interval |-> 0]
           all == IF two THEN <<"Auto">> \o sorted ELSE sorted
           proxy == [name |-> "PROXY", type |-> "select", proxies |-> all, interval |-> 0]
           A == TranslateGroup(auto, healthy)
           P == TranslateGroup(proxy, all)
           left == IF two THEN <<A>> ELSE <<>>
<1>1. groups = IF sorted = <<>> THEN <<>> ELSE left \o <<P>>
  BY DEF GenerateDefaultGroups
<1>2. IsList(sorted) /\ ToSet(sorted) \subseteq tags
  BY ListFacts
<1>3. IsList(healthy) /\ ToSet(healthy) \subseteq ToSet(sorted)
  BY <1>2, KeepList DEF FilterHealthCheckProxies
<1>4. /\ auto.interval = 0 /\ proxy.interval = 0 /\ 0 \in Int
      /\ A.tag = "Auto" /\ P.tag = "PROXY"
      /\ A.members = healthy /\ P.members = all
  <2>1. auto.interval = 0 /\ auto.name = "Auto" /\ proxy.interval = 0 /\ proxy.name = "PROXY"
    OBVIOUS
  <2> HIDE DEF auto, proxy, healthy, all
  <2> QED
    BY <2>1, TypedGroup
<1>5. two => healthy # <<>>
  <2>1. Len(<<>>) = 0
    OBVIOUS
  <2> HIDE DEF healthy
  <2> QED
    BY <2>1
<1> HIDE DEF healthy
<1>6. IsList(<<"Auto">>) /\ ToSet(<<"Auto">>) = {"Auto"}
  BY ShortLists, Zenon
<1>7. /\ IsList(<<"Auto">> \o sorted)
      /\ ToSet(<<"Auto">> \o sorted) = {"Auto"} \cup ToSet(sorted)
  <2> DEFINE one == <<"Auto">>
  <2>1. IsList(one) /\ ToSet(one) = {"Auto"}
    BY <1>6
  <2> HIDE DEF one
  <2>2. IsList(one \o sorted) /\ ToSet(one \o sorted) = ToSet(one) \cup ToSet(sorted)
    BY <1>2, <2>1, ConcatList
  <2> QED
    BY <2>1, <2>2 DEF one
<1>8. /\ IsList(all) /\ ToSet(all) = ToSet(sorted) \cup (IF two THEN {"Auto"} ELSE {})
      /\ sorted # <<>> => all # <<>>
  <2>1. IsList(all) /\ ToSet(all) = ToSet(sorted) \cup (IF two THEN {"Auto"} ELSE {})
    BY <1>2, <1>7
  <2>2. sorted # <<>> => ToSet(sorted) # {}
    BY <1>2, ListFacts
  <2> HIDE DEF all
  <2> QED
    BY <2>1, <2>2, ListFacts
<1>9. two => Linked(A)
  <2> HIDE DEF auto, two
  <2> QED
    BY <1>2, <1>3, <1>4, <1>5, MadeLinked
<1>10. sorted # <<>> => Linked(P)
  <2>1. NoName \notin ToSet(all)
    BY <1>2, <1>8, Zenon DEF NoName
  <2> HIDE DEF proxy, all
  <2> QED
    BY <1>4, <1>8, <2>1, MadeLinked
<1> HIDE DEF auto, proxy, A, P, two, all
<1>11. /\ IsList(left) /\ ToSet(left) = IF two THEN {A} ELSE {}
       /\ IsList(<<P>>) /\ ToSet(<<P>>) = {P}
  BY ShortLists
<1> HIDE DEF left
<1>12. ToSet(left \o <<P>>) = ToSet(left) \cup ToSet(<<P>>)
  BY <1>11, ConcatList
<1>13. CASE sorted = <<>>
  BY <1>1, <1>13, ShortLists
<1>14. CASE sorted # <<>>
  <2>1. ToSet(groups) = {P} \cup (IF two THEN {A} ELSE {})
    BY <1>1, <1>11, <1>12, <1>14
  <2>2. "PROXY" \in ToTags(groups) /\ (two => "Auto" \in ToTags(groups))
    BY <1>4, <2>1, TagsOfList
  <2>3. /\ Linked(P) /\ ToSet(P.members) \subseteq tags \cup ToTags(groups)
        /\ two => Linked(A) /\ ToSet(A.members) \subseteq tags \cup ToTags(groups)
    BY <1>2, <1>3, <1>4, <1>8, <1>9, <1>10, <1>14, <2>2
  <2> QED
    BY <2>1, <2>2, <2>3
<1> QED
  BY <1>13, <1>14

(***************************************************************************)
(* The invariant of the outbounds.                                         *)
(***************************************************************************)
Later == {"rules", "dns", "dnsrules", "assemble", "validate"}

(* What the steps after the groups rely on. *)
GroupsLinked ==
  /\ \A o \in ToSet(t.groups) :
        /\ Linked(o)
        /\ ToSet(o.members) \subseteq t.proxyTags \cup ToTags(t.groups) \cup {"DIRECT"}
  /\ FirstGroupTag \in ToTags(t.groups) \cup {NoName}

LinkInv ==
  /\ pc \in {"cleanup", "default"} => \A o \in ToSet(t.groups) : Linked(o)
  /\ pc = "default" =>
       /\ IsList(t.order)
       /\ \A o \in ToSet(t.groups) : ToSet(o.members) \subseteq Valid(input, t.translated)
  /\ pc \in Later \/ Ended => GroupsLinked

LEMMA FirstGroup == FirstGroupTag = IF t.order = <<>> THEN NoName ELSE t.order[1]
  BY Zenon DEF FirstGroupTag, NoName

LEMMA LinkGroups == StubInv /\ Groups => LinkInv'
<1> SUFFICES ASSUME StubInv, Groups PROVE LinkInv'
  OBVIOUS
<1> DEFINE groups == TranslateGroups(input.groups, t.proxyTags, t.invalid)
           Members(g) == GroupMembers(g, t.proxyTags, GroupNames(input.groups), t.invalid)
           Tags == t.proxyTags \cup GroupNames(input.groups) \cup {"DIRECT"}
<1>1. /\ pc = "groups" /\ pc' = "cleanup" /\ UNCHANGED input
      /\ t' = [t EXCEPT !.groups = groups, !.translated = ToTags(groups)]
  BY DEF Groups, Goto
<1> HIDE DEF groups
<1>2. t'.groups = groups
  BY <1>1 DEF StubInv, InputInv, Fields
<1>3. /\ input.groups \in Seq(GroupInput) /\ ToSet(input.groups) \subseteq GroupInput
      /\ t.proxyTags = NamesOf(Named(input.proxies))
  <2>1. input.groups \in Seq(GroupInput)
    BY <1>1 DEF StubInv, InputInv, ClashNodes, Working
  <2>2. ToSet(input.groups) \subseteq GroupInput
    BY <2>1 DEF ToSet
  <2> QED
    BY <1>1, <2>1, <2>2 DEF StubInv, ProxiesInv, Working
<1>4. \A o \in ToSet(groups) : \E g \in ToSet(input.groups) :
        Members(g) # <<>> /\ o = TranslateGroup(g, Members(g))
  <2>1. input.groups \in Seq(GroupInput)
    BY <1>3
  <2>2. ToSet(groups) = {TranslateGroup(g, Members(g)) : g \in
           {h \in ToSet(input.groups) : h.name # "" /\ Members(h) # <<>>}}
    BY <2>1, GroupTables DEF groups
  <2> QED
    BY <2>2, Zenon
<1>5. NoName \notin Tags
  BY <1>3, NamedOnly
<1>6. \A g \in GroupInput : /\ IsList(Members(g)) /\ ToSet(Members(g)) \subseteq Tags
                            /\ g.interval \in Int
  <2> TAKE g \in GroupInput
  <2>1. Members(g) \in Seq(Text) /\ ToSet(Members(g)) \subseteq Tags
    BY MembersOfGroup
  <2>2. g.interval \in Int
    BY DEF GroupInput
  <2> HIDE DEF Members, Tags
  <2> QED
    BY <2>1, <2>2, ListFacts
<1> HIDE DEF Members, Tags
<1>7. \A o \in ToSet(groups) : Linked(o)
  BY <1>3, <1>4, <1>5, <1>6, MadeLinked
<1> QED
  BY <1>1, <1>2, <1>7 DEF LinkInv, Later, Ended

LEMMA LinkCleanup == StubInv /\ LinkInv /\ CleanupGroups => LinkInv'
<1> SUFFICES ASSUME StubInv, LinkInv, CleanupGroups PROVE LinkInv'
  OBVIOUS
<1> DEFINE valid == ValidTags(t.proxyTags, t.translated)
           dropped == DroppedGroups(t.groups, valid)
           left == t.translated \ dropped
           groups == CleanupGroupOutboundsOnce(t.groups, valid)
           Clean(o) == CleanMembers(o, valid)
           Fix(o) == FixDefault(o, Clean(o), valid)
           names == [i \in DOMAIN input.groups |-> input.groups[i].name]
<1>1. pc = "cleanup" /\ input.groups \in Seq(GroupInput)
  BY DEF CleanupGroups, StubInv, InputInv, ClashNodes, Working
<1>2. valid = Valid(input, t.translated)
  BY <1>1 DEF StubInv, ProxiesInv, Working, Valid
<1>3. /\ pc' \in {"cleanup", "default"}
      /\ pc' = "default" => dropped = {}
      /\ UNCHANGED input
      /\ t' = [t EXCEPT !.groups = groups, !.translated = left,
                        !.order = GroupTagOrder(input.groups, left)]
  BY DEF CleanupGroups, CleanupDone, Goto
<1>4. /\ t'.groups = groups /\ t'.translated = left
      /\ t'.order = GroupTagOrder(input.groups, left)
  <2> HIDE DEF groups, left
  <2> QED
    BY <1>3 DEF StubInv, InputInv, Fields
<1>5. t.groups \in Seq(Outbound) /\ ToSet(t.groups) \subseteq Outbound
  <2>1. t.groups \in Seq(Outbound)
    BY <1>1 DEF StubInv, GroupsInv, Working
  <2> QED
    BY <2>1 DEF ToSet
<1>6. \A o \in ToSet(t.groups) : Linked(o)
  BY <1>1 DEF LinkInv
<1>7. /\ ToSet(groups) = {Fix(o) : o \in {q \in ToSet(t.groups) : Clean(q) # <<>>}}
      /\ \A o \in ToSet(t.groups) :
            IsList(Clean(o)) /\ ToSet(Clean(o)) = ToSet(o.members) \cap valid
  <2>0. t.groups \in Seq(Outbound)
    BY <1>5
  <2>1. \A o \in Outbound :
           /\ Clean(o) \in Seq(Text)
           /\ ToSet(Clean(o)) = ToSet(o.members) \cap valid
    BY <2>0, CleanupPass, Zenon
  <2>2. ToSet(groups) = {Fix(o) : o \in {q \in ToSet(t.groups) : Clean(q) # <<>>}}
    BY <2>0, CleanupPass, Zenon
  <2> HIDE DEF valid, Clean, Fix, groups, dropped
  <2> QED
    BY <1>5, <2>1, <2>2, ListFacts
<1>8. \A o \in ToSet(t.groups) : Fix(o).members = Clean(o)
  BY <1>5, FixedGroup
<1>9. IsList(t'.order)
  <2>1. IsList(input.groups)
    BY <1>1, ListFacts
  <2>2. names = [i \in DOMAIN input.groups |-> names[i]]
    OBVIOUS
  <2> HIDE DEF names
  <2>3. IsList(names)
    BY <2>1, <2>2, MappedList
  <2>4. t'.order = Keep(names, left \ {NoName})
    BY <1>4, Zenon DEF GroupTagOrder, names, NoName
  <2> HIDE DEF left
  <2> QED
    BY <2>3, <2>4, KeepList
<1> HIDE DEF valid, dropped, groups, Clean
<1>10. \A q \in ToSet(groups) : Linked(q) /\ ToSet(q.members) \subseteq valid
  <2> SUFFICES ASSUME NEW o \in ToSet(t.groups), Clean(o) # <<>>
               PROVE  Linked(Fix(o)) /\ ToSet(Fix(o).members) \subseteq valid
    BY <1>7
  <2>1. Linked(Fix(o))
    BY <1>5, <1>6, <1>7, FixedLinked
  <2> HIDE DEF Fix
  <2> QED
    BY <1>7, <1>8, <2>1
<1>11. pc' = "default" => Valid(input', t'.translated) = valid
  BY <1>2, <1>3, <1>4
<1> HIDE DEF left
<1> QED
  BY <1>3, <1>4, <1>9, <1>10, <1>11 DEF LinkInv, Later, Ended

LEMMA LinkDefault == StubInv /\ CleanInv /\ LinkInv /\ DefaultGroups => LinkInv'
<1> SUFFICES ASSUME StubInv, CleanInv, LinkInv, DefaultGroups PROVE LinkInv'
  OBVIOUS
<1> DEFINE sorted == SetToSeq(t.proxyTags)
           groups == GenerateDefaultGroups(sorted, t.invalid)
           proxy == <<"PROXY">>
<1>1. /\ pc = "default" /\ pc' = "rules" /\ UNCHANGED input
      /\ \/ t.order # <<>> /\ t' = t
         \/ t' = [t EXCEPT !.groups = groups,
                           !.order = IF sorted = <<>> THEN <<>> ELSE proxy]
  BY DEF DefaultGroups, Goto
<1> HIDE DEF groups, sorted, proxy
<1>2. /\ \A o \in ToSet(t.groups) : Linked(o)
      /\ \A o \in ToSet(t.groups) : ToSet(o.members) \subseteq Valid(input, t.translated)
      /\ IsList(t.order)
      /\ t.translated \subseteq ToTags(t.groups) /\ ToSet(t.order) = t.translated
  BY <1>1 DEF LinkInv, CleanInv
<1>3. t.proxyTags = NamesOf(Named(input.proxies))
  BY <1>1 DEF StubInv, ProxiesInv, Working
<1>4. CASE t.order # <<>> /\ t' = t
  <2>1. FirstGroupTag' = FirstGroupTag /\ FirstGroupTag = t.order[1]
    <3>1. FirstGroupTag' = FirstGroupTag
      BY <1>4 DEF FirstGroupTag
    <3> QED
      BY <1>4, <3>1, FirstGroup
  <2>2. FirstGroupTag \in ToTags(t.groups)
    BY <1>2, <1>4, <2>1, FirstPlace
  <2>3. Valid(input, t.translated) \subseteq t.proxyTags \cup ToTags(t.groups) \cup {"DIRECT"}
    BY <1>2, <1>3 DEF Valid, ValidTags
  <2>4. GroupsLinked'
    BY <1>2, <1>4, <2>1, <2>2, <2>3 DEF GroupsLinked
  <2> QED
    BY <1>1, <2>4 DEF LinkInv, Later, Ended
<1>5. CASE t' = [t EXCEPT !.groups = groups,
                          !.order = IF sorted = <<>> THEN <<>> ELSE proxy]
  <2>1. /\ t'.groups = groups /\ t'.proxyTags = t.proxyTags
        /\ t'.order = IF sorted = <<>> THEN <<>> ELSE proxy
    BY <1>5 DEF StubInv, InputInv, Fields
  <2>2. t.proxyTags \subseteq Text /\ IsFiniteSet(t.proxyTags)
    <3>1. t.proxies \in Seq(Outbound) /\ t.proxyTags = ToTags(t.proxies)
      BY <1>1 DEF StubInv, ProxiesInv, Working
    <3>2. \A o \in Outbound : o.tag \in Text
      BY DEF Outbound
    <3> QED
      BY <3>1, <3>2, TagsAreFinite DEF ToTags
  <2>3. sorted \in Seq(t.proxyTags)
    BY <2>2, SetToSeqElements DEF sorted
  <2>4. NoName \notin t.proxyTags
    BY <1>3, NamedOnly
  <2>5. /\ \A o \in ToSet(groups) :
              Linked(o) /\ ToSet(o.members) \subseteq t.proxyTags \cup ToTags(groups)
        /\ sorted # <<>> => "PROXY" \in ToTags(groups)
    BY <2>2, <2>3, <2>4, DefaultLinked DEF groups
  <2>6. proxy # <<>> /\ proxy[1] = "PROXY"
    BY DEF proxy
  <2>7. FirstGroupTag' = IF t'.order = <<>> THEN NoName ELSE t'.order[1]
    BY Zenon DEF FirstGroupTag, NoName
  <2>8. FirstGroupTag' \in ToTags(groups) \cup {NoName}
    BY <2>1, <2>5, <2>6, <2>7
  <2>9. GroupsLinked'
    BY <2>1, <2>5, <2>8 DEF GroupsLinked
  <2> QED
    BY <1>1, <2>9 DEF LinkInv, Later, Ended
<1> QED
  BY <1>1, <1>4, <1>5

(* What the later steps leave alone. *)
LEMMA LinkLater ==
  StubInv /\ LinkInv /\ (Rules \/ DNS \/ DNSRules \/ Assemble \/ Validate) => LinkInv'
<1> SUFFICES ASSUME StubInv, LinkInv, Rules \/ DNS \/ DNSRules \/ Assemble \/ Validate
             PROVE  LinkInv'
  OBVIOUS
<1>1. DOMAIN t = Fields
  BY DEF StubInv, InputInv
<1>2. /\ pc \in Later /\ pc' \in Later \cup {"done"} /\ UNCHANGED input
  BY DEF Rules, DNS, DNSRules, Assemble, Validate, Goto, End, Later
<1>3. t'.groups = t.groups /\ t'.proxyTags = t.proxyTags /\ t'.order = t.order
  <2>1. ASSUME NEW a, NEW b, t' = [t EXCEPT !.rules = a, !.ruleSets = b]
        PROVE  <1>3!:
    BY <1>1, <2>1 DEF Fields
  <2>2. ASSUME NEW a, t' = [t EXCEPT !.dns = a]
        PROVE  <1>3!:
    BY <1>1, <2>2 DEF Fields
  <2>3. ASSUME NEW a, NEW b, t' = [t EXCEPT !.dns = a, !.ruleSets = b]
        PROVE  <1>3!:
    BY <1>1, <2>3 DEF Fields
  <2>4. CASE Rules
    BY <2>1, <2>4 DEF Rules
  <2>5. CASE DNS
    BY <2>2, <2>5 DEF DNS
  <2>6. CASE DNSRules
    BY <2>3, <2>6 DEF DNSRules
  <2>7. CASE Assemble \/ Validate
    BY <2>7 DEF Assemble, Validate
  <2> QED
    BY <2>4, <2>5, <2>6, <2>7
<1>4. FirstGroupTag' = FirstGroupTag
  BY <1>3 DEF FirstGroupTag
<1>5. GroupsLinked
  BY <1>2 DEF LinkInv
<1>6. GroupsLinked'
  BY <1>3, <1>4, <1>5 DEF GroupsLinked
<1> QED
  BY <1>2, <1>6 DEF LinkInv, Later

LEMMA LinkNext == StubInv /\ CleanInv /\ LinkInv /\ [Next]_vars => LinkInv'
<1> SUFFICES ASSUME StubInv, CleanInv, LinkInv, [Next]_vars PROVE LinkInv'
  OBVIOUS
<1>1. CASE UNCHANGED vars
  <2>1. input' = input /\ pc' = pc /\ t' = t /\ FirstGroupTag' = FirstGroupTag
    BY <1>1 DEF vars, FirstGroupTag
  <2>2. GroupsLinked' <=> GroupsLinked
    BY <2>1 DEF GroupsLinked
  <2> QED
    BY <2>1, <2>2 DEF LinkInv, Ended
<1>2. CASE Detect \/ UpgradeStored \/ Proxies \/ Reconvert
  <2>1. \/ pc' \in {"detect", "upgrade", "proxies", "groups"}
        \/ pc' = "done" /\ input'.kind # "yaml"
    BY <1>2 DEF Detect, UpgradeStored, Proxies, Reconvert, Goto, End, StubInv, InputInv
  <2> QED
    BY <2>1 DEF LinkInv, Later, Ended
<1> QED
  BY <1>1, <1>2, LinkGroups, LinkCleanup, LinkDefault, LinkLater DEF Next

(***************************************************************************)
(* The invariant of the conversion.                                        *)
(***************************************************************************)
ConfigInv == StubInv /\ CleanInv /\ FormInv /\ LinkInv

LEMMA ConfigInvariant == Spec => []ConfigInv
<1>1. Init => ConfigInv
  BY StubInit DEF Init, ConfigInv, CleanInv, FormInv, LinkInv, Later, Ended
<1>2. ConfigInv /\ [Next]_vars => ConfigInv'
  BY StubNext, CleanNext, FormNext, LinkNext DEF ConfigInv
<1> QED
  BY <1>1, <1>2, PTL DEF Spec

----------------------------------------------------------------------------
(* No rule is an orphan: what a rule looks up is defined. *)
LEMMA NoOrphans ==
  ASSUME NEW fields, "ruleSet" \in fields, NEW rules, IsList(rules), NEW defined,
         \A r \in ToSet(rules) : r = [f \in fields |-> r[f]] /\ r.ruleSet \subseteq defined
  PROVE  FilterOrphanRules(rules, defined) = rules
<1> DEFINE left == {r \in ToSet(rules) : r.ruleSet = {} \/ r.ruleSet \cap defined # {}}
           kept == Keep(rules, left)
<1>1. FilterOrphanRules(rules, defined) =
        [i \in DOMAIN kept |-> [kept[i] EXCEPT !.ruleSet = kept[i].ruleSet \cap defined]]
  BY DEF FilterOrphanRules
<1>2. kept = rules
  <2>1. ToSet(rules) \subseteq left
    OBVIOUS
  <2> HIDE DEF left
  <2> QED
    BY <2>1, KeepAll
<1> HIDE DEF kept
<1>3. \A i \in DOMAIN rules :
        [rules[i] EXCEPT !.ruleSet = rules[i].ruleSet \cap defined] = rules[i]
  <2> TAKE i \in DOMAIN rules
  <2>1. rules[i] \in ToSet(rules)
    BY DEF ToSet
  <2> DEFINE r == rules[i]
  <2>2. r = [f \in fields |-> r[f]] /\ r.ruleSet \cap defined = r.ruleSet
    BY <2>1
  <2> HIDE DEF r
  <2>3. [r EXCEPT !.ruleSet = r.ruleSet \cap defined] = r
    BY <2>2
  <2> QED
    BY <2>3 DEF r
<1>4. DOMAIN rules = 1..Len(rules) /\ rules = [i \in DOMAIN rules |-> rules[i]]
  <2> DEFINE A == ToSet(rules)
  <2>1. rules \in Seq(A)
    BY DEF IsList
  <2> HIDE DEF A
  <2> QED
    BY <2>1
<1> QED
  BY <1>1, <1>2, <1>3, <1>4

(* The routes of the country. *)
RoutesOf(i, first) == TranslateRules(i.cc, first)

LEMMA RoutesDefined ==
  ASSUME NEW i, NEW first, NEW defined, RouteRuleSets(RoutesOf(i, first)) \subseteq defined,
         NEW all, all = AssembleRules(RoutesOf(i, first), first)
  PROVE  /\ IsList(all)
         /\ \A r \in ToSet(all) : /\ IsRoute(r) /\ r.ruleSet \subseteq defined
                                  /\ r.outbound \in {NoName, "DIRECT", first}
         /\ FilterOrphanRules(all, defined) = all
<1> DEFINE rules == RoutesOf(i, first)
<1>1. IsList(rules) /\ \A r \in ToSet(rules) : CountryRoute(r, first)
  BY TranslatedRoutes DEF RoutesOf
<1> HIDE DEF rules
<1>2. \A r \in ToSet(rules) : r.ruleSet \subseteq RouteRuleSets(rules)
  BY DEF RouteRuleSets, ToSet
<1>3. /\ IsList(all)
      /\ \A r \in ToSet(all) : IsRoute(r) /\ r.outbound \in {NoName, "DIRECT", first}
      /\ \A r \in ToSet(all) : r.ruleSet = {} \/ \E q \in ToSet(rules) : r.ruleSet = q.ruleSet
  <2>1. all = AssembleRules(rules, first)
    BY DEF rules
  <2> QED
    BY <1>1, <2>1, AssembledRoutes
<1>4. \A r \in ToSet(all) : r.ruleSet \subseteq defined
  BY <1>2, <1>3 DEF rules
<1>5. FilterOrphanRules(all, defined) = all
  <2>1. "ruleSet" \in RouteFields
    BY DEF RouteFields
  <2> QED
    BY <1>3, <1>4, <2>1, NoOrphans DEF IsRoute
<1> QED
  BY <1>3, <1>4, <1>5

(***************************************************************************)
(* The configuration when it is there.                                     *)
(***************************************************************************)
Shape(first) ==
  /\ out.outbounds = <<Direct>> \o t.proxies \o t.groups
  /\ out.route.rules = AssembleRules(RoutesOf(input, first), first)
  /\ out.route.final = RouteFinal(first)
  /\ out.route.ruleSets = DefinedSets(input, first)
  /\ out.route.resolver = DNSOf(input, first).resolver
  /\ out.dns = FullDNS(input, first, t.ech)

LEMMA ShapeOfOut == ConfigInv /\ (pc = "validate" \/ Ended) => Shape(FirstGroupTag)
<1> SUFFICES ASSUME ConfigInv, pc = "validate" \/ Ended PROVE Shape(FirstGroupTag)
  OBVIOUS
<1> DEFINE first == FirstGroupTag
           d == DNSOf(input, first)
           f == FullDNS(input, first, t.ech)
           sets == DefinedSets(input, first)
           rules == RoutesOf(input, first)
<1>1. /\ t.rules = rules /\ t.ruleSets = sets /\ t.dns = f
      /\ out = Configuration(input, first, t)
  BY DEF ConfigInv, FormInv, RoutesOf
<1>2. ClashNodes(input)
  BY DEF ConfigInv, StubInv, InputInv, Ended, Working
<1>3. DNSLists(input.dns)
  BY <1>2 DEF ClashNodes
<1>4. /\ IsDNS(f) /\ f.resolver = d.resolver
      /\ IsList(f.rules)
      /\ \A r \in ToSet(f.rules) : GoodRule(r, ToTags(d.servers), DNSRuleSets(d, input.cc))
  BY <1>3, FullDNSFacts
<1>5. /\ RouteRuleSets(rules) \subseteq sets
      /\ DNSRuleSets(d, input.cc) \subseteq sets
  BY DEF DefinedSets, RoutesOf
<1>6. FilterOrphanRules(AssembleRules(rules, first), sets) = AssembleRules(rules, first)
  BY <1>5, RoutesDefined
<1> HIDE DEF first, d, f, sets, rules
<1>7. FilterOrphanRules(f.rules, sets) = f.rules
  <2>1. "ruleSet" \in RuleFields
    BY DEF RuleFields
  <2>2. \A r \in ToSet(f.rules) : r = [x \in RuleFields |-> r[x]] /\ r.ruleSet \subseteq sets
    BY <1>4, <1>5 DEF GoodRule, IsRule
  <2> QED
    BY <1>4, <2>1, <2>2, NoOrphans
<1>8. [f EXCEPT !.rules = f.rules] = f
  BY <1>4 DEF IsDNS, DNSFields
<1>9. /\ out.outbounds = <<Direct>> \o t.proxies \o t.groups
      /\ out.route.rules = FilterOrphanRules(AssembleRules(t.rules, first), t.ruleSets)
      /\ out.route.final = RouteFinal(first)
      /\ out.route.ruleSets = t.ruleSets
      /\ out.route.resolver = t.dns.resolver
      /\ out.dns = [t.dns EXCEPT !.rules = FilterOrphanRules(t.dns.rules, t.ruleSets)]
  BY <1>1 DEF Configuration
<1> QED
  BY <1>1, <1>4, <1>6, <1>7, <1>8, <1>9 DEF Shape, first, d, f, sets, rules

(* The outbounds and their tags. *)
LEMMA OutOutbounds ==
  ASSUME ConfigInv, pc = "validate" \/ Ended
  PROVE  /\ IsList(out.outbounds)
         /\ ToSet(out.outbounds) = {Direct} \cup ToSet(t.proxies) \cup ToSet(t.groups)
         /\ OutboundTags(out) = {"DIRECT"} \cup t.proxyTags \cup ToTags(t.groups)
         /\ Direct.members = <<>> /\ Direct.tag = "DIRECT" /\ Direct.type = "direct"
         /\ \A o \in ToSet(t.proxies) : o.members = <<>> /\ o.type \notin {"selector", "urltest"}
<1> DEFINE obs == out.outbounds
           front == <<Direct>> \o t.proxies
<1>1. obs = front \o t.groups
  BY ShapeOfOut DEF Shape
<1>2. /\ t.proxies \in Seq(Outbound) /\ t.groups \in Seq(Outbound)
      /\ ToSet(t.proxies) = {ProxyOutbound(p) : p \in Named(input.proxies)}
      /\ t.proxyTags = ToTags(t.proxies)
      /\ input.proxies \in Seq(NodeInput)
  BY DEF ConfigInv, StubInv, ProxiesInv, GroupsInv, InputInv, ClashNodes, Working, Ended
<1>3. IsList(t.proxies) /\ IsList(t.groups)
  BY <1>2, ListFacts
<1>4. IsList(<<Direct>>) /\ ToSet(<<Direct>>) = {Direct}
  BY ShortLists
<1>5. IsList(front) /\ ToSet(front) = {Direct} \cup ToSet(t.proxies)
  BY <1>3, <1>4, ConcatList
<1> HIDE DEF front
<1>6. IsList(obs) /\ ToSet(obs) = {Direct} \cup ToSet(t.proxies) \cup ToSet(t.groups)
  BY <1>1, <1>3, <1>5, ConcatList
<1>7. Direct.members = <<>> /\ Direct.tag = "DIRECT" /\ Direct.type = "direct"
  BY Zenon DEF Direct
<1>8. ToTags(obs) = {"DIRECT"} \cup ToTags(t.proxies) \cup ToTags(t.groups)
  <2>1. /\ ToTags(obs) = {x.tag : x \in ToSet(obs)}
        /\ ToTags(t.proxies) = {x.tag : x \in ToSet(t.proxies)}
        /\ ToTags(t.groups) = {x.tag : x \in ToSet(t.groups)}
    BY TagsOfList
  <2> QED
    BY <1>6, <1>7, <2>1
<1>9. \A o \in ToSet(t.proxies) : o.members = <<>> /\ o.type \notin {"selector", "urltest"}
  <2>1. ToSet(input.proxies) \subseteq NodeInput
    BY <1>2 DEF ToSet
  <2> SUFFICES ASSUME NEW p \in NodeInput
               PROVE  /\ ProxyOutbound(p).members = <<>>
                      /\ ProxyOutbound(p).type \notin {"selector", "urltest"}
    BY <1>2, <2>1 DEF Named
  <2>2. ProxyOutbound(p).members = <<>>
    BY ProxyOutboundFacts
  <2>3. ProxyOutbound(p).type \notin {"selector", "urltest"}
    <3>1. CASE IsTranslated(p)
      <4>1. ProxyOutbound(p).type = p.type
        BY <3>1, Zenon DEF ProxyOutbound, MakeStubOutbound
      <4>2. p.type \in Protocols
        BY <3>1 DEF IsTranslated
      <4> QED
        BY <4>1, <4>2 DEF Protocols
    <3>2. CASE ~IsTranslated(p)
      <4>1. ProxyOutbound(p).type = "socks"
        BY <3>2, Zenon DEF ProxyOutbound, MakeStubOutbound
      <4> QED
        BY <4>1
    <3> QED
      BY <3>1, <3>2
  <2> QED
    BY <2>2, <2>3
<1> QED
  BY <1>2, <1>6, <1>7, <1>8, <1>9 DEF OutboundTags

(* What the members of the groups, the routes and the DNS section name. *)
LEMMA OutReferences ==
  ASSUME ConfigInv, pc = "validate" \/ Ended
  PROVE  /\ \A o \in ToSet(out.outbounds) :
               /\ ToSet(o.members) \subseteq OutboundTags(out)
               /\ o.type \in {"selector", "urltest"} => Linked(o)
         /\ out.route.final \in OutboundTags(out)
         /\ \A r \in ToSet(out.route.rules) : /\ r.outbound \in OutboundTags(out) \cup {NoName}
                                              /\ r.ruleSet \subseteq out.route.ruleSets
         /\ \A r \in ToSet(out.dns.rules) : /\ r.server \in ToTags(out.dns.servers)
                                            /\ r.ruleSet \subseteq out.route.ruleSets
         /\ \A s \in ToSet(out.dns.servers) :
               /\ s.detour \in OutboundTags(out) \cup {NoName}
               /\ s.resolver \in ToTags(out.dns.servers) \cup {NoName}
         /\ out.dns.final \in ToTags(out.dns.servers) \cup {NoName}
         /\ out.route.resolver \in ToTags(out.dns.servers)
<1> DEFINE first == FirstGroupTag
           d == DNSOf(input, first)
           f == FullDNS(input, first, t.ech)
           tags == OutboundTags(out)
<1>1. Shape(first) /\ GroupsLinked
  BY ShapeOfOut DEF ConfigInv, LinkInv, Later
<1>2. DNSLists(input.dns)
  BY DEF ConfigInv, StubInv, InputInv, ClashNodes, Ended, Working
<1>3. /\ tags = {"DIRECT"} \cup t.proxyTags \cup ToTags(t.groups)
      /\ \A o \in ToSet(out.outbounds) :
            /\ ToSet(o.members) \subseteq tags
            /\ o.type \in {"selector", "urltest"} => Linked(o)
  <2>1. ToSet(<<>>) = {}
    BY ShortLists
  <2>2. "direct" \notin {"selector", "urltest"}
    OBVIOUS
  <2>3. tags = {"DIRECT"} \cup t.proxyTags \cup ToTags(t.groups)
    BY OutOutbounds
  <2>4. ASSUME NEW o \in {Direct} \cup ToSet(t.proxies)
        PROVE  o.members = <<>> /\ o.type \notin {"selector", "urltest"}
    BY <2>2, OutOutbounds
  <2>5. ASSUME NEW o \in ToSet(t.groups)
        PROVE  ToSet(o.members) \subseteq tags /\ Linked(o)
    BY <1>1, <2>3 DEF GroupsLinked
  <2>6. \A o \in ToSet(out.outbounds) : o \in {Direct} \cup ToSet(t.proxies) \/ o \in ToSet(t.groups)
    BY OutOutbounds
  <2> HIDE DEF tags
  <2> QED
    BY <2>1, <2>3, <2>4, <2>5, <2>6
<1>4. first \in tags \cup {NoName}
  BY <1>1, <1>3 DEF GroupsLinked
<1>5. out.route.final \in tags
  <2>1. RouteFinal(first) = IF first = NoName THEN "DIRECT" ELSE first
    BY Zenon DEF RouteFinal, NoName
  <2> HIDE DEF tags, first
  <2> QED
    BY <1>1, <1>3, <1>4, <2>1 DEF Shape
<1> HIDE DEF tags, first, d, f
<1>6. out.dns = f /\ out.route.ruleSets = DefinedSets(input, first) /\ out.route.resolver = d.resolver
      /\ out.route.rules = AssembleRules(RoutesOf(input, first), first)
  BY <1>1 DEF Shape, d, f
<1>7. /\ f.servers = d.servers /\ f.final = d.final
      /\ \A r \in ToSet(f.rules) : GoodRule(r, ToTags(d.servers), DNSRuleSets(d, input.cc))
  BY <1>2, FullDNSFacts DEF d, f
<1>8. DNSRuleSets(d, input.cc) \subseteq out.route.ruleSets
      /\ RouteRuleSets(RoutesOf(input, first)) \subseteq out.route.ruleSets
  BY <1>6 DEF DefinedSets, RoutesOf, d
<1>9. d.resolver \in ToTags(d.servers) /\ d.final \in ToTags(d.servers) \cup {NoName}
  BY <1>2, DNSFacts, Zenon DEF d, DNSOf, NoName
<1>10. ASSUME NEW s \in ToSet(d.servers)
       PROVE  s.detour \in {NoName, first} /\ s.resolver \in ToTags(d.servers) \cup {NoName}
  <2>1. s.detour \in {"", first}
    BY <1>2, <1>10, DNSServers, Zenon DEF d, DNSOf
  <2>2. s.resolver \in ToTags(d.servers) \cup {""}
    BY <1>2, <1>10, DNSServers, Zenon DEF d, DNSOf
  <2> QED
    BY <2>1, <2>2, Zenon DEF NoName
<1>11. \A r \in ToSet(out.route.rules) : /\ r.ruleSet \subseteq out.route.ruleSets
                                         /\ r.outbound \in {NoName, "DIRECT", first}
  <2> DEFINE all == out.route.rules
             sets == out.route.ruleSets
  <2>1. all = AssembleRules(RoutesOf(input, first), first)
        /\ RouteRuleSets(RoutesOf(input, first)) \subseteq sets
    BY <1>6, <1>8
  <2> HIDE DEF all, sets
  <2>2. \A r \in ToSet(all) : /\ IsRoute(r) /\ r.ruleSet \subseteq sets
                              /\ r.outbound \in {NoName, "DIRECT", first}
    BY <2>1, RoutesDefined, Zenon
  <2> QED
    BY <2>2 DEF all, sets
<1>12. \A r \in ToSet(out.dns.rules) : /\ r.server \in ToTags(out.dns.servers)
                                       /\ r.ruleSet \subseteq out.route.ruleSets
  BY <1>6, <1>7, <1>8 DEF GoodRule
<1>13. \A r \in ToSet(out.route.rules) : r.outbound \in tags \cup {NoName}
  BY <1>3, <1>4, <1>11
<1>14. \A s \in ToSet(out.dns.servers) :
          /\ s.detour \in tags \cup {NoName}
          /\ s.resolver \in ToTags(out.dns.servers) \cup {NoName}
  BY <1>4, <1>6, <1>7, <1>10
<1>15. /\ out.dns.final \in ToTags(out.dns.servers) \cup {NoName}
       /\ out.route.resolver \in ToTags(out.dns.servers)
  BY <1>6, <1>7, <1>9
<1> QED
  BY <1>3, <1>5, <1>11, <1>12, <1>13, <1>14, <1>15 DEF tags

LEMMA ReferencesHold == ConfigInv => ReferencesResolve
<1> SUFFICES ASSUME ConfigInv, Translated PROVE ReferencesResolve
  BY DEF ReferencesResolve
<1>0. Ended
  BY DEF Translated, Ended
<1> DEFINE tags == OutboundTags(out)
           servers == ToTags(out.dns.servers)
<1>1. /\ \A o \in ToSet(out.outbounds) :
            /\ ToSet(o.members) \subseteq tags
            /\ o.type \in {"selector", "urltest"} => Linked(o)
      /\ \A r \in ToSet(out.route.rules) : /\ r.outbound \in tags \cup {NoName}
                                           /\ r.ruleSet \subseteq out.route.ruleSets
      /\ \A r \in ToSet(out.dns.rules) : /\ r.server \in servers
                                         /\ r.ruleSet \subseteq out.route.ruleSets
      /\ \A s \in ToSet(out.dns.servers) : /\ s.detour \in tags \cup {NoName}
                                           /\ s.resolver \in servers \cup {NoName}
      /\ out.route.resolver \in servers
  BY <1>0, OutReferences
<1>2. \A tag : tag \in tags \cup {NoName} => NamedIn(out, tag)
  BY Zenon DEF NamedIn, NoName
<1> HIDE DEF tags, servers
<1>3. ASSUME NEW i \in DOMAIN out.outbounds, NEW o, o = out.outbounds[i]
      PROVE  /\ ToSet(o.members) \subseteq tags
             /\ o.type \in {"selector", "urltest"} => o.members # <<>>
             /\ o.type = "selector" => o.default \in ToSet(o.members)
  <2>1. o \in ToSet(out.outbounds)
    BY <1>3 DEF ToSet
  <2>2. ToSet(<<>>) = {}
    BY ShortLists
  <2> QED
    BY <1>1, <2>1, <2>2 DEF Linked
<1>4. ASSUME NEW i \in DOMAIN out.route.rules, NEW r, r = out.route.rules[i]
      PROVE  NamedIn(out, r.outbound) /\ r.ruleSet \subseteq out.route.ruleSets
  <2>1. r \in ToSet(out.route.rules)
    BY <1>4 DEF ToSet
  <2> QED
    BY <1>1, <1>2, <2>1
<1>5. ASSUME NEW i \in DOMAIN out.dns.rules, NEW r, r = out.dns.rules[i]
      PROVE  r.server \in servers /\ r.ruleSet \subseteq out.route.ruleSets
  <2>1. r \in ToSet(out.dns.rules)
    BY <1>5 DEF ToSet
  <2> QED
    BY <1>1, <2>1
<1>6. ASSUME NEW i \in DOMAIN out.dns.servers, NEW s, s = out.dns.servers[i]
      PROVE  NamedIn(out, s.detour) /\ s.resolver \in servers \cup {NoName}
  <2>1. s \in ToSet(out.dns.servers)
    BY <1>6 DEF ToSet
  <2> QED
    BY <1>1, <1>2, <2>1
<1>7. \A i \in DOMAIN out.outbounds :
        LET ob == out.outbounds[i]
        IN /\ ToSet(ob.members) \subseteq OutboundTags(out)
           /\ ob.type \in {"selector", "urltest"} => ob.members # <<>>
           /\ ob.type = "selector" => ob.default \in ToSet(ob.members)
  BY <1>3 DEF tags
<1>8. \A i \in DOMAIN out.dns.servers :
        /\ NamedIn(out, out.dns.servers[i].detour)
        /\ out.dns.servers[i].resolver \in ToTags(out.dns.servers) \cup {""}
  BY <1>6, Zenon DEF servers, NoName
<1>9. \A i \in DOMAIN out.dns.rules :
        /\ out.dns.rules[i].server \in ToTags(out.dns.servers)
        /\ out.dns.rules[i].ruleSet \subseteq out.route.ruleSets
  BY <1>5 DEF servers
<1>10. \A i \in DOMAIN out.route.rules :
         /\ NamedIn(out, out.route.rules[i].outbound)
         /\ out.route.rules[i].ruleSet \subseteq out.route.ruleSets
  BY <1>4
<1>11. out.route.resolver \in ToTags(out.dns.servers)
  BY <1>1 DEF servers
<1> QED
  BY <1>7, <1>8, <1>9, <1>10, <1>11, Zenon DEF ReferencesResolve

(***************************************************************************)
(* Whatever a configuration refers to is in it: the members and defaults   *)
(* of groups, the outbounds and rule sets of rules, the detours and        *)
(* resolvers of DNS servers; and no group is empty.  validate looks only   *)
(* at some of these (validation.go:5-10, group.go:154-161).                *)
(***************************************************************************)
THEOREM NothingIsDangling == Spec => []ReferencesResolve
BY ConfigInvariant, ReferencesHold, PTL

LEMMA StartsHold == ConfigInv /\ Translated => StartsOn114
<1> SUFFICES ASSUME ConfigInv, Translated PROVE StartsOn114
  OBVIOUS
<1>0. Ended /\ DNSLists(input.dns)
  BY DEF Translated, Ended, ConfigInv, StubInv, InputInv, ClashNodes
<1> DEFINE first == FirstGroupTag
           d == DNSOf(input, first)
           f == FullDNS(input, first, t.ech)
           rules == out.dns.rules
<1>1. out.dns = f
  BY <1>0, ShapeOfOut DEF Shape
<1>2. /\ IsList(f.rules) /\ Justified(f.rules)
      /\ \A r \in ToSet(f.rules) : GoodRule(r, ToTags(d.servers), DNSRuleSets(d, input.cc))
  BY <1>0, FullDNSFacts
<1> HIDE DEF first, d, f
<1>3. /\ IsList(rules) /\ Justified(rules)
      /\ \A r \in ToSet(rules) : r.ruleSet # {} => r.match
  BY <1>1, <1>2 DEF GoodRule
<1> HIDE DEF rules
<1>4. \A i \in DOMAIN out.outbounds :
         out.outbounds[i].type = "urltest" => out.outbounds[i].idle > out.outbounds[i].interval
  <2> TAKE i \in DOMAIN out.outbounds
  <2> DEFINE o == out.outbounds[i]
  <2>1. o \in ToSet(out.outbounds)
    BY DEF ToSet
  <2>2. o.type \in {"selector", "urltest"} => Linked(o)
    BY <1>0, <2>1, OutReferences
  <2> HIDE DEF o
  <2>3. o.type = "urltest" => o.idle > o.interval
    BY <2>2 DEF Linked
  <2> QED
    BY <2>3 DEF o
<1>5. ASSUME NEW i \in DOMAIN rules
      PROVE  /\ rules[i].ruleSet \cap GeoIPSets # {} => rules[i].match
             /\ rules[i].match => \E j \in 1..(i - 1) :
                  /\ rules[j].action = "evaluate" /\ rules[j].server = rules[i].server
                  /\ rules[i].qtype \cap AddressQueryTypes \subseteq rules[j].qtype
  <2>1. rules[i] \in ToSet(rules)
    BY DEF ToSet
  <2>2. DOMAIN rules = 1..Len(rules) /\ Len(rules) \in Nat
    BY <1>3, ListFacts
  <2>3. \A j \in DOMAIN rules : j < i => j \in 1..(i - 1)
    BY <2>2
  <2>4. rules[i].ruleSet \cap GeoIPSets # {} => rules[i].match
    BY <1>3, <2>1
  <2>5. rules[i].match => \E j \in 1..(i - 1) :
          /\ rules[j].action = "evaluate" /\ rules[j].server = rules[i].server
          /\ rules[i].qtype \cap AddressQueryTypes \subseteq rules[j].qtype
    BY <1>3, <2>3 DEF Justified
  <2> QED
    BY <2>4, <2>5
<1>6. \A i \in DOMAIN rules :
        LET r == rules[i]
        IN /\ r.ruleSet \cap GeoIPSets # {} => r.match
           /\ r.match => \E j \in 1..(i - 1) :
                /\ rules[j].action = "evaluate" /\ rules[j].server = r.server
                /\ r.qtype \cap AddressQueryTypes \subseteq rules[j].qtype
  BY <1>5
<1> QED
  BY <1>4, <1>6, Zenon DEF StartsOn114, rules

(***************************************************************************)
(* sing-box 1.14 starts with what a conversion ends with: a rule that looks *)
(* at a response comes after one that obtains it from the same server, no  *)
(* rule about addresses does without, and a url test stays idle longer     *)
(* than its interval (migrate.go:11-15, autoroute.go:214-216,              *)
(* group.go:13-15).                                                        *)
(***************************************************************************)
THEOREM TranslatedStarts == Spec => [](Translated => StartsOn114)
<1>1. ConfigInv => (Translated => StartsOn114)
  BY StartsHold
<1> QED
  BY <1>1, ConfigInvariant, PTL

(***************************************************************************)
(* Without a clash of names no tag occurs twice.                           *)
(***************************************************************************)
UniqueInv ==
  ~NamesClash(input) =>
    /\ pc \in Working \ {"proxies"} \/ Ended =>
         UniqueTags(t.proxies) /\ t.proxyTags \cap {"DIRECT", "PROXY", "Auto"} = {}
    /\ pc \in {"cleanup", "default"} \cup Later \/ Ended =>
         UniqueTags(t.groups) /\ ToTags(t.groups) \cap (t.proxyTags \cup {"DIRECT"}) = {}

LEMMA UniqueProxies == StubInv /\ Proxies => UniqueInv'
<1> SUFFICES ASSUME StubInv, Proxies, ~NamesClash(input) PROVE UniqueInv'
  BY DEF UniqueInv, Proxies
<1> DEFINE ps == input.proxies
           named == Keep(ps, {p \in ToSet(ps) : p.name # ""})
           obs == [i \in DOMAIN named |-> ProxyOutbound(named[i])]
           tp == TranslateProxies(ps)
<1>1. /\ pc = "proxies" /\ pc' = "groups" /\ UNCHANGED input
      /\ t' = [t EXCEPT !.proxies = tp.outbounds, !.proxyTags = tp.tags,
                        !.stubs = tp.stubs, !.invalid = tp.invalid,
                        !.ech = CollectECHQueryServers(tp.outbounds)]
  BY DEF Proxies, Goto
<1>2. ClashNodes(input) /\ ps \in Seq(NodeInput)
  BY <1>1 DEF StubInv, InputInv, Working, ClashNodes
<1>3. tp.outbounds = obs
  BY DEF TranslateProxies
<1>4. tp.tags = NamesOf(Named(ps))
  BY <1>2, ProxyTables
<1> HIDE DEF tp
<1>5. t'.proxies = tp.outbounds /\ t'.proxyTags = tp.tags
  BY <1>1 DEF StubInv, InputInv, Fields
<1>6. /\ \A i, j \in DOMAIN ps : ps[i].name = ps[j].name => i = j
      /\ \A p \in ToSet(ps) : p.name \notin {"DIRECT", "PROXY", "Auto"}
  BY <1>2, UniquePlaces, UniqueNames
<1>7. IsList(ps) /\ \A i \in DOMAIN ps : ps[i] \in NodeInput
  BY <1>2, ListFacts
<1>8. PICK p \in [DOMAIN named -> DOMAIN ps] :
        /\ \A n \in DOMAIN named : named[n] = ps[p[n]]
        /\ \A m, n \in DOMAIN named : p[m] = p[n] => m = n
  <2> DEFINE S == {q \in ToSet(ps) : q.name # ""}
  <2>1. named = Keep(ps, S)
    OBVIOUS
  <2> HIDE DEF S
  <2>2. \E p \in [DOMAIN Keep(ps, S) -> DOMAIN ps] :
          /\ \A n \in DOMAIN Keep(ps, S) : Keep(ps, S)[n] = ps[p[n]] /\ ps[p[n]] \in S
          /\ \A m, n \in DOMAIN Keep(ps, S) : p[m] = p[n] => m = n
    BY <1>7, KeepInjective
  <2> HIDE DEF named
  <2> QED
    BY <2>1, <2>2
<1>9. DOMAIN obs = DOMAIN named /\ \A n \in DOMAIN named : obs[n] = ProxyOutbound(named[n])
  OBVIOUS
<1> HIDE DEF named, obs
<1>10. \A n \in DOMAIN named : p[n] \in DOMAIN ps /\ obs[n].tag = ps[p[n]].name
  BY <1>7, <1>8, <1>9, ProxyOutboundFacts
<1>11. UniqueTags(obs)
  BY <1>6, <1>8, <1>9, <1>10 DEF UniqueTags
<1>12. NamesOf(Named(ps)) \cap {"DIRECT", "PROXY", "Auto"} = {}
  BY <1>6 DEF NamesOf, Named
<1> QED
  BY <1>1, <1>3, <1>4, <1>5, <1>11, <1>12 DEF UniqueInv, Later, Ended

LEMMA UniqueGroups == StubInv /\ UniqueInv /\ Groups => UniqueInv'
<1> SUFFICES ASSUME StubInv, UniqueInv, Groups, ~NamesClash(input) PROVE UniqueInv'
  BY DEF UniqueInv, Groups
<1> DEFINE gs == input.groups
           groups == TranslateGroups(gs, t.proxyTags, t.invalid)
           Members(g) == GroupMembers(g, t.proxyTags, GroupNames(gs), t.invalid)
           With == {g \in ToSet(gs) : g.name # "" /\ Members(g) # <<>>}
           kept == Keep(gs, With)
           obs == [i \in DOMAIN kept |-> TranslateGroup(kept[i], Members(kept[i]))]
<1>1. /\ pc = "groups" /\ pc' = "cleanup" /\ UNCHANGED input
      /\ t' = [t EXCEPT !.groups = groups, !.translated = ToTags(groups)]
  BY DEF Groups, Goto
<1>2. groups = obs
  BY DEF TranslateGroups
<1> HIDE DEF groups
<1>3. t'.groups = groups /\ t'.proxies = t.proxies /\ t'.proxyTags = t.proxyTags
  BY <1>1 DEF StubInv, InputInv, Fields
<1>4. ClashNodes(input) /\ gs \in Seq(GroupInput)
  BY <1>1 DEF StubInv, InputInv, ClashNodes, Working
<1>5. /\ UniqueTags(t.proxies) /\ t.proxyTags \cap {"DIRECT", "PROXY", "Auto"} = {}
      /\ t.proxyTags = NamesOf(Named(input.proxies))
  BY <1>1 DEF UniqueInv, StubInv, ProxiesInv, Working
<1>6. /\ \A i, j \in DOMAIN gs : gs[i].name = gs[j].name => i = j
      /\ \A q \in ToSet(input.proxies), g \in ToSet(gs) : q.name # g.name
      /\ \A g \in ToSet(gs) : g.name # "DIRECT"
  BY <1>4, UniquePlaces, UniqueNames
<1>7. IsList(gs)
  BY <1>4, ListFacts
<1>8. PICK p \in [DOMAIN kept -> DOMAIN gs] :
        /\ \A n \in DOMAIN kept : kept[n] = gs[p[n]]
        /\ \A m, n \in DOMAIN kept : p[m] = p[n] => m = n
  <2> DEFINE S == With
  <2>1. kept = Keep(gs, S)
    OBVIOUS
  <2> HIDE DEF S
  <2>2. \E p \in [DOMAIN Keep(gs, S) -> DOMAIN gs] :
          /\ \A n \in DOMAIN Keep(gs, S) : Keep(gs, S)[n] = gs[p[n]] /\ gs[p[n]] \in S
          /\ \A m, n \in DOMAIN Keep(gs, S) : p[m] = p[n] => m = n
    BY <1>7, KeepInjective
  <2> HIDE DEF kept
  <2> QED
    BY <2>1, <2>2
<1>9. DOMAIN obs = DOMAIN kept /\ \A n \in DOMAIN kept : obs[n].tag = kept[n].name
  <2>1. \A n \in DOMAIN kept : obs[n] = TranslateGroup(kept[n], Members(kept[n]))
    OBVIOUS
  <2> HIDE DEF obs, kept, Members
  <2>2. \A n \in DOMAIN kept : obs[n].tag = kept[n].name
    BY <2>1, TypedGroup
  <2> QED
    BY <2>2 DEF obs
<1> HIDE DEF kept, obs
<1>10. \A n \in DOMAIN kept : p[n] \in DOMAIN gs /\ obs[n].tag = gs[p[n]].name
                               /\ gs[p[n]] \in ToSet(gs)
  BY <1>8, <1>9 DEF ToSet
<1>11. UniqueTags(obs)
  BY <1>6, <1>8, <1>9, <1>10 DEF UniqueTags
<1>12. ToTags(obs) \cap (t.proxyTags \cup {"DIRECT"}) = {}
  <2>1. \A n \in t.proxyTags : \E q \in ToSet(input.proxies) : n = q.name
    BY <1>5 DEF NamesOf, Named
  <2>2. \A n \in ToTags(obs) : \E g \in ToSet(gs) : n = g.name
    BY <1>9, <1>10 DEF ToTags
  <2> QED
    BY <1>6, <2>1, <2>2
<1> QED
  BY <1>1, <1>2, <1>3, <1>5, <1>11, <1>12 DEF UniqueInv, Later, Ended

LEMMA UniqueCleanup == StubInv /\ UniqueInv /\ CleanupGroups => UniqueInv'
<1> SUFFICES ASSUME StubInv, UniqueInv, CleanupGroups, ~NamesClash(input) PROVE UniqueInv'
  BY DEF UniqueInv, CleanupGroups
<1> DEFINE obs == t.groups
           valid == ValidTags(t.proxyTags, t.translated)
           groups == CleanupGroupOutboundsOnce(obs, valid)
           With == {g \in ToSet(obs) : CleanMembers(g, valid) # <<>>}
           left == Keep(obs, With)
           fixed == [i \in DOMAIN left |-> FixDefault(left[i], CleanMembers(left[i], valid), valid)]
<1>1. /\ pc = "cleanup" /\ pc' \in {"cleanup", "default"} /\ UNCHANGED input
      /\ \E left1, order : t' = [t EXCEPT !.groups = groups, !.translated = left1,
                                          !.order = order]
  BY DEF CleanupGroups, Goto
<1>2. groups = fixed
  BY DEF CleanupGroupOutboundsOnce
<1> HIDE DEF groups
<1>3. t'.groups = groups /\ t'.proxies = t.proxies /\ t'.proxyTags = t.proxyTags
  BY <1>1 DEF StubInv, InputInv, Fields
<1>4. obs \in Seq(Outbound)
  BY <1>1 DEF StubInv, GroupsInv, Working
<1>5. /\ UniqueTags(t.proxies) /\ t.proxyTags \cap {"DIRECT", "PROXY", "Auto"} = {}
      /\ UniqueTags(obs) /\ ToTags(obs) \cap (t.proxyTags \cup {"DIRECT"}) = {}
  BY <1>1 DEF UniqueInv, Working
<1>6. IsList(obs) /\ \A i \in DOMAIN obs : obs[i] \in Outbound
  BY <1>4, ListFacts
<1>7. PICK p \in [DOMAIN left -> DOMAIN obs] :
        /\ \A n \in DOMAIN left : left[n] = obs[p[n]]
        /\ \A m, n \in DOMAIN left : p[m] = p[n] => m = n
  <2>2. \E p \in [DOMAIN Keep(obs, With) -> DOMAIN obs] :
          /\ \A n \in DOMAIN Keep(obs, With) :
                Keep(obs, With)[n] = obs[p[n]] /\ obs[p[n]] \in With
          /\ \A m, n \in DOMAIN Keep(obs, With) : p[m] = p[n] => m = n
    <3> HIDE DEF With, obs
    <3> QED
      BY <1>6, KeepInjective
  <2> HIDE DEF With
  <2> QED
    BY <2>2, Zenon
<1>8. DOMAIN fixed = DOMAIN left /\ \A n \in DOMAIN left : fixed[n].tag = obs[p[n]].tag
  <2>1. \A n \in DOMAIN left :
          fixed[n] = FixDefault(left[n], CleanMembers(left[n], valid), valid)
    OBVIOUS
  <2>2. DOMAIN fixed = DOMAIN left
    OBVIOUS
  <2> HIDE DEF fixed, left, valid
  <2>3. \A n \in DOMAIN left : left[n] \in Outbound
    BY <1>6, <1>7
  <2>4. \A n \in DOMAIN left : fixed[n].tag = left[n].tag
    BY <2>1, <2>3, FixedGroup
  <2> QED
    BY <1>7, <2>2, <2>4
<1> HIDE DEF left, fixed, obs
<1>9. UniqueTags(fixed)
  BY <1>5, <1>7, <1>8 DEF UniqueTags
<1>10. ToTags(fixed) \subseteq ToTags(obs)
  BY <1>7, <1>8 DEF ToTags
<1>11. pc' \in {"cleanup", "default"} \cup Later
  BY <1>1
<1>12. ToTags(fixed) \cap (t.proxyTags \cup {"DIRECT"}) = {}
  BY <1>5, <1>10
<1> QED
  BY <1>1, <1>2, <1>3, <1>5, <1>9, <1>12 DEF UniqueInv

(* Nothing, and one outbound, have no name twice. *)
LEMMA SingleTag ==
  /\ IsList(<<>>) /\ UniqueTags(<<>>) /\ ToTags(<<>>) = {}
  /\ \A x : IsList(<<x>>) /\ UniqueTags(<<x>>) /\ ToTags(<<x>>) = {x.tag}
<1>1. ASSUME NEW x PROVE IsList(<<x>>) /\ UniqueTags(<<x>>) /\ ToTags(<<x>>) = {x.tag}
  <2> DEFINE one == <<x>>
  <2>1. IsList(one) /\ ToSet(one) = {x} /\ DOMAIN one = {1}
    BY ShortLists
  <2> HIDE DEF one
  <2>2. ToTags(one) = {y.tag : y \in ToSet(one)}
    BY TagsOfList
  <2>3. ToTags(one) = {x.tag}
    BY <2>1, <2>2
  <2>4. UniqueTags(one)
    BY <2>1 DEF UniqueTags
  <2> QED
    BY <2>1, <2>3, <2>4 DEF one
<1>2. IsList(<<>>) /\ UniqueTags(<<>>) /\ ToTags(<<>>) = {}
  <2> DEFINE none == <<>>
  <2>1. IsList(none) /\ ToSet(none) = {} /\ DOMAIN none = {}
    BY ShortLists
  <2> HIDE DEF none
  <2>2. ToTags(none) = {y.tag : y \in ToSet(none)}
    BY TagsOfList
  <2>3. UniqueTags(none)
    BY <2>1 DEF UniqueTags
  <2> QED
    BY <2>1, <2>2, <2>3 DEF none
<1> QED
  BY <1>1, <1>2

(* The groups that are made up have the two names of their own. *)
LEMMA DefaultUnique ==
  ASSUME NEW sorted, NEW invalid, NEW groups, groups = GenerateDefaultGroups(sorted, invalid)
  PROVE  UniqueTags(groups) /\ ToTags(groups) \subseteq {"Auto", "PROXY"}
<1> DEFINE healthy == FilterHealthCheckProxies(sorted, invalid)
           two == Len(healthy) >= 2
           auto == [name |-> "Auto", type |-> "url-test", proxies |-> healthy, interval |-> 0]
           all == IF two THEN <<"Auto">> \o sorted ELSE sorted
           proxy == [name |-> "PROXY", type |-> "select", proxies |-> all, interval |-> 0]
           A == TranslateGroup(auto, healthy)
           P == TranslateGroup(proxy, all)
           left == IF two THEN <<A>> ELSE <<>>
<1>1. groups = IF sorted = <<>> THEN <<>> ELSE left \o <<P>>
  BY DEF GenerateDefaultGroups
<1>2. A.tag = "Auto" /\ P.tag = "PROXY"
  <2>1. auto.name = "Auto" /\ proxy.name = "PROXY"
    OBVIOUS
  <2> HIDE DEF auto, proxy, healthy, all
  <2> QED
    BY <2>1, TypedGroup
<1> HIDE DEF healthy, two, auto, all, proxy, A, P
<1>3. \A x : IsList(<<x>>) /\ UniqueTags(<<x>>) /\ ToTags(<<x>>) = {x.tag}
  BY SingleTag
<1>4. IsList(<<>>) /\ UniqueTags(<<>>) /\ ToTags(<<>>) = {}
  BY SingleTag
<1>5. IsList(left) /\ UniqueTags(left) /\ ToTags(left) \subseteq {"Auto"}
  BY <1>2, <1>3, <1>4
<1> DEFINE last == <<P>>
<1>6. IsList(last) /\ UniqueTags(last) /\ ToTags(last) = {"PROXY"}
  BY <1>2, <1>3
<1> HIDE DEF left, last
<1>7. UniqueTags(left \o last)
  <2>1. ToTags(left) \cap ToTags(last) = {}
    BY <1>5, <1>6
  <2> QED
    BY <1>5, <1>6, <2>1, UniqueConcat
<1>8. ToTags(left \o last) = ToTags(left) \cup ToTags(last)
  <2>1. ToSet(left \o last) = ToSet(left) \cup ToSet(last)
    BY <1>5, <1>6, ConcatList
  <2>2. /\ ToTags(left \o last) = {x.tag : x \in ToSet(left \o last)}
        /\ ToTags(left) = {x.tag : x \in ToSet(left)}
        /\ ToTags(last) = {x.tag : x \in ToSet(last)}
    BY TagsOfList
  <2> QED
    BY <2>1, <2>2
<1>9. groups = IF sorted = <<>> THEN <<>> ELSE left \o last
  BY <1>1 DEF last
<1> QED
  BY <1>4, <1>5, <1>6, <1>7, <1>8, <1>9

LEMMA UniqueDefault == StubInv /\ UniqueInv /\ DefaultGroups => UniqueInv'
<1> SUFFICES ASSUME StubInv, UniqueInv, DefaultGroups, ~NamesClash(input) PROVE UniqueInv'
  BY DEF UniqueInv, DefaultGroups
<1> DEFINE sorted == SetToSeq(t.proxyTags)
           groups == GenerateDefaultGroups(sorted, t.invalid)
           proxy == <<"PROXY">>
<1>1. /\ pc = "default" /\ pc' = "rules" /\ UNCHANGED input
      /\ \/ t' = t
         \/ t' = [t EXCEPT !.groups = groups,
                           !.order = IF sorted = <<>> THEN <<>> ELSE proxy]
  BY DEF DefaultGroups, Goto
<1>2. UniqueTags(groups) /\ ToTags(groups) \subseteq {"Auto", "PROXY"}
  BY DefaultUnique
<1> HIDE DEF groups, sorted, proxy
<1>3. /\ UniqueTags(t.proxies) /\ t.proxyTags \cap {"DIRECT", "PROXY", "Auto"} = {}
      /\ UniqueTags(t.groups) /\ ToTags(t.groups) \cap (t.proxyTags \cup {"DIRECT"}) = {}
  BY <1>1 DEF UniqueInv, Working
<1>4. CASE t' = t
  BY <1>1, <1>3, <1>4 DEF UniqueInv
<1>5. CASE t' = [t EXCEPT !.groups = groups,
                          !.order = IF sorted = <<>> THEN <<>> ELSE proxy]
  <2>1. t'.groups = groups /\ t'.proxyTags = t.proxyTags /\ t'.proxies = t.proxies
    BY <1>5 DEF StubInv, InputInv, Fields
  <2>2. ToTags(groups) \cap (t.proxyTags \cup {"DIRECT"}) = {}
    BY <1>2, <1>3
  <2> QED
    BY <1>1, <1>2, <1>3, <2>1, <2>2 DEF UniqueInv
<1> QED
  BY <1>1, <1>4, <1>5

LEMMA UniqueLater ==
  StubInv /\ UniqueInv /\ (Rules \/ DNS \/ DNSRules \/ Assemble \/ Validate) => UniqueInv'
<1> SUFFICES ASSUME StubInv, UniqueInv, Rules \/ DNS \/ DNSRules \/ Assemble \/ Validate,
                    ~NamesClash(input)
             PROVE  UniqueInv'
  BY DEF UniqueInv, Rules, DNS, DNSRules, Assemble, Validate
<1>1. DOMAIN t = Fields
  BY DEF StubInv, InputInv
<1>2. /\ pc \in Later /\ UNCHANGED input
  BY DEF Rules, DNS, DNSRules, Assemble, Validate, Later
<1>3. t'.groups = t.groups /\ t'.proxyTags = t.proxyTags /\ t'.proxies = t.proxies
  <2>1. ASSUME NEW a, NEW b, t' = [t EXCEPT !.rules = a, !.ruleSets = b]
        PROVE  <1>3!:
    BY <1>1, <2>1 DEF Fields
  <2>2. ASSUME NEW a, t' = [t EXCEPT !.dns = a]
        PROVE  <1>3!:
    BY <1>1, <2>2 DEF Fields
  <2>3. ASSUME NEW a, NEW b, t' = [t EXCEPT !.dns = a, !.ruleSets = b]
        PROVE  <1>3!:
    BY <1>1, <2>3 DEF Fields
  <2>4. CASE Rules
    BY <2>1, <2>4 DEF Rules
  <2>5. CASE DNS
    BY <2>2, <2>5 DEF DNS
  <2>6. CASE DNSRules
    BY <2>3, <2>6 DEF DNSRules
  <2>7. CASE Assemble \/ Validate
    BY <2>7 DEF Assemble, Validate
  <2> QED
    BY <2>4, <2>5, <2>6, <2>7
<1>4. /\ UniqueTags(t.proxies) /\ t.proxyTags \cap {"DIRECT", "PROXY", "Auto"} = {}
      /\ UniqueTags(t.groups) /\ ToTags(t.groups) \cap (t.proxyTags \cup {"DIRECT"}) = {}
  BY <1>2 DEF UniqueInv, Working, Later
<1> QED
  BY <1>2, <1>3, <1>4 DEF UniqueInv

LEMMA UniqueNext == StubInv /\ UniqueInv /\ [Next]_vars => UniqueInv'
<1> SUFFICES ASSUME StubInv, UniqueInv, [Next]_vars PROVE UniqueInv'
  OBVIOUS
<1>1. CASE UNCHANGED vars
  BY <1>1 DEF UniqueInv, vars, Ended
<1>2. CASE Detect \/ UpgradeStored \/ Reconvert
  <2>1. \/ pc' \in {"detect", "upgrade", "proxies"}
        \/ pc' = "done" /\ input'.kind # "yaml"
    BY <1>2 DEF Detect, UpgradeStored, Reconvert, Goto, End, StubInv, InputInv
  <2> QED
    BY <2>1 DEF UniqueInv, Later, Working, Ended
<1> QED
  BY <1>1, <1>2, UniqueProxies, UniqueGroups, UniqueCleanup, UniqueDefault, UniqueLater DEF Next

LEMMA UniqueInvariant == Spec => [](ConfigInv /\ UniqueInv)
<1>1. Init => UniqueInv
  BY DEF Init, UniqueInv, Later, Working, Ended
<1>2. ConfigInv /\ UniqueInv /\ [Next]_vars => UniqueInv'
  BY UniqueNext DEF ConfigInv
<1> QED
  BY <1>1, <1>2, ConfigInvariant, PTL DEF Spec

LEMMA NoDuplicate ==
  ASSUME ConfigInv, UniqueInv, Ended, ~NamesClash(input)
  PROVE  ~DuplicateTag(out)
<1> DEFINE front == <<Direct>> \o t.proxies
           obs == front \o t.groups
<1>1. /\ t.proxies \in Seq(Outbound) /\ t.groups \in Seq(Outbound)
      /\ t.proxyTags = ToTags(t.proxies)
  BY DEF ConfigInv, StubInv, ProxiesInv, GroupsInv, Ended
<1>2. IsList(t.proxies) /\ IsList(t.groups)
  BY <1>1, ListFacts
<1>3. /\ UniqueTags(t.proxies) /\ t.proxyTags \cap {"DIRECT", "PROXY", "Auto"} = {}
      /\ UniqueTags(t.groups) /\ ToTags(t.groups) \cap (t.proxyTags \cup {"DIRECT"}) = {}
  BY DEF UniqueInv
<1>4. IsList(<<Direct>>) /\ UniqueTags(<<Direct>>) /\ ToTags(<<Direct>>) = {"DIRECT"}
  <2>1. Direct.tag = "DIRECT"
    BY OutOutbounds
  <2> QED
    BY <2>1, SingleTag
<1>5. IsList(front) /\ UniqueTags(front)
  <2>1. ToTags(<<Direct>>) \cap ToTags(t.proxies) = {}
    BY <1>1, <1>3, <1>4
  <2>2. UniqueTags(front)
    BY <1>2, <1>3, <1>4, <2>1, UniqueConcat
  <2>3. IsList(front)
    BY <1>2, <1>4, ConcatList
  <2> QED
    BY <2>2, <2>3
<1>6. ToTags(front) = {"DIRECT"} \cup t.proxyTags
  <2>1. ToSet(front) = ToSet(<<Direct>>) \cup ToSet(t.proxies)
    BY <1>2, <1>4, ConcatList
  <2>2. /\ ToTags(front) = {x.tag : x \in ToSet(front)}
        /\ ToTags(<<Direct>>) = {x.tag : x \in ToSet(<<Direct>>)}
        /\ ToTags(t.proxies) = {x.tag : x \in ToSet(t.proxies)}
    BY TagsOfList
  <2> HIDE DEF front
  <2> QED
    BY <1>1, <1>4, <2>1, <2>2
<1> HIDE DEF front
<1>7. UniqueTags(obs)
  <2>1. ToTags(front) \cap ToTags(t.groups) = {}
    BY <1>3, <1>6
  <2> QED
    BY <1>2, <1>3, <1>5, <2>1, UniqueConcat
<1>8. IsList(obs)
  BY <1>2, <1>5, ConcatList
<1>9. out.outbounds = obs
  BY ShapeOfOut DEF Shape, front
<1> HIDE DEF obs
<1> QED
  BY <1>7, <1>8, <1>9, UniqueLength DEF DuplicateTag, OutboundTags

LEMMA RefusedHold == ConfigInv /\ UniqueInv => RefusedForNamesOnly
<1> SUFFICES ASSUME ConfigInv, UniqueInv, Ended, ~NamesClash(input) PROVE result = "ok"
  BY DEF RefusedForNamesOnly, Ended
<1> DEFINE tags == OutboundTags(out)
           servers == ToTags(out.dns.servers)
<1>1. ~DuplicateTag(out)
  BY NoDuplicate
<1>2. /\ \A o \in ToSet(out.outbounds) : ToSet(o.members) \subseteq tags
      /\ out.route.final \in tags
      /\ \A r \in ToSet(out.dns.rules) : r.server \in servers
      /\ \A s \in ToSet(out.dns.servers) : s.detour \in tags \cup {NoName}
      /\ out.dns.final \in servers \cup {NoName}
  BY OutReferences
<1> HIDE DEF tags, servers
<1>3. ~DanglingMember(out)
  BY <1>2 DEF DanglingMember, ToSet, tags
<1>4. ~DanglingDNS(out)
  <2>1. \A i \in DOMAIN out.dns.servers : out.dns.servers[i].detour \in tags \cup {""}
    <3>1. \A i \in DOMAIN out.dns.servers : out.dns.servers[i].detour \in tags \cup {NoName}
      BY <1>2 DEF ToSet
    <3> QED
      BY <3>1, Zenon DEF NoName
  <2>2. \A i \in DOMAIN out.dns.rules : out.dns.rules[i].server \in servers \cup {""}
    <3>1. \A i \in DOMAIN out.dns.rules : out.dns.rules[i].server \in servers
      BY <1>2 DEF ToSet
    <3> QED
      BY <3>1, Zenon
  <2>3. out.dns.final \in servers \cup {""}
    BY <1>2, Zenon DEF NoName
  <2> QED
    BY <2>1, <2>2, <2>3, Zenon DEF DanglingDNS, tags, servers
<1>5. result = IF DuplicateTag(out) THEN "duplicate"
               ELSE IF DanglingMember(out) \/ out.route.final \notin tags \/ DanglingDNS(out)
                 THEN "dangling"
               ELSE "ok"
  BY DEF ConfigInv, FormInv, tags
<1> QED
  BY <1>1, <1>2, <1>3, <1>4, <1>5

(***************************************************************************)
(* A configuration is refused for a name that occurs twice, or that the    *)
(* translator uses itself, and for nothing else: whatever the groups refer *)
(* to, nothing is left for validate to find (group.go:94-98,               *)
(* group.go:159-161).                                                      *)
(***************************************************************************)
THEOREM RefusedOnlyForNames == Spec => []RefusedForNamesOnly
BY UniqueInvariant, RefusedHold, PTL

(***************************************************************************)
(* Where a connection goes: the first rule that matches it decides.        *)
(***************************************************************************)
Hits(rules, d, mode) == {r \in ToSet(rules) : r.action # "sniff" /\ RouteMatches(r, d, mode)}

Outcome(r) == IF r.action = "route" THEN r.outbound ELSE r.action

LEMMA RouteTaken ==
  ASSUME NEW route, IsList(route.rules), NEW d, NEW mode
  PROVE  /\ Hits(route.rules, d, mode) = {} => RouteOf(route, d, mode) = route.final
         /\ \A x : First(route.rules, Hits(route.rules, d, mode), x) =>
              RouteOf(route, d, mode) = Outcome(x)
<1> DEFINE rules == route.rules
           S == Hits(rules, d, mode)
           hits == {i \in DOMAIN rules :
                      rules[i].action # "sniff" /\ RouteMatches(rules[i], d, mode)}
           hit == rules[Min(hits)]
<1>1. RouteOf(route, d, mode) = IF hits = {} THEN route.final
                                ELSE IF hit.action = "route" THEN hit.outbound ELSE hit.action
  BY DEF RouteOf
<1>2. \A i : i \in hits <=> i \in DOMAIN rules /\ rules[i] \in S
  BY DEF Hits, ToSet
<1>3. DOMAIN rules = 1..Len(rules) /\ Len(rules) \in Nat
  BY ListFacts
<1>4. Min(hits) = CHOOSE i \in hits : \A j \in hits : i <= j
  BY DEF Min
<1> HIDE DEF hits
<1>5. S = {} => hits = {}
  BY <1>2
<1> HIDE DEF S
<1>6. ASSUME NEW x, First(rules, S, x) PROVE hits # {} /\ hit = x
  <2>1. PICK i \in DOMAIN rules : /\ rules[i] = x /\ x \in S
                                  /\ \A j \in DOMAIN rules : j < i => rules[j] \notin S
    BY <1>6 DEF First
  <2>2. i \in hits
    BY <1>2, <2>1
  <2>3. \A j \in hits : j \in DOMAIN rules /\ ~(j < i)
    BY <1>2, <2>1
  <2> HIDE DEF rules
  <2>4. \A j \in hits : i <= j
    BY <1>3, <2>3
  <2>5. \A k \in hits : k <= i => k = i
    BY <1>3, <2>1, <2>3
  <2>6. (CHOOSE k \in hits : \A j \in hits : k <= j) = i
    BY <2>2, <2>4, <2>5
  <2> QED
    BY <1>4, <2>1, <2>2, <2>6 DEF rules
<1> QED
  BY <1>1, <1>5, <1>6 DEF S, Outcome

LEMMA Matching ==
  \A r, d, mode : RouteMatches(r, d, mode) <=>
    /\ r.mode \in {NoName, mode}
    /\ r.dns => d.dns
    /\ \/ ~r.private /\ r.ruleSet \cup r.suffix = {}
       \/ r.private /\ d.private
       \/ (d.sites \cup d.addrs) \cap r.ruleSet # {}
       \/ d.suffixes \cap r.suffix # {}
BY Zenon DEF RouteMatches, NoName

LEMMA NotAMode == NoName # "Rule" /\ NoName # "Direct" /\ NoName # "Global"
BY Zenon DEF NoName

(* What the rules of the country look at. *)
Wanted(r, d) ==
  \/ r.private /\ d.private
  \/ (d.sites \cup d.addrs) \cap r.ruleSet # {}
  \/ d.suffixes \cap r.suffix # {}

WantedOf(rules, d) == {r \in ToSet(rules) : Wanted(r, d)}

Verdict(r) == IF r.outbound = "REJECT" THEN "reject" ELSE r.outbound

LEMMA CountryHit ==
  ASSUME NEW first, NEW r, CountryRoute(r, first), NEW d
  PROVE  /\ RouteMatches(Finished(r), d, "Rule") <=> Wanted(r, d)
         /\ Finished(r).action # "sniff"
         /\ Outcome(Finished(r)) = Verdict(r)
         /\ \A mode \in {"Direct", "Global"} :
               r.outbound # "REJECT" => ~RouteMatches(Finished(r), d, mode)
<1> DEFINE f == Finished(r)
<1>1. /\ f.ruleSet = r.ruleSet /\ f.suffix = r.suffix /\ f.private = r.private /\ f.dns = FALSE
      /\ r.outbound # "REJECT" => f.outbound = r.outbound /\ f.action = "route" /\ f.mode = "Rule"
      /\ r.outbound = "REJECT" => f.action = "reject"
  BY FinishedRoute
<1>2. r.outbound = "REJECT" => f.mode = NoName
  BY FinishedRoute, Zenon DEF NoName
<1>3. ~r.private => r.ruleSet \cup r.suffix # {}
  BY Zenon DEF CountryRoute
<1> HIDE DEF f
<1>4. RouteMatches(f, d, "Rule") <=> Wanted(r, d)
  BY <1>1, <1>2, <1>3, Matching DEF Wanted
<1>5. f.action # "sniff" /\ Outcome(f) = Verdict(r)
  BY <1>1 DEF Outcome, Verdict
<1>6. ASSUME NEW mode \in {"Direct", "Global"}, r.outbound # "REJECT"
      PROVE  ~RouteMatches(f, d, mode)
  BY <1>1, <1>6, Matching, NotAMode
<1> QED
  BY <1>4, <1>5, <1>6 DEF f

(* The first rules of a route: two actions, the rules of the other modes. *)
LEMMA ModeRecords ==
  /\ Sniff.action = "sniff"
  /\ Hijack.action = "hijack-dns" /\ Hijack.mode = NoName /\ Hijack.dns = TRUE
  /\ Hijack.private = FALSE /\ Hijack.ruleSet = {} /\ Hijack.suffix = {}
  /\ \A mode, to : /\ ModeRule(mode, to).mode = mode /\ ModeRule(mode, to).outbound = to
                   /\ ModeRule(mode, to).action = "route" /\ ModeRule(mode, to).dns = FALSE
                   /\ ModeRule(mode, to).private = FALSE
                   /\ ModeRule(mode, to).ruleSet = {} /\ ModeRule(mode, to).suffix = {}
<1>1. Hijack.mode = NoName
  BY DefaultRecords, Zenon DEF NoName
<1>2. /\ Sniff.action = "sniff"
      /\ Hijack.action = "hijack-dns" /\ Hijack.dns = TRUE
      /\ Hijack.private = FALSE /\ Hijack.ruleSet = {} /\ Hijack.suffix = {}
  BY DefaultRecords, Zenon
<1>3. ASSUME NEW mode, NEW to
      PROVE  /\ ModeRule(mode, to).mode = mode /\ ModeRule(mode, to).outbound = to
             /\ ModeRule(mode, to).action = "route" /\ ModeRule(mode, to).dns = FALSE
             /\ ModeRule(mode, to).private = FALSE
             /\ ModeRule(mode, to).ruleSet = {} /\ ModeRule(mode, to).suffix = {}
  <2>1. /\ DOMAIN NoRoute = RouteFields /\ NoRoute.private = FALSE
        /\ NoRoute.ruleSet = {} /\ NoRoute.suffix = {} /\ NoRoute.dns = FALSE
    BY DEF NoRoute, RouteFields
  <2> QED
    BY <2>1 DEF ModeRule, RouteFields
<1> QED
  BY <1>1, <1>2, <1>3

LEMMA ModesOf ==
  ASSUME NEW first
  PROVE  /\ first = NoName => ModeRules(first) = <<>> /\ ToSet(ModeRules(first)) = {}
         /\ first # NoName =>
              ToSet(ModeRules(first)) = {ModeRule("Direct", "DIRECT"), ModeRule("Global", first)}
<1>1. ModeRules(first) = IF first = NoName THEN <<>>
                         ELSE <<ModeRule("Direct", "DIRECT"), ModeRule("Global", first)>>
  BY Zenon DEF ModeRules, NoName
<1> QED
  BY <1>1, ShortLists

(* A DNS query is answered by the program itself, in any mode. *)
LEMMA QueriesHijacked ==
  ASSUME NEW rules, NEW first, IsList(rules), \A r \in ToSet(rules) : CountryRoute(r, first),
         NEW route, route.rules = AssembleRules(rules, first),
         NEW d, d.dns = TRUE, NEW mode
  PROVE  RouteOf(route, d, mode) = "hijack-dns"
<1> DEFINE pair == <<Sniff, Hijack>>
           modes == ModeRules(first)
           finished == [i \in DOMAIN rules |-> Finished(rules[i])]
           all == route.rules
           S == Hits(all, d, mode)
<1>1. /\ IsList(pair) /\ IsList(modes) /\ IsList(finished) /\ IsList(all)
      /\ all = (pair \o modes) \o finished
      /\ ToSet(all) = {Sniff, Hijack} \cup ToSet(modes) \cup {Finished(r) : r \in ToSet(rules)}
  BY AssembledParts
<1>2. ToSet(pair) = {Sniff, Hijack}
  BY ShortLists
<1>3. Hijack \in S /\ Sniff \notin S
  <2>1. RouteMatches(Hijack, d, mode)
    BY ModeRecords, Matching
  <2>2. Hijack.action # "sniff" /\ Sniff.action = "sniff"
    BY ModeRecords
  <2>3. Hijack \in ToSet(all)
    BY <1>1
  <2> QED
    BY <2>1, <2>2, <2>3 DEF Hits
<1> HIDE DEF pair, modes, finished
<1>4. ASSUME NEW x, First(all, S, x) PROVE x = Hijack
  <2> HIDE DEF S
  <2> DEFINE front == pair \o modes
  <2>1. IsList(front) /\ ToSet(front) = ToSet(pair) \cup ToSet(modes)
    BY <1>1, ConcatList
  <2>2. ToSet(pair) \cap S # {} /\ ToSet(front) \cap S # {}
    BY <1>2, <1>3, <2>1
  <2>3. First(front \o finished, S, x)
    BY <1>1, <1>4
  <2>4. First(front, S, x)
    <3> HIDE DEF front
    <3> QED
      BY <1>1, <2>1, <2>2, <2>3, FirstFront
  <2>5. First(pair, S, x) /\ x \in ToSet(pair)
    BY <1>1, <2>2, <2>4, FirstFront
  <2>6. x \in S
    BY <2>5 DEF First
  <2> QED
    BY <1>2, <1>3, <2>5, <2>6
<1>5. \E x \in S : First(all, S, x)
  <2>1. ToSet(all) \cap S # {}
    BY <1>1, <1>3
  <2> HIDE DEF S
  <2> QED
    BY <1>1, <2>1, FirstExists
<1>6. First(all, S, Hijack)
  BY <1>4, <1>5
<1>7. RouteOf(route, d, mode) = Outcome(Hijack)
  BY <1>1, <1>6, RouteTaken
<1>8. Outcome(Hijack) = "hijack-dns"
  BY ModeRecords DEF Outcome
<1> QED
  BY <1>7, <1>8

(* Mode Direct uses DIRECT and mode Global the first group.                *)
LEMMA ModeTaken ==
  ASSUME NEW rules, NEW first, IsList(rules), \A r \in ToSet(rules) : CountryRoute(r, first),
         NEW route, route.rules = AssembleRules(rules, first),
         route.final = RouteFinal(first), NEW d, d.dns = FALSE
  PROVE  RouteOf(route, d, "Direct") = "DIRECT" /\ RouteOf(route, d, "Global") = route.final
<1> DEFINE final == route.final
<1>0. /\ first = NoName => final = "DIRECT"
      /\ first # NoName => final = first
  <2>1. RouteFinal(first) = IF first = NoName THEN "DIRECT" ELSE first
    BY Zenon DEF RouteFinal, NoName
  <2> QED
    BY <2>1
<1> HIDE DEF final
<1> SUFFICES ASSUME NEW mode \in {"Direct", "Global"}, NEW to,
                    to = IF mode = "Direct" THEN "DIRECT" ELSE final
             PROVE  RouteOf(route, d, mode) = to
  BY DEF final
<1> DEFINE pair == <<Sniff, Hijack>>
           modes == ModeRules(first)
           finished == [i \in DOMAIN rules |-> Finished(rules[i])]
           all == route.rules
           S == Hits(all, d, mode)
           M == ModeRule(mode, to)
<1>1. /\ IsList(pair) /\ IsList(modes) /\ IsList(finished) /\ IsList(all)
      /\ all = (pair \o modes) \o finished
      /\ ToSet(all) = {Sniff, Hijack} \cup ToSet(modes) \cup {Finished(r) : r \in ToSet(rules)}
  BY AssembledParts
<1>2. ToSet(pair) = {Sniff, Hijack}
  BY ShortLists
<1>3. Hijack \notin S /\ Sniff \notin S
  <2>1. ~RouteMatches(Hijack, d, mode)
    BY ModeRecords, Matching
  <2>2. Sniff.action = "sniff"
    BY ModeRecords
  <2> QED
    BY <2>1, <2>2 DEF Hits
<1>4. first # NoName =>
        ToSet(modes) = {ModeRule("Direct", "DIRECT"), ModeRule("Global", first)}
  BY ModesOf
<1>5. \A m, n : m # NoName /\ ModeRule(m, n) \in S => m = mode
  <2> TAKE m, n
  <2> DEFINE r == ModeRule(m, n)
  <2>1. r.mode = m
    BY ModeRecords
  <2>2. r \in S => r.mode \in {NoName, mode}
    BY Matching DEF Hits
  <2> HIDE DEF r
  <2> QED
    BY <2>1, <2>2 DEF r
<1> HIDE DEF pair, modes, finished
<1>6. CASE first # NoName
  <2>1. M \in ToSet(modes)
    BY <1>0, <1>4, <1>6
  <2>2. M \in S
    <3>1. RouteMatches(M, d, mode)
      BY ModeRecords, Matching
    <3>2. M.action # "sniff"
      BY ModeRecords
    <3>3. M \in ToSet(all)
      BY <1>1, <2>1
    <3> HIDE DEF M
    <3> QED
      BY <3>1, <3>2, <3>3 DEF Hits
  <2>3. ASSUME NEW x, First(all, S, x) PROVE x = M
    <3> HIDE DEF S, M
    <3> DEFINE front == pair \o modes
    <3>1. IsList(front) /\ ToSet(front) = ToSet(pair) \cup ToSet(modes)
      BY <1>1, ConcatList
    <3>2. ToSet(pair) \cap S = {} /\ ToSet(front) \cap S # {}
      BY <1>2, <1>3, <2>1, <2>2, <3>1
    <3>3. First(front \o finished, S, x)
      BY <1>1, <2>3
    <3>4. First(front, S, x)
      <4> HIDE DEF front
      <4> QED
        BY <1>1, <3>1, <3>2, <3>3, FirstFront
    <3>5. First(modes, S, x) /\ x \in ToSet(modes)
      BY <1>1, <3>2, <3>4, FirstBack
    <3>6. x \in S
      BY <3>5 DEF First
    <3>7. x = ModeRule("Direct", "DIRECT") \/ x = ModeRule("Global", first)
      BY <1>4, <1>6, <3>5
    <3>8. PICK m, n : /\ x = ModeRule(m, n) /\ m # NoName
                      /\ \/ m = "Direct" /\ n = "DIRECT"
                         \/ m = "Global" /\ n = first
      BY <3>7, NotAMode
    <3>9. m = mode
      BY <1>5, <3>6, <3>8
    <3>10. n = to
      BY <1>0, <1>6, <3>8, <3>9
    <3> QED
      BY <3>8, <3>9, <3>10 DEF M
  <2>4. \E x \in S : First(all, S, x)
    <3>1. ToSet(all) \cap S # {}
      BY <1>1, <2>1, <2>2
    <3> HIDE DEF S
    <3> QED
      BY <1>1, <3>1, FirstExists
  <2>5. First(all, S, M)
    BY <2>3, <2>4
  <2>6. RouteOf(route, d, mode) = Outcome(M)
    BY <1>1, <2>5, RouteTaken
  <2>7. Outcome(M) = to
    BY ModeRecords DEF Outcome
  <2> QED
    BY <2>6, <2>7
<1>7. CASE first = NoName
  <2>1. ToSet(modes) = {}
    BY <1>7, ModesOf DEF modes
  <2>2. ASSUME NEW r \in ToSet(rules) PROVE Finished(r) \notin S
    <3>1. CountryRoute(r, first)
      OBVIOUS
    <3>2. r.outbound = "DIRECT"
      BY <1>7, <3>1, Zenon DEF CountryRoute, NoName
    <3>3. r.outbound # "REJECT"
      BY <3>2
    <3>4. ~RouteMatches(Finished(r), d, mode)
      BY <3>1, <3>3, CountryHit
    <3> QED
      BY <3>4 DEF Hits
  <2>3. S \subseteq ToSet(all)
    BY DEF Hits
  <2>4. S = {}
    <3> HIDE DEF S
    <3> QED
      BY <1>1, <1>3, <2>1, <2>2, <2>3
  <2>5. RouteOf(route, d, mode) = route.final
    BY <1>1, <2>4, RouteTaken
  <2>6. to = final
    BY <1>0, <1>7
  <2> QED
    BY <2>5, <2>6 DEF final
<1> QED
  BY <1>6, <1>7

(* Mode Rule uses the first rule of the country that looks at the          *)
(* connection, and the final outbound if there is none.                    *)
LEMMA RuleTaken ==
  ASSUME NEW rules, NEW first, IsList(rules), \A r \in ToSet(rules) : CountryRoute(r, first),
         NEW route, route.rules = AssembleRules(rules, first),
         NEW d, d.dns = FALSE
  PROVE  /\ WantedOf(rules, d) = {} => RouteOf(route, d, "Rule") = route.final
         /\ WantedOf(rules, d) # {} =>
              \E r \in ToSet(rules) : /\ First(rules, WantedOf(rules, d), r)
                                      /\ RouteOf(route, d, "Rule") = Verdict(r)
<1> DEFINE pair == <<Sniff, Hijack>>
           modes == ModeRules(first)
           finished == [i \in DOMAIN rules |-> Finished(rules[i])]
           all == route.rules
           S == Hits(all, d, "Rule")
           T == WantedOf(rules, d)
           front == pair \o modes
<1>1. /\ IsList(pair) /\ IsList(modes) /\ IsList(finished) /\ IsList(all)
      /\ all = front \o finished
      /\ ToSet(all) = {Sniff, Hijack} \cup ToSet(modes) \cup {Finished(r) : r \in ToSet(rules)}
  BY AssembledParts
<1>2. IsList(front) /\ ToSet(front) = {Sniff, Hijack} \cup ToSet(modes)
  <2>1. ToSet(pair) = {Sniff, Hijack}
    BY ShortLists
  <2> HIDE DEF pair, modes
  <2> QED
    BY <1>1, <2>1, ConcatList
<1>3. Hijack \notin S /\ Sniff \notin S
  <2>1. ~RouteMatches(Hijack, d, "Rule")
    BY ModeRecords, Matching
  <2>2. Sniff.action = "sniff"
    BY ModeRecords
  <2> QED
    BY <2>1, <2>2 DEF Hits
<1>4. \A r \in ToSet(modes) : r \notin S
  <2>1. ASSUME NEW m \in {"Direct", "Global"}, NEW n PROVE ModeRule(m, n) \notin S
    <3>1. ModeRule(m, n).mode = m
      BY ModeRecords
    <3>2. ~RouteMatches(ModeRule(m, n), d, "Rule")
      BY <3>1, Matching, NotAMode
    <3> QED
      BY <3>2 DEF Hits
  <2>2. \A r \in ToSet(modes) : r = ModeRule("Direct", "DIRECT") \/ r = ModeRule("Global", first)
    BY ModesOf
  <2> HIDE DEF S, modes
  <2> QED
    BY <2>1, <2>2
<1>5. DOMAIN finished = DOMAIN rules /\ \A i \in DOMAIN rules : finished[i] = Finished(rules[i])
  OBVIOUS
<1> HIDE DEF pair, modes, finished, front
<1>6. ToSet(front) \cap S = {}
  <2> HIDE DEF S
  <2> QED
    BY <1>2, <1>3, <1>4
<1>7. \A r \in ToSet(rules) : (Finished(r) \in S <=> r \in T) /\ Outcome(Finished(r)) = Verdict(r)
  <2> TAKE r \in ToSet(rules)
  <2>1. CountryRoute(r, first) /\ Finished(r) \in ToSet(all)
    BY <1>1
  <2>2. /\ RouteMatches(Finished(r), d, "Rule") <=> Wanted(r, d)
        /\ Finished(r).action # "sniff"
        /\ Outcome(Finished(r)) = Verdict(r)
    BY <2>1, CountryHit
  <2> QED
    BY <2>1, <2>2 DEF Hits, WantedOf
<1>8. S \subseteq ToSet(all) /\ T \subseteq ToSet(rules)
  BY DEF Hits, WantedOf
<1> HIDE DEF S, T
<1>9. S # {} <=> T # {}
  <2>1. S \subseteq {Finished(r) : r \in ToSet(rules)}
    BY <1>1, <1>2, <1>6, <1>8
  <2> QED
    BY <1>7, <1>8, <2>1
<1>10. ASSUME NEW x, First(all, S, x)
       PROVE  \E r \in ToSet(rules) : First(rules, T, r) /\ Outcome(x) = Verdict(r)
  <2>1. First(front \o finished, S, x)
    BY <1>1, <1>10
  <2>2. First(finished, S, x)
    BY <1>1, <1>2, <1>6, <2>1, FirstBack
  <2>3. PICK i \in DOMAIN finished :
          /\ finished[i] = x /\ x \in S
          /\ \A j \in DOMAIN finished : j < i => finished[j] \notin S
    BY <2>2 DEF First
  <2>4. \A j \in DOMAIN rules : rules[j] \in ToSet(rules)
    BY DEF ToSet
  <2>5. rules[i] \in T /\ \A j \in DOMAIN rules : j < i => rules[j] \notin T
    BY <1>5, <1>7, <2>3, <2>4
  <2>6. First(rules, T, rules[i])
    BY <1>5, <2>3, <2>5 DEF First
  <2>7. Outcome(x) = Verdict(rules[i])
    BY <1>5, <1>7, <2>3, <2>4
  <2> QED
    BY <1>5, <2>3, <2>4, <2>6, <2>7
<1>11. S = {} => RouteOf(route, d, "Rule") = route.final
  BY <1>1, RouteTaken DEF S
<1>12. ASSUME S # {}
       PROVE  \E r \in ToSet(rules) : First(rules, T, r) /\ RouteOf(route, d, "Rule") = Verdict(r)
  <2>1. PICK x \in S : First(all, S, x)
    <3>1. ToSet(all) \cap S # {}
      BY <1>8, <1>12
    <3> QED
      BY <1>1, <3>1, FirstExists
  <2>2. RouteOf(route, d, "Rule") = Outcome(x)
    BY <1>1, <2>1, RouteTaken DEF S
  <2> QED
    BY <1>10, <2>1, <2>2
<1> QED
  BY <1>9, <1>11, <1>12 DEF T

(* The rules of the country, one by one. *)
PrivateRule == [NoRoute EXCEPT !.private = TRUE, !.outbound = "DIRECT"]

LEMMA RuleContents ==
  /\ PrivateRule.private = TRUE /\ PrivateRule.outbound = "DIRECT"
  /\ PrivateRule.ruleSet = {} /\ PrivateRule.suffix = {}
  /\ \A set, to : /\ RuleSetTo({set}, to).ruleSet = {set} /\ RuleSetTo({set}, to).outbound = to
                  /\ RuleSetTo({set}, to).private = FALSE /\ RuleSetTo({set}, to).suffix = {}
<1>1. /\ DOMAIN NoRoute = RouteFields /\ NoRoute.private = FALSE
      /\ NoRoute.ruleSet = {} /\ NoRoute.suffix = {}
  BY DEF NoRoute, RouteFields
<1>2. /\ PrivateRule.private = TRUE /\ PrivateRule.outbound = "DIRECT"
      /\ PrivateRule.ruleSet = {} /\ PrivateRule.suffix = {}
  BY <1>1 DEF PrivateRule, RouteFields
<1>3. ASSUME NEW set, NEW to
      PROVE  /\ RuleSetTo({set}, to).ruleSet = {set} /\ RuleSetTo({set}, to).outbound = to
             /\ RuleSetTo({set}, to).private = FALSE /\ RuleSetTo({set}, to).suffix = {}
  BY <1>1 DEF RuleSetTo, RouteFields
<1> QED
  BY <1>2, <1>3

LEMMA RuleWanted ==
  ASSUME NEW d, d \in Dests
  PROVE  /\ Wanted(PrivateRule, d) <=> d.private
         /\ \A set, to : Wanted(RuleSetTo({set}, to), d) <=> set \in d.sites \cup d.addrs
         /\ \A set \in DomainRuleSets : set \in d.sites \cup d.addrs <=> set \in d.sites
<1>1. d.private \in BOOLEAN /\ d.addrs \cap DomainRuleSets = {}
  BY DestsAssumption
<1>2. Wanted(PrivateRule, d) <=> d.private
  BY <1>1, RuleContents DEF Wanted
<1>3. ASSUME NEW set, NEW to
      PROVE  Wanted(RuleSetTo({set}, to), d) <=> set \in d.sites \cup d.addrs
  <2> DEFINE r == RuleSetTo({set}, to)
  <2>1. r.ruleSet = {set} /\ r.private = FALSE /\ r.suffix = {}
    BY RuleContents
  <2> HIDE DEF r
  <2>2. Wanted(r, d) <=> set \in d.sites \cup d.addrs
    BY <2>1 DEF Wanted
  <2> QED
    BY <2>2 DEF r
<1> QED
  BY <1>1, <1>2, <1>3

ChinaTail(proxy) ==
  <<RuleSetTo({"geosite-geolocation-!cn"}, proxy),
    RuleSetTo({"geosite-cn"}, "DIRECT"),
    RuleSetTo({"geoip-cn"}, "DIRECT"),
    [NoRoute EXCEPT !.suffix = {".cn"}, !.outbound = "DIRECT"]>>

ChinaRules(proxy) == (<<RuleSetTo({"overseas-ai"}, proxy)>> \o Services) \o ChinaTail(proxy)

FirstRules == <<PrivateRule, RuleSetTo({"geosite-private"}, "DIRECT")>>

(* Every country begins with what is private; China goes on with services. *)
LEMMA CountryParts ==
  ASSUME NEW cc, NEW first, NEW rules, rules = TranslateRules(cc, first)
  PROVE  /\ IsList(FirstRules)
         /\ ToSet(FirstRules) = {PrivateRule, RuleSetTo({"geosite-private"}, "DIRECT")}
         /\ \E rest : /\ IsList(rest) /\ rules = FirstRules \o rest
                      /\ cc = "cn" => rest = ChinaRules(RouteFinal(first))
<1> DEFINE proxy == RouteFinal(first)
           c1 == RuleSetTo({"geoip-" \o cc}, "DIRECT")
           c2 == [NoRoute EXCEPT !.suffix = {"." \o cc}, !.outbound = "DIRECT"]
           more == IF cc \in GenericCCTLDs THEN <<>> ELSE <<c2>>
           rest == IF cc = "cn" THEN ChinaRules(proxy) ELSE <<c1>> \o more
<1>1. rules = FirstRules \o rest
  BY DEF TranslateRules, GenerateCNRoutes, GenerateCountryRoutes, Services, RouteFinal,
         FirstRules, PrivateRule, ChinaRules, ChinaTail
<1>2. IsList(FirstRules)
      /\ ToSet(FirstRules) = {PrivateRule, RuleSetTo({"geosite-private"}, "DIRECT")}
  BY ShortLists DEF FirstRules
<1> HIDE DEF proxy, c1, c2
<1>3. IsList(<<c1>>) /\ IsList(more)
  BY ShortLists
<1> HIDE DEF more
<1>4. IsList(<<c1>> \o more)
  BY <1>3, ConcatList
<1>5. IsList(ChinaRules(proxy))
  <2> DEFINE ai == <<RuleSetTo({"overseas-ai"}, proxy)>>
             tail == ChinaTail(proxy)
  <2>1. IsList(ai) /\ IsList(tail) /\ IsList(Services)
    BY ShortLists, ServiceRules DEF ChinaTail
  <2>2. ChinaRules(proxy) = (ai \o Services) \o tail
    BY DEF ChinaRules
  <2> HIDE DEF ai, tail
  <2>3. IsList(ai \o Services)
    BY <2>1, ConcatList
  <2> QED
    BY <2>1, <2>2, <2>3, ConcatList
<1>6. IsList(rest)
  BY <1>4, <1>5
<1>7. cc = "cn" => rest = ChinaRules(proxy)
  OBVIOUS
<1> HIDE DEF rest
<1> QED
  BY <1>1, <1>2, <1>6, <1>7 DEF proxy

(* Whatever rules follow, what is private stays direct. *)
LEMMA PrivateDirect ==
  ASSUME NEW cc, NEW first, NEW rules, rules = TranslateRules(cc, first),
         NEW d, d \in Dests, d.private \/ "geosite-private" \in d.sites
  PROVE  /\ WantedOf(rules, d) # {}
         /\ \A x : First(rules, WantedOf(rules, d), x) => Verdict(x) = "DIRECT"
<1> DEFINE T == WantedOf(rules, d)
           geo == RuleSetTo({"geosite-private"}, "DIRECT")
<1>1. PICK rest : IsList(rest) /\ rules = FirstRules \o rest
  BY CountryParts
<1>2. IsList(FirstRules) /\ ToSet(FirstRules) = {PrivateRule, geo}
  BY CountryParts, Zenon
<1>3. /\ PrivateRule.outbound = "DIRECT" /\ geo.outbound = "DIRECT"
      /\ Wanted(PrivateRule, d) <=> d.private
      /\ Wanted(geo, d) <=> "geosite-private" \in d.sites \cup d.addrs
  BY RuleContents, RuleWanted
<1> HIDE DEF geo
<1>4. ToSet(rules) = ToSet(FirstRules) \cup ToSet(rest)
  BY <1>1, <1>2, ConcatList
<1>5. ToSet(FirstRules) \cap T # {}
  BY <1>2, <1>3, <1>4 DEF WantedOf
<1>6. ASSUME NEW x, First(rules, T, x) PROVE Verdict(x) = "DIRECT"
  <2> HIDE DEF T
  <2>1. First(FirstRules \o rest, T, x)
    BY <1>1, <1>6
  <2>2. x \in ToSet(FirstRules)
    BY <1>1, <1>2, <1>5, <2>1, FirstFront
  <2> QED
    BY <1>2, <1>3, <2>2 DEF Verdict
<1> QED
  BY <1>5, <1>6

(* In China: private names, AI services, domestic services, the others. *)
Foreign == "geosite-geolocation-!cn"

FrontSets == {"geosite-private", "overseas-ai"} \cup ToSet(DomesticServices)

LEMMA ChinaFirst ==
  ASSUME NEW first, NEW rules, rules = TranslateRules("cn", first),
         NEW d, d \in Dests, ~d.private
  PROVE  /\ d.sites \cap (FrontSets \cup {Foreign}) # {} => WantedOf(rules, d) # {}
         /\ \A x : First(rules, WantedOf(rules, d), x) =>
              \/ x = RuleSetTo({"geosite-private"}, "DIRECT") /\ "geosite-private" \in d.sites
              \/ x = RuleSetTo({"overseas-ai"}, RouteFinal(first)) /\ "overseas-ai" \in d.sites
              \/ \E s \in ToSet(DomesticServices) \cap d.sites : x = RuleSetTo({s}, "DIRECT")
              \/ /\ d.sites \cap FrontSets = {}
                 /\ Foreign \in d.sites => x = RuleSetTo({Foreign}, RouteFinal(first))
<1> DEFINE T == WantedOf(rules, d)
           proxy == RouteFinal(first)
           geo == RuleSetTo({"geosite-private"}, "DIRECT")
           ai == RuleSetTo({"overseas-ai"}, proxy)
           ais == <<ai>>
           foreign == RuleSetTo({Foreign}, proxy)
           tail == ChinaTail(proxy)
           front == ais \o Services
           rest == front \o tail
<1>1. IsList(FirstRules) /\ ToSet(FirstRules) = {PrivateRule, geo} /\ rules = FirstRules \o rest
  <2>1. \E r : IsList(r) /\ rules = FirstRules \o r /\ r = ChinaRules(proxy)
    BY CountryParts
  <2>2. IsList(FirstRules) /\ ToSet(FirstRules) = {PrivateRule, geo}
    BY CountryParts, Zenon
  <2>3. rest = ChinaRules(proxy)
    BY DEF ChinaRules
  <2> QED
    BY <2>1, <2>2, <2>3, Zenon
<1>2. /\ IsList(tail) /\ ToSet(tail) # {} /\ foreign \in ToSet(tail) /\ tail[1] = foreign
      /\ tail # <<>>
  <2>1. IsList(tail) /\ foreign \in ToSet(tail)
    BY ShortLists DEF ChinaTail, Foreign
  <2>2. tail[1] = foreign
    BY DEF ChinaTail, Foreign
  <2> HIDE DEF tail, foreign
  <2> QED
    BY <2>1, <2>2, ListFacts
<1>3. /\ IsList(ais) /\ ToSet(ais) = {ai} /\ IsList(Services)
      /\ ToSet(Services) = {RuleSetTo({s}, "DIRECT") : s \in ToSet(DomesticServices)}
  BY ShortLists, ServiceRules
<1>4. FrontSets \cup {Foreign} \subseteq DomainRuleSets
  BY DEF DomainRuleSets, FrontSets, Foreign
<1>5. /\ ~Wanted(PrivateRule, d)
      /\ \A set \in FrontSets \cup {Foreign} : \A to :
            Wanted(RuleSetTo({set}, to), d) <=> set \in d.sites
  <2>1. \A set, to : Wanted(RuleSetTo({set}, to), d) <=> set \in d.sites \cup d.addrs
    BY RuleWanted
  <2>2. \A set \in FrontSets \cup {Foreign} : set \in d.sites \cup d.addrs <=> set \in d.sites
    BY <1>4, RuleWanted
  <2>3. ~Wanted(PrivateRule, d)
    BY RuleWanted
  <2> QED
    BY <2>1, <2>2, <2>3
<1>6. /\ Wanted(geo, d) <=> "geosite-private" \in d.sites
      /\ Wanted(ai, d) <=> "overseas-ai" \in d.sites
      /\ Wanted(foreign, d) <=> Foreign \in d.sites
      /\ \A s \in ToSet(DomesticServices) : Wanted(RuleSetTo({s}, "DIRECT"), d) <=> s \in d.sites
  BY <1>5 DEF FrontSets
<1> HIDE DEF geo, ai, foreign, tail, proxy, ais
<1>7. /\ IsList(front)
      /\ ToSet(front) = {ai} \cup {RuleSetTo({s}, "DIRECT") : s \in ToSet(DomesticServices)}
  <2>1. IsList(ais \o Services) /\ ToSet(ais \o Services) = ToSet(ais) \cup ToSet(Services)
    BY <1>3, ConcatList
  <2> QED
    BY <1>3, <2>1
<1> HIDE DEF front
<1>8. IsList(rest) /\ ToSet(rest) = ToSet(front) \cup ToSet(tail)
  BY <1>2, <1>7, ConcatList
<1> HIDE DEF rest
<1>9. ToSet(rules) = ToSet(FirstRules) \cup ToSet(rest)
  BY <1>1, <1>8, ConcatList
<1>10. \A r : r \in T <=> r \in ToSet(rules) /\ Wanted(r, d)
  BY DEF WantedOf
<1> HIDE DEF T
<1>11. ASSUME d.sites \cap (FrontSets \cup {Foreign}) # {} PROVE T # {}
  <2>1. PICK set \in FrontSets \cup {Foreign} : set \in d.sites
    BY <1>11
  <2>2. CASE set = "geosite-private"
    BY <1>1, <1>6, <1>9, <1>10, <2>1, <2>2
  <2>3. CASE set = "overseas-ai"
    BY <1>6, <1>7, <1>8, <1>9, <1>10, <2>1, <2>3
  <2>4. CASE set = Foreign
    BY <1>2, <1>6, <1>8, <1>9, <1>10, <2>1, <2>4
  <2>5. CASE set \in ToSet(DomesticServices)
    <3> DEFINE r == RuleSetTo({set}, "DIRECT")
    <3>1. r \in ToSet(front) /\ Wanted(r, d)
      BY <1>6, <1>7, <2>1, <2>5
    <3> HIDE DEF r
    <3> QED
      BY <1>8, <1>9, <1>10, <3>1
  <2> QED
    BY <2>1, <2>2, <2>3, <2>4, <2>5 DEF FrontSets
<1>12. ASSUME NEW x, First(rules, T, x)
       PROVE  \/ x = geo /\ "geosite-private" \in d.sites
              \/ x = ai /\ "overseas-ai" \in d.sites
              \/ \E s \in ToSet(DomesticServices) \cap d.sites : x = RuleSetTo({s}, "DIRECT")
              \/ d.sites \cap FrontSets = {} /\ (Foreign \in d.sites => x = foreign)
  <2>1. First(FirstRules \o rest, T, x) /\ x \in T
    BY <1>1, <1>12 DEF First
  <2>2. CASE ToSet(FirstRules) \cap T # {}
    <3>1. x \in ToSet(FirstRules)
      BY <1>1, <1>8, <2>1, <2>2, FirstFront
    <3>2. x # PrivateRule /\ Wanted(x, d)
      BY <1>5, <1>10, <2>1
    <3> QED
      BY <1>1, <1>6, <3>1, <3>2
  <2>3. CASE ToSet(FirstRules) \cap T = {} /\ ToSet(front) \cap T # {}
    <3>1. First(rest, T, x)
      BY <1>1, <1>8, <2>1, <2>3, FirstBack
    <3>2. First(front \o tail, T, x)
      BY <3>1 DEF rest
    <3>3. x \in ToSet(front)
      BY <1>2, <1>7, <2>3, <3>2, FirstFront
    <3>4. Wanted(x, d)
      BY <1>10, <2>1
    <3>5. CASE x = ai
      BY <1>6, <3>4, <3>5
    <3>6. CASE \E s \in ToSet(DomesticServices) : x = RuleSetTo({s}, "DIRECT")
      <4>1. PICK s \in ToSet(DomesticServices) : x = RuleSetTo({s}, "DIRECT")
        BY <3>6
      <4>2. s \in d.sites
        BY <1>6, <3>4, <4>1
      <4> QED
        BY <4>1, <4>2
    <3> QED
      BY <1>7, <3>3, <3>5, <3>6
  <2>4. CASE ToSet(FirstRules) \cap T = {} /\ ToSet(front) \cap T = {}
    <3>1. First(rest, T, x)
      BY <1>1, <1>8, <2>1, <2>4, FirstBack
    <3>2. First(front \o tail, T, x)
      BY <3>1 DEF rest
    <3>3. First(tail, T, x)
      BY <1>2, <1>7, <2>4, <3>2, FirstBack
    <3>4. \A r \in ToSet(FirstRules) \cup ToSet(front) : ~Wanted(r, d)
      BY <1>8, <1>9, <1>10, <2>4
    <3>5. "geosite-private" \notin d.sites
      BY <1>1, <1>6, <3>4
    <3>6. "overseas-ai" \notin d.sites
      BY <1>6, <1>7, <3>4
    <3>7. \A s \in ToSet(DomesticServices) : s \notin d.sites
      BY <1>6, <1>7, <3>4
    <3>8. d.sites \cap FrontSets = {}
      BY <3>5, <3>6, <3>7 DEF FrontSets
    <3>9. ASSUME Foreign \in d.sites PROVE x = foreign
      <4>1. foreign \in T
        BY <1>2, <1>6, <1>8, <1>9, <1>10, <3>9
      <4> QED
        BY <1>2, <3>3, <4>1, FirstHead
    <3> QED
      BY <3>8, <3>9
  <2> QED
    BY <2>2, <2>3, <2>4
<1> QED
  BY <1>11, <1>12 DEF T, geo, ai, foreign, proxy

LEMMA RoutesHold == ConfigInv => RoutesAsPromised
<1> SUFFICES ASSUME ConfigInv, Translated, NEW d \in Dests
             PROVE  LET Route(mode) == RouteOf(out.route, d, mode)
                        proxy == out.route.final
                    IN IF d.dns THEN \A mode \in Modes : Route(mode) = "hijack-dns"
                       ELSE /\ Route("Direct") = "DIRECT"
                            /\ Route("Global") = proxy
                            /\ d.private \/ "geosite-private" \in d.sites => Route("Rule") = "DIRECT"
                            /\ input.cc = "cn" /\ ~d.private =>
                                 /\ d.sites \cap ToSet(DomesticServices) # {}
                                      /\ "overseas-ai" \notin d.sites
                                      => Route("Rule") = "DIRECT"
                                 /\ Foreign \in d.sites /\ proxy # "REJECT"
                                      /\ d.sites \cap ({"geosite-private"} \cup ToSet(DomesticServices))
                                           = {}
                                      => Route("Rule") = proxy
                            /\ ~d.private /\ d.sites \cup d.addrs = {} /\ d.suffixes = {}
                                 => Route("Rule") = proxy
  BY DEF RoutesAsPromised, Foreign
<1> DEFINE first == FirstGroupTag
           rules == RoutesOf(input, first)
           proxy == RouteFinal(first)
           T == WantedOf(rules, d)
           route == out.route
           Taken(mode) == RouteOf(out.route, d, mode)
<1>1. Shape(first)
  BY ShapeOfOut DEF Translated, Ended
<1>2. rules = TranslateRules(input.cc, first)
  BY DEF RoutesOf
<1>3. IsList(rules) /\ \A r \in ToSet(rules) : CountryRoute(r, first)
  BY <1>2, TranslatedRoutes
<1>4. route.rules = AssembleRules(rules, first) /\ route.final = proxy
  BY <1>1 DEF Shape
<1>5. d.dns \in BOOLEAN /\ d.private \in BOOLEAN
  BY DestsAssumption
<1> HIDE DEF first, rules, proxy, route
<1>7. CASE d.dns = TRUE
  <2>1. \A mode : RouteOf(route, d, mode) = "hijack-dns"
    BY <1>3, <1>4, <1>7, QueriesHijacked
  <2>2. \A mode : Taken(mode) = "hijack-dns"
    BY <2>1 DEF route
  <2> QED
    BY <1>7, <2>2
<1>8. CASE d.dns = FALSE
  <2>1. Taken("Direct") = "DIRECT" /\ Taken("Global") = proxy
    <3>1. RouteOf(route, d, "Direct") = "DIRECT" /\ RouteOf(route, d, "Global") = route.final
      BY <1>3, <1>4, <1>8, ModeTaken DEF proxy
    <3> QED
      BY <1>4, <3>1 DEF route
  <2>2. /\ T = {} => RouteOf(route, d, "Rule") = route.final
        /\ T # {} => \E r \in ToSet(rules) : /\ First(rules, T, r)
                                             /\ RouteOf(route, d, "Rule") = Verdict(r)
    BY <1>3, <1>4, <1>8, RuleTaken
  <2>3. T = {} => Taken("Rule") = proxy
    BY <1>4, <2>2 DEF route
  <2>4. T # {} => \E r \in ToSet(rules) : First(rules, T, r) /\ Taken("Rule") = Verdict(r)
    BY <2>2 DEF route
  <2> HIDE DEF Taken, T
  <2>5. ASSUME d.private \/ "geosite-private" \in d.sites PROVE Taken("Rule") = "DIRECT"
    <3>1. T # {} /\ \A x : First(rules, T, x) => Verdict(x) = "DIRECT"
      BY <1>2, <2>5, PrivateDirect DEF T
    <3> QED
      BY <2>4, <3>1
  <2>6. ASSUME input.cc = "cn", ~d.private
        PROVE  /\ d.sites \cap (FrontSets \cup {Foreign}) # {} => T # {}
               /\ \A x : First(rules, T, x) =>
                    \/ x = RuleSetTo({"geosite-private"}, "DIRECT") /\ "geosite-private" \in d.sites
                    \/ x = RuleSetTo({"overseas-ai"}, proxy) /\ "overseas-ai" \in d.sites
                    \/ \E s \in ToSet(DomesticServices) \cap d.sites :
                          x = RuleSetTo({s}, "DIRECT")
                    \/ /\ d.sites \cap FrontSets = {}
                       /\ Foreign \in d.sites => x = RuleSetTo({Foreign}, proxy)
    <3>1. rules = TranslateRules("cn", first)
      BY <1>2, <2>6
    <3> QED
      BY <2>6, <3>1, ChinaFirst DEF T, proxy
  <2>7. /\ \A s : Verdict(RuleSetTo({s}, "DIRECT")) = "DIRECT"
        /\ proxy # "REJECT" => \A s : Verdict(RuleSetTo({s}, proxy)) = proxy
    BY RuleContents DEF Verdict
  <2>8. ASSUME input.cc = "cn", ~d.private,
               d.sites \cap ToSet(DomesticServices) # {}, "overseas-ai" \notin d.sites
        PROVE  Taken("Rule") = "DIRECT"
    <3>1. d.sites \cap FrontSets # {} /\ T # {}
      BY <2>6, <2>8 DEF FrontSets
    <3>2. PICK x : First(rules, T, x) /\ Taken("Rule") = Verdict(x)
      BY <2>4, <3>1
    <3>3. \E s : x = RuleSetTo({s}, "DIRECT")
      BY <2>6, <2>8, <3>1, <3>2
    <3> QED
      BY <2>7, <3>2, <3>3
  <2>9. ASSUME input.cc = "cn", ~d.private, Foreign \in d.sites, proxy # "REJECT",
               d.sites \cap ({"geosite-private"} \cup ToSet(DomesticServices)) = {}
        PROVE  Taken("Rule") = proxy
    <3>1. T # {}
      BY <2>6, <2>9
    <3>2. PICK x : First(rules, T, x) /\ Taken("Rule") = Verdict(x)
      BY <2>4, <3>1
    <3>3. \E s : x = RuleSetTo({s}, proxy)
      BY <2>6, <2>9, <3>2
    <3> QED
      BY <2>7, <2>9, <3>2, <3>3
  <2>10. ASSUME ~d.private, d.sites \cup d.addrs = {}, d.suffixes = {}
         PROVE  Taken("Rule") = proxy
    <3>1. \A r : ~Wanted(r, d)
      BY <2>10 DEF Wanted
    <3>2. T = {}
      BY <3>1 DEF T, WantedOf
    <3> QED
      BY <2>3, <3>2
  <2> QED
    <3>1. out.route.final = proxy
      BY <1>4 DEF route
    <3>2. d.private \/ "geosite-private" \in d.sites => Taken("Rule") = "DIRECT"
      BY <2>5
    <3>3. input.cc = "cn" /\ ~d.private =>
            /\ d.sites \cap ToSet(DomesticServices) # {} /\ "overseas-ai" \notin d.sites
                 => Taken("Rule") = "DIRECT"
            /\ Foreign \in d.sites /\ proxy # "REJECT"
                 /\ d.sites \cap ({"geosite-private"} \cup ToSet(DomesticServices)) = {}
                 => Taken("Rule") = proxy
      BY <2>8, <2>9
    <3>4. ~d.private /\ d.sites \cup d.addrs = {} /\ d.suffixes = {} => Taken("Rule") = proxy
      BY <2>10
    <3> HIDE DEF Taken
    <3> QED
      BY <1>8, <2>1, <3>1, <3>2, <3>3, <3>4, Zenon DEF Taken
<1> QED
  BY <1>5, <1>7, <1>8

(***************************************************************************)
(* Where a connection goes, for every destination and every configuration  *)
(* of a user: DNS queries are answered here; mode Direct never uses a      *)
(* proxy and mode Global always does; in mode Rule private destinations    *)
(* stay direct, services with domestic servers are direct although they    *)
(* are listed as foreign, other foreign domains are proxied although their *)
(* address may be domestic (assemble.go:22-45, autoroute.go:69-85).        *)
(***************************************************************************)
THEOREM RoutesGoAsPromised == Spec => []RoutesAsPromised
BY ConfigInvariant, RoutesHold, PTL
=============================================================================
