----------------------------- MODULE RouteConfig -----------------------------
(***************************************************************************)
(* The routes of a converted configuration: the rules of the country       *)
(* (translator/autoroute.go) and what assemble (translator/assemble.go)    *)
(* makes of them: an action and the mode "Rule" for every rule, the rules  *)
(* of the other modes in front, a final outbound, and no rule about a rule *)
(* set that is not defined.                                                *)
(*                                                                         *)
(* sing-box takes the first rule that matches a destination; RouteOf says  *)
(* so for destinations                                                     *)
(*   [sites, suffixes, addrs, private, dns]:                               *)
(* the rule sets that list its domain or its address, whether its address  *)
(* is private and whether the connection is a DNS query.                   *)
(***************************************************************************)
EXTENDS Lists, FiniteSetsExt

NoRoute == [mode |-> "", private |-> FALSE, ruleSet |-> {}, suffix |-> {}, dns |-> FALSE,
            outbound |-> "", action |-> ""]

RuleSetTo(tags, outbound) == [NoRoute EXCEPT !.ruleSet = tags, !.outbound = outbound]

\* Services with servers in China.
DomesticServices == <<"geosite-microsoft@cn", "geosite-steam@cn",
                      "geosite-category-games@cn", "geosite-onedrive">>

\* The rule sets that list domains; the others list addresses.
DomainRuleSets == {"geosite-private", "overseas-ai", "geosite-geolocation-!cn", "geosite-cn"}
                    \cup ToSet(DomesticServices)

\* mutant: the foreign domains come before the services that have servers here
ForeignFirst(proxy) ==
    <<RuleSetTo({"overseas-ai"}, proxy), RuleSetTo({"geosite-geolocation-!cn"}, proxy)>>
      \o [i \in DOMAIN DomesticServices |-> RuleSetTo({DomesticServices[i]}, "DIRECT")]
      \o <<RuleSetTo({"geosite-cn"}, "DIRECT"), RuleSetTo({"geoip-cn"}, "DIRECT"),
           [NoRoute EXCEPT !.suffix = {".cn"}, !.outbound = "DIRECT"]>>

GenerateCNRoutes(proxy) ==
    <<RuleSetTo({"overseas-ai"}, proxy)>>
      \o [i \in DOMAIN DomesticServices |-> RuleSetTo({DomesticServices[i]}, "DIRECT")]
      \o <<RuleSetTo({"geosite-geolocation-!cn"}, proxy),
           RuleSetTo({"geosite-cn"}, "DIRECT"),
           RuleSetTo({"geoip-cn"}, "DIRECT"),
           [NoRoute EXCEPT !.suffix = {".cn"}, !.outbound = "DIRECT"]>>

\* Country domains that are sold all over the world.
GenericCCTLDs == {"io", "tv", "ai", "me", "cc", "sh", "gg", "je", "fm", "am",
                  "la", "ly", "to", "co", "ws", "tk", "cf", "ga", "gq", "ml"}

GenerateCountryRoutes(cc) ==
    <<RuleSetTo({"geoip-" \o cc}, "DIRECT")>>
      \o IF cc \in GenericCCTLDs THEN <<>>
         ELSE <<[NoRoute EXCEPT !.suffix = {"." \o cc}, !.outbound = "DIRECT"]>>

\* "first" is the first group, "" if there is none.
TranslateRules(cc, first) ==
    <<[NoRoute EXCEPT !.private = TRUE, !.outbound = "DIRECT"],
      RuleSetTo({"geosite-private"}, "DIRECT")>>
      \o IF cc = "cn" THEN GenerateCNRoutes(IF first = "" THEN "DIRECT" ELSE first)
         ELSE GenerateCountryRoutes(cc)

\* The rule sets that are registered along with the rules.
RouteRuleSets(rules) == UNION {rules[i].ruleSet : i \in DOMAIN rules}

(***************************************************************************)
(* assemble.                                                               *)
(***************************************************************************)
ConvertRejectAction(r) ==
    IF r.outbound = "REJECT" THEN [r EXCEPT !.outbound = "", !.action = "reject"] ELSE r

AddRouteAction(r) ==
    IF r.action = "" /\ r.outbound # "" THEN [r EXCEPT !.action = "route"] ELSE r

AddClashModeCondition(r) ==
    IF r.outbound # "" /\ r.mode = "" THEN [r EXCEPT !.mode = "Rule"] ELSE r

DefaultRules(first) ==
    <<[NoRoute EXCEPT !.action = "sniff"],
      [NoRoute EXCEPT !.dns = TRUE, !.action = "hijack-dns"]>>
      \o IF first = "" THEN <<>>
         ELSE <<[NoRoute EXCEPT !.mode = "Direct", !.outbound = "DIRECT", !.action = "route"],
                [NoRoute EXCEPT !.mode = "Global", !.outbound = first, !.action = "route"]>>

AssembleRules(rules, first) ==
    DefaultRules(first)
      \o [i \in DOMAIN rules |->
            AddClashModeCondition(AddRouteAction(ConvertRejectAction(rules[i])))]

RouteFinal(first) == IF first = "" THEN "DIRECT" ELSE first

\* A rule keeps the rule sets that are defined; one that had rule sets and
\* keeps none is dropped.  The same for DNS rules.
FilterOrphanRules(rules, defined) ==
    LET kept == Keep(rules, {r \in ToSet(rules) : r.ruleSet = {} \/ r.ruleSet \cap defined # {}})
    IN [i \in DOMAIN kept |-> [kept[i] EXCEPT !.ruleSet = @ \cap defined]]

(***************************************************************************)
(* How sing-box routes a connection.                                       *)
(***************************************************************************)
RouteMatches(r, d, mode) ==
    /\ r.mode \in {"", mode}
    /\ r.dns => d.dns
    /\ \/ ~r.private /\ r.ruleSet \cup r.suffix = {}
       \/ r.private /\ d.private
       \/ (d.sites \cup d.addrs) \cap r.ruleSet # {}
       \/ d.suffixes \cap r.suffix # {}

\* The outbound of a connection, or the action that ends it otherwise.
RouteOf(route, d, mode) ==
    LET hits == {i \in DOMAIN route.rules :
                   route.rules[i].action # "sniff" /\ RouteMatches(route.rules[i], d, mode)}
        hit == route.rules[Min(hits)]
    IN IF hits = {} THEN route.final
       ELSE IF hit.action = "route" THEN hit.outbound ELSE hit.action
=============================================================================
