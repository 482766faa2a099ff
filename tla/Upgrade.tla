------------------------------- MODULE Upgrade -------------------------------
(***************************************************************************)
(* UpgradeLegacyDNSRules of translator/migrate.go: a configuration that an *)
(* older version of the program has converted and the host has stored is   *)
(* not converted again, its DNS rules about addresses are brought into the *)
(* form sing-box 1.14 accepts.                                             *)
(*                                                                         *)
(* The stored configuration is [rules, final, ruleSets, servers] with the  *)
(* rules of DnsConfig; ruleSets are the tags route.rule_set defines.  A    *)
(* tag names the kind of its rule set, as collectIPOnlyDNSRuleSets has it. *)
(***************************************************************************)
EXTENDS DnsConfig

\* The rule sets that hold addresses only.
GeoIPSets == {"geoip-cn", "geoip-us", "geoip-io"}

CollectIPOnlyDNSRuleSets(stored) == stored.ruleSets \cap GeoIPSets

DNSRuleNeedsResponseMatch(r, ipOnly) == ~r.match /\ r.ruleSet \cap ipOnly # {}

HasPrecedingEvaluate(rules, server) ==
    /\ rules # <<>>
    /\ Last(rules).action = "evaluate"
    /\ Last(rules).server = server

\* mutant: the query types of the rule are lost
WithEveryType(r) == [r EXCEPT !.match = TRUE, !.qtype = AddressQueryTypes]

WithResponseMatch(r) ==
    [r EXCEPT !.match = TRUE, !.qtype = IF @ = {} THEN AddressQueryTypes ELSE @]

\* mutant: the rule is changed, nothing obtains the response it looks at
WithoutEvaluate(done, r, ipOnly) ==
    IF DNSRuleNeedsResponseMatch(r, ipOnly) /\ r.server # ""
      THEN Append(done, WithResponseMatch(r)) ELSE Append(done, r)

\* mutant: rules that look at a response already are not told apart
UpgradeEveryRule(done, r, ipOnly) ==
    IF r.ruleSet \cap ipOnly = {} THEN Append(done, r)
    ELSE done \o <<Evaluate(r.server), WithResponseMatch(r)>>

\* One rule is added to those that are done.
UpgradeRule(done, r, ipOnly) ==
    IF ~DNSRuleNeedsResponseMatch(r, ipOnly) \/ r.server = "" THEN Append(done, r)
    ELSE (IF HasPrecedingEvaluate(done, r.server) THEN done
          ELSE Append(done, Evaluate(r.server)))
           \o <<WithResponseMatch(r)>>

UpgradeLegacyDNSRules(stored) ==
    LET ipOnly == CollectIPOnlyDNSRuleSets(stored)
    IN [stored EXCEPT !.rules =
          FoldLeft(LAMBDA done, r : UpgradeRule(done, r, ipOnly), <<>>, @)]

(***************************************************************************)
(* How sing-box 1.13 answered a query: a rule with a rule set of addresses *)
(* asked its own server and looked at the answer, for address queries      *)
(* only.                                                                   *)
(***************************************************************************)
LegacyMatches(r, q, mode, ipOnly) ==
    LET legacy == DNSRuleNeedsResponseMatch(r, ipOnly)
    IN /\ legacy => q.type \in AddressQueryTypes
       /\ Matches([r EXCEPT !.match = @ \/ legacy], q, mode, TRUE)

LegacyAnswer(stored, q, mode) ==
    LET ipOnly == CollectIPOnlyDNSRuleSets(stored)
        hits == {i \in DOMAIN stored.rules :
                   /\ stored.rules[i].action = "route"
                   /\ LegacyMatches(stored.rules[i], q, mode, ipOnly)}
    IN IF hits = {} THEN FirstServer(stored) ELSE stored.rules[Min(hits)].server
=============================================================================
