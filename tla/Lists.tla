-------------------------------- MODULE Lists --------------------------------
(***************************************************************************)
(* The two things the translator does to every list, of proxies, groups,   *)
(* DNS servers and rules: it collects the tags of the entries, and it      *)
(* appends to a new list the entries it keeps.                             *)
(***************************************************************************)
EXTENDS Integers, Sequences, FiniteSets, SequencesExt

ToTags(obs) == {obs[i].tag : i \in DOMAIN obs}

\* The elements of s that are in S, in their order: a loop that appends what it
\* keeps.  Unlike SelectSeq it has a definition that proofs can use.
Keep(s, S) ==
    LET kept == {i \in DOMAIN s : s[i] \in S}
        Place(i) == Cardinality({j \in kept : j <= i})
    IN [n \in 1..Cardinality(kept) |-> s[CHOOSE i \in kept : Place(i) = n]]
=============================================================================
