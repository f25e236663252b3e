---------------------------- MODULE MCRuleEngine -----------------------------
\* RuleEngine on small instances: requests, patterns and names are model values; the exact
\* pattern is the apex of the suffix pattern.
EXTENDS RuleEngine, TLC

CONSTANTS c1, c2, exact, suffix, bad, apex, sub

MCLiteral == [p \in Patterns |-> CASE p = exact -> {apex} [] p = suffix -> {apex} [] p = bad -> {}]
MCDerived == [p \in Patterns |-> CASE p = exact -> {} [] p = suffix -> {sub} [] p = bad -> {}]
Symmetry == Permutations(Posts)
=============================================================================
