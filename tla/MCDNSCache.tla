---------------------------- MODULE MCDNSCache ----------------------------
\* DNSCache on small instances: keys, clients and elements are model values.
EXTENDS DNSCache, TLC

Symmetry == Permutations(Keys) \cup Permutations(Clients) \cup Permutations(Elements)
=============================================================================
