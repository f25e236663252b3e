----------------------------- MODULE MCResolver ------------------------------
\* Resolver on small instances: queries and domains are model values.
EXTENDS Resolver, TLC

CONSTANTS q1, q2, l1, pub, loc

\* Every configuration, and Geo data and rules that treat all domains alike.
AllOrNone == {{}, Domains}
EveryGeo == {g \in [remote : AllOrNone, domestic : AllOrNone, ads : AllOrNone,
                    hasRemote : BOOLEAN, hasDomestic : BOOLEAN] :
               (g.remote # {} => g.hasRemote) /\ (g.domestic # {} => g.hasDomestic)}
EveryRuling == {[d \in Domains |-> t] : t \in {"none", "block", "redirect", "remote", "domestic",
                                              "unknown"}}
NoRules == [d \in Domains |-> "none"]

Protected(modes) == [leak : {TRUE}, mode : modes, ads : {FALSE}, default : {"domestic"}]
Unprotected == [leak : {FALSE}, mode : {"strict"}, ads : {FALSE}, default : {"remote"}]

\* GeoSite data of both kinds that does not know the domains, and none before the download.
Complete == [remote : {{}}, domestic : {{}}, ads : {{}}, hasRemote : {TRUE}, hasDomestic : {TRUE}]
Missing == [remote : {{}}, domestic : {{}}, ads : {{}}, hasRemote : {FALSE}, hasDomestic : {FALSE}]
WithOrWithout == Complete \cup Missing

\* Protection that is switched between its modes and off; the default group changes with it.
SwitchedConfigs == Protected({"strict", "standard"}) \cup Unprotected
Symmetry == Permutations(Queries)
NothingOrBlock == {NoRules, [d \in Domains |-> "block"]}
PubAds == {{pub}}
=============================================================================
