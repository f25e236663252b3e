------------------------------ MODULE Resolver -------------------------------
(***************************************************************************)
(* The decision how a query is answered: Resolver.Resolve for DNS clients  *)
(* and Resolver.Lookup for the API, while the configuration, the custom    *)
(* rules, the Geo data and the cache change under it.  Every call into     *)
(* another component takes that component's lock for itself, so a query    *)
(* sees each of them at a moment of its own.                               *)
(*                                                                         *)
(* The rule engine is what it says about a domain, the Geo data the sets   *)
(* of domains that the configured categories hold, the cache the server    *)
(* group each answer came from.  The counters of one outcome are raised    *)
(* together.                                                               *)
(***************************************************************************)
EXTENDS Integers, Sequences, SequencesExt, FiniteSets, Functions

CONSTANTS Queries,     \* DNS queries, each served once
          Lookups,     \* POST /dns/lookup, each served once
          Domains,
          Local,       \* the domains isLocalDomain accepts
          Configs,     \* the configurations that are loaded or patched in
          Geos,        \* the GeoSite data that is loaded
          AdLists,     \* the ad filter lists that are loaded
          Rulings,     \* what the custom rules may say
          MaxChanges   \* bound: changes to any of these

Groups == {"remote", "domestic"}
Config == [leak : BOOLEAN, mode : {"strict", "standard", "loose"}, ads : BOOLEAN,
           default : Groups]
Geo == [remote : SUBSET Domains, domestic : SUBSET Domains, ads : SUBSET Domains,
        hasRemote : BOOLEAN, hasDomestic : BOOLEAN]

ASSUME ResolverConstants ==
  /\ IsFiniteSet(Queries) /\ Queries \cap Lookups = {}
  /\ Local \subseteq Domains /\ Configs \subseteq Config /\ AdLists \subseteq SUBSET Domains
  /\ Geos \subseteq Geo /\ MaxChanges \in Nat
  /\ \A g \in Geos : (g.remote # {} => g.hasRemote) /\ (g.domestic # {} => g.hasDomestic)
  /\ \A r \in Rulings : DOMAIN r = Domains

VARIABLES config,    \* m.config, the manager's object
          cfg,       \* r.cfg: a reference
          patch,     \* how far the PATCH or reload under way is; one at a time
          geo, ads, ruling, cache,
          query,     \* every query and lookup
          stats,     \* total_queries, by_action, by_status
          changes,   \* how many changes there have been
          gap        \* history: after how many changes protection was last weaker than each kind

environment == <<config, cfg, patch, geo, ads, ruling, changes, gap>>
vars == <<environment, cache, query, stats>>

\* A reference is to the manager's object or to a copy.
Live == [live |-> TRUE, copy |-> config]
Copy(c) == [live |-> FALSE, copy |-> c]
Seen(ref) == IF ref.live THEN config ELSE ref.copy

\* Leak protection of at least one kind is in force in the manager's configuration and in
\* the resolver's, and the Geo data it depends on is there.
Modes == [standard |-> {"strict", "standard"}, strict |-> {"strict"}]
Shielded(kind) == /\ geo.hasRemote /\ geo.hasDomestic
                  /\ \A c \in {config, Seen(cfg)} : c.leak /\ c.mode \in Modes[kind]

Route(action, group) == [action |-> action, group |-> group]
Refused(action) == Route(action, "none")

Actions == {"cache_hit", "domestic", "remote", "ad_block", "leak_block", "rule_block",
            "redirected", "default", "failed"}
Statuses == {"success", "failed", "timeout"}
-----------------------------------------------------------------------------
\* The stages of Resolve and of Lookup, in the order of the code.
ResolveStages == <<"cache", "config", "rules", "adfilter", "first", "second", "adcategory",
                   "hasRemote", "hasDomestic", "default">>
LookupStages == <<"rules", "config", "adfilter", "first", "second", "adcategory",
                  "hasRemote", "hasDomestic", "default">>
Stages(q) == IF q \in Queries THEN ResolveStages ELSE LookupStages

Idle == [at |-> "idle"]

Init == /\ config \in Configs /\ geo \in Geos /\ ads \in AdLists /\ ruling \in Rulings
        /\ cfg = Copy(config)
        /\ patch = "idle"
        /\ cache = [d \in Domains |-> "none"]
        /\ query = [q \in Queries \cup Lookups |-> Idle]
        /\ stats = [total |-> 0, action |-> [a \in Actions |-> 0],
                    status |-> [s \in Statuses |-> 0]]
        /\ changes = 0
        /\ gap = [kind \in DOMAIN Modes |-> IF Shielded(kind) THEN -1 ELSE 0]

\* A query arrives.
Receive(q, d) ==
  /\ query[q] = Idle
  /\ query' = [query EXCEPT ![q] = [at |-> Head(Stages(q)), domain |-> d, cfg |-> Copy(config),
                                    second |-> "none", hasRemote |-> FALSE,
                                    route |-> Refused("none"), began |-> changes]]
  /\ stats' = IF q \in Queries THEN [stats EXCEPT !.total = @ + 1] ELSE stats
  /\ UNCHANGED <<environment, cache>>

At(q, stage) == query[q].at = stage
Domain(q) == query[q].domain
Cfg(q) == Seen(query[q].cfg)

\* The stage decided nothing: on to the next one.
Continue(q, updated) ==
  /\ query' = [query EXCEPT ![q] =
       [updated EXCEPT !.at = LET s == Stages(q)
                              IN s[SelectInSeq(s, LAMBDA x : x = updated.at) + 1]]]
  /\ UNCHANGED stats

\* The query is answered; Lookup does not count.
Answer(q, route, statuses) ==
  /\ query' = [query EXCEPT ![q].at = "done", ![q].route = route]
  /\ stats' = IF q \in Lookups THEN stats
              ELSE [stats EXCEPT !.action[route.action] = @ + 1,
                                 !.status = [s \in Statuses |->
                                               IF s \in statuses THEN @[s] + 1 ELSE @[s]]]

\* forwardToGroup, doLookup: the question goes to a group of servers.
Forward(q, action, group) ==
  /\ query' = [query EXCEPT ![q].at = "sent", ![q].route = Route(action, group)]
  /\ UNCHANGED stats

\* What the other components say of a domain at this moment.
MatchGeosite(d, kind) == d \in geo[kind]
MatchAdFilter(d) == d \in ads
HasGeositeCategories(group) == IF group = "remote" THEN geo.hasRemote ELSE geo.hasDomestic
isLocalDomain(d) == d \in Local

Other(group) == CHOOSE g \in Groups : g # group
-----------------------------------------------------------------------------
StageCache(q) ==
  /\ At(q, "cache")
  /\ IF cache[Domain(q)] # "none" THEN Answer(q, Refused("cache_hit"), {"success"})
     ELSE Continue(q, query[q])

StageConfig(q) ==
  /\ At(q, "config")
  /\ Continue(q, [query[q] EXCEPT !.cfg = cfg])

\* A rule of an unknown type decides nothing.
StageRules(q) ==
  LET type == ruling[Domain(q)]
  IN /\ At(q, "rules")
     /\ CASE type = "block" -> Answer(q, Refused("rule_block"), {"success"})
          [] type = "redirect" -> Answer(q, Refused("redirected"), {"success"})
          [] type \in Groups -> Forward(q, type, type)
          [] OTHER -> Continue(q, query[q])

\* Mutant: the ad filter applies though it is switched off.
StageAdFilterAlways(q) ==
  /\ At(q, "adfilter")
  /\ IF MatchAdFilter(Domain(q)) THEN Answer(q, Refused("ad_block"), {"success"})
     ELSE Continue(q, query[q])

StageAdFilter(q) ==
  /\ At(q, "adfilter")
  /\ IF Cfg(q).ads /\ MatchAdFilter(Domain(q)) THEN Answer(q, Refused("ad_block"), {"success"})
     ELSE Continue(q, query[q])

\* Mutant: loose mode asks in the same order as the others.
FirstGroupRemote(q) == "remote"

\* Loose mode and no protection ask for the domestic categories first, Lookup
\* never does.
FirstGroup(q) ==
  IF q \in Queries /\ (Cfg(q).mode = "loose" \/ ~Cfg(q).leak) THEN "domestic" ELSE "remote"

StageGeosite(q) ==
  \/ /\ At(q, "first")
     /\ IF MatchGeosite(Domain(q), FirstGroup(q)) THEN Forward(q, FirstGroup(q), FirstGroup(q))
        ELSE Continue(q, [query[q] EXCEPT !.second = Other(FirstGroup(q))])
  \/ /\ At(q, "second")
     /\ IF MatchGeosite(Domain(q), query[q].second)
        THEN Forward(q, query[q].second, query[q].second)
        ELSE Continue(q, query[q])

StageAdCategory(q) ==
  /\ At(q, "adcategory")
  /\ IF Cfg(q).ads /\ MatchGeosite(Domain(q), "ads") THEN Answer(q, Refused("ad_block"), {"success"})
     ELSE Continue(q, query[q])

\* Mutant: standard mode is looked up in r.cfg again.
StageLeakReread(q) ==
  \/ /\ At(q, "hasRemote")
     /\ IF Cfg(q).leak /\ ~isLocalDomain(Domain(q))
        THEN Continue(q, [query[q] EXCEPT !.hasRemote = HasGeositeCategories("remote")])
        ELSE query' = [query EXCEPT ![q].at = "default"] /\ UNCHANGED stats
  \/ /\ At(q, "hasDomestic")
     /\ LET both == query[q].hasRemote /\ HasGeositeCategories("domestic")
        IN CASE both /\ Cfg(q).mode = "strict" -> Answer(q, Refused("leak_block"), {"failed"})
             [] both /\ Cfg(q).mode # "strict" /\ Seen(cfg).mode = "standard" ->
                  Forward(q, "default", "remote")
             [] OTHER -> Continue(q, query[q])

\* Leak protection, only when both kinds of categories have data.
StageLeak(q) ==
  \/ /\ At(q, "hasRemote")
     /\ IF Cfg(q).leak /\ ~isLocalDomain(Domain(q))
        THEN Continue(q, [query[q] EXCEPT !.hasRemote = HasGeositeCategories("remote")])
        ELSE query' = [query EXCEPT ![q].at = "default"] /\ UNCHANGED stats
  \/ /\ At(q, "hasDomestic")
     /\ LET both == query[q].hasRemote /\ HasGeositeCategories("domestic")
        IN CASE both /\ Cfg(q).mode = "strict" -> Answer(q, Refused("leak_block"), {"failed"})
             [] both /\ Cfg(q).mode = "standard" -> Forward(q, "default", "remote")
             [] OTHER -> Continue(q, query[q])

\* forwardToDefault reads r.cfg again, Lookup does not.
StageDefault(q) ==
  /\ At(q, "default")
  /\ Forward(q, "default", IF q \in Queries THEN Seen(cfg).default ELSE Cfg(q).default)

Stage(q) ==
  /\ query[q] # Idle
  /\ \/ StageCache(q) \/ StageConfig(q) \/ StageRules(q) \/ StageAdFilter(q) \/ StageGeosite(q)
     \/ StageAdCategory(q) \/ StageLeak(q) \/ StageDefault(q)
  /\ UNCHANGED <<environment, cache>>

\* A server answered: Set stores what can be cached, by_status goes by the
\* response code.
Reply(q, cacheable, status) ==
  /\ At(q, "sent")
  /\ cache' = IF q \in Queries /\ cacheable
              THEN [cache EXCEPT ![Domain(q)] = query[q].route.group] ELSE cache
  /\ Answer(q, query[q].route, {status})
  /\ UNCHANGED environment

\* Mutant: the action of a failed query is not counted.
FailUncounted(q) ==
  /\ At(q, "sent")
  /\ query' = [query EXCEPT ![q].at = "done"]
  /\ stats' = [stats EXCEPT !.status["timeout"] = @ + 1, !.status["failed"] = @ + 1]
  /\ UNCHANGED <<environment, cache>>

\* No server answered: forwardToGroup counts a timeout, Resolve a failure.
Fail(q) ==
  /\ At(q, "sent")
  /\ Answer(q, Route("failed", query[q].route.group), {"timeout", "failed"})
  /\ UNCHANGED <<environment, cache>>
-----------------------------------------------------------------------------
Change == changes < MaxChanges /\ changes' = changes + 1 /\ UNCHANGED <<cache, stats>>

\* PATCH /config: Update decodes into the manager's object, which everyone with a
\* reference to it sees, and has UpdateConfig store that reference; the handler
\* then stores a copy.
PatchDecode(c) == /\ Change /\ patch = "idle"
                  /\ config' = c /\ patch' = "decoded"
                  /\ UNCHANGED <<cfg, geo, ads, ruling, query>>
PatchNotify == /\ Change /\ patch = "decoded"
               /\ cfg' = Live /\ patch' = "notified"
               /\ UNCHANGED <<config, geo, ads, ruling, query>>
PatchInstall == /\ Change /\ patch = "notified"
                /\ cfg' = Copy(config) /\ patch' = "idle"
                /\ UNCHANGED <<config, geo, ads, ruling, query>>

\* POST /config/reload: Load gives the manager a new object, references to the
\* old one stay behind; then UpdateConfig stores a reference to the new one.
ReloadLoad(c) == /\ Change /\ patch = "idle"
                 /\ config' = c /\ patch' = "loaded"
                 /\ cfg' = Copy(Seen(cfg))
                 /\ query' = [q \in DOMAIN query |-> IF query[q] = Idle THEN Idle
                                                     ELSE [query[q] EXCEPT !.cfg = Copy(Seen(@))]]
                 /\ UNCHANGED <<geo, ads, ruling>>
ReloadNotify == /\ Change /\ patch = "loaded"
                /\ cfg' = Live /\ patch' = "idle"
                /\ UNCHANGED <<config, geo, ads, ruling, query>>

LoadGeosite(g) == Change /\ geo' = g /\ UNCHANGED <<config, cfg, patch, ads, ruling, query>>
LoadAdFilter(a) == Change /\ ads' = a /\ UNCHANGED <<config, cfg, patch, geo, ruling, query>>
SetRules(r) == Change /\ ruling' = r /\ UNCHANGED <<config, cfg, patch, geo, ads, query>>

\* Whatever changes, history remembers what it leaves unprotected.
Changes == /\ \/ \E c \in Configs : PatchDecode(c) \/ ReloadLoad(c)
              \/ PatchNotify \/ PatchInstall \/ ReloadNotify
              \/ \E g \in Geos : LoadGeosite(g)
              \/ \E a \in AdLists : LoadAdFilter(a)
              \/ \E r \in Rulings : SetRules(r)
           /\ gap' = [kind \in DOMAIN Modes |-> IF Shielded(kind)' THEN gap[kind] ELSE changes']

\* An entry expires or is evicted; DELETE /dns/cache.
Expire(d) == /\ cache[d] # "none" /\ cache' = [cache EXCEPT ![d] = "none"]
             /\ UNCHANGED <<environment, query, stats>>
ClearCache == /\ cache' = [d \in Domains |-> "none"]
              /\ UNCHANGED <<environment, query, stats>>

Program(q) ==
  \/ \E d \in Domains : Receive(q, d)
  \/ Stage(q)
  \/ \E cacheable \in BOOLEAN, status \in {"success", "failed"} : Reply(q, cacheable, status)
  \/ Fail(q)

Next == \/ \E q \in Queries \cup Lookups : Program(q)
        \/ Changes
        \/ \E d \in Domains : Expire(d)
        \/ ClearCache

Spec == Init /\ [][Next]_vars
-----------------------------------------------------------------------------
Reference == [live : BOOLEAN, copy : Configs]
Asking == [at : ToSet(ResolveStages) \cup {"sent", "done"}, domain : Domains, cfg : Reference,
           second : Groups \cup {"none"}, hasRemote : BOOLEAN,
           route : [action : Actions \cup {"none"}, group : Groups \cup {"none"}], began : 0..MaxChanges]

TypeOK == /\ config \in Configs /\ geo \in Geos /\ ads \in AdLists /\ ruling \in Rulings
          /\ cfg \in Reference
          /\ patch \in {"idle", "decoded", "notified", "loaded"}
          /\ cache \in [Domains -> Groups \cup {"none"}]
          /\ query \in [Queries \cup Lookups -> {Idle} \cup Asking]
          /\ \A q \in Lookups \ Queries : query[q].at # "cache"
          /\ stats \in [total : Nat, action : [Actions -> Nat], status : [Statuses -> Nat]]
          /\ changes \in 0..MaxChanges
          /\ gap \in [DOMAIN Modes -> -1..MaxChanges]

\* The resolution order of the Kernel Guide, chapter 3, and for leak protection 2.8: of these,
\* the first that applies.  Strict mode refuses whatever matched nothing, with whatever Geo data.
\* On four points the Guide is silent and the row is the code's: domestic categories before
\* remote ones in loose mode, the ad category behind them, standard mode, and local names.
Policy(c, g, a, r, d) ==
  LET protected == c.leak /\ d \notin Local
      domesticFirst == c.mode = "loose" \/ ~c.leak
  IN << <<r[d] = "block", Refused("rule_block")>>,
        <<r[d] = "redirect", Refused("redirected")>>,
        <<r[d] = "remote", Route("remote", "remote")>>,
        <<r[d] = "domestic", Route("domestic", "domestic")>>,
        <<c.ads /\ d \in a, Refused("ad_block")>>,
        <<domesticFirst /\ d \in g.domestic, Route("domestic", "domestic")>>,
        <<d \in g.remote, Route("remote", "remote")>>,
        <<d \in g.domestic, Route("domestic", "domestic")>>,
        <<c.ads /\ d \in g.ads, Refused("ad_block")>>,
        <<protected /\ c.mode = "strict", Refused("leak_block")>>,
        <<protected /\ c.mode = "standard" /\ g.hasRemote /\ g.hasDomestic, Route("default", "remote")>>,
        <<TRUE, Route("default", c.default)>> >>

Decide(c, g, a, r, d) ==
  LET p == Policy(c, g, a, r, d) IN p[SelectInSeq(p, LAMBDA x : x[1])][2]

\* The route that the current state gives to a domain.
Now(d) == Decide(Seen(cfg), geo, ads, ruling, d)

\* Nothing has changed since the query began, and it was neither answered from the cache nor
\* left without an answer.
Undisturbed(q) == /\ query[q] # Idle /\ query[q].at \in {"sent", "done"}
                  /\ query[q].began = changes
                  /\ query[q].route.action \notin {"cache_hit", "failed"}

\* resolver.go:210, 387: an undisturbed query takes the documented route, and so does a lookup,
\* with two exceptions in which the code departs from it: a lookup sends the domains of both
\* kinds of categories to the remote servers (409), and names that strict mode refuses go to
\* the default servers as long as there is no Geo data of both kinds (307).
Decided ==
  \A q \in Queries \cup Lookups :
    Undisturbed(q) =>
      \/ query[q].route = Now(Domain(q))
      \/ /\ q \in Lookups /\ Domain(q) \in geo.remote \cap geo.domestic
         /\ query[q].route = Route("remote", "remote")
      \/ /\ Now(Domain(q)) = Refused("leak_block") /\ ~(geo.hasRemote /\ geo.hasDomestic)
         /\ query[q].route = Route("default", Seen(cfg).default)

\* resolver.go:336, CHANGELOG 1.0.3: by_action accounts for every query exactly once.
InFlight == Cardinality({q \in Queries : query[q] # Idle /\ query[q].at # "done"})
ActionsAddUp == SumFunction(stats.action) + InFlight = stats.total

\* resolver.go:249, 302, 372: the configuration is a reference that can change, the Geo data is
\* looked up twice and r.cfg read once more, each at another moment.  Still, a name that matched
\* nothing reaches the default servers only if strict protection, and servers that are not
\* the remote ones only if any protection, was interrupted at some moment since the query
\* began: it never slips through between two protected states.
LeakNeedsGap ==
  \A q \in Queries \cup Lookups :
    query[q] # Idle /\ query[q].route.action = "default" /\ Domain(q) \notin Local =>
      /\ gap["strict"] >= query[q].began
      /\ query[q].route.group # "remote" => gap["standard"] >= query[q].began
=============================================================================
