---------------------------- MODULE ResolverProofs ----------------------------
(***************************************************************************)
(* A query during which nothing changed takes the documented route but for *)
(* two exceptions, and one under which something changed does not leak     *)
(* unless protection was interrupted: for every set of domains, all        *)
(* configurations, Geo data, ad lists and rules, and however many queries  *)
(* and changes there are besides it.                                       *)
(***************************************************************************)
EXTENDS Resolver, FiniteSetTheorems, SequenceTheorems, TLAPS

\* The stages behind the rules and the configuration.
Settled == {"adfilter", "first", "second", "adcategory", "hasRemote", "hasDomestic", "default"}
Protects(c, d) == c.leak /\ d \notin Local /\ geo.hasRemote /\ geo.hasDomestic

First(q, c) == IF q \in Queries /\ (c.mode = "loose" \/ ~c.leak) THEN "domestic" ELSE "remote"

\* The route the stages of the code come to now.
RouteNow(d) ==
  LET c == Seen(cfg)
  IN IF ruling[d] = "block" THEN Refused("rule_block")
     ELSE IF ruling[d] = "redirect" THEN Refused("redirected")
     ELSE IF ruling[d] = "remote" THEN Route("remote", "remote")
     ELSE IF ruling[d] = "domestic" THEN Route("domestic", "domestic")
     ELSE IF c.ads /\ d \in ads THEN Refused("ad_block")
     ELSE IF (c.mode = "loose" \/ ~c.leak) /\ d \in geo.domestic THEN Route("domestic", "domestic")
     ELSE IF d \in geo.remote THEN Route("remote", "remote")
     ELSE IF d \in geo.domestic THEN Route("domestic", "domestic")
     ELSE IF c.ads /\ d \in geo.ads THEN Refused("ad_block")
     ELSE IF Protects(c, d) /\ c.mode = "strict" THEN Refused("leak_block")
     ELSE IF Protects(c, d) /\ c.mode = "standard" THEN Route("default", "remote")
     ELSE Route("default", c.default)

\* The stages that query q, with what it has by now in u, has left behind had nothing to say,
\* and would say so again now.
Undecided(q, u) ==
  LET d == u.domain
      c == Seen(cfg)
  IN /\ u.at \in Settled \/ (u.at = "rules" /\ q \in Queries) => Seen(u.cfg) = c
     /\ u.at \in Settled \/ (u.at = "config" /\ q \notin Queries) =>
          ruling[d] \notin {"block", "redirect", "remote", "domestic"}
     /\ u.at \in Settled \ {"adfilter"} => ~(c.ads /\ d \in ads)
     /\ u.at = "second" => u.second = Other(First(q, c)) /\ d \notin geo[First(q, c)]
     /\ u.at \in {"adcategory", "hasRemote", "hasDomestic", "default"} =>
          d \notin geo.remote /\ d \notin geo.domestic
     /\ u.at \in {"hasRemote", "hasDomestic", "default"} => ~(c.ads /\ d \in geo.ads)
     /\ u.at = "hasDomestic" => c.leak /\ d \notin Local /\ (u.hasRemote <=> geo.hasRemote)
     /\ u.at = "default" => ~(Protects(c, d) /\ c.mode \in {"strict", "standard"})

\* The route of a query is final once it is sent or answered.
Documented(q, u) ==
  u.at \in {"sent", "done"} /\ u.route.action \notin {"cache_hit", "failed"} =>
    \/ u.route = RouteNow(u.domain)
    \/ /\ q \in Lookups /\ u.domain \in geo.remote \cap geo.domestic
       /\ u.route = Route("remote", "remote")

OnCourse == \A q \in Queries \cup Lookups :
              query[q] # Idle /\ query[q].began = changes =>
                Undecided(q, query[q]) /\ Documented(q, query[q])

Begun == \A q \in Queries \cup Lookups : query[q] # Idle => query[q].began <= changes

IInv == TypeOK /\ OnCourse /\ Begun
-----------------------------------------------------------------------------
LEMMA MinIs ==
  ASSUME NEW S, S \subseteq Nat, NEW k \in S, \A j \in S : k <= j
  PROVE  Min(S) = k
<1>1. \A x \in S : (\A y \in S : x <= y) => x = k  OBVIOUS
<1> QED  BY <1>1 DEF Min

\* The element behind the first v of s.
Following(s, v) == s[SelectInSeq(s, LAMBDA x : x = v) + 1]

LEMMA FollowingIs ==
  ASSUME NEW s, Len(s) \in Nat, NEW k \in 1..Len(s), \A j \in 1..Len(s) : s[j] = s[k] => k <= j
  PROVE  Following(s, s[k]) = s[k + 1]
<1> DEFINE I == {i \in 1..Len(s) : s[i] = s[k]}
<1>1. k \in I /\ I \subseteq Nat /\ \A j \in I : k <= j  OBVIOUS
<1>2. Min(I) = k  BY <1>1, MinIs
<1>3. SelectInSeq(s, LAMBDA x : x = s[k]) = Min(I)  BY <1>1 DEF SelectInSeq
<1> QED  BY <1>2, <1>3 DEF Following

LEMMA ResolveOrder ==
  /\ Following(ResolveStages, "cache") = "config"
  /\ Following(ResolveStages, "config") = "rules"
  /\ Following(ResolveStages, "rules") = "adfilter"
  /\ Following(ResolveStages, "adfilter") = "first"
  /\ Following(ResolveStages, "first") = "second"
  /\ Following(ResolveStages, "second") = "adcategory"
  /\ Following(ResolveStages, "adcategory") = "hasRemote"
  /\ Following(ResolveStages, "hasRemote") = "hasDomestic"
  /\ Following(ResolveStages, "hasDomestic") = "default"
<1> DEFINE s == ResolveStages
<1>1. /\ Len(s) = 10 /\ s[1] = "cache" /\ s[2] = "config" /\ s[3] = "rules" /\ s[4] = "adfilter"
      /\ s[5] = "first" /\ s[6] = "second" /\ s[7] = "adcategory" /\ s[8] = "hasRemote"
      /\ s[9] = "hasDomestic" /\ s[10] = "default"
  BY DEF ResolveStages
<1> HIDE DEF s
<1>2. \A k \in 1..10 : \A j \in 1..10 : s[j] = s[k] => k <= j  BY <1>1
<1>3. \A k \in 1..9 : Following(s, s[k]) = s[k + 1]
  <2> SUFFICES ASSUME NEW k \in 1..9 PROVE Following(s, s[k]) = s[k + 1]  OBVIOUS
  <2>1. k \in 1..Len(s) /\ Len(s) \in Nat  BY <1>1
  <2>2. \A j \in 1..Len(s) : s[j] = s[k] => k <= j
    <3>1. k \in 1..10 /\ 1..Len(s) = 1..10  BY <1>1
    <3> QED  BY <1>2, <3>1
  <2> QED  BY <2>1, <2>2, FollowingIs
<1> QED  BY <1>1, <1>3 DEF s

LEMMA LookupOrder ==
  /\ Following(LookupStages, "rules") = "config"
  /\ Following(LookupStages, "config") = "adfilter"
  /\ Following(LookupStages, "adfilter") = "first"
  /\ Following(LookupStages, "first") = "second"
  /\ Following(LookupStages, "second") = "adcategory"
  /\ Following(LookupStages, "adcategory") = "hasRemote"
  /\ Following(LookupStages, "hasRemote") = "hasDomestic"
  /\ Following(LookupStages, "hasDomestic") = "default"
<1> DEFINE s == LookupStages
<1>1. /\ Len(s) = 9 /\ s[1] = "rules" /\ s[2] = "config" /\ s[3] = "adfilter"
      /\ s[4] = "first" /\ s[5] = "second" /\ s[6] = "adcategory" /\ s[7] = "hasRemote"
      /\ s[8] = "hasDomestic" /\ s[9] = "default"
  BY DEF LookupStages
<1> HIDE DEF s
<1>2. \A k \in 1..9 : \A j \in 1..9 : s[j] = s[k] => k <= j  BY <1>1
<1>3. \A k \in 1..8 : Following(s, s[k]) = s[k + 1]
  <2> SUFFICES ASSUME NEW k \in 1..8 PROVE Following(s, s[k]) = s[k + 1]  OBVIOUS
  <2>1. k \in 1..Len(s) /\ Len(s) \in Nat  BY <1>1
  <2>2. \A j \in 1..Len(s) : s[j] = s[k] => k <= j
    <3>1. k \in 1..9 /\ 1..Len(s) = 1..9  BY <1>1
    <3> QED  BY <1>2, <3>1
  <2> QED  BY <2>1, <2>2, FollowingIs
<1> QED  BY <1>1, <1>3 DEF s

\* The policy of the Kernel Guide, case by case.
LEMMA PolicyCases ==
  ASSUME NEW c, NEW g, NEW a, NEW r, NEW d
  PROVE  Decide(c, g, a, r, d) =
    IF r[d] = "block" THEN Refused("rule_block")
    ELSE IF r[d] = "redirect" THEN Refused("redirected")
    ELSE IF r[d] = "remote" THEN Route("remote", "remote")
    ELSE IF r[d] = "domestic" THEN Route("domestic", "domestic")
    ELSE IF c.ads /\ d \in a THEN Refused("ad_block")
    ELSE IF (c.mode = "loose" \/ ~c.leak) /\ d \in g.domestic THEN Route("domestic", "domestic")
    ELSE IF d \in g.remote THEN Route("remote", "remote")
    ELSE IF d \in g.domestic THEN Route("domestic", "domestic")
    ELSE IF c.ads /\ d \in g.ads THEN Refused("ad_block")
    ELSE IF c.leak /\ d \notin Local /\ c.mode = "strict" THEN Refused("leak_block")
    ELSE IF c.leak /\ d \notin Local /\ c.mode = "standard" /\ g.hasRemote /\ g.hasDomestic
         THEN Route("default", "remote")
    ELSE Route("default", c.default)
<1> DEFINE p == Policy(c, g, a, r, d)
           I == {i \in 1..Len(p) : p[i][1]}
<1>1. /\ Len(p) = 12 /\ p[12][1]
      /\ (p[1][1] <=> r[d] = "block") /\ (p[2][1] <=> r[d] = "redirect")
      /\ (p[3][1] <=> r[d] = "remote") /\ (p[4][1] <=> r[d] = "domestic")
      /\ (p[5][1] <=> c.ads /\ d \in a)
      /\ (p[6][1] <=> (c.mode = "loose" \/ ~c.leak) /\ d \in g.domestic)
      /\ (p[7][1] <=> d \in g.remote) /\ (p[8][1] <=> d \in g.domestic)
      /\ (p[9][1] <=> c.ads /\ d \in g.ads)
      /\ (p[10][1] <=> c.leak /\ d \notin Local /\ c.mode = "strict")
      /\ (p[11][1] <=> c.leak /\ d \notin Local /\ c.mode = "standard" /\ g.hasRemote /\ g.hasDomestic)
  BY DEF Policy
<1>2. /\ p[1][2] = Refused("rule_block") /\ p[2][2] = Refused("redirected")
      /\ p[3][2] = Route("remote", "remote") /\ p[4][2] = Route("domestic", "domestic")
      /\ p[5][2] = Refused("ad_block") /\ p[6][2] = Route("domestic", "domestic")
      /\ p[7][2] = Route("remote", "remote") /\ p[8][2] = Route("domestic", "domestic")
      /\ p[9][2] = Refused("ad_block") /\ p[10][2] = Refused("leak_block")
      /\ p[11][2] = Route("default", "remote") /\ p[12][2] = Route("default", c.default)
  BY DEF Policy
<1>3. Decide(c, g, a, r, d) = p[SelectInSeq(p, LAMBDA x : x[1])][2]  BY DEF Decide
<1> HIDE DEF p
<1>4. 12 \in I /\ I \subseteq Nat /\ \A i : i \in I <=> i \in 1..12 /\ p[i][1]  BY <1>1
<1>5. SelectInSeq(p, LAMBDA x : x[1]) = Min(I)  BY <1>4 DEF SelectInSeq
<1> HIDE DEF I
<1>6. \A k \in I : (\A j \in I : k <= j) => Decide(c, g, a, r, d) = p[k][2]  BY <1>3, <1>4, <1>5, MinIs
<1>7. ASSUME NEW k \in 1..12, p[k][1], \A j \in 1..12 : j < k => ~p[j][1]
      PROVE  Decide(c, g, a, r, d) = p[k][2]
  <2>1. k \in I /\ \A j \in I : k <= j  BY <1>4, <1>7
  <2> QED  BY <1>6, <2>1
<1>8. \A k \in 1..12 : \/ k = 1 \/ k = 2 \/ k = 3 \/ k = 4 \/ k = 5 \/ k = 6 \/ k = 7 \/ k = 8 \/ k = 9
                       \/ k = 10 \/ k = 11 \/ k = 12
  OBVIOUS
<1> DEFINE D == Decide(c, g, a, r, d)
<1> HIDE DEF D
<1>9. /\ p[1][1] => D = p[1][2]
      /\ ~p[1][1] /\ p[2][1] => D = p[2][2]
      /\ ~p[1][1] /\ ~p[2][1] /\ p[3][1] => D = p[3][2]
      /\ ~p[1][1] /\ ~p[2][1] /\ ~p[3][1] /\ p[4][1] => D = p[4][2]
      /\ ~p[1][1] /\ ~p[2][1] /\ ~p[3][1] /\ ~p[4][1] /\ p[5][1] => D = p[5][2]
      /\ ~p[1][1] /\ ~p[2][1] /\ ~p[3][1] /\ ~p[4][1] /\ ~p[5][1] /\ p[6][1] => D = p[6][2]
      /\ ~p[1][1] /\ ~p[2][1] /\ ~p[3][1] /\ ~p[4][1] /\ ~p[5][1] /\ ~p[6][1] /\ p[7][1] => D = p[7][2]
  BY <1>7, <1>8 DEF D
<1>10. ASSUME ~p[1][1], ~p[2][1], ~p[3][1], ~p[4][1], ~p[5][1], ~p[6][1], ~p[7][1]
       PROVE  /\ p[8][1] => D = p[8][2]
              /\ ~p[8][1] /\ p[9][1] => D = p[9][2]
              /\ ~p[8][1] /\ ~p[9][1] /\ p[10][1] => D = p[10][2]
              /\ ~p[8][1] /\ ~p[9][1] /\ ~p[10][1] /\ p[11][1] => D = p[11][2]
              /\ ~p[8][1] /\ ~p[9][1] /\ ~p[10][1] /\ ~p[11][1] => D = p[12][2]
  BY <1>1, <1>7, <1>8, <1>10 DEF D
<1> QED  BY <1>1, <1>2, <1>9, <1>10 DEF D

\* Where the stages of the code depart from the table.
LEMMA NowOrForwarded ==
  ASSUME NEW d
  PROVE  \/ RouteNow(d) = Now(d)
         \/ /\ Now(d) = Refused("leak_block") /\ ~(geo.hasRemote /\ geo.hasDomestic)
            /\ RouteNow(d) = Route("default", Seen(cfg).default)
BY PolicyCases DEF RouteNow, Now, Protects

\* The stages are words of their own, and a lookup has the same ones, but for the cache.
LEMMA StageWords ==
  ToSet(ResolveStages) = {"cache", "config", "rules", "adfilter", "first", "second", "adcategory",
                          "hasRemote", "hasDomestic", "default"}
BY DEF ToSet, ResolveStages

Words == {"cache", "config", "rules", "adfilter", "first", "second", "adcategory",
          "hasRemote", "hasDomestic", "default", "sent", "done"}
LEMMA AskingType ==
  Asking = [at : Words, domain : Domains, cfg : Reference,
            second : Groups \cup {"none"}, hasRemote : BOOLEAN,
            route : [action : Actions \cup {"none"}, group : Groups \cup {"none"}], began : 0..MaxChanges]
<1>1. ToSet(ResolveStages) \cup {"sent", "done"} = Words  BY StageWords DEF Words
<1> QED  BY <1>1 DEF Asking

\* What the stages look at.
LEMMA Looks ==
  ASSUME TypeOK
  PROVE  /\ Seen(cfg) \in Config /\ geo \in Geo
         /\ \A u \in Asking : Seen(u.cfg) \in Config /\ Seen(u.cfg) \in Configs
         /\ Seen(cfg) \in Configs
<1>1. config \in Configs /\ cfg \in Reference /\ geo \in Geos  BY DEF TypeOK
<1>2. \A r \in Reference : Seen(r) \in Configs  BY <1>1 DEF Seen, Reference
<1>3. \A u \in Asking : u.cfg \in Reference  BY AskingType
<1> QED  BY <1>1, <1>2, <1>3, ResolverConstants

LEMMA Others == Other("remote") = "domestic" /\ Other("domestic") = "remote"
BY DEF Other, Groups

\* What a stage makes of a query.
LEMMA Continues ==
  ASSUME TypeOK, NEW q \in Queries \cup Lookups, query[q] \in Asking, NEW u, Continue(q, u)
  PROVE  /\ query'[q] = [u EXCEPT !.at = Following(Stages(q), u.at)]
         /\ query' = [query EXCEPT ![q] = query'[q]] /\ stats' = stats
<1>1. query' = [query EXCEPT ![q] = [u EXCEPT !.at = Following(Stages(q), u.at)]] /\ stats' = stats
  BY DEF Continue, Following
<1>2. DOMAIN query = Queries \cup Lookups  BY DEF TypeOK
<1> QED  BY <1>1, <1>2

LEMMA Answers ==
  ASSUME TypeOK, NEW q \in Queries \cup Lookups, NEW route, NEW statuses, Answer(q, route, statuses)
  PROVE  /\ query'[q] = [query[q] EXCEPT !.at = "done", !.route = route]
         /\ query' = [query EXCEPT ![q] = query'[q]]
<1>1. query' = [query EXCEPT ![q] = [query[q] EXCEPT !.at = "done", !.route = route]]  BY DEF Answer
<1>2. DOMAIN query = Queries \cup Lookups  BY DEF TypeOK
<1> QED  BY <1>1, <1>2

LEMMA ContinueTo ==
  ASSUME TypeOK, NEW q \in Queries \cup Lookups, query[q] \in Asking, NEW w \in Asking, Continue(q, w),
         NEW n \in Words, Following(Stages(q), w.at) = n
  PROVE  /\ query'[q] \in Asking /\ query'[q].at = n /\ query'[q].domain = w.domain
         /\ query'[q].cfg = w.cfg /\ query'[q].second = w.second /\ query'[q].hasRemote = w.hasRemote
         /\ query'[q].began = w.began /\ query'[q].route = w.route
<1>1. query'[q] = [w EXCEPT !.at = n]  BY Continues
<1> HIDE DEF Words
<1> QED  BY <1>1, AskingType

RouteType == [action : Actions \cup {"none"}, group : Groups \cup {"none"}]
LEMMA RouteFields ==
  /\ \A a \in Actions, g \in Groups \cup {"none"} : Route(a, g) \in RouteType /\ Route(a, g).action = a
  /\ \A a \in Actions : Refused(a) \in RouteType /\ Refused(a).action = a
  /\ Refused("none") \in RouteType
BY DEF Route, Refused, RouteType

LEMMA AnswerTo ==
  ASSUME TypeOK, NEW q \in Queries \cup Lookups, query[q] \in Asking, NEW route \in RouteType,
         NEW statuses, Answer(q, route, statuses)
  PROVE  /\ query'[q] \in Asking /\ query'[q].at = "done" /\ query'[q].domain = query[q].domain
         /\ query'[q].began = query[q].began /\ query'[q].route = route
<1>1. query'[q] = [query[q] EXCEPT !.at = "done", !.route = route]  BY Answers
<1>2. "done" \in Words  BY DEF Words
<1> HIDE DEF Words, RouteType
<1>3. Asking = [at : Words, domain : Domains, cfg : Reference, second : Groups \cup {"none"},
               hasRemote : BOOLEAN, route : RouteType, began : 0..MaxChanges]
  BY AskingType DEF RouteType
<1> QED  BY <1>1, <1>2, <1>3

LEMMA ForwardTo ==
  ASSUME TypeOK, NEW q \in Queries \cup Lookups, query[q] \in Asking, NEW action, NEW group,
         Route(action, group) \in RouteType, Forward(q, action, group)
  PROVE  /\ query'[q] \in Asking /\ query'[q].at = "sent" /\ query'[q].domain = query[q].domain
         /\ query'[q].began = query[q].began /\ query'[q].route = Route(action, group)
<1> DEFINE route == Route(action, group)
<1>0. route \in RouteType  OBVIOUS
<1>1. query'[q] = [query[q] EXCEPT !.at = "sent", !.route = route]
  <2>1. query' = [query EXCEPT ![q] = [query[q] EXCEPT !.at = "sent", !.route = route]]  BY DEF Forward
  <2>2. DOMAIN query = Queries \cup Lookups  BY DEF TypeOK
  <2> HIDE DEF route
  <2> QED  BY <2>1, <2>2
<1>2. "sent" \in Words  BY DEF Words
<1> HIDE DEF Words, RouteType, route
<1>3. Asking = [at : Words, domain : Domains, cfg : Reference, second : Groups \cup {"none"},
               hasRemote : BOOLEAN, route : RouteType, began : 0..MaxChanges]
  BY AskingType DEF RouteType
<1>4. /\ query'[q] \in Asking /\ query'[q].at = "sent" /\ query'[q].domain = query[q].domain
      /\ query'[q].began = query[q].began /\ query'[q].route = route
  BY <1>0, <1>1, <1>2, <1>3
<1> QED  BY <1>4 DEF route

\* A query that is sent or answered has no stage before it.
LEMMA Beyond == ASSUME NEW q, NEW u, u.at \in {"sent", "done"} PROVE Undecided(q, u)
BY DEF Undecided, Settled
LEMMA Before == ASSUME NEW q, NEW u, u.at \notin {"sent", "done"} PROVE Documented(q, u)
BY DEF Documented

\* What is said of a query that takes a stage.
OnItsWay(q) == /\ query' = [query EXCEPT ![q] = query'[q]]
               /\ query'[q] \in Asking /\ query'[q].domain = query[q].domain
               /\ query'[q].began = query[q].began /\ query'[q].at # "cache"
               /\ query[q].began = changes => Undecided(q, query'[q]) /\ Documented(q, query'[q])

LEMMA Answered ==
  ASSUME TypeOK, NEW q \in Queries \cup Lookups, query[q] \in Asking, NEW route \in RouteType,
         NEW statuses, Answer(q, route, statuses),
         query[q].began = changes => route.action \in {"cache_hit", "failed"} \/ route = RouteNow(query[q].domain)
  PROVE  OnItsWay(q)
<1>1. /\ query'[q] \in Asking /\ query'[q].at = "done" /\ query'[q].domain = query[q].domain
      /\ query'[q].began = query[q].began /\ query'[q].route = route
  BY AnswerTo
<1>2. query' = [query EXCEPT ![q] = query'[q]]  BY Answers
<1>3. Undecided(q, query'[q])  BY <1>1, Beyond
<1>4. query[q].began = changes => Documented(q, query'[q])  BY <1>1 DEF Documented
<1> QED  BY <1>1, <1>2, <1>3, <1>4 DEF OnItsWay

LEMMA Sent ==
  ASSUME TypeOK, NEW q \in Queries \cup Lookups, query[q] \in Asking, NEW action, NEW group,
         Route(action, group) \in RouteType, Forward(q, action, group),
         query[q].began = changes =>
           \/ Route(action, group) = RouteNow(query[q].domain)
           \/ /\ q \in Lookups /\ query[q].domain \in geo.remote \cap geo.domestic
              /\ Route(action, group) = Route("remote", "remote")
  PROVE  OnItsWay(q)
<1>1. /\ query'[q] \in Asking /\ query'[q].at = "sent" /\ query'[q].domain = query[q].domain
      /\ query'[q].began = query[q].began /\ query'[q].route = Route(action, group)
  BY ForwardTo
<1>2. query' = [query EXCEPT ![q] = query'[q]]
  <2>1. query' = [query EXCEPT ![q] = [query[q] EXCEPT !.at = "sent", !.route = Route(action, group)]]
    BY DEF Forward
  <2>2. DOMAIN query = Queries \cup Lookups  BY DEF TypeOK
  <2> QED  BY <2>1, <2>2
<1>3. Undecided(q, query'[q])  BY <1>1, Beyond
<1>4. query[q].began = changes => Documented(q, query'[q])  BY <1>1 DEF Documented
<1> QED  BY <1>1, <1>2, <1>3, <1>4 DEF OnItsWay

\* v is what w becomes at stage n.
Moved(w, v, n) == /\ v.at = n /\ v.domain = w.domain /\ v.cfg = w.cfg /\ v.second = w.second
                  /\ v.hasRemote = w.hasRemote

LEMMA Passed ==
  ASSUME TypeOK, NEW q \in Queries \cup Lookups, query[q] \in Asking, NEW w \in Asking, Continue(q, w),
         w.domain = query[q].domain, w.began = query[q].began,
         NEW n \in Words \ {"sent", "done", "cache"}, Following(Stages(q), w.at) = n,
         query[q].began = changes => \A v \in Asking : Moved(w, v, n) => Undecided(q, v)
  PROVE  OnItsWay(q)
<1>1. /\ query'[q] \in Asking /\ query'[q].at = n /\ query'[q].domain = w.domain
      /\ query'[q].cfg = w.cfg /\ query'[q].second = w.second /\ query'[q].hasRemote = w.hasRemote
      /\ query'[q].began = w.began
  BY ContinueTo
<1>2. query' = [query EXCEPT ![q] = query'[q]]  BY Continues
<1>3. query[q].began = changes => Undecided(q, query'[q])  BY <1>1 DEF Moved
<1>4. Documented(q, query'[q])  BY <1>1, Before
<1> QED  BY <1>1, <1>2, <1>3, <1>4 DEF OnItsWay

LEMMA CacheStage ==
  ASSUME IInv, NEW q \in Queries \cup Lookups, query[q] \in Asking, StageCache(q)
  PROVE  OnItsWay(q)
<1>0. TypeOK /\ query[q].at = "cache"  BY DEF IInv, StageCache, At
<1>1. CASE Answer(q, Refused("cache_hit"), {"success"})
  BY <1>0, <1>1, Answered, RouteFields DEF Actions
<1>2. CASE Continue(q, query[q])
  <2>1. q \in Queries  BY <1>0 DEF TypeOK
  <2>2. Following(Stages(q), query[q].at) = "config" /\ "config" \in Words \ {"sent", "done", "cache"}
    BY <1>0, <2>1, ResolveOrder DEF Stages, Words
  <2>3. \A v \in Asking : Moved(query[q], v, "config") => Undecided(q, v)
    BY <2>1 DEF Moved, Undecided, Settled
  <2> QED  BY <1>0, <1>2, <2>2, <2>3, Passed
<1> QED  BY <1>1, <1>2 DEF StageCache

\* Where every stage leads.
LEMMA Order ==
  ASSUME NEW q
  PROVE  /\ Following(Stages(q), "config") = IF q \in Queries THEN "rules" ELSE "adfilter"
         /\ Following(Stages(q), "rules") = IF q \in Queries THEN "adfilter" ELSE "config"
         /\ Following(Stages(q), "adfilter") = "first" /\ Following(Stages(q), "first") = "second"
         /\ Following(Stages(q), "second") = "adcategory"
         /\ Following(Stages(q), "adcategory") = "hasRemote"
         /\ Following(Stages(q), "hasRemote") = "hasDomestic"
         /\ Following(Stages(q), "hasDomestic") = "default"
BY ResolveOrder, LookupOrder DEF Stages

LEMMA ConfigStage ==
  ASSUME IInv, NEW q \in Queries \cup Lookups, query[q] \in Asking, StageConfig(q)
  PROVE  OnItsWay(q)
<1>0. TypeOK /\ query[q].at = "config" /\ cfg \in Reference  BY DEF IInv, StageConfig, At, TypeOK
<1> DEFINE w == [query[q] EXCEPT !.cfg = cfg]
           n == IF q \in Queries THEN "rules" ELSE "adfilter"
<1>1. /\ w \in Asking /\ w.at = "config" /\ w.domain = query[q].domain /\ w.began = query[q].began
      /\ w.cfg = cfg
  <2> HIDE DEF Words
  <2> QED  BY <1>0, AskingType
<1>2. Continue(q, w)  BY DEF StageConfig
<1>3. n \in Words \ {"sent", "done", "cache"}  BY DEF Words
<1> HIDE DEF w
<1>4. Following(Stages(q), w.at) = n  BY <1>1, Order
<1>5. ASSUME query[q].began = changes
      PROVE  \A v \in Asking : Moved(w, v, n) => Undecided(q, v)
  <2>1. query[q] # Idle  BY <1>0 DEF Idle
  <2>2. Undecided(q, query[q])  BY <1>5, <2>1 DEF IInv, OnCourse
  <2> QED  BY <1>0, <1>1, <1>5, <2>2 DEF Moved, Undecided, Settled
<1> HIDE DEF n
<1> QED  BY <1>0, <1>1, <1>2, <1>3, <1>4, <1>5, Passed

\* A query in whose time nothing has changed, at one of the stages.
LEMMA StillUndecided ==
  ASSUME IInv, NEW q \in Queries \cup Lookups, query[q].at # "idle", query[q].began = changes
  PROVE  Undecided(q, query[q])
BY DEF IInv, OnCourse, Idle

LEMMA RouteNowCases ==
  ASSUME NEW d
  PROVE  LET c == Seen(cfg)
         IN RouteNow(d) =
    IF ruling[d] = "block" THEN Refused("rule_block")
    ELSE IF ruling[d] = "redirect" THEN Refused("redirected")
    ELSE IF ruling[d] = "remote" THEN Route("remote", "remote")
    ELSE IF ruling[d] = "domestic" THEN Route("domestic", "domestic")
    ELSE IF c.ads /\ d \in ads THEN Refused("ad_block")
    ELSE IF (c.mode = "loose" \/ ~c.leak) /\ d \in geo.domestic THEN Route("domestic", "domestic")
    ELSE IF d \in geo.remote THEN Route("remote", "remote")
    ELSE IF d \in geo.domestic THEN Route("domestic", "domestic")
    ELSE IF c.ads /\ d \in geo.ads THEN Refused("ad_block")
    ELSE IF Protects(c, d) /\ c.mode = "strict" THEN Refused("leak_block")
    ELSE IF Protects(c, d) /\ c.mode = "standard" THEN Route("default", "remote")
    ELSE Route("default", c.default)
BY DEF RouteNow

LEMMA RulesStage ==
  ASSUME IInv, NEW q \in Queries \cup Lookups, query[q] \in Asking, StageRules(q)
  PROVE  OnItsWay(q)
<1> DEFINE d == query[q].domain
           type == ruling[d]
<1>0. TypeOK /\ query[q].at = "rules" /\ d = Domain(q)  BY DEF IInv, StageRules, At, Domain
<1>1. /\ type = "block" => Answer(q, Refused("rule_block"), {"success"})
      /\ type = "redirect" => Answer(q, Refused("redirected"), {"success"})
      /\ type \in Groups => Forward(q, type, type)
      /\ type \notin {"block", "redirect", "remote", "domestic"} => Continue(q, query[q])
  BY <1>0 DEF StageRules, Groups
<1>2. CASE type = "block"
  <2>1. Refused("rule_block") = RouteNow(d)  BY <1>2, RouteNowCases
  <2> QED  BY <1>0, <1>1, <1>2, <2>1, Answered, RouteFields DEF Actions
<1>3. CASE type = "redirect"
  <2>1. Refused("redirected") = RouteNow(d)  BY <1>3, RouteNowCases
  <2> QED  BY <1>0, <1>1, <1>3, <2>1, Answered, RouteFields DEF Actions
<1>4. CASE type \in Groups
  <2>1. Route(type, type) = RouteNow(d) /\ Route(type, type) \in RouteType
    BY <1>4, RouteNowCases, RouteFields DEF Groups, Actions
  <2>2. Forward(q, type, type)  BY <1>1, <1>4
  <2> HIDE DEF type
  <2> QED  BY <1>0, <2>1, <2>2, Sent
<1>5. CASE type \notin {"block", "redirect", "remote", "domestic"}
  <2> DEFINE n == IF q \in Queries THEN "adfilter" ELSE "config"
  <2>1. n \in Words \ {"sent", "done", "cache"} /\ Following(Stages(q), query[q].at) = n  BY <1>0, Order DEF Words
  <2>2. ASSUME query[q].began = changes
        PROVE  \A v \in Asking : Moved(query[q], v, n) => Undecided(q, v)
    <3>1. Undecided(q, query[q])  BY <1>0, <2>2, StillUndecided
    <3> QED  BY <1>0, <1>5, <2>2, <3>1 DEF Moved, Undecided, Settled
  <2> HIDE DEF n
  <2> QED  BY <1>0, <1>1, <1>5, <2>1, <2>2, Passed
<1> QED  BY <1>2, <1>3, <1>4, <1>5 DEF Groups

LEMMA AdFilterStage ==
  ASSUME IInv, NEW q \in Queries \cup Lookups, query[q] \in Asking, StageAdFilter(q)
  PROVE  OnItsWay(q)
<1> DEFINE d == query[q].domain
           blocked == Cfg(q).ads /\ d \in ads
<1>0. TypeOK /\ query[q].at = "adfilter"  BY DEF IInv, StageAdFilter, At
<1>1. query[q].began = changes => Undecided(q, query[q]) /\ Cfg(q) = Seen(cfg)
                                  /\ ruling[d] \notin {"block", "redirect", "remote", "domestic"}
  <2>1. query[q].began = changes => Undecided(q, query[q])  BY <1>0, StillUndecided
  <2> QED  BY <1>0, <2>1 DEF Undecided, Settled, Cfg
<1>2. IF blocked THEN Answer(q, Refused("ad_block"), {"success"}) ELSE Continue(q, query[q])
  BY DEF StageAdFilter, MatchAdFilter, Domain
<1>3. CASE blocked
  <2>1. query[q].began = changes => Refused("ad_block") = RouteNow(d)
    BY <1>1, <1>3, RouteNowCases
  <2> QED  BY <1>0, <1>2, <1>3, <2>1, Answered, RouteFields DEF Actions
<1>4. CASE ~blocked
  <2>1. "first" \in Words \ {"sent", "done", "cache"} /\ Following(Stages(q), query[q].at) = "first"
    BY <1>0, Order DEF Words
  <2>2. ASSUME query[q].began = changes
        PROVE  \A v \in Asking : Moved(query[q], v, "first") => Undecided(q, v)
    BY <1>0, <1>1, <1>4, <2>2 DEF Moved, Undecided, Settled
  <2> QED  BY <1>0, <1>2, <1>4, <2>1, <2>2, Passed
<1> QED  BY <1>3, <1>4

\* What a query without a change knows at the stages behind the ad filter.
LEMMA Passing ==
  ASSUME IInv, NEW q \in Queries \cup Lookups, query[q].at \in Settled \ {"adfilter"},
         query[q].began = changes
  PROVE  /\ Undecided(q, query[q]) /\ Cfg(q) = Seen(cfg)
         /\ ruling[query[q].domain] \notin {"block", "redirect", "remote", "domestic"}
         /\ ~(Seen(cfg).ads /\ query[q].domain \in ads)
         /\ FirstGroup(q) = First(q, Seen(cfg))
<1>1. Undecided(q, query[q])  BY StillUndecided DEF Settled
<1>2. Cfg(q) = Seen(cfg)  BY <1>1 DEF Undecided, Cfg
<1>3. FirstGroup(q) = First(q, Seen(cfg))  BY <1>2 DEF FirstGroup, First
<1> QED  BY <1>1, <1>2, <1>3 DEF Undecided

LEMMA FirstStage ==
  ASSUME IInv, NEW q \in Queries \cup Lookups, query[q] \in Asking, query[q].at = "first", StageGeosite(q)
  PROVE  OnItsWay(q)
<1> DEFINE d == query[q].domain
           f == FirstGroup(q)
           c == Seen(cfg)
           w == [query[q] EXCEPT !.second = Other(f)]
<1>0. TypeOK  BY DEF IInv
<1>1. IF d \in geo[f] THEN Forward(q, f, f) ELSE Continue(q, w)
  BY DEF StageGeosite, At, MatchGeosite, Domain
<1>2. f \in Groups /\ Other(f) \in Groups  BY Others DEF FirstGroup, Groups
<1>3. query[q].began = changes =>
        /\ ruling[d] \notin {"block", "redirect", "remote", "domestic"} /\ ~(c.ads /\ d \in ads)
        /\ Undecided(q, query[q]) /\ Cfg(q) = c /\ f = First(q, c)
  BY Passing DEF Settled
<1>4. CASE d \in geo[f]
  <2>1. Forward(q, f, f)  BY <1>1, <1>4
  <2>2. Route(f, f) \in RouteType  BY <1>2, RouteFields DEF Groups, Actions
  <2>3. ASSUME query[q].began = changes
        PROVE  \/ Route(f, f) = RouteNow(d)
               \/ q \in Lookups /\ d \in geo.remote \cap geo.domestic /\ Route(f, f) = Route("remote", "remote")
    <3>1. CASE c.mode = "loose" \/ ~c.leak
      <4>1. CASE q \in Queries
        <5>1. f = "domestic"  BY <1>3, <2>3, <3>1, <4>1 DEF First
        <5>2. d \in geo.domestic  BY <1>4, <5>1
        <5> HIDE DEF f, c, d
        <5>3. RouteNow(d) = Route("domestic", "domestic")  BY <1>3, <2>3, <3>1, <5>2, RouteNowCases DEF c
        <5> QED  BY <5>1, <5>3
      <4>2. CASE q \notin Queries
        <5>1. f = "remote" /\ q \in Lookups  BY <1>3, <2>3, <4>2 DEF First
        <5>2. d \in geo.remote  BY <1>4, <5>1
        <5> HIDE DEF f, c, d
        <5>3. d \notin geo.domestic => RouteNow(d) = Route("remote", "remote")
          BY <1>3, <2>3, <3>1, <5>2, RouteNowCases DEF c
        <5> QED  BY <5>1, <5>2, <5>3
      <4> QED  BY <4>1, <4>2
    <3>2. CASE ~(c.mode = "loose" \/ ~c.leak)
      <4>1. f = "remote"  BY <1>3, <2>3, <3>2 DEF First
      <4>2. d \in geo.remote  BY <1>4, <4>1
      <4> HIDE DEF f, c, d
      <4>3. RouteNow(d) = Route("remote", "remote")  BY <1>3, <2>3, <3>2, <4>2, RouteNowCases DEF c
      <4> QED  BY <4>1, <4>3
    <3> QED  BY <3>1, <3>2
  <2> HIDE DEF f
  <2> QED  BY <1>0, <2>1, <2>2, <2>3, Sent
<1>5. CASE d \notin geo[f]
  <2>1. "second" \in Words \ {"sent", "done", "cache"}  BY DEF Words
  <2>2. /\ w \in Asking /\ w.at = "first" /\ w.domain = d /\ w.began = query[q].began
        /\ w.cfg = query[q].cfg /\ w.second = Other(f)
    <3> HIDE DEF Words, f
    <3> QED  BY <1>2, AskingType
  <2>3. Continue(q, w)  BY <1>1, <1>5
  <2> HIDE DEF w
  <2>4. Following(Stages(q), w.at) = "second"  BY <2>2, Order
  <2>5. ASSUME query[q].began = changes
        PROVE  \A v \in Asking : Moved(w, v, "second") => Undecided(q, v)
    <3> SUFFICES ASSUME NEW v \in Asking, Moved(w, v, "second") PROVE Undecided(q, v)  OBVIOUS
    <3>1. v.at = "second" /\ v.domain = d /\ v.cfg = query[q].cfg /\ v.second = Other(f)
      BY <2>2 DEF Moved
    <3>2. Seen(v.cfg) = c  BY <1>3, <2>5, <3>1 DEF Cfg
    <3>3. v.second = Other(First(q, c)) /\ d \notin geo[First(q, c)]  BY <1>3, <1>5, <2>5, <3>1
    <3> QED  BY <1>3, <2>5, <3>1, <3>2, <3>3 DEF Undecided, Settled
  <2> QED  BY <1>0, <2>1, <2>2, <2>3, <2>4, <2>5, Passed
<1> QED  BY <1>4, <1>5

LEMMA SecondStage ==
  ASSUME IInv, NEW q \in Queries \cup Lookups, query[q] \in Asking, query[q].at = "second", StageGeosite(q)
  PROVE  OnItsWay(q)
<1> DEFINE d == query[q].domain
           s == query[q].second
           c == Seen(cfg)
           f == First(q, c)
<1>0. TypeOK  BY DEF IInv
<1>1. IF d \in geo[s] THEN Forward(q, s, s) ELSE Continue(q, query[q])
  BY DEF StageGeosite, At, MatchGeosite, Domain
<1>2. Route(s, s) \in RouteType
  <2>1. s \in Groups \cup {"none"}  BY AskingType
  <2> QED  BY <2>1 DEF Route, RouteType, Actions, Groups
<1>3. query[q].began = changes =>
        /\ ruling[d] \notin {"block", "redirect", "remote", "domestic"} /\ ~(c.ads /\ d \in ads)
        /\ Undecided(q, query[q]) /\ Cfg(q) = c /\ s = Other(f) /\ d \notin geo[f]
  <2>1. query[q].began = changes => Undecided(q, query[q])  BY Passing DEF Settled
  <2> QED  BY <2>1, Passing DEF Undecided, Settled
<1>4. (f = "remote" /\ Other(f) = "domestic") \/ (f = "domestic" /\ Other(f) = "remote")
  <2>1. f = "remote" \/ f = "domestic"  BY DEF First
  <2> HIDE DEF f
  <2> QED  BY <2>1, Others
<1>5. f = "domestic" => c.mode = "loose" \/ ~c.leak  BY DEF First
<1>6. CASE d \in geo[s]
  <2>1. Forward(q, s, s)  BY <1>1, <1>6
  <2>2. ASSUME query[q].began = changes PROVE Route(s, s) = RouteNow(d)
    <3>1. \/ s = "domestic" /\ d \notin geo.remote /\ d \in geo.domestic
          \/ s = "remote" /\ d \in geo.remote /\ d \notin geo.domestic
      BY <1>3, <1>4, <1>6, <2>2
    <3> HIDE DEF f, c, d, s
    <3>2. s = "domestic" => RouteNow(d) = Route("domestic", "domestic")  BY <1>3, <2>2, <3>1, RouteNowCases DEF c
    <3>3. s = "remote" => RouteNow(d) = Route("remote", "remote")  BY <1>3, <2>2, <3>1, RouteNowCases DEF c
    <3> QED  BY <3>1, <3>2, <3>3
  <2> QED  BY <1>0, <1>2, <2>1, <2>2, Sent
<1>7. CASE d \notin geo[s]
  <2>1. "adcategory" \in Words \ {"sent", "done", "cache"} /\ Following(Stages(q), query[q].at) = "adcategory"
    BY Order DEF Words
  <2>2. ASSUME query[q].began = changes
        PROVE  \A v \in Asking : Moved(query[q], v, "adcategory") => Undecided(q, v)
    <3>1. d \notin geo.remote /\ d \notin geo.domestic  BY <1>3, <1>4, <1>7, <2>2
    <3> QED  BY <1>3, <2>2, <3>1 DEF Moved, Undecided, Settled, Cfg
  <2> QED  BY <1>0, <1>1, <1>7, <2>1, <2>2, Passed
<1> QED  BY <1>6, <1>7

\* Behind the categories, the query's domain is in none of them.
LEMMA Unlisted ==
  ASSUME IInv, NEW q \in Queries \cup Lookups, query[q].began = changes,
         query[q].at \in {"adcategory", "hasRemote", "hasDomestic", "default"}
  PROVE  /\ Undecided(q, query[q]) /\ Cfg(q) = Seen(cfg)
         /\ ruling[query[q].domain] \notin {"block", "redirect", "remote", "domestic"}
         /\ ~(Seen(cfg).ads /\ query[q].domain \in ads)
         /\ query[q].domain \notin geo.remote /\ query[q].domain \notin geo.domestic
         /\ query[q].at # "adcategory" => ~(Seen(cfg).ads /\ query[q].domain \in geo.ads)
<1>1. query[q].at \in Settled \ {"adfilter"}  BY DEF Settled
<1>2. Undecided(q, query[q])  BY <1>1, Passing
<1> QED  BY <1>1, <1>2, Passing DEF Undecided

LEMMA AdCategoryStage ==
  ASSUME IInv, NEW q \in Queries \cup Lookups, query[q] \in Asking, StageAdCategory(q)
  PROVE  OnItsWay(q)
<1> DEFINE d == query[q].domain
           blocked == Cfg(q).ads /\ d \in geo.ads
<1>0. TypeOK /\ query[q].at = "adcategory"  BY DEF IInv, StageAdCategory, At
<1>1. query[q].began = changes =>
        /\ Undecided(q, query[q]) /\ Cfg(q) = Seen(cfg)
        /\ ruling[d] \notin {"block", "redirect", "remote", "domestic"}
        /\ ~(Seen(cfg).ads /\ d \in ads) /\ d \notin geo.remote /\ d \notin geo.domestic
  BY <1>0, Unlisted
<1>2. IF blocked THEN Answer(q, Refused("ad_block"), {"success"}) ELSE Continue(q, query[q])
  BY DEF StageAdCategory, MatchGeosite, Domain
<1>3. CASE blocked
  <2>1. query[q].began = changes => Refused("ad_block") = RouteNow(d)
    BY <1>1, <1>3, RouteNowCases
  <2> QED  BY <1>0, <1>2, <1>3, <2>1, Answered, RouteFields DEF Actions
<1>4. CASE ~blocked
  <2>1. "hasRemote" \in Words \ {"sent", "done", "cache"} /\ Following(Stages(q), query[q].at) = "hasRemote"
    BY <1>0, Order DEF Words
  <2>2. ASSUME query[q].began = changes
        PROVE  \A v \in Asking : Moved(query[q], v, "hasRemote") => Undecided(q, v)
    BY <1>0, <1>1, <1>4, <2>2 DEF Moved, Undecided, Settled, Cfg
  <2> QED  BY <1>0, <1>2, <1>4, <2>1, <2>2, Passed
<1> QED  BY <1>3, <1>4

LEMMA HasRemoteStage ==
  ASSUME IInv, NEW q \in Queries \cup Lookups, query[q] \in Asking, query[q].at = "hasRemote", StageLeak(q)
  PROVE  OnItsWay(q)
<1> DEFINE d == query[q].domain
           protects == Cfg(q).leak /\ d \notin Local
           w == [query[q] EXCEPT !.hasRemote = geo.hasRemote]
           u == [query[q] EXCEPT !.at = "default"]
<1>0. TypeOK /\ geo \in Geo  BY Looks DEF IInv
<1>1. query[q].began = changes =>
        /\ Undecided(q, query[q]) /\ Cfg(q) = Seen(cfg)
        /\ ruling[d] \notin {"block", "redirect", "remote", "domestic"}
        /\ ~(Seen(cfg).ads /\ d \in ads) /\ d \notin geo.remote /\ d \notin geo.domestic
        /\ ~(Seen(cfg).ads /\ d \in geo.ads)
  BY Unlisted
<1>2. IF protects THEN Continue(q, w) ELSE query' = [query EXCEPT ![q] = u]
  BY DEF StageLeak, At, HasGeositeCategories, isLocalDomain, Domain
<1>3. CASE protects
  <2>1. "hasDomestic" \in Words \ {"sent", "done", "cache"}  BY DEF Words
  <2>2. /\ w \in Asking /\ w.at = "hasRemote" /\ w.domain = d /\ w.began = query[q].began
        /\ w.cfg = query[q].cfg /\ w.hasRemote = geo.hasRemote
    <3> HIDE DEF Words
    <3>1. geo.hasRemote \in BOOLEAN  BY <1>0 DEF Geo
    <3> QED  BY <3>1, AskingType
  <2>3. Continue(q, w)  BY <1>2, <1>3
  <2> HIDE DEF w
  <2>4. Following(Stages(q), w.at) = "hasDomestic"  BY <2>2, Order
  <2>5. ASSUME query[q].began = changes
        PROVE  \A v \in Asking : Moved(w, v, "hasDomestic") => Undecided(q, v)
    <3> SUFFICES ASSUME NEW v \in Asking, Moved(w, v, "hasDomestic") PROVE Undecided(q, v)  OBVIOUS
    <3>1. v.at = "hasDomestic" /\ v.domain = d /\ v.cfg = query[q].cfg /\ (v.hasRemote <=> geo.hasRemote)
      BY <2>2 DEF Moved
    <3>2. Seen(v.cfg) = Seen(cfg) /\ Seen(cfg).leak  BY <1>1, <1>3, <2>5, <3>1 DEF Cfg
    <3> QED  BY <1>1, <1>3, <2>5, <3>1, <3>2 DEF Undecided, Settled
  <2> QED  BY <1>0, <2>1, <2>2, <2>3, <2>4, <2>5, Passed
<1>4. CASE ~protects
  <2>1. query' = [query EXCEPT ![q] = u]  BY <1>2, <1>4
  <2>2. /\ u \in Asking /\ u.at = "default" /\ u.domain = d /\ u.began = query[q].began
        /\ u.cfg = query[q].cfg
    <3>1. "default" \in Words  BY DEF Words
    <3> HIDE DEF Words
    <3> QED  BY <3>1, AskingType
  <2> HIDE DEF u
  <2>3. query'[q] = u
    <3>1. DOMAIN query = Queries \cup Lookups  BY <1>0 DEF TypeOK
    <3> QED  BY <2>1, <3>1
  <2>4. ASSUME query[q].began = changes PROVE Undecided(q, u)
    <3>1. Seen(u.cfg) = Seen(cfg) /\ ~(Seen(cfg).leak /\ d \notin Local)  BY <1>1, <1>4, <2>2, <2>4 DEF Cfg
    <3> QED  BY <1>1, <2>2, <2>4, <3>1 DEF Undecided, Settled, Protects
  <2>5. Documented(q, u)  BY <2>2, Before
  <2> QED  BY <2>1, <2>2, <2>3, <2>4, <2>5 DEF OnItsWay
<1> QED  BY <1>3, <1>4

LEMMA HasDomesticStage ==
  ASSUME IInv, NEW q \in Queries \cup Lookups, query[q] \in Asking, query[q].at = "hasDomestic", StageLeak(q)
  PROVE  OnItsWay(q)
<1> DEFINE d == query[q].domain
           c == Seen(cfg)
           both == query[q].hasRemote /\ geo.hasDomestic
           mode == Cfg(q).mode
<1>0. TypeOK  BY DEF IInv
<1>1. query[q].began = changes =>
        /\ Undecided(q, query[q]) /\ Cfg(q) = c
        /\ ruling[d] \notin {"block", "redirect", "remote", "domestic"}
        /\ ~(c.ads /\ d \in ads) /\ d \notin geo.remote /\ d \notin geo.domestic
        /\ ~(c.ads /\ d \in geo.ads)
        /\ (both <=> Protects(c, d))
  <2>1. query[q].began = changes => Undecided(q, query[q])  BY Unlisted
  <2>2. query[q].began = changes => (both <=> Protects(c, d))  BY <2>1 DEF Undecided, Protects
  <2> QED  BY <2>2, Unlisted
<1>2. /\ both /\ mode = "strict" => Answer(q, Refused("leak_block"), {"failed"})
      /\ both /\ mode = "standard" => Forward(q, "default", "remote")
      /\ ~(both /\ mode \in {"strict", "standard"}) => Continue(q, query[q])
  BY DEF StageLeak, At, HasGeositeCategories
<1>3. CASE both /\ mode = "strict"
  <2>1. query[q].began = changes => Refused("leak_block") = RouteNow(d)
    BY <1>1, <1>3, RouteNowCases
  <2> QED  BY <1>0, <1>2, <1>3, <2>1, Answered, RouteFields DEF Actions
<1>4. CASE both /\ mode = "standard"
  <2>1. query[q].began = changes => Route("default", "remote") = RouteNow(d)
    BY <1>1, <1>4, RouteNowCases
  <2>2. Route("default", "remote") \in RouteType  BY RouteFields DEF Actions, Groups
  <2> QED  BY <1>0, <1>2, <1>4, <2>1, <2>2, Sent
<1>5. CASE ~(both /\ mode \in {"strict", "standard"})
  <2>1. "default" \in Words \ {"sent", "done", "cache"} /\ Following(Stages(q), query[q].at) = "default"
    BY Order DEF Words
  <2>2. ASSUME query[q].began = changes
        PROVE  \A v \in Asking : Moved(query[q], v, "default") => Undecided(q, v)
    <3>1. ~(Protects(c, d) /\ c.mode \in {"strict", "standard"}) /\ Seen(query[q].cfg) = c
      BY <1>1, <1>5, <2>2 DEF Cfg
    <3> QED  BY <1>1, <2>2, <3>1 DEF Moved, Undecided, Settled
  <2> QED  BY <1>0, <1>2, <1>5, <2>1, <2>2, Passed
<1> QED  BY <1>3, <1>4, <1>5

LEMMA DefaultStage ==
  ASSUME IInv, NEW q \in Queries \cup Lookups, query[q] \in Asking, StageDefault(q)
  PROVE  OnItsWay(q)
<1> DEFINE d == query[q].domain
           c == Seen(cfg)
           group == IF q \in Queries THEN c.default ELSE Cfg(q).default
<1>0. TypeOK /\ query[q].at = "default"  BY DEF IInv, StageDefault, At
<1>1. query[q].began = changes =>
        /\ Undecided(q, query[q]) /\ Cfg(q) = c
        /\ ruling[d] \notin {"block", "redirect", "remote", "domestic"}
        /\ ~(c.ads /\ d \in ads) /\ d \notin geo.remote /\ d \notin geo.domestic
        /\ ~(c.ads /\ d \in geo.ads)
        /\ ~(Protects(c, d) /\ c.mode \in {"strict", "standard"})
  <2>1. query[q].began = changes => Undecided(q, query[q])  BY <1>0, Unlisted
  <2> QED  BY <1>0, <2>1, Unlisted DEF Undecided
<1>2. Forward(q, "default", group)  BY DEF StageDefault
<1>3. Route("default", group) \in RouteType
  <2>1. c \in Config /\ Cfg(q) \in Config  BY <1>0, Looks DEF Cfg
  <2>2. group \in Groups  BY <2>1 DEF Config
  <2> QED  BY <2>2, RouteFields DEF Actions
<1>4. query[q].began = changes => Route("default", group) = RouteNow(d)  BY <1>1, RouteNowCases
<1> QED  BY <1>0, <1>2, <1>3, <1>4, Sent

LEMMA StageTaken ==
  ASSUME IInv, NEW q \in Queries \cup Lookups, Stage(q)
  PROVE  query[q] \in Asking /\ OnItsWay(q)
<1>1. query[q] \in Asking  BY DEF Stage, IInv, TypeOK
<1>2. ASSUME StageGeosite(q) PROVE OnItsWay(q)
  <2>1. query[q].at = "first" \/ query[q].at = "second"  BY <1>2 DEF StageGeosite, At
  <2> QED  BY <1>1, <1>2, <2>1, FirstStage, SecondStage
<1>3. ASSUME StageLeak(q) PROVE OnItsWay(q)
  <2>1. query[q].at = "hasRemote" \/ query[q].at = "hasDomestic"  BY <1>3 DEF StageLeak, At
  <2> QED  BY <1>1, <1>3, <2>1, HasRemoteStage, HasDomesticStage
<1> QED
  BY <1>1, <1>2, <1>3, CacheStage, ConfigStage, RulesStage, AdFilterStage, AdCategoryStage, DefaultStage
     DEF Stage

Counters == [total : Nat, action : [Actions -> Nat], status : [Statuses -> Nat]]

\* What a query that is sent or answered says of itself is final.
LEMMA Closed ==
  ASSUME IInv, NEW q \in Queries \cup Lookups, At(q, "sent"), NEW statuses,
         \/ Answer(q, query[q].route, statuses)
         \/ Answer(q, Route("failed", query[q].route.group), statuses)
  PROVE  query[q] \in Asking /\ OnItsWay(q)
<1>0. TypeOK  BY DEF IInv
<1>1. query[q] \in Asking  BY DEF IInv, TypeOK, At, Idle
<1>2. query[q].route \in RouteType  BY <1>1, AskingType DEF RouteType
<1>3. Route("failed", query[q].route.group) \in RouteType /\ Route("failed", query[q].route.group).action = "failed"
  BY <1>2 DEF RouteType, Route, Actions
<1>4. CASE Answer(q, Route("failed", query[q].route.group), statuses)
  <2> DEFINE failed == Route("failed", query[q].route.group)
  <2>1. failed \in RouteType /\ failed.action = "failed" /\ Answer(q, failed, statuses)  BY <1>3, <1>4
  <2> HIDE DEF failed
  <2> QED  BY <1>0, <1>1, <2>1, Answered
<1>5. CASE Answer(q, query[q].route, statuses)
  <2> DEFINE route == query[q].route
  <2>1. /\ query'[q] \in Asking /\ query'[q].at = "done" /\ query'[q].domain = query[q].domain
        /\ query'[q].began = query[q].began /\ query'[q].route = route
    BY <1>0, <1>1, <1>2, <1>5, AnswerTo
  <2>2. query' = [query EXCEPT ![q] = query'[q]]  BY <1>0, <1>1, <1>5, Answers
  <2>3. Undecided(q, query'[q])  BY <2>1, Beyond
  <2>4. query[q].began = changes => Documented(q, query[q])  BY DEF IInv, OnCourse, At, Idle
  <2>5. query[q].began = changes => Documented(q, query'[q])  BY <2>1, <2>4 DEF Documented, At
  <2> QED  BY <1>1, <2>1, <2>2, <2>3, <2>5 DEF OnItsWay
<1> QED  BY <1>4, <1>5

LEMMA AnswerCounts ==
  ASSUME stats \in Counters, NEW q, NEW route, NEW statuses, Answer(q, route, statuses)
  PROVE  stats' \in Counters
<1> DEFINE A == stats.action
           k == route.action
           X == [A EXCEPT ![k] = A[k] + 1]
           Y == [s \in Statuses |-> IF s \in statuses THEN stats.status[s] + 1 ELSE stats.status[s]]
<1>1. A \in [Actions -> Nat] /\ stats.status \in [Statuses -> Nat]  BY DEF Counters
<1>2. stats' = stats \/ stats' = [stats EXCEPT !.action = X, !.status = Y]  BY DEF Answer
<1>3. Y \in [Statuses -> Nat]
  <2> HIDE DEF Statuses
  <2> QED  BY <1>1
<1>4. X \in [Actions -> Nat]
  <2> HIDE DEF A, k, Actions
  <2>1. DOMAIN A = Actions /\ \A a \in Actions : A[a] \in Nat  BY <1>1
  <2>2. DOMAIN X = Actions /\ X = [a \in Actions |-> IF a = k THEN A[k] + 1 ELSE A[a]]  BY <2>1
  <2>3. \A a \in Actions : (IF a = k THEN A[k] + 1 ELSE A[a]) \in Nat  BY <2>1
  <2> HIDE DEF X
  <2> QED  BY <2>2, <2>3
<1> HIDE DEF X, Y, Actions, Statuses
<1> QED  BY <1>2, <1>3, <1>4 DEF Counters

LEMMA StatsKept ==
  ASSUME IInv, NEW q \in Queries \cup Lookups, Stage(q)
  PROVE  stats' \in Counters
<1>1. stats \in Counters  BY DEF IInv, TypeOK, Counters
<1>2. \A route, statuses : Answer(q, route, statuses) => stats' \in Counters  BY <1>1, AnswerCounts
<1>3. \A u : Continue(q, u) => stats' = stats  BY DEF Continue
<1>4. \A a, g : Forward(q, a, g) => stats' = stats  BY DEF Forward
<1>5. StageCache(q) \/ StageConfig(q) \/ StageAdFilter(q) \/ StageAdCategory(q) \/ StageDefault(q)
        => stats' \in Counters
  BY <1>1, <1>2, <1>3, <1>4 DEF StageCache, StageConfig, StageAdFilter, StageAdCategory, StageDefault
<1>6. StageGeosite(q) => stats' \in Counters  BY <1>1, <1>3, <1>4 DEF StageGeosite
<1>7. StageRules(q) => stats' \in Counters
  <2> DEFINE type == ruling[Domain(q)]
  <2> HIDE DEF type
  <2>1. StageRules(q) => \/ Answer(q, Refused("rule_block"), {"success"})
                         \/ Answer(q, Refused("redirected"), {"success"})
                         \/ Forward(q, type, type) \/ Continue(q, query[q])
    BY DEF StageRules, type
  <2> QED  BY <1>1, <1>2, <1>3, <1>4, <2>1
<1>8. StageLeak(q) => stats' \in Counters
  <2>1. StageLeak(q) => \/ Continue(q, [query[q] EXCEPT !.hasRemote = HasGeositeCategories("remote")])
                        \/ UNCHANGED stats \/ Answer(q, Refused("leak_block"), {"failed"})
                        \/ Forward(q, "default", "remote") \/ Continue(q, query[q])
    BY DEF StageLeak
  <2> QED  BY <1>1, <1>2, <1>3, <1>4, <2>1
<1> QED  BY <1>5, <1>6, <1>7, <1>8 DEF Stage

\* While nothing changes around the queries, what is said of one stays true.
LEMMA Kept ==
  ASSUME UNCHANGED environment, NEW q
  PROVE  /\ Undecided(q, query[q])' <=> Undecided(q, query'[q])
         /\ Documented(q, query[q])' <=> Documented(q, query'[q])
<1>1. UNCHANGED <<config, cfg, geo, ads, ruling>>  BY DEF environment
<1> QED  BY <1>1 DEF Undecided, Documented, RouteNow, Seen, Protects, First

LEMMA Alone ==
  ASSUME IInv, UNCHANGED environment, NEW q \in Queries \cup Lookups, NEW u \in Asking,
         query' = [query EXCEPT ![q] = u], u.at # "cache" \/ q \in Queries,
         u.began <= changes, u.began = changes => Undecided(q, u) /\ Documented(q, u),
         cache' \in [Domains -> Groups \cup {"none"}], stats' \in Counters
  PROVE  IInv'
<1>0. TypeOK /\ query \in [Queries \cup Lookups -> {Idle} \cup Asking]  BY DEF IInv, TypeOK
<1>1. TypeOK'
  <2>1. query' \in [Queries \cup Lookups -> {Idle} \cup Asking]  BY <1>0
  <2>2. UNCHANGED <<config, cfg, patch, geo, ads, ruling, changes, gap>>  BY DEF environment
  <2>3. \A p \in Lookups \ Queries : query'[p].at # "cache"
    <3>1. \A p \in Lookups \ Queries : p # q => query'[p] = query[p]  BY <1>0
    <3>2. query'[q] = u  BY <1>0
    <3> QED  BY <1>0, <3>1, <3>2 DEF TypeOK
  <2> QED  BY <1>0, <2>1, <2>2, <2>3 DEF TypeOK, Counters
<1>2. OnCourse'
  <2>0. changes' = changes  BY DEF environment
  <2> SUFFICES ASSUME NEW p \in Queries \cup Lookups, query'[p] # Idle, query'[p].began = changes
               PROVE  Undecided(p, query'[p]) /\ Documented(p, query'[p])
    <3>1. \A p \in Queries \cup Lookups : /\ Undecided(p, query[p])' <=> Undecided(p, query'[p])
                                          /\ Documented(p, query[p])' <=> Documented(p, query'[p])
      BY Kept
    <3> QED  BY <2>0, <3>1 DEF OnCourse, Idle
  <2>1. CASE p = q
    <3>1. query'[p] = u  BY <1>0, <2>1
    <3> QED  BY <2>1, <3>1
  <2>2. CASE p # q
    <3>1. query'[p] = query[p]  BY <1>0, <2>2
    <3>2. Undecided(p, query[p]) /\ Documented(p, query[p])  BY <3>1 DEF IInv, OnCourse
    <3> QED  BY <3>1, <3>2
  <2> QED  BY <2>1, <2>2
<1>3. Begun'
  <2>1. changes' = changes  BY DEF environment
  <2>2. query'[q] = u /\ \A p \in Queries \cup Lookups : p # q => query'[p] = query[p]  BY <1>0
  <2> QED  BY <2>1, <2>2 DEF IInv, Begun, Idle
<1> QED  BY <1>1, <1>2, <1>3 DEF IInv

LEMMA OnItsWayKeeps ==
  ASSUME IInv, UNCHANGED environment, NEW q \in Queries \cup Lookups, query[q] \in Asking, OnItsWay(q),
         cache' \in [Domains -> Groups \cup {"none"}], stats' \in Counters
  PROVE  IInv'
<1> DEFINE u == query'[q]
<1>1. /\ query' = [query EXCEPT ![q] = u] /\ u \in Asking /\ u.at # "cache"
      /\ u.began = changes => Undecided(q, u) /\ Documented(q, u)
  BY DEF OnItsWay
<1>2. u.began <= changes
  <2>1. query[q] # Idle  BY AskingType DEF Idle, Words
  <2> QED  BY <2>1 DEF OnItsWay, IInv, Begun
<1> HIDE DEF u
<1> QED  BY <1>1, <1>2, Alone

LEMMA ReceiveStep ==
  ASSUME IInv, NEW q \in Queries \cup Lookups, NEW d \in Domains, Receive(q, d)
  PROVE  IInv'
<1> DEFINE at == Head(Stages(q))
           u == [at |-> at, domain |-> d, cfg |-> Copy(config), second |-> "none", hasRemote |-> FALSE,
                 route |-> Refused("none"), began |-> changes]
<1>1. query' = [query EXCEPT ![q] = u] /\ UNCHANGED <<environment, cache>>  BY DEF Receive
<1>2. at = IF q \in Queries THEN "cache" ELSE "rules"
  <2>1. Head(ResolveStages) = "cache" /\ Head(LookupStages) = "rules"  BY DEF ResolveStages, LookupStages
  <2> QED  BY <2>1 DEF Stages
<1>3. u \in Asking /\ u.at = at
  <2>1. at \in Words  BY <1>2 DEF Words
  <2>2. Copy(config) \in Reference  BY DEF IInv, TypeOK, Copy, Reference
  <2>3. Refused("none") \in RouteType  BY RouteFields
  <2>4. changes \in 0..MaxChanges  BY DEF IInv, TypeOK
  <2> HIDE DEF Words, at
  <2> QED  BY <2>1, <2>2, <2>3, <2>4, AskingType DEF RouteType
<1> HIDE DEF u, at
<1>4. Undecided(q, u) /\ Documented(q, u)  BY <1>2, <1>3 DEF Undecided, Documented, Settled
<1>5. stats' \in Counters
  <2>1. stats \in Counters  BY DEF IInv, TypeOK, Counters
  <2>2. stats' = stats \/ stats' = [stats EXCEPT !.total = stats.total + 1]  BY DEF Receive
  <2> QED  BY <2>1, <2>2 DEF Counters
<1>6. cache' \in [Domains -> Groups \cup {"none"}]  BY <1>1 DEF IInv, TypeOK
<1>7. u.at # "cache" \/ q \in Queries  BY <1>2, <1>3
<1>8. UNCHANGED environment  BY <1>1
<1>9. u.began <= changes
  <2>1. changes \in Int  BY DEF IInv, TypeOK
  <2> QED  BY <2>1 DEF u
<1> QED  BY <1>1, <1>3, <1>4, <1>5, <1>6, <1>7, <1>8, <1>9, Alone

LEMMA ProgramStep ==
  ASSUME IInv, NEW q \in Queries \cup Lookups, Program(q)
  PROVE  IInv'
<1>0. cache \in [Domains -> Groups \cup {"none"}] /\ stats \in Counters  BY DEF IInv, TypeOK, Counters
<1>1. CASE Stage(q)
  <2>1. UNCHANGED environment /\ cache' = cache  BY <1>1 DEF Stage
  <2> QED  BY <1>0, <1>1, <2>1, StageTaken, StatsKept, OnItsWayKeeps
<1>2. ASSUME NEW cacheable \in BOOLEAN, NEW status \in {"success", "failed"}, Reply(q, cacheable, status)
      PROVE  IInv'
  <2>1. At(q, "sent") /\ Answer(q, query[q].route, {status}) /\ UNCHANGED environment  BY <1>2 DEF Reply
  <2>2. query[q] \in Asking /\ OnItsWay(q)  BY <2>1, Closed
  <2>3. stats' \in Counters  BY <1>0, <2>1, AnswerCounts
  <2>4. query[q].route.group \in Groups \cup {"none"}  BY <2>2, AskingType
  <2>5. cache' = cache \/ cache' = [cache EXCEPT ![Domain(q)] = query[q].route.group]  BY <1>2 DEF Reply
  <2>6. cache' \in [Domains -> Groups \cup {"none"}]
    <3> DEFINE g == query[q].route.group
               G == Groups \cup {"none"}
    <3>1. g \in G /\ cache \in [Domains -> G] /\ (cache' = cache \/ cache' = [cache EXCEPT ![Domain(q)] = g])
      BY <1>0, <2>4, <2>5
    <3> HIDE DEF g, G
    <3>2. cache' \in [Domains -> G]  BY <3>1
    <3> QED  BY <3>2 DEF G
  <2> QED  BY <2>1, <2>2, <2>3, <2>6, OnItsWayKeeps
<1>3. CASE Fail(q)
  <2>1. /\ At(q, "sent") /\ Answer(q, Route("failed", query[q].route.group), {"timeout", "failed"})
        /\ UNCHANGED environment /\ cache' = cache
    BY <1>3 DEF Fail
  <2>2. query[q] \in Asking /\ OnItsWay(q)  BY <2>1, Closed
  <2>3. stats' \in Counters  BY <1>0, <2>1, AnswerCounts
  <2> QED  BY <1>0, <2>1, <2>2, <2>3, OnItsWayKeeps
<1> QED  BY <1>1, <1>2, <1>3, ReceiveStep DEF Program

\* History takes down the changes that leave something unprotected.
Remembers == gap' = [kind \in DOMAIN Modes |-> IF Shielded(kind)' THEN gap[kind] ELSE changes']

\* A change lies outside the time of every query that began before it.
LEMMA ChangeStep ==
  ASSUME IInv, Change, Remembers, config' \in Configs, geo' \in Geos, ads' \in AdLists, ruling' \in Rulings,
         cfg' \in Reference, patch' \in {"idle", "decoded", "notified", "loaded"},
         query' \in [Queries \cup Lookups -> {Idle} \cup Asking],
         \A q \in Queries \cup Lookups :
           query'[q] = query[q] \/ (query'[q].at = query[q].at /\ query'[q].began = query[q].began)
  PROVE  IInv'
<1>1. changes \in 0..MaxChanges /\ changes' \in 0..MaxChanges /\ changes' > changes
  BY ResolverConstants DEF IInv, TypeOK, Change
<1>2. \A q \in Queries \cup Lookups :
        query'[q] # Idle => query'[q].began # changes' /\ query'[q].began <= changes'
  <2> SUFFICES ASSUME NEW q \in Queries \cup Lookups, query'[q] # Idle
               PROVE  query'[q].began # changes' /\ query'[q].began <= changes'
    OBVIOUS
  <2>1. query'[q] \in Asking  OBVIOUS
  <2>2. query[q] # Idle
    <3>1. query'[q].at # "idle"  BY <2>1, AskingType DEF Words
    <3> QED  BY <3>1 DEF Idle
  <2>3. query[q] \in Asking  BY <2>2 DEF IInv, TypeOK
  <2>4. query'[q].began = query[q].began /\ query[q].began \in 0..MaxChanges  BY <2>3, AskingType
  <2>5. query[q].began <= changes  BY <2>2 DEF IInv, Begun
  <2> QED  BY <1>1, <2>4, <2>5
<1>3. OnCourse' /\ Begun'  BY <1>2 DEF OnCourse, Begun, Idle
<1>4. TypeOK'
  <2>1. cache' = cache /\ stats' = stats  BY DEF Change
  <2>2. gap' \in [DOMAIN Modes -> -1..MaxChanges]
    <3>1. gap \in [DOMAIN Modes -> -1..MaxChanges]  BY DEF IInv, TypeOK
    <3>2. changes' \in -1..MaxChanges  BY <1>1
    <3> QED  BY <3>1, <3>2 DEF Remembers
  <2> QED  BY <1>1, <2>1, <2>2 DEF IInv, TypeOK
<1> QED  BY <1>3, <1>4 DEF IInv

LEMMA InitStep == Init => IInv
<1> SUFFICES ASSUME Init PROVE IInv  OBVIOUS
<1> USE DEF Init
<1>1. \A q \in Queries \cup Lookups : query[q] = Idle  OBVIOUS
<1>2. OnCourse /\ Begun  BY <1>1 DEF OnCourse, Begun
<1>3. TypeOK
  <2>1. cfg \in Reference  BY DEF Copy, Reference
  <2>2. stats \in Counters
    <3> HIDE DEF Actions, Statuses
    <3> QED  BY DEF Counters
  <2>3. query \in [Queries \cup Lookups -> {Idle} \cup Asking]  OBVIOUS
  <2>4. cache \in [Domains -> Groups \cup {"none"}]  OBVIOUS
  <2>5. \A q \in Lookups \ Queries : query[q].at # "cache"  BY <1>1 DEF Idle
  <2>6. changes \in 0..MaxChanges  BY ResolverConstants
  <2>7. gap \in [DOMAIN Modes -> -1..MaxChanges]
    <3>1. -1 \in -1..MaxChanges /\ 0 \in -1..MaxChanges  BY ResolverConstants
    <3> QED  BY <3>1
  <2> QED  BY <2>1, <2>2, <2>3, <2>4, <2>5, <2>6, <2>7 DEF TypeOK, Counters
<1> QED  BY <1>2, <1>3 DEF IInv

LEMMA ReloadStep == ASSUME IInv, Remembers, NEW c \in Configs, ReloadLoad(c) PROVE IInv'
<1>0. TypeOK  BY DEF IInv
<1>1. \A u \in Asking : [u EXCEPT !.cfg = Copy(Seen(u.cfg))] \in Asking
  <2> SUFFICES ASSUME NEW u \in Asking PROVE [u EXCEPT !.cfg = Copy(Seen(u.cfg))] \in Asking  OBVIOUS
  <2> DEFINE copy == Copy(Seen(u.cfg))
  <2>1. copy \in Reference  BY <1>0, Looks DEF Copy, Reference
  <2> HIDE DEF copy, Words
  <2>2. [u EXCEPT !.cfg = copy] \in Asking  BY <2>1, AskingType
  <2> QED  BY <2>2 DEF copy
<1>2. query' = [q \in Queries \cup Lookups |-> IF query[q] = Idle THEN Idle
                                              ELSE [query[q] EXCEPT !.cfg = Copy(Seen(query[q].cfg))]]
  <2>1. DOMAIN query = Queries \cup Lookups  BY <1>0 DEF TypeOK
  <2> QED  BY <2>1 DEF ReloadLoad
<1>3. \A q \in Queries \cup Lookups : query[q] = Idle \/ query[q] \in Asking  BY <1>0 DEF TypeOK
<1>4. query' \in [Queries \cup Lookups -> {Idle} \cup Asking]  BY <1>1, <1>2, <1>3
<1>5. \A q \in Queries \cup Lookups :
        query'[q] = query[q] \/ (query'[q].at = query[q].at /\ query'[q].began = query[q].began)
  <2> SUFFICES ASSUME NEW q \in Queries \cup Lookups, query[q] # Idle
               PROVE  query'[q].at = query[q].at /\ query'[q].began = query[q].began
    BY <1>2
  <2> DEFINE copy == Copy(Seen(query[q].cfg))
  <2>1. query'[q] = [query[q] EXCEPT !.cfg = copy]  BY <1>2
  <2>2. query[q] \in Asking  BY <1>3
  <2> HIDE DEF copy, Words
  <2> QED  BY <2>1, <2>2, AskingType
<1>6. cfg' \in Reference  BY <1>0, Looks DEF ReloadLoad, Copy, Reference
<1> QED  BY <1>0, <1>4, <1>5, <1>6, ChangeStep DEF ReloadLoad, TypeOK

LEMMA OtherChanges ==
  ASSUME IInv, Remembers,
         \/ \E c \in Configs : PatchDecode(c)
         \/ PatchNotify \/ PatchInstall \/ ReloadNotify
         \/ \E g \in Geos : LoadGeosite(g)
         \/ \E a \in AdLists : LoadAdFilter(a)
         \/ \E r \in Rulings : SetRules(r)
  PROVE  IInv'
<1>0. /\ config \in Configs /\ geo \in Geos /\ ads \in AdLists /\ ruling \in Rulings /\ cfg \in Reference
      /\ patch \in {"idle", "decoded", "notified", "loaded"}
      /\ query \in [Queries \cup Lookups -> {Idle} \cup Asking]
  BY DEF IInv, TypeOK
<1>1. Live \in Reference /\ Copy(config) \in Reference  BY <1>0 DEF Live, Copy, Reference
<1>2. /\ Change /\ query' = query
      /\ config' \in Configs /\ geo' \in Geos /\ ads' \in AdLists /\ ruling' \in Rulings /\ cfg' \in Reference
      /\ patch' \in {"idle", "decoded", "notified", "loaded"}
  BY <1>0, <1>1 DEF PatchDecode, PatchNotify, PatchInstall, ReloadNotify, LoadGeosite, LoadAdFilter, SetRules
<1>3. query' \in [Queries \cup Lookups -> {Idle} \cup Asking]  BY <1>0, <1>2
<1> QED  BY <1>2, <1>3, ChangeStep

LEMMA CacheStep ==
  ASSUME IInv, UNCHANGED <<environment, query, stats>>, cache' \in [Domains -> Groups \cup {"none"}]
  PROVE  IInv'
<1>1. UNCHANGED <<config, cfg, patch, geo, ads, ruling, changes, gap, query, stats>>  BY DEF environment
<1>2. TypeOK'  BY <1>1 DEF IInv, TypeOK
<1>3. OnCourse'  BY <1>1, Kept DEF IInv, OnCourse, environment
<1>4. Begun'  BY <1>1 DEF IInv, Begun
<1> QED  BY <1>2, <1>3, <1>4 DEF IInv

LEMMA StepKeeps == IInv /\ [Next]_vars => IInv'
<1> SUFFICES ASSUME IInv, [Next]_vars PROVE IInv'  OBVIOUS
<1>0. cache \in [Domains -> Groups \cup {"none"}]  BY DEF IInv, TypeOK
<1>1. ASSUME NEW q \in Queries \cup Lookups, Program(q) PROVE IInv'  BY <1>1, ProgramStep
<1>2. CASE Changes
  <2>1. Remembers  BY <1>2 DEF Changes, Remembers
  <2>2. ASSUME NEW c \in Configs, ReloadLoad(c) PROVE IInv'  BY <2>1, <2>2, ReloadStep
  <2> QED  BY <1>2, <2>1, <2>2, OtherChanges DEF Changes
<1>3. ASSUME NEW d \in Domains, Expire(d) PROVE IInv'
  <2>1. UNCHANGED <<environment, query, stats>> /\ cache' = [cache EXCEPT ![d] = "none"]  BY <1>3 DEF Expire
  <2>2. cache' \in [Domains -> Groups \cup {"none"}]  BY <1>0, <2>1
  <2> QED  BY <2>1, <2>2, CacheStep
<1>4. CASE ClearCache
  <2>1. UNCHANGED <<environment, query, stats>> /\ cache' = [d \in Domains |-> "none"]  BY <1>4 DEF ClearCache
  <2>2. cache' \in [Domains -> Groups \cup {"none"}]  BY <2>1
  <2> QED  BY <2>1, <2>2, CacheStep
<1>5. CASE UNCHANGED vars
  <2>1. UNCHANGED <<environment, query, stats>> /\ cache' = cache  BY <1>5 DEF vars
  <2> QED  BY <1>0, <2>1, CacheStep
<1> QED  BY <1>1, <1>2, <1>3, <1>4, <1>5 DEF Next
-----------------------------------------------------------------------------
\* The state keeps its types: a query is always at one of the stages of its own order,
\* and a lookup never at the cache (resolver.go:210, 387).
THEOREM ResolverTypeOK == Spec => []TypeOK
<1>1. IInv => TypeOK  BY DEF IInv
<1> QED  BY <1>1, InitStep, StepKeeps, PTL DEF Spec

\* resolver.go:210, 387: whatever the domains, the configurations, the Geo data and the rules
\* are, a query during which nothing changed takes the route the Kernel Guide documents, but
\* for the names that strict mode refuses and there is no Geo data of both kinds (307), and
\* a lookup does but for those and the domains of both kinds of categories.
THEOREM ResolverDecided == Spec => []Decided
<1>1. ASSUME IInv PROVE Decided
  <2> SUFFICES ASSUME NEW q \in Queries \cup Lookups, Undisturbed(q)
               PROVE  \/ query[q].route = Now(query[q].domain)
                      \/ /\ q \in Lookups /\ query[q].domain \in geo.remote \cap geo.domestic
                         /\ query[q].route = Route("remote", "remote")
                      \/ /\ Now(query[q].domain) = Refused("leak_block") /\ ~(geo.hasRemote /\ geo.hasDomestic)
                         /\ query[q].route = Route("default", Seen(cfg).default)
    BY DEF Decided, Domain
  <2>1. \/ query[q].route = RouteNow(query[q].domain)
        \/ /\ q \in Lookups /\ query[q].domain \in geo.remote \cap geo.domestic
           /\ query[q].route = Route("remote", "remote")
    BY <1>1 DEF IInv, OnCourse, Undisturbed, Documented
  <2> QED  BY <2>1, NowOrForwarded
<1> QED  BY <1>1, InitStep, StepKeeps, PTL DEF Spec
-----------------------------------------------------------------------------
\* Sums.  A nonempty set of numbers has a smallest one, so a claim about sets of every size holds if
\* the least size for which it failed would have a predecessor.
LEMMA LeastOne ==
  ASSUME NEW S, S \subseteq Nat, S # {}
  PROVE  \E k \in S : \A j \in S : k <= j
<1> DEFINE R == {ss \in Nat \X Nat : ss[1] < ss[2]}
<1>1. IsWellFoundedOn(R, Nat)  BY NatLessThanWellFounded DEF OpToRel
<1> HIDE DEF R
<1>2. PICK k \in S : \A j \in S : ~(<<j, k>> \in R)  BY <1>1, WFMin
<1>3. ASSUME NEW j \in S PROVE k <= j
  <2>1. k \in Nat /\ j \in Nat /\ <<j, k>> \in Nat \X Nat  OBVIOUS
  <2>2. ~(j < k)  BY <1>2, <2>1 DEF R
  <2> QED  BY <2>1, <2>2
<1> QED  BY <1>3

\* The function that MapThenFoldSet defines by recursion exists.
Folding(S, V, pick, G) == /\ \A s \in SUBSET S : s # {} => pick[s] \in s
                          /\ \A x \in S, v \in V : G[x][v] \in V
Folded(it, S, V, base, pick, G) ==
  /\ it \in [SUBSET S -> V]
  /\ \A s \in SUBSET S : it[s] = IF s = {} THEN base ELSE G[pick[s]][it[s \ {pick[s]}]]

LEMMA FoldExists ==
  ASSUME NEW S, IsFiniteSet(S), NEW V, NEW base \in V, NEW pick, NEW G, Folding(S, V, pick, G)
  PROVE  \E it : Folded(it, S, V, base, pick, G)
<1> DEFINE Sub(n) == {s \in SUBSET S : Cardinality(s) <= n}
           Step(it, s) == IF s = {} THEN base ELSE G[pick[s]][it[s \ {pick[s]}]]
           Good(n, it) == it \in [Sub(n) -> V] /\ \A s \in Sub(n) : it[s] = Step(it, s)
           Bad == {n \in Nat : ~\E it : Good(n, it)}
<1>1. \A s \in SUBSET S : IsFiniteSet(s) /\ Cardinality(s) \in Nat /\ (Cardinality(s) = 0 <=> s = {})
  BY FS_Subset, FS_CardinalityType, FS_EmptySet
<1>2. \A s \in SUBSET S : s # {} => s \ {pick[s]} \in SUBSET S /\ Cardinality(s \ {pick[s]}) = Cardinality(s) - 1
  BY <1>1, FS_RemoveElement DEF Folding
<1>3. ASSUME Bad # {} PROVE FALSE
  <2>1. Bad \subseteq Nat  OBVIOUS
  <2>2. PICK k \in Bad : \A j \in Bad : k <= j
    <3> HIDE DEF Bad
    <3> QED  BY <1>3, <2>1, LeastOne
  <2>3. CASE k = 0
    <3> DEFINE it == [s \in Sub(0) |-> base]
    <3>1. \A s \in Sub(0) : s = {}  BY <1>1
    <3>2. Good(0, it)  BY <3>1
    <3> QED  BY <2>3, <3>2
  <2>4. CASE k # 0
    <3>1. k \in Nat /\ k - 1 \in Nat /\ k - 1 < k  BY <2>4
    <3>2. k - 1 \notin Bad
      <4> HIDE DEF Bad
      <4> QED  BY <2>2, <3>1
    <3>3. PICK h : Good(k - 1, h)  BY <3>1, <3>2
    <3> DEFINE it == [s \in Sub(k) |-> Step(h, s)]
    <3>4. \A s \in Sub(k) : s # {} => s \ {pick[s]} \in Sub(k - 1)  BY <1>1, <1>2, <3>1
    <3>5. Sub(k - 1) \subseteq Sub(k)  BY <1>1, <3>1
    <3> HIDE DEF Sub
    <3>6. \A s \in Sub(k) : s # {} => pick[s] \in S /\ h[s \ {pick[s]}] \in V  BY <3>3, <3>4 DEF Sub, Folding
    <3>7. it \in [Sub(k) -> V]  BY <3>6 DEF Folding
    <3>8. \A t \in Sub(k - 1) : it[t] = h[t]  BY <3>3, <3>5
    <3>9. \A s \in Sub(k) : it[s] = Step(it, s)  BY <3>4, <3>8
    <3>10. Good(k, it)  BY <3>7, <3>9
    <3> QED  BY <3>10
  <2> QED  BY <2>3, <2>4
<1>4. Cardinality(S) \in Nat  BY <1>1
<1>5. PICK it : Good(Cardinality(S), it)  BY <1>3, <1>4
<1>6. Sub(Cardinality(S)) = SUBSET S  BY <1>1, FS_Subset
<1>7. Folded(it, S, V, base, pick, G)  BY <1>5, <1>6 DEF Folded
<1> QED  BY <1>7


\* The table of partial sums behind SumFunction.
Summed(it, f, D) == \A s \in SUBSET D :
  it[s] = IF s = {} THEN 0 ELSE f[CHOOSE x \in s : TRUE] + it[s \ {CHOOSE x \in s : TRUE}]

LEMMA SumIs ==
  ASSUME NEW D, IsFiniteSet(D), NEW f \in [D -> Nat]
  PROVE  \E it : Summed(it, f, D) /\ SumFunction(f) = it[D]
<1> DEFINE Step(it, s) == IF s = {} THEN 0 ELSE f[CHOOSE x \in s : TRUE] + it[s \ {CHOOSE x \in s : TRUE}]
           iter == CHOOSE it : it = [s \in SUBSET D |-> Step(it, s)]
<1>1. SumFunction(f) = iter[D]
  <2>1. DOMAIN f = D  OBVIOUS
  <2> QED  BY <2>1 DEF SumFunction, SumFunctionOnSet, FoldFunctionOnSet, MapThenFoldSet
<1>2. \E it : it = [s \in SUBSET D |-> Step(it, s)]
  <2> DEFINE pick == [s \in SUBSET D |-> CHOOSE x \in s : TRUE]
             G == [x \in D |-> [n \in Nat |-> f[x] + n]]
  <2>1. \A s \in SUBSET D : pick[s] = (CHOOSE x \in s : TRUE) /\ (s # {} => pick[s] \in s)  OBVIOUS
  <2>2. \A x \in D, n \in Nat : G[x][n] \in Nat /\ G[x][n] = f[x] + n  OBVIOUS
  <2> HIDE DEF pick, G
  <2>3. PICK it : Folded(it, D, Nat, 0, pick, G)
    <3>1. 0 \in Nat /\ Folding(D, Nat, pick, G)  BY <2>1, <2>2 DEF Folding
    <3> QED  BY <3>1, FoldExists
  <2>4. ASSUME NEW s \in SUBSET D PROVE it[s] = Step(it, s)
    <3>1. CASE s = {}  BY <2>3, <3>1 DEF Folded
    <3>2. CASE s # {}
      <4>1. pick[s] \in D /\ s \ {pick[s]} \in SUBSET D  BY <2>1, <3>2
      <4>2. it[s \ {pick[s]}] \in Nat  BY <2>3, <4>1 DEF Folded
      <4>3. it[s] = G[pick[s]][it[s \ {pick[s]}]]  BY <2>3, <3>2 DEF Folded
      <4>4. it[s] = f[pick[s]] + it[s \ {pick[s]}]  BY <2>2, <4>1, <4>2, <4>3
      <4> QED  BY <2>1, <3>2, <4>4
    <3> QED  BY <3>1, <3>2
  <2> HIDE DEF Step
  <2>5. it = [s \in SUBSET D |-> Step(it, s)]  BY <2>3, <2>4 DEF Folded
  <2> QED  BY <2>5
<1>3. iter = [s \in SUBSET D |-> Step(iter, s)]
  <2> HIDE DEF Step
  <2> QED  BY <1>2
<1> HIDE DEF iter
<1>4. \A s \in SUBSET D : iter[s] = Step(iter, s)
  <2> HIDE DEF Step
  <2> QED  BY <1>3
<1>5. Summed(iter, f, D)  BY <1>4 DEF Summed
<1> QED  BY <1>1, <1>5

\* A set with one element less.
LEMMA OneLess ==
  ASSUME NEW D, IsFiniteSet(D), NEW s \in SUBSET D, NEW x \in s
  PROVE  /\ s \ {x} \in SUBSET D /\ Cardinality(s \ {x}) \in Nat /\ Cardinality(s) \in Nat
         /\ Cardinality(s) # 0 /\ Cardinality(s \ {x}) = Cardinality(s) - 1
<1>1. IsFiniteSet(s)  BY FS_Subset
<1>2. IsFiniteSet(s \ {x}) /\ Cardinality(s \ {x}) = Cardinality(s) - 1  BY <1>1, FS_RemoveElement
<1>3. Cardinality(s) \in Nat /\ Cardinality(s \ {x}) \in Nat  BY <1>1, <1>2, FS_CardinalityType
<1>4. Cardinality(s) # 0  BY <1>2, <1>3
<1> QED  BY <1>2, <1>3, <1>4

\* One more in one place is one more in the sum.
LEMMA SumGrows ==
  ASSUME NEW D, IsFiniteSet(D), NEW f \in [D -> Nat], NEW g \in [D -> Nat], NEW a \in D, g[a] = f[a] + 1,
         \A x \in D : x # a => g[x] = f[x]
  PROVE  SumFunction(f) \in Nat /\ SumFunction(g) = SumFunction(f) + 1
<1>1. PICK it : Summed(it, f, D) /\ SumFunction(f) = it[D]  BY SumIs
<1>2. PICK jt : Summed(jt, g, D) /\ SumFunction(g) = jt[D]  BY SumIs
<1> DEFINE P(s) == it[s] \in Nat /\ jt[s] = IF a \in s THEN it[s] + 1 ELSE it[s]
           Bad == {n \in Nat : \E s \in SUBSET D : Cardinality(s) = n /\ ~P(s)}
<1>3. \A s \in SUBSET D : IsFiniteSet(s) /\ Cardinality(s) \in Nat /\ (Cardinality(s) = 0 <=> s = {})
  BY FS_Subset, FS_CardinalityType, FS_EmptySet
<1>4. ASSUME Bad # {} PROVE FALSE
  <2>1. Bad \subseteq Nat  OBVIOUS
  <2>2. PICK k \in Bad : \A j \in Bad : k <= j
    <3> HIDE DEF Bad
    <3> QED  BY <1>4, <2>1, LeastOne
  <2>3. PICK s \in SUBSET D : Cardinality(s) = k /\ ~P(s)  OBVIOUS
  <2>4. CASE s = {}
    <3>1. it[s] = 0 /\ jt[s] = 0 /\ a \notin s  BY <1>1, <1>2, <2>4 DEF Summed
    <3> QED  BY <2>3, <3>1
  <2>5. CASE s # {}
    <3>a. PICK x : x = CHOOSE y \in s : TRUE  OBVIOUS
    <3>1. x \in s /\ x \in D  BY <2>5, <3>a
    <3>b. PICK r : r = s \ {x}  OBVIOUS
    <3>2. r \in SUBSET D /\ Cardinality(r) = k - 1 /\ k \in Nat /\ k # 0 /\ Cardinality(r) \in Nat
      <4> HIDE DEF Bad, P
      <4>1. /\ s \ {x} \in SUBSET D /\ Cardinality(s \ {x}) \in Nat /\ Cardinality(s) \in Nat
            /\ Cardinality(s) # 0 /\ Cardinality(s \ {x}) = Cardinality(s) - 1
        BY <3>1, OneLess, Zenon
      <4>2. Cardinality(s) = k  BY <2>3
      <4> QED  BY <3>b, <4>1, <4>2
    <3>3. k - 1 \notin Bad
      <4> HIDE DEF Bad
      <4> QED  BY <2>2, <3>2
    <3>4. P(r)  BY <3>2, <3>3
    <3>5. it[s] = f[x] + it[r] /\ jt[s] = g[x] + jt[r]  BY <1>1, <1>2, <2>5, <3>a, <3>b DEF Summed
    <3>6. f[x] \in Nat /\ g[x] = IF x = a THEN f[x] + 1 ELSE f[x]  BY <3>1
    <3>7. a \in s <=> x = a \/ a \in r  BY <3>1, <3>b
    <3>8. x \notin r  BY <3>b
    <3> QED  BY <2>3, <3>4, <3>5, <3>6, <3>7, <3>8
  <2> QED  BY <2>4, <2>5
<1>5. P(D)  BY <1>3, <1>4
<1> QED  BY <1>1, <1>2, <1>5

LEMMA SumZero ==
  ASSUME NEW D, IsFiniteSet(D), NEW f, f = [x \in D |-> 0]
  PROVE  SumFunction(f) = 0
<1>1. f \in [D -> Nat]  OBVIOUS
<1>2. PICK it : Summed(it, f, D) /\ SumFunction(f) = it[D]  BY <1>1, SumIs
<1> DEFINE Bad == {n \in Nat : \E s \in SUBSET D : Cardinality(s) = n /\ it[s] # 0}
<1>3. \A s \in SUBSET D : IsFiniteSet(s) /\ Cardinality(s) \in Nat /\ (Cardinality(s) = 0 <=> s = {})
  BY FS_Subset, FS_CardinalityType, FS_EmptySet
<1>4. ASSUME Bad # {} PROVE FALSE
  <2>1. Bad \subseteq Nat  OBVIOUS
  <2>2. PICK k \in Bad : \A j \in Bad : k <= j
    <3> HIDE DEF Bad
    <3> QED  BY <1>4, <2>1, LeastOne
  <2>3. PICK s \in SUBSET D : Cardinality(s) = k /\ it[s] # 0  OBVIOUS
  <2>4. s # {}  BY <1>2, <2>3 DEF Summed
  <2>a. PICK x : x = CHOOSE y \in s : TRUE  OBVIOUS
  <2>5. x \in s /\ x \in D  BY <2>4, <2>a
  <2>b. PICK r : r = s \ {x}  OBVIOUS
  <2>6. r \in SUBSET D /\ Cardinality(r) = k - 1 /\ k \in Nat /\ k # 0 /\ Cardinality(r) \in Nat
    <3> HIDE DEF Bad
    <3>1. /\ s \ {x} \in SUBSET D /\ Cardinality(s \ {x}) \in Nat /\ Cardinality(s) \in Nat
          /\ Cardinality(s) # 0 /\ Cardinality(s \ {x}) = Cardinality(s) - 1
      BY <2>5, OneLess, Zenon
    <3>2. Cardinality(s) = k  BY <2>3
    <3> QED  BY <2>b, <3>1, <3>2
  <2>7. k - 1 \notin Bad
    <3> HIDE DEF Bad
    <3> QED  BY <2>2, <2>6
  <2>8. it[r] = 0  BY <2>6, <2>7
  <2>9. it[s] = f[x] + it[r]  BY <1>2, <2>4, <2>a, <2>b DEF Summed
  <2> QED  BY <2>3, <2>5, <2>8, <2>9
<1>5. it[D] = 0  BY <1>3, <1>4
<1> QED  BY <1>2, <1>5
-----------------------------------------------------------------------------
\* A query that is sent has an action to be counted under; the second group it asks for is one.
Routed(u) == (u.at = "second" => u.second \in Groups) /\ (u.at = "sent" => u.route.action \in Actions)
Routable == \A q \in Queries \cup Lookups : query[q] # Idle => Routed(query[q])

Pending == {q \in Queries : query[q] # Idle /\ query[q].at # "done"}

\* What a stage does to the counters: nothing and it does not answer, or it answers.
Taken(q) == \/ /\ stats' = stats /\ query' = [query EXCEPT ![q] = query'[q]] /\ query'[q] \in Asking
               /\ query'[q].at # "done" /\ Routed(query'[q])
            \/ \E route, statuses : Answer(q, route, statuses) /\ route.action \in Actions

LEMMA ContinueOn ==
  ASSUME TypeOK, NEW q \in Queries \cup Lookups, query[q] \in Asking, NEW w \in Asking, Continue(q, w),
         w.at \in Words \ {"default", "sent", "done"}, w.at = "cache" => q \in Queries,
         w.at = "first" => w.second \in Groups
  PROVE  Taken(q)
<1>1. PICK n : n = Following(Stages(q), w.at)  OBVIOUS
<1>2. n \in Words \ {"cache", "sent", "done"} /\ (n = "second" => w.at = "first")
  <2>1. w.at = "cache" => n = "config"  BY <1>1, ResolveOrder DEF Stages
  <2>2. w.at # "cache" => w.at \in {"config", "rules", "adfilter", "first", "second", "adcategory",
                                    "hasRemote", "hasDomestic"}
    BY DEF Words
  <2> QED  BY <1>1, <2>1, <2>2, Order DEF Words
<1>3. query'[q] \in Asking /\ query'[q].at = n /\ query'[q].second = w.second  BY <1>1, <1>2, ContinueTo
<1>4. query' = [query EXCEPT ![q] = query'[q]] /\ stats' = stats  BY Continues
<1>5. Routed(query'[q])  BY <1>2, <1>3 DEF Routed
<1> QED  BY <1>2, <1>3, <1>4, <1>5 DEF Taken

LEMMA ForwardOn ==
  ASSUME TypeOK, NEW q \in Queries \cup Lookups, query[q] \in Asking, NEW action \in Actions, NEW group \in Groups,
         Forward(q, action, group)
  PROVE  Taken(q)
<1>1. Route(action, group) \in RouteType /\ Route(action, group).action = action  BY RouteFields
<1>2. query'[q] \in Asking /\ query'[q].at = "sent" /\ query'[q].route = Route(action, group)  BY <1>1, ForwardTo
<1>3. query' = [query EXCEPT ![q] = query'[q]]
  <2>1. query' = [query EXCEPT ![q] = [query[q] EXCEPT !.at = "sent", !.route = Route(action, group)]]
    BY DEF Forward
  <2>2. DOMAIN query = Queries \cup Lookups  BY DEF TypeOK
  <2> QED  BY <2>1, <2>2
<1>4. stats' = stats  BY DEF Forward
<1>5. Routed(query'[q])  BY <1>1, <1>2 DEF Routed
<1> QED  BY <1>2, <1>3, <1>4, <1>5 DEF Taken

LEMMA AnswerOn ==
  ASSUME NEW q, NEW a \in Actions, NEW statuses, Answer(q, Refused(a), statuses) PROVE Taken(q)
<1>1. Refused(a).action \in Actions  BY RouteFields
<1> QED  BY <1>1 DEF Taken

\* The outcomes of a stage, one by one.
LEMMA StageEffect ==
  ASSUME IInv, Routable, NEW q \in Queries \cup Lookups, Stage(q)
  PROVE  query[q] \in Asking /\ query[q].at # "done" /\ Taken(q)
<1>0. TypeOK /\ query[q] \in Asking /\ query[q] # Idle /\ Routed(query[q])  BY DEF Stage, IInv, TypeOK, Routable
<1>1. Groups \subseteq Actions /\ "default" \in Actions  BY DEF Groups, Actions
<1>2. CASE StageCache(q)
  <2>1. At(q, "cache") /\ query[q].at = "cache" /\ q \in Queries  BY <1>0, <1>2 DEF StageCache, At, TypeOK
  <2>2. "cache_hit" \in Actions /\ "cache" \in Words \ {"default", "sent", "done"}  BY DEF Actions, Words
  <2>3. Answer(q, Refused("cache_hit"), {"success"}) \/ Continue(q, query[q])  BY <1>2 DEF StageCache
  <2> QED  BY <1>0, <2>1, <2>2, <2>3, AnswerOn, ContinueOn
<1>3. CASE StageConfig(q)
  <2> DEFINE w == [query[q] EXCEPT !.cfg = cfg]
  <2>1. query[q].at = "config" /\ Continue(q, w)  BY <1>3 DEF StageConfig, At
  <2>2. w \in Asking /\ w.at = "config"
    <3> HIDE DEF Words
    <3>1. cfg \in Reference  BY <1>0 DEF TypeOK
    <3> QED  BY <1>0, <2>1, <3>1, AskingType
  <2> HIDE DEF w
  <2>3. "config" \in Words \ {"default", "sent", "done"}  BY DEF Words
  <2> QED  BY <1>0, <2>1, <2>2, <2>3, ContinueOn
<1>4. CASE StageRules(q)
  <2> DEFINE type == ruling[Domain(q)]
  <2>1. query[q].at = "rules"  BY <1>4 DEF StageRules, At
  <2>2. \/ Answer(q, Refused("rule_block"), {"success"}) \/ Answer(q, Refused("redirected"), {"success"})
        \/ (type \in Groups /\ Forward(q, type, type)) \/ Continue(q, query[q])
    BY <1>4 DEF StageRules
  <2> HIDE DEF type
  <2>3. {"rule_block", "redirected"} \subseteq Actions /\ "rules" \in Words \ {"default", "sent", "done"}  BY DEF Actions, Words
  <2>4. Forward(q, type, type) /\ type \in Groups => Taken(q)  BY <1>0, <1>1, ForwardOn
  <2>5. Continue(q, query[q]) => Taken(q)  BY <1>0, <2>1, <2>3, ContinueOn
  <2> QED  BY <1>0, <2>1, <2>2, <2>3, <2>4, <2>5, AnswerOn
<1>5. CASE StageAdFilter(q)
  <2>1. query[q].at = "adfilter"  BY <1>5 DEF StageAdFilter, At
  <2>2. Answer(q, Refused("ad_block"), {"success"}) \/ Continue(q, query[q])  BY <1>5 DEF StageAdFilter
  <2>3. "ad_block" \in Actions /\ "adfilter" \in Words \ {"default", "sent", "done"}  BY DEF Actions, Words
  <2> QED  BY <1>0, <2>1, <2>2, <2>3, AnswerOn, ContinueOn
<1>6. CASE StageGeosite(q)
  <2> DEFINE f == FirstGroup(q)
             s == query[q].second
             w == [query[q] EXCEPT !.second = Other(f)]
  <2>1. f \in Groups /\ Other(f) \in Groups  BY Others DEF FirstGroup, Groups
  <2>2. \/ query[q].at = "first" /\ (Forward(q, f, f) \/ Continue(q, w))
        \/ query[q].at = "second" /\ (Forward(q, s, s) \/ Continue(q, query[q]))
    BY <1>6 DEF StageGeosite, At
  <2>3. /\ w \in Asking /\ w.at = query[q].at /\ w.second \in Groups
    <3> PICK o \in Groups : o = Other(f)  BY <2>1
    <3> HIDE DEF Words, f
    <3> QED  BY <1>0, AskingType
  <2>4. {"first", "second"} \subseteq Words \ {"default", "sent", "done"}  BY DEF Words
  <2>5. query[q].at = "second" => s \in Groups  BY <1>0 DEF Routed
  <2> HIDE DEF f, s, w
  <2>6. CASE query[q].at = "first"  BY <1>0, <1>1, <2>1, <2>2, <2>3, <2>4, <2>6, ForwardOn, ContinueOn
  <2>7. CASE query[q].at = "second"  BY <1>0, <1>1, <2>2, <2>4, <2>5, <2>7, ForwardOn, ContinueOn
  <2> QED  BY <2>2, <2>6, <2>7
<1>7. CASE StageAdCategory(q)
  <2>1. query[q].at = "adcategory"  BY <1>7 DEF StageAdCategory, At
  <2>2. Answer(q, Refused("ad_block"), {"success"}) \/ Continue(q, query[q])  BY <1>7 DEF StageAdCategory
  <2>3. "ad_block" \in Actions /\ "adcategory" \in Words \ {"default", "sent", "done"}  BY DEF Actions, Words
  <2> QED  BY <1>0, <2>1, <2>2, <2>3, AnswerOn, ContinueOn
<1>8. CASE StageLeak(q)
  <2> DEFINE w == [query[q] EXCEPT !.hasRemote = geo.hasRemote]
             u == [query[q] EXCEPT !.at = "default"]
  <2>1. \/ query[q].at = "hasRemote" /\ (Continue(q, w) \/ (query' = [query EXCEPT ![q] = u] /\ stats' = stats))
        \/ query[q].at = "hasDomestic" /\ (\/ Answer(q, Refused("leak_block"), {"failed"})
                                           \/ Forward(q, "default", "remote") \/ Continue(q, query[q]))
    BY <1>8 DEF StageLeak, At, HasGeositeCategories
  <2>2. {"hasRemote", "hasDomestic"} \subseteq Words \ {"default", "sent", "done"} /\ "default" \in Words
        /\ "leak_block" \in Actions /\ "remote" \in Groups
    BY DEF Words, Actions, Groups
  <2>3. w \in Asking /\ w.at = query[q].at
    <3>1. geo.hasRemote \in BOOLEAN  BY <1>0, Looks DEF Geo
    <3> HIDE DEF Words
    <3> QED  BY <1>0, <3>1, AskingType
  <2>4. u \in Asking /\ u.at = "default"
    <3> HIDE DEF Words
    <3> QED  BY <1>0, <2>2, AskingType
  <2> HIDE DEF w, u
  <2>5. CASE query' = [query EXCEPT ![q] = u] /\ stats' = stats
    <3>1. query'[q] = u /\ query' = [query EXCEPT ![q] = query'[q]]
      <4>1. DOMAIN query = Queries \cup Lookups  BY <1>0 DEF TypeOK
      <4> QED  BY <2>5, <4>1
    <3>2. Routed(u)  BY <2>4 DEF Routed
    <3>3. Taken(q)  BY <2>4, <2>5, <3>1, <3>2 DEF Taken
    <3> QED  BY <1>0, <2>1, <3>3
  <2>6. CASE query[q].at = "hasRemote" /\ Continue(q, w)  BY <1>0, <2>2, <2>3, <2>6, ContinueOn
  <2>7. CASE query[q].at = "hasDomestic" /\ Continue(q, query[q])  BY <1>0, <2>2, <2>7, ContinueOn
  <2>8. CASE query[q].at = "hasDomestic" /\ Forward(q, "default", "remote")  BY <1>0, <1>1, <2>2, <2>8, ForwardOn
  <2>9. CASE query[q].at = "hasDomestic" /\ Answer(q, Refused("leak_block"), {"failed"})  BY <1>0, <2>2, <2>9, AnswerOn
  <2> QED  BY <2>1, <2>5, <2>6, <2>7, <2>8, <2>9
<1>9. CASE StageDefault(q)
  <2> DEFINE group == IF q \in Queries THEN Seen(cfg).default ELSE Cfg(q).default
  <2>1. query[q].at = "default" /\ Forward(q, "default", group)  BY <1>9 DEF StageDefault, At
  <2>2. group \in Groups
    <3>1. Seen(cfg) \in Config /\ Cfg(q) \in Config  BY <1>0, Looks DEF Cfg
    <3> QED  BY <3>1 DEF Config
  <2> HIDE DEF group
  <2> QED  BY <1>0, <1>1, <2>1, <2>2, ForwardOn
<1> QED  BY <1>0, <1>2, <1>3, <1>4, <1>5, <1>6, <1>7, <1>8, <1>9 DEF Stage

LEMMA FinitePending == IsFiniteSet(Pending) /\ Cardinality(Pending) \in Nat /\ InFlight = Cardinality(Pending)
<1>1. Pending \in SUBSET Queries  BY DEF Pending
<1>2. IsFiniteSet(Pending)  BY <1>1, ResolverConstants, FS_Subset
<1> QED  BY <1>2, FS_CardinalityType DEF InFlight, Pending

LEMMA FiniteActions == IsFiniteSet(Actions)
<1>1. IsFiniteSet({}) /\ \A S, x : IsFiniteSet(S) => IsFiniteSet(S \cup {x})  BY FS_EmptySet, FS_AddElement
<1>2. Actions = {} \cup {"cache_hit"} \cup {"domestic"} \cup {"remote"} \cup {"ad_block"} \cup {"leak_block"}
                  \cup {"rule_block"} \cup {"redirected"} \cup {"default"} \cup {"failed"}
  BY DEF Actions
<1> QED  BY <1>1, <1>2

\* One query goes on, and what is said of the others stays true.
LEMMA OneQuery ==
  ASSUME IInv, Routable, NEW q \in Queries \cup Lookups, query' = [query EXCEPT ![q] = query'[q]], Routed(query'[q])
  PROVE  /\ Routable'
         /\ \A p \in Queries : p # q => query'[p] = query[p]
<1>1. DOMAIN query = Queries \cup Lookups  BY DEF IInv, TypeOK
<1>2. \A p \in Queries \cup Lookups : p # q => query'[p] = query[p]  BY <1>1
<1>3. \A p \in Queries \cup Lookups : query'[p] # Idle => Routed(query'[p])  BY <1>2 DEF Routable
<1> QED  BY <1>2, <1>3 DEF Routable, Routed, Idle

\* Nobody's turn, and nothing counted.
LEMMA AddsUpSame ==
  ASSUME ActionsAddUp, stats' = stats, Pending' = Pending PROVE ActionsAddUp'
<1>1. InFlight = Cardinality(Pending)  BY FinitePending
<1>2. InFlight' = Cardinality(Pending')  BY DEF InFlight, Pending, Idle
<1> QED  BY <1>1, <1>2 DEF ActionsAddUp

LEMMA AnswerAddsUp ==
  ASSUME IInv, Routable, ActionsAddUp, NEW q \in Queries \cup Lookups, query[q] \in Asking, query[q].at # "done",
         NEW route, route.action \in Actions, NEW statuses, Answer(q, route, statuses)
  PROVE  Routable' /\ ActionsAddUp'
<1>0. TypeOK /\ stats \in Counters /\ query[q] # Idle
  <2>1. query[q].at # "idle"  BY AskingType DEF Words
  <2> QED  BY <2>1 DEF IInv, TypeOK, Counters, Idle
<1>1. query'[q] = [query[q] EXCEPT !.at = "done", !.route = route] /\ query' = [query EXCEPT ![q] = query'[q]]
  BY <1>0, Answers
<1>2. query'[q].at = "done"
  <2> HIDE DEF Words
  <2> QED  BY <1>1, AskingType
<1>3. Routed(query'[q])  BY <1>2 DEF Routed
<1>4. Routable' /\ \A p \in Queries : p # q => query'[p] = query[p]  BY <1>1, <1>3, OneQuery
<1>5. Pending' = Pending \ {q}  BY <1>2, <1>4 DEF Pending, Idle
<1>6. CASE q \in Lookups
  <2>1. q \notin Pending  BY <1>6, ResolverConstants DEF Pending
  <2>2. Pending' = Pending  BY <1>5, <2>1
  <2>3. stats' = stats  BY <1>6 DEF Answer
  <2> QED  BY <1>4, <2>2, <2>3, AddsUpSame
<1>7. CASE q \notin Lookups
  <2>1. q \in Pending  BY <1>0, <1>7 DEF Pending
  <2>2. Cardinality(Pending') = Cardinality(Pending) - 1  BY <1>5, <2>1, FinitePending, FS_RemoveElement
  <2> DEFINE f == stats.action
             a == route.action
             g == [f EXCEPT ![a] = f[a] + 1]
  <2>3. f \in [Actions -> Nat] /\ stats.total \in Nat  BY <1>0 DEF Counters
  <2>4. stats'.action = g /\ stats'.total = stats.total
    <3> DEFINE Y == [s \in Statuses |-> IF s \in statuses THEN stats.status[s] + 1 ELSE stats.status[s]]
    <3>1. stats' = [stats EXCEPT !.action = g, !.status = Y]  BY <1>7 DEF Answer
    <3> HIDE DEF g, Y, Actions, Statuses
    <3> QED  BY <1>0, <3>1 DEF Counters
  <2>5. a \in Actions  OBVIOUS
  <2> HIDE DEF f, a, Actions
  <2>6. g \in [Actions -> Nat] /\ g[a] = f[a] + 1 /\ \A x \in Actions : x # a => g[x] = f[x]  BY <2>3, <2>5
  <2> HIDE DEF g
  <2>7. SumFunction(f) \in Nat /\ SumFunction(g) = SumFunction(f) + 1  BY <2>3, <2>5, <2>6, FiniteActions, SumGrows
  <2>8. InFlight' = Cardinality(Pending')  BY DEF InFlight, Pending, Idle
  <2>9. InFlight = Cardinality(Pending) /\ Cardinality(Pending) \in Nat  BY FinitePending
  <2>10. SumFunction(f) + InFlight = stats.total  BY DEF ActionsAddUp, f
  <2>11. SumFunction(g) + InFlight' = stats.total  BY <2>2, <2>3, <2>7, <2>8, <2>9, <2>10
  <2>12. ActionsAddUp'  BY <2>4, <2>11 DEF ActionsAddUp
  <2> QED  BY <1>4, <2>12
<1> QED  BY <1>6, <1>7

LEMMA StageAddsUp ==
  ASSUME IInv, Routable, ActionsAddUp, NEW q \in Queries \cup Lookups, Stage(q)
  PROVE  Routable' /\ ActionsAddUp'
<1>1. query[q] \in Asking /\ query[q].at # "done" /\ Taken(q)  BY StageEffect
<1>2. ASSUME NEW route, NEW statuses, Answer(q, route, statuses), route.action \in Actions
      PROVE  Routable' /\ ActionsAddUp'
  BY <1>1, <1>2, AnswerAddsUp
<1>3. ASSUME stats' = stats, query' = [query EXCEPT ![q] = query'[q]], query'[q] \in Asking,
             query'[q].at # "done", Routed(query'[q])
      PROVE  Routable' /\ ActionsAddUp'
  <2>1. Routable' /\ \A p \in Queries : p # q => query'[p] = query[p]  BY <1>3, OneQuery
  <2>2. query[q] # Idle /\ query'[q] # Idle
    <3>1. query[q].at # "idle" /\ query'[q].at # "idle"  BY <1>1, <1>3, AskingType DEF Words
    <3> QED  BY <3>1 DEF Idle
  <2>3. Pending' = Pending  BY <1>1, <1>3, <2>1, <2>2 DEF Pending, Idle
  <2> QED  BY <1>3, <2>1, <2>3, AddsUpSame
<1> QED  BY <1>1, <1>2, <1>3 DEF Taken

LEMMA ReceiveAddsUp ==
  ASSUME IInv, Routable, ActionsAddUp, NEW q \in Queries \cup Lookups, NEW d, Receive(q, d)
  PROVE  Routable' /\ ActionsAddUp'
<1> DEFINE at == Head(Stages(q))
           u == [at |-> at, domain |-> d, cfg |-> Copy(config), second |-> "none", hasRemote |-> FALSE,
                 route |-> Refused("none"), began |-> changes]
<1>0. stats \in Counters /\ DOMAIN query = Queries \cup Lookups  BY DEF IInv, TypeOK, Counters
<1>1. query[q] = Idle /\ query' = [query EXCEPT ![q] = u]  BY DEF Receive
<1>2. at \in {"cache", "rules"}
  <2>1. Head(ResolveStages) = "cache" /\ Head(LookupStages) = "rules"  BY DEF ResolveStages, LookupStages
  <2> QED  BY <2>1 DEF Stages
<1>3. u.at = at  OBVIOUS
<1> HIDE DEF u, at
<1>4. query'[q] = u /\ query' = [query EXCEPT ![q] = query'[q]]  BY <1>0, <1>1
<1>5. Routed(query'[q]) /\ query'[q] # Idle /\ query'[q].at # "done"  BY <1>2, <1>3, <1>4 DEF Routed, Idle
<1>6. Routable' /\ \A p \in Queries : p # q => query'[p] = query[p]  BY <1>4, <1>5, OneQuery
<1>7. CASE q \in Queries
  <2>1. q \notin Pending /\ Pending' = Pending \cup {q}  BY <1>1, <1>5, <1>6, <1>7 DEF Pending, Idle
  <2>2. Cardinality(Pending') = Cardinality(Pending) + 1  BY <2>1, FinitePending, FS_AddElement
  <2>3. stats' = [stats EXCEPT !.total = stats.total + 1]  BY <1>7 DEF Receive
  <2>4. stats'.action = stats.action /\ stats'.total = stats.total + 1  BY <1>0, <2>3 DEF Counters
  <2>5. InFlight' = Cardinality(Pending')  BY DEF InFlight, Pending, Idle
  <2>6. InFlight = Cardinality(Pending) /\ Cardinality(Pending) \in Nat  BY FinitePending
  <2>7. SumFunction(stats.action) \in Nat
    <3>1. stats.action \in [Actions -> Nat]  BY <1>0 DEF Counters
    <3>2. PICK a \in Actions : TRUE  BY DEF Actions
    <3> PICK f \in [Actions -> Nat] : f = stats.action  BY <3>1
    <3> HIDE DEF Actions
    <3> DEFINE g == [f EXCEPT ![a] = f[a] + 1]
    <3>3. g \in [Actions -> Nat] /\ g[a] = f[a] + 1 /\ \A x \in Actions : x # a => g[x] = f[x]  OBVIOUS
    <3> HIDE DEF g
    <3> QED  BY <3>3, FiniteActions, SumGrows
  <2>8. SumFunction(stats'.action) = SumFunction(stats.action)  BY <2>4
  <2>9. SumFunction(stats.action) + InFlight = stats.total  BY DEF ActionsAddUp
  <2>10. SumFunction(stats'.action) + InFlight' = stats'.total  BY <2>2, <2>4, <2>5, <2>6, <2>7, <2>8, <2>9
  <2>11. ActionsAddUp'  BY <2>10 DEF ActionsAddUp
  <2> QED  BY <1>6, <2>11
<1>8. CASE q \notin Queries
  <2>1. stats' = stats  BY <1>8 DEF Receive
  <2>2. Pending' = Pending  BY <1>6, <1>8 DEF Pending, Idle
  <2> QED  BY <1>6, <2>1, <2>2, AddsUpSame
<1> QED  BY <1>7, <1>8

\* A server's answer or its absence ends a query that was sent.
LEMMA EndAddsUp ==
  ASSUME IInv, Routable, ActionsAddUp, NEW q \in Queries \cup Lookups, At(q, "sent"), NEW statuses,
         \/ Answer(q, query[q].route, statuses)
         \/ Answer(q, Route("failed", query[q].route.group), statuses)
  PROVE  Routable' /\ ActionsAddUp'
<1>1. query[q] \in Asking /\ query[q].at = "sent" /\ query[q] # Idle  BY DEF IInv, TypeOK, At, Idle
<1>2. query[q].route.action \in Actions  BY <1>1 DEF Routable, Routed
<1>3. Route("failed", query[q].route.group).action \in Actions  BY DEF Route, Actions
<1>4. CASE Answer(q, query[q].route, statuses)  BY <1>1, <1>2, <1>4, AnswerAddsUp
<1>5. CASE Answer(q, Route("failed", query[q].route.group), statuses)  BY <1>1, <1>3, <1>5, AnswerAddsUp
<1> QED  BY <1>4, <1>5

\* A configuration that is loaded leaves every query where it is.
LEMMA ReloadAddsUp ==
  ASSUME IInv, Routable, ActionsAddUp, NEW c \in Configs, ReloadLoad(c) PROVE Routable' /\ ActionsAddUp'
<1>1. TypeOK  BY DEF IInv
<1>2. query' = [q \in Queries \cup Lookups |-> IF query[q] = Idle THEN Idle
                                              ELSE [query[q] EXCEPT !.cfg = Copy(Seen(query[q].cfg))]]
  <2>1. DOMAIN query = Queries \cup Lookups  BY <1>1 DEF TypeOK
  <2> QED  BY <2>1 DEF ReloadLoad
<1>3. ASSUME NEW q \in Queries \cup Lookups
      PROVE  /\ query'[q] = Idle <=> query[q] = Idle
             /\ query[q] # Idle => /\ query'[q].at = query[q].at /\ query'[q].second = query[q].second
                                   /\ query'[q].route = query[q].route
  <2>1. CASE query[q] = Idle  BY <1>2, <2>1
  <2>2. CASE query[q] # Idle
    <3> PICK copy : copy = Copy(Seen(query[q].cfg))  OBVIOUS
    <3>1. query'[q] = [query[q] EXCEPT !.cfg = copy] /\ query[q] \in Asking  BY <1>1, <1>2, <2>2 DEF TypeOK
    <3>2. /\ query'[q].at = query[q].at /\ query'[q].second = query[q].second /\ query'[q].route = query[q].route
      <4> HIDE DEF Words
      <4> QED  BY <3>1, AskingType
    <3>3. query[q].at # "idle"  BY <3>1, AskingType DEF Words
    <3>4. query'[q] # Idle  BY <3>2, <3>3 DEF Idle
    <3> QED  BY <2>2, <3>2, <3>4
  <2> QED  BY <2>1, <2>2
<1>4. Routable'
  <2>1. \A q \in Queries \cup Lookups : query'[q] # Idle => Routed(query'[q])  BY <1>3 DEF Routable, Routed
  <2> QED  BY <2>1 DEF Routable, Routed, Idle
<1>5. Pending' = Pending  BY <1>3 DEF Pending, Idle
<1>6. stats' = stats  BY DEF ReloadLoad, Change
<1> QED  BY <1>4, <1>5, <1>6, AddsUpSame

LEMMA NextAddsUp == IInv /\ Routable /\ ActionsAddUp /\ [Next]_vars => Routable' /\ ActionsAddUp'
<1> SUFFICES ASSUME IInv, Routable, ActionsAddUp, [Next]_vars PROVE Routable' /\ ActionsAddUp'  OBVIOUS
<1>1. ASSUME NEW q \in Queries \cup Lookups, Program(q) PROVE Routable' /\ ActionsAddUp'
  <2>1. ASSUME NEW cacheable, NEW status, Reply(q, cacheable, status) PROVE Routable' /\ ActionsAddUp'
    <3>1. At(q, "sent") /\ Answer(q, query[q].route, {status})  BY <2>1 DEF Reply
    <3> QED  BY <3>1, EndAddsUp
  <2>2. ASSUME Fail(q) PROVE Routable' /\ ActionsAddUp'
    <3>1. At(q, "sent") /\ Answer(q, Route("failed", query[q].route.group), {"timeout", "failed"})  BY <2>2 DEF Fail
    <3> QED  BY <3>1, EndAddsUp
  <2> QED  BY <1>1, <2>1, <2>2, ReceiveAddsUp, StageAddsUp DEF Program
<1>2. ASSUME NEW c \in Configs, ReloadLoad(c) PROVE Routable' /\ ActionsAddUp'  BY <1>2, ReloadAddsUp
<1>3. ASSUME UNCHANGED <<query, stats>> PROVE Routable' /\ ActionsAddUp'
  <2>1. Routable'  BY <1>3 DEF Routable, Routed, Idle
  <2>2. Pending' = Pending  BY <1>3 DEF Pending, Idle
  <2> QED  BY <1>3, <2>1, <2>2, AddsUpSame
<1>4. \/ \E q \in Queries \cup Lookups : Program(q)
      \/ \E c \in Configs : ReloadLoad(c)
      \/ UNCHANGED <<query, stats>>
  <2>1. (\E c \in Configs : PatchDecode(c)) \/ PatchNotify \/ PatchInstall \/ ReloadNotify => UNCHANGED <<query, stats>>
    BY DEF PatchDecode, PatchNotify, PatchInstall, ReloadNotify, Change
  <2>2. (\E g \in Geos : LoadGeosite(g)) \/ (\E a \in AdLists : LoadAdFilter(a)) \/ (\E r \in Rulings : SetRules(r))
          => UNCHANGED <<query, stats>>
    BY DEF LoadGeosite, LoadAdFilter, SetRules, Change
  <2>3. (\E d \in Domains : Expire(d)) \/ ClearCache => UNCHANGED <<query, stats>>  BY DEF Expire, ClearCache
  <2>4. UNCHANGED vars => UNCHANGED <<query, stats>>  BY DEF vars
  <2> QED  BY <2>1, <2>2, <2>3, <2>4 DEF Next, Changes
<1> QED  BY <1>1, <1>2, <1>3, <1>4

LEMMA InitAddsUp == Init => Routable /\ ActionsAddUp
<1> SUFFICES ASSUME Init PROVE Routable /\ ActionsAddUp  OBVIOUS
<1>1. \A q \in Queries \cup Lookups : query[q] = Idle  BY DEF Init
<1>2. Routable  BY <1>1 DEF Routable
<1>3. InFlight = 0
  <2>1. Pending = {}  BY <1>1 DEF Pending
  <2> QED  BY <2>1, FinitePending, FS_EmptySet
<1>4. stats.action = [a \in Actions |-> 0] /\ stats.total = 0  BY DEF Init
<1>5. SumFunction(stats.action) = 0
  <2> PICK f : f = stats.action  OBVIOUS
  <2> HIDE DEF Actions
  <2> QED  BY <1>4, FiniteActions, SumZero
<1> QED  BY <1>2, <1>3, <1>4, <1>5 DEF ActionsAddUp

\* resolver.go:336, CHANGELOG 1.0.3: for any number of concurrent queries and lookups and whatever changes
\* under them, every query that was received is either still being decided or counted under exactly one action,
\* also if it failed.
THEOREM ResolverActionsAddUp == Spec => []ActionsAddUp
BY InitStep, StepKeeps, InitAddsUp, NextAddsUp, PTL DEF Spec
-----------------------------------------------------------------------------
\* No leak without a gap.  Unless protection was interrupted since it began, a query has read protected
\* configurations only and Geo data of both kinds only.
Covered(u, kind) ==
  gap[kind] < u.began =>
    /\ u.at \notin {"sent", "done"} => Seen(u.cfg).leak /\ Seen(u.cfg).mode \in Modes[kind]
    /\ u.at = "hasDomestic" => u.hasRemote
    /\ u.at = "default" => u.domain \in Local
    /\ u.route.action = "default" /\ u.domain \notin Local => kind = "standard" /\ u.route.group = "remote"

Sheltered == \A q \in Queries \cup Lookups :
               query[q] # Idle => \A kind \in DOMAIN Modes : Covered(query[q], kind)

\* What history does not name a gap is protected.
Watched == \A kind \in DOMAIN Modes : gap[kind] < changes => Shielded(kind)

\* A stage has moved one query, which is covered still.
StaysCovered(q) == /\ query' = [query EXCEPT ![q] = query'[q]]
                   /\ \A kind \in DOMAIN Modes : Covered(query'[q], kind)

LEMMA AnsweredCovered ==
  ASSUME TypeOK, NEW q \in Queries \cup Lookups, query[q] \in Asking, NEW route \in RouteType,
         NEW statuses, Answer(q, route, statuses),
         \/ route.action # "default"
         \/ route = query[q].route /\ \A kind \in DOMAIN Modes : Covered(query[q], kind)
  PROVE  StaysCovered(q)
<1>1. /\ query'[q].at = "done" /\ query'[q].domain = query[q].domain
      /\ query'[q].began = query[q].began /\ query'[q].route = route
  BY AnswerTo
<1>2. query' = [query EXCEPT ![q] = query'[q]]  BY Answers
<1>3. ASSUME NEW kind \in DOMAIN Modes PROVE Covered(query'[q], kind)  BY <1>1 DEF Covered
<1> QED  BY <1>2, <1>3 DEF StaysCovered

LEMMA SentCovered ==
  ASSUME TypeOK, NEW q \in Queries \cup Lookups, query[q] \in Asking, NEW action, NEW group,
         Route(action, group) \in RouteType, Forward(q, action, group),
         \/ action # "default"
         \/ \A kind \in DOMAIN Modes :
              gap[kind] < query[q].began => query[q].domain \in Local \/ (kind = "standard" /\ group = "remote")
  PROVE  StaysCovered(q)
<1>1. /\ query'[q].at = "sent" /\ query'[q].domain = query[q].domain
      /\ query'[q].began = query[q].began /\ query'[q].route = Route(action, group)
  BY ForwardTo
<1>2. query' = [query EXCEPT ![q] = query'[q]]
  <2>1. query' = [query EXCEPT ![q] = [query[q] EXCEPT !.at = "sent", !.route = Route(action, group)]]
    BY DEF Forward
  <2>2. DOMAIN query = Queries \cup Lookups  BY DEF TypeOK
  <2> QED  BY <2>1, <2>2
<1>3. query'[q].route.action = action /\ query'[q].route.group = group  BY <1>1 DEF Route
<1>4. ASSUME NEW kind \in DOMAIN Modes PROVE Covered(query'[q], kind)  BY <1>1, <1>3 DEF Covered
<1> QED  BY <1>2, <1>4 DEF StaysCovered

LEMMA PassedCovered ==
  ASSUME TypeOK, NEW q \in Queries \cup Lookups, query[q] \in Asking, NEW w \in Asking, Continue(q, w),
         w.domain = query[q].domain, w.began = query[q].began, w.route = query[q].route,
         NEW n \in Words \ {"sent", "done"}, Following(Stages(q), w.at) = n,
         \A kind \in DOMAIN Modes : Covered(query[q], kind),
         \A kind \in DOMAIN Modes : gap[kind] < query[q].began =>
           /\ Seen(w.cfg).leak /\ Seen(w.cfg).mode \in Modes[kind]
           /\ n = "hasDomestic" => w.hasRemote
           /\ n = "default" => query[q].domain \in Local
  PROVE  StaysCovered(q)
<1>1. /\ query'[q].at = n /\ query'[q].domain = w.domain /\ query'[q].cfg = w.cfg
      /\ query'[q].hasRemote = w.hasRemote /\ query'[q].began = w.began /\ query'[q].route = w.route
  BY ContinueTo
<1>2. query' = [query EXCEPT ![q] = query'[q]]  BY Continues
<1>3. ASSUME NEW kind \in DOMAIN Modes PROVE Covered(query'[q], kind)  BY <1>1 DEF Covered
<1> QED  BY <1>2, <1>3 DEF StaysCovered

\* A query at a stage, with history behind it.
OnWatch(q) == /\ TypeOK /\ Watched /\ query[q] \in Asking /\ query[q].began <= changes
              /\ \A kind \in DOMAIN Modes : Covered(query[q], kind)

\* A stage that only looks passes the query on as it is.
LEMMA LookedCovered ==
  ASSUME NEW q \in Queries \cup Lookups, OnWatch(q), Continue(q, query[q]),
         query[q].at \in {"cache", "rules", "adfilter", "second", "adcategory"}
  PROVE  StaysCovered(q)
<1>1. query[q].at = "cache" => q \in Queries
  <2>1. \A p \in Lookups \ Queries : query[p].at # "cache"  BY DEF OnWatch, TypeOK
  <2> QED  BY <2>1
<1>2. PICK n : n = Following(Stages(q), query[q].at)  OBVIOUS
<1>3. n \in Words \ {"sent", "done", "hasDomestic", "default"}
  <2>1. query[q].at = "cache" => n = "config"  BY <1>1, <1>2, ResolveOrder DEF Stages
  <2>2. query[q].at # "cache" => n \in {"adfilter", "config", "first", "adcategory", "hasRemote"}  BY <1>2, Order
  <2> QED  BY <2>1, <2>2 DEF Words
<1>4. \A kind \in DOMAIN Modes : gap[kind] < query[q].began =>
        Seen(query[q].cfg).leak /\ Seen(query[q].cfg).mode \in Modes[kind]
  BY DEF OnWatch, Covered
<1> QED  BY <1>2, <1>3, <1>4, PassedCovered DEF OnWatch

LEMMA ConfigCovered ==
  ASSUME NEW q \in Queries \cup Lookups, OnWatch(q), StageConfig(q)
  PROVE  StaysCovered(q)
<1> PICK w : w = [query[q] EXCEPT !.cfg = cfg]  OBVIOUS
<1>0. cfg \in Reference /\ query[q] \in Asking /\ query[q].at = "config" /\ Continue(q, w)
  BY DEF OnWatch, TypeOK, StageConfig, At
<1>1. /\ w \in Asking /\ w.at = "config" /\ w.domain = query[q].domain /\ w.began = query[q].began
      /\ w.cfg = cfg /\ w.route = query[q].route
  <2> HIDE DEF Words
  <2> QED  BY <1>0, AskingType
<1> PICK n : n = IF q \in Queries THEN "rules" ELSE "adfilter"  OBVIOUS
<1>2. n \in Words \ {"sent", "done", "hasDomestic", "default"} /\ Following(Stages(q), w.at) = n
  BY <1>1, Order DEF Words
<1>3. ASSUME NEW kind \in DOMAIN Modes, gap[kind] < query[q].began
      PROVE  Seen(cfg).leak /\ Seen(cfg).mode \in Modes[kind]
  <2>1. /\ query[q].began \in 0..MaxChanges /\ query[q].began <= changes
        /\ gap[kind] \in -1..MaxChanges /\ changes \in 0..MaxChanges /\ MaxChanges \in Nat
    BY <1>0, AskingType, ResolverConstants DEF OnWatch, TypeOK
  <2>2. gap[kind] < changes  BY <1>3, <2>1
  <2> QED  BY <2>2 DEF OnWatch, Watched, Shielded
<1> QED  BY <1>0, <1>1, <1>2, <1>3, PassedCovered DEF OnWatch

LEMMA GeositeCovered ==
  ASSUME NEW q \in Queries \cup Lookups, OnWatch(q), StageGeosite(q)
  PROVE  StaysCovered(q)
<1>0. TypeOK /\ query[q] \in Asking  BY DEF OnWatch
<1>1. CASE query[q].at = "first"
  <2> PICK f : f = FirstGroup(q)  OBVIOUS
  <2> PICK w : w = [query[q] EXCEPT !.second = Other(f)]  OBVIOUS
  <2>1. Forward(q, f, f) \/ Continue(q, w)  BY <1>1 DEF StageGeosite, At
  <2>2. f \in Groups /\ Other(f) \in Groups  BY Others DEF FirstGroup, Groups
  <2>3. f # "default" /\ Route(f, f) \in RouteType  BY <2>2, RouteFields DEF Groups, Actions
  <2>4. CASE Forward(q, f, f)  BY <1>0, <2>3, <2>4, SentCovered
  <2>5. CASE Continue(q, w)
    <3>1. /\ w \in Asking /\ w.at = "first" /\ w.domain = query[q].domain /\ w.began = query[q].began
          /\ w.cfg = query[q].cfg /\ w.route = query[q].route
      <4> HIDE DEF Words
      <4> QED  BY <1>0, <1>1, <2>2, AskingType
    <3>2. "second" \in Words \ {"sent", "done", "hasDomestic", "default"} /\ Following(Stages(q), w.at) = "second"
      BY <3>1, Order DEF Words
    <3>3. \A kind \in DOMAIN Modes : gap[kind] < query[q].began =>
            Seen(w.cfg).leak /\ Seen(w.cfg).mode \in Modes[kind]
      BY <1>1, <3>1 DEF OnWatch, Covered
    <3> QED  BY <1>0, <2>5, <3>1, <3>2, <3>3, PassedCovered DEF OnWatch
  <2> QED  BY <2>1, <2>4, <2>5
<1>2. CASE query[q].at = "second"
  <2> PICK s : s = query[q].second  OBVIOUS
  <2>1. Forward(q, s, s) \/ Continue(q, query[q])  BY <1>2 DEF StageGeosite, At
  <2>2. s \in Groups \cup {"none"}  BY <1>0, AskingType
  <2>3. s # "default" /\ Route(s, s) \in RouteType  BY <2>2 DEF Groups, Route, RouteType, Actions
  <2>4. CASE Forward(q, s, s)  BY <1>0, <2>3, <2>4, SentCovered
  <2> QED  BY <1>2, <2>1, <2>4, LookedCovered
<1> QED  BY <1>1, <1>2 DEF StageGeosite, At

LEMMA LeakCovered ==
  ASSUME NEW q \in Queries \cup Lookups, OnWatch(q), StageLeak(q)
  PROVE  StaysCovered(q)
<1>0. /\ TypeOK /\ query[q] \in Asking
      /\ \A kind \in DOMAIN Modes : Covered(query[q], kind)
  BY DEF OnWatch
<1> PICK d : d = query[q].domain  OBVIOUS
<1>1. ASSUME NEW kind \in DOMAIN Modes, gap[kind] < query[q].began
      PROVE  geo.hasRemote /\ geo.hasDomestic
  <2>1. /\ query[q].began \in 0..MaxChanges /\ query[q].began <= changes
        /\ gap[kind] \in -1..MaxChanges /\ changes \in 0..MaxChanges /\ MaxChanges \in Nat
    BY <1>0, AskingType, ResolverConstants DEF OnWatch, TypeOK
  <2>2. gap[kind] < changes  BY <1>1, <2>1
  <2> QED  BY <2>2 DEF OnWatch, Watched, Shielded
<1>2. CASE query[q].at = "hasRemote"
  <2> PICK w : w = [query[q] EXCEPT !.hasRemote = geo.hasRemote]  OBVIOUS
  <2> PICK u : u = [query[q] EXCEPT !.at = "default"]  OBVIOUS
  <2>1. IF Cfg(q).leak /\ d \notin Local THEN Continue(q, w) ELSE query' = [query EXCEPT ![q] = u]
    BY <1>2 DEF StageLeak, At, HasGeositeCategories, isLocalDomain, Domain
  <2>2. CASE Cfg(q).leak /\ d \notin Local
    <3>1. /\ w \in Asking /\ w.at = "hasRemote" /\ w.domain = query[q].domain /\ w.began = query[q].began
          /\ w.cfg = query[q].cfg /\ w.route = query[q].route /\ w.hasRemote = geo.hasRemote
      <4>1. geo.hasRemote \in BOOLEAN  BY <1>0, Looks DEF Geo
      <4> HIDE DEF Words
      <4> QED  BY <1>0, <1>2, <4>1, AskingType
    <3>2. "hasDomestic" \in Words \ {"sent", "done", "default"} /\ Following(Stages(q), w.at) = "hasDomestic"
      BY <3>1, Order DEF Words
    <3>3. \A kind \in DOMAIN Modes : gap[kind] < query[q].began =>
            Seen(w.cfg).leak /\ Seen(w.cfg).mode \in Modes[kind] /\ w.hasRemote
      BY <1>0, <1>1, <1>2, <3>1 DEF Covered
    <3>4. Continue(q, w)  BY <2>1, <2>2
    <3> QED  BY <1>0, <3>1, <3>2, <3>3, <3>4, PassedCovered
  <2>3. CASE ~(Cfg(q).leak /\ d \notin Local)
    <3>1. /\ u.at = "default" /\ u.domain = query[q].domain /\ u.began = query[q].began /\ u.cfg = query[q].cfg
          /\ u.route = query[q].route
      <4> HIDE DEF Words
      <4> QED  BY <1>0, AskingType
    <3>2. query' = [query EXCEPT ![q] = u] /\ query'[q] = u
      <4>1. DOMAIN query = Queries \cup Lookups  BY <1>0 DEF TypeOK
      <4> QED  BY <2>1, <2>3, <4>1
    <3>3. ASSUME NEW kind \in DOMAIN Modes PROVE Covered(u, kind)
      <4>1. Covered(query[q], kind)  BY <1>0
      <4> QED  BY <1>2, <2>3, <3>1, <4>1 DEF Covered, Cfg
    <3> QED  BY <3>2, <3>3 DEF StaysCovered
  <2> QED  BY <2>2, <2>3
<1>3. CASE query[q].at = "hasDomestic"
  <2> PICK both : both = (query[q].hasRemote /\ geo.hasDomestic)  OBVIOUS
  <2> PICK mode : mode = Cfg(q).mode  OBVIOUS
  <2>1. \/ Answer(q, Refused("leak_block"), {"failed"})
        \/ mode = "standard" /\ Forward(q, "default", "remote")
        \/ ~(both /\ mode \in {"strict", "standard"}) /\ Continue(q, query[q])
    BY <1>3 DEF StageLeak, At, HasGeositeCategories
  <2>2. ASSUME NEW kind \in DOMAIN Modes, gap[kind] < query[q].began
        PROVE  both /\ mode \in Modes[kind]
    <3>1. query[q].hasRemote /\ Seen(query[q].cfg).mode \in Modes[kind]  BY <1>0, <1>3, <2>2 DEF Covered
    <3> QED  BY <1>1, <2>2, <3>1 DEF Cfg
  <2>3. \A kind \in DOMAIN Modes : /\ kind \in {"standard", "strict"} /\ Modes[kind] \subseteq {"strict", "standard"}
                                   /\ "standard" \in Modes[kind] => kind = "standard"
    BY DEF Modes
  <2>4. CASE Answer(q, Refused("leak_block"), {"failed"})
    <3>1. Refused("leak_block") \in RouteType /\ Refused("leak_block").action # "default"  BY RouteFields DEF Actions
    <3> QED  BY <1>0, <2>4, <3>1, AnsweredCovered
  <2>5. CASE mode = "standard" /\ Forward(q, "default", "remote")
    <3>1. Route("default", "remote") \in RouteType  BY RouteFields DEF Actions, Groups
    <3> QED  BY <1>0, <2>2, <2>3, <2>5, <3>1, SentCovered
  <2>6. CASE ~(both /\ mode \in {"strict", "standard"}) /\ Continue(q, query[q])
    <3>1. "default" \in Words \ {"sent", "done"} /\ Following(Stages(q), query[q].at) = "default"
      BY <1>3, Order DEF Words
    <3>2. \A kind \in DOMAIN Modes : ~(gap[kind] < query[q].began)  BY <2>2, <2>3, <2>6
    <3> QED  BY <1>0, <2>6, <3>1, <3>2, PassedCovered
  <2> QED  BY <2>1, <2>4, <2>5, <2>6
<1> QED  BY <1>2, <1>3 DEF StageLeak, At

LEMMA DefaultCovered ==
  ASSUME NEW q \in Queries \cup Lookups, OnWatch(q), StageDefault(q)
  PROVE  StaysCovered(q)
<1> PICK group : group = IF q \in Queries THEN Seen(cfg).default ELSE Cfg(q).default  OBVIOUS
<1>0. /\ TypeOK /\ query[q] \in Asking /\ query[q].at = "default" /\ Forward(q, "default", group)
      /\ \A kind \in DOMAIN Modes : Covered(query[q], kind)
  BY DEF OnWatch, StageDefault, At
<1>1. Route("default", group) \in RouteType
  <2>1. Seen(cfg) \in Config /\ Cfg(q) \in Config  BY <1>0, Looks DEF Cfg
  <2>2. group \in Groups  BY <2>1 DEF Config
  <2> QED  BY <2>2, RouteFields DEF Actions
<1>2. \A kind \in DOMAIN Modes : gap[kind] < query[q].began => query[q].domain \in Local  BY <1>0 DEF Covered
<1> QED  BY <1>0, <1>1, <1>2, SentCovered

LEMMA StageCovered ==
  ASSUME NEW q \in Queries \cup Lookups, OnWatch(q), Stage(q)
  PROVE  StaysCovered(q)
<1>0. TypeOK /\ query[q] \in Asking  BY DEF OnWatch
<1>1. \A action \in {"cache_hit", "rule_block", "redirected", "ad_block"} :
        Refused(action) \in RouteType /\ Refused(action).action # "default"
  BY RouteFields DEF Actions
<1>2. ASSUME NEW action \in {"cache_hit", "rule_block", "redirected", "ad_block"}, NEW statuses,
             Answer(q, Refused(action), statuses)
      PROVE  StaysCovered(q)
  <2> PICK route : route = Refused(action)  OBVIOUS
  <2>1. route \in RouteType /\ route.action # "default" /\ Answer(q, route, statuses)  BY <1>1, <1>2
  <2> QED  BY <1>0, <2>1, AnsweredCovered
<1>3. ASSUME StageCache(q) PROVE StaysCovered(q)
  <2>1. query[q].at = "cache" /\ (Answer(q, Refused("cache_hit"), {"success"}) \/ Continue(q, query[q]))
    BY <1>3 DEF StageCache, At
  <2> QED  BY <1>2, <2>1, LookedCovered
<1>4. ASSUME StageRules(q) PROVE StaysCovered(q)
  <2> PICK type : type = ruling[Domain(q)]  OBVIOUS
  <2>1. /\ query[q].at = "rules"
        /\ \/ Answer(q, Refused("rule_block"), {"success"}) \/ Answer(q, Refused("redirected"), {"success"})
           \/ type \in Groups /\ Forward(q, type, type)
           \/ Continue(q, query[q])
    BY <1>4 DEF StageRules, At
  <2>2. ASSUME type \in Groups, Forward(q, type, type) PROVE StaysCovered(q)
    <3>1. Route(type, type) \in RouteType /\ type # "default"  BY <2>2, RouteFields DEF Groups, Actions
    <3> QED  BY <1>0, <2>2, <3>1, SentCovered
  <2> QED  BY <1>2, <2>1, <2>2, LookedCovered
<1>5. ASSUME StageAdFilter(q) PROVE StaysCovered(q)
  <2>1. query[q].at = "adfilter" /\ (Answer(q, Refused("ad_block"), {"success"}) \/ Continue(q, query[q]))
    BY <1>5 DEF StageAdFilter, At
  <2> QED  BY <1>2, <2>1, LookedCovered
<1>6. ASSUME StageAdCategory(q) PROVE StaysCovered(q)
  <2>1. query[q].at = "adcategory" /\ (Answer(q, Refused("ad_block"), {"success"}) \/ Continue(q, query[q]))
    BY <1>6 DEF StageAdCategory, At
  <2> QED  BY <1>2, <2>1, LookedCovered
<1> QED
  BY <1>3, <1>4, <1>5, <1>6, ConfigCovered, GeositeCovered, LeakCovered, DefaultCovered DEF Stage

\* While nothing changes around the queries, one of them moves.
LEMMA OneCovered ==
  ASSUME IInv, Watched, Sheltered, UNCHANGED environment, NEW q \in Queries \cup Lookups,
         query' = query \/ StaysCovered(q)
  PROVE  Watched' /\ Sheltered'
<1>1. UNCHANGED <<config, cfg, geo, changes, gap>>  BY DEF environment
<1>2. Watched'  BY <1>1 DEF Watched, Shielded, Seen
<1>3. ASSUME NEW p \in Queries \cup Lookups, query'[p] # Idle, NEW kind \in DOMAIN Modes
      PROVE  Covered(query'[p], kind)
  <2>1. query'[p] = query[p] \/ (p = q /\ Covered(query'[p], kind))
    <3>1. DOMAIN query = Queries \cup Lookups  BY DEF IInv, TypeOK
    <3> QED  BY <3>1 DEF StaysCovered
  <2> QED  BY <1>3, <2>1 DEF Sheltered
<1>4. Sheltered'  BY <1>1, <1>3 DEF Sheltered, Covered, Seen, Idle
<1> QED  BY <1>2, <1>4

LEMMA ProgramCovered ==
  ASSUME IInv, Watched, Sheltered, NEW q \in Queries \cup Lookups, Program(q)
  PROVE  Watched' /\ Sheltered'
<1>0. TypeOK /\ UNCHANGED environment  BY DEF IInv, Program, Receive, Stage, Reply, Fail
<1>1. query[q] # Idle => OnWatch(q)  BY <1>0 DEF OnWatch, IInv, TypeOK, Begun, Sheltered
<1>2. ASSUME NEW d \in Domains, Receive(q, d) PROVE StaysCovered(q)
  <2> PICK u : u = [at |-> Head(Stages(q)), domain |-> d, cfg |-> Copy(config), second |-> "none",
                    hasRemote |-> FALSE, route |-> Refused("none"), began |-> changes]  OBVIOUS
  <2>1. query' = [query EXCEPT ![q] = u] /\ DOMAIN query = Queries \cup Lookups  BY <1>0, <1>2 DEF Receive, TypeOK
  <2>2. query'[q] = u /\ query' = [query EXCEPT ![q] = query'[q]]  BY <2>1
  <2>3. u.at \notin {"hasDomestic", "default"}
    <3>1. Head(ResolveStages) = "cache" /\ Head(LookupStages) = "rules"  BY DEF ResolveStages, LookupStages
    <3> QED  BY <3>1 DEF Stages
  <2>4. Seen(u.cfg) = config /\ u.route.action = "none" /\ u.began = changes  BY DEF Seen, Copy, Refused, Route
  <2>5. ASSUME NEW kind \in DOMAIN Modes, gap[kind] < changes PROVE config.leak /\ config.mode \in Modes[kind]
    BY <2>5 DEF Watched, Shielded
  <2>6. \A kind \in DOMAIN Modes : Covered(u, kind)  BY <2>3, <2>4, <2>5 DEF Covered
  <2> QED  BY <2>2, <2>6 DEF StaysCovered
<1>3. ASSUME Stage(q) PROVE StaysCovered(q)
  <2>1. OnWatch(q)  BY <1>1, <1>3 DEF Stage
  <2> QED  BY <1>3, <2>1, StageCovered
<1>4. ASSUME NEW route \in RouteType, NEW statuses, At(q, "sent"), Answer(q, route, statuses),
             route = query[q].route \/ route.action = "failed"
      PROVE  StaysCovered(q)
  <2>1. query[q] # Idle  BY <1>4 DEF At, Idle
  <2> QED  BY <1>1, <1>4, <2>1, AnsweredCovered DEF OnWatch
<1>5. At(q, "sent") => /\ query[q].route \in RouteType
                       /\ Route("failed", query[q].route.group) \in RouteType
                       /\ Route("failed", query[q].route.group).action = "failed"
  <2>1. At(q, "sent") => query[q] \in Asking  BY <1>0 DEF TypeOK, At, Idle
  <2> QED  BY <2>1, AskingType DEF RouteType, Route, Actions
<1>6. ASSUME NEW cacheable, NEW status, Reply(q, cacheable, status) PROVE StaysCovered(q)
  BY <1>4, <1>5, <1>6 DEF Reply
<1>7. ASSUME Fail(q) PROVE StaysCovered(q)  BY <1>4, <1>5, <1>7 DEF Fail
<1>8. StaysCovered(q)  BY <1>2, <1>3, <1>6, <1>7 DEF Program
<1> QED  BY <1>0, <1>8, OneCovered

\* What a reference leads to changes only to what is in force.
LEMMA ChangesCovered ==
  ASSUME IInv, Watched, Sheltered, Changes
  PROVE  Watched' /\ Sheltered'
<1>0. TypeOK /\ Begun /\ gap \in [DOMAIN Modes -> -1..MaxChanges] /\ changes \in 0..MaxChanges /\ MaxChanges \in Nat
  BY ResolverConstants DEF IInv, TypeOK
<1>1. changes' = changes + 1 /\ Remembers
  BY DEF Changes, Remembers, Change, PatchDecode, ReloadLoad, PatchNotify, PatchInstall, ReloadNotify,
         LoadGeosite, LoadAdFilter, SetRules
<1>2. ASSUME NEW kind \in DOMAIN Modes, gap'[kind] < changes' PROVE Shielded(kind)' /\ gap'[kind] = gap[kind]
  BY <1>0, <1>1, <1>2 DEF Remembers
<1>3. Watched'
  <2>1. \A kind \in DOMAIN Modes : gap'[kind] < changes' => Shielded(kind)'  BY <1>2
  <2> QED  BY <2>1 DEF Watched
<1>4. \A q \in Queries \cup Lookups : query[q] # Idle => query[q] \in Asking /\ query[q].began <= changes
  BY <1>0 DEF TypeOK, Begun
<1>5. \/ query' = query
      \/ query' = [q \in Queries \cup Lookups |-> IF query[q] = Idle THEN Idle
                                                  ELSE [query[q] EXCEPT !.cfg = Copy(Seen(query[q].cfg))]]
  <2>1. DOMAIN query = Queries \cup Lookups  BY <1>0 DEF TypeOK
  <2> QED
    BY <2>1 DEF Changes, PatchDecode, ReloadLoad, PatchNotify, PatchInstall, ReloadNotify, LoadGeosite, LoadAdFilter,
                SetRules
<1>6. ASSUME NEW q \in Queries \cup Lookups, query'[q] # Idle, NEW kind \in DOMAIN Modes PROVE Covered(query[q], kind)'
  <2>0. query[q] # Idle  BY <1>5, <1>6
  <2> PICK u : u = query[q]  OBVIOUS
  <2>1. u \in Asking /\ u.began <= changes /\ u.began \in 0..MaxChanges /\ Covered(u, kind)
    BY <1>4, <2>0, AskingType DEF Sheltered
  <2>2. /\ query'[q].at = u.at /\ query'[q].domain = u.domain /\ query'[q].hasRemote = u.hasRemote
        /\ query'[q].route = u.route /\ query'[q].began = u.began
        /\ query'[q].cfg = u.cfg \/ query'[q].cfg = Copy(Seen(u.cfg))
    <3> PICK copy : copy = Copy(Seen(u.cfg))  OBVIOUS
    <3>1. query'[q] = u \/ query'[q] = [u EXCEPT !.cfg = copy]  BY <1>5, <2>0
    <3> HIDE DEF Words
    <3> QED  BY <2>1, <3>1, AskingType
  <2>3. Seen(query[q].cfg)' = config' \/ Seen(query[q].cfg)' = Seen(u.cfg)
    <3>1. query'[q].cfg = u.cfg => Seen(query[q].cfg)' = config' \/ Seen(query[q].cfg)' = Seen(u.cfg)  BY DEF Seen
    <3>2. query'[q].cfg = Copy(Seen(u.cfg)) => Seen(query[q].cfg)' = Seen(u.cfg)  BY DEF Seen, Copy
    <3> QED  BY <2>2, <3>1, <3>2
  <2> SUFFICES ASSUME gap'[kind] < u.began
               PROVE  /\ u.at \notin {"sent", "done"} =>
                           Seen(query[q].cfg)'.leak /\ Seen(query[q].cfg)'.mode \in Modes[kind]
                      /\ u.at = "hasDomestic" => u.hasRemote
                      /\ u.at = "default" => u.domain \in Local
                      /\ u.route.action = "default" /\ u.domain \notin Local =>
                           kind = "standard" /\ u.route.group = "remote"
    BY <2>2 DEF Covered
  <2>4. Shielded(kind)' /\ gap'[kind] = gap[kind]
    <3>1. gap'[kind] \in Int
      <4>1. changes' \in Int /\ gap[kind] \in Int  BY <1>0, <1>1
      <4> QED  BY <1>1, <4>1 DEF Remembers
    <3>2. gap'[kind] < changes'  BY <1>0, <1>1, <2>1, <3>1
    <3> QED  BY <1>2, <3>2
  <2>5. config'.leak /\ config'.mode \in Modes[kind]  BY <2>4 DEF Shielded
  <2>6. gap[kind] < u.began  BY <2>4
  <2> QED  BY <2>1, <2>3, <2>5, <2>6 DEF Covered
<1>7. Sheltered'
  <2>1. \A q \in Queries \cup Lookups : query'[q] # Idle => \A kind \in DOMAIN Modes : Covered(query[q], kind)'  BY <1>6
  <2> QED  BY <2>1 DEF Sheltered, Covered, Idle
<1> QED  BY <1>3, <1>7

LEMMA NextCovered == IInv /\ Watched /\ Sheltered /\ [Next]_vars => Watched' /\ Sheltered'
<1> SUFFICES ASSUME IInv, Watched, Sheltered, [Next]_vars PROVE Watched' /\ Sheltered'  OBVIOUS
<1>1. ASSUME UNCHANGED <<environment, query>> PROVE Watched' /\ Sheltered'
  <2>1. UNCHANGED <<config, cfg, geo, changes, gap, query>>  BY <1>1 DEF environment
  <2>2. Watched'  BY <2>1 DEF Watched, Shielded, Seen
  <2>3. Sheltered'  BY <2>1 DEF Sheltered, Covered, Seen, Idle
  <2> QED  BY <2>2, <2>3
<1>2. \/ \E q \in Queries \cup Lookups : Program(q)
      \/ Changes
      \/ UNCHANGED <<environment, query>>
  BY DEF Next, Expire, ClearCache, vars
<1> QED  BY <1>1, <1>2, ProgramCovered, ChangesCovered

LEMMA InitCovered == Init => Watched /\ Sheltered
<1> SUFFICES ASSUME Init PROVE Watched /\ Sheltered  OBVIOUS
<1>1. \A q \in Queries \cup Lookups : query[q] = Idle  BY DEF Init
<1>2. \A kind \in DOMAIN Modes : ~Shielded(kind) => gap[kind] = 0  BY DEF Init
<1> QED  BY <1>1, <1>2 DEF Watched, Sheltered, Init

\* resolver.go:249, 302, 372: for any configurations, Geo data and number of changes under any number of queries and
\* lookups, a name that matched nothing reaches the default servers only if strict protection was interrupted since
\* its query began, and servers that are not the remote ones only if all protection was.
THEOREM ResolverLeakNeedsGap == Spec => []LeakNeedsGap
<1>1. IInv /\ Watched /\ Sheltered => LeakNeedsGap
  <2> SUFFICES ASSUME IInv, Sheltered, NEW q \in Queries \cup Lookups, query[q] # Idle,
                      query[q].route.action = "default", query[q].domain \notin Local
               PROVE  /\ gap["strict"] >= query[q].began
                      /\ query[q].route.group # "remote" => gap["standard"] >= query[q].began
    BY DEF LeakNeedsGap, Domain
  <2>1. DOMAIN Modes = {"standard", "strict"}  BY DEF Modes
  <2>2. Covered(query[q], "strict") /\ Covered(query[q], "standard")  BY <2>1 DEF Sheltered
  <2>3. gap["strict"] \in Int /\ gap["standard"] \in Int  BY <2>1 DEF IInv, TypeOK
  <2>4. query[q].began \in Int
    <3>1. query[q] \in Asking  BY DEF IInv, TypeOK
    <3> QED  BY <3>1, AskingType
  <2> QED  BY <2>2, <2>3, <2>4 DEF Covered
<1> QED  BY <1>1, InitStep, StepKeeps, InitCovered, NextCovered, PTL DEF Spec
=============================================================================
