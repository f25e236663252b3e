----------------------------- MODULE RuleEngine ------------------------------
(***************************************************************************)
(* The custom rules (rules.Engine) and the API handlers that change them.  *)
(* The engine's slice holds pointers: a rule is an object, named by the    *)
(* number of rules appended before it, and rules is a sequence of objects. *)
(* Update changes an object in place, whoever holds a pointer to it.       *)
(*                                                                         *)
(* The domain field of a rule is a pattern.  Literal[p] are the names that *)
(* match compares with the field's own text (all of an exact pattern, the  *)
(* apex of a suffix or wildcard), Derived[p] the names it matches through  *)
(* what compile stored (suffix, keyword, regex).                           *)
(***************************************************************************)
EXTENDS Integers, Sequences, SequencesExt, FiniteSets, Functions

CONSTANTS Posts,         \* the goroutines that serve POST /rules
          Types,         \* the rule types the requests ask for
          Patterns,      \* the domain patterns the requests ask for
          Switches,      \* the values of enabled the requests ask for
          BadPatterns,   \* regular expressions that do not compile
          Names,         \* the names that are looked up
          Literal, Derived,
          MaxRules,      \* bound: how many rules are ever added
          MaxListed      \* bound: how many IDs a POST /rules/order names

ASSUME RuleConstants ==
  /\ BadPatterns \subseteq Patterns /\ Switches \subseteq BOOLEAN
  /\ {Literal, Derived} \subseteq [Patterns -> SUBSET Names]
  /\ \A p \in BadPatterns : Literal[p] = {} /\ Derived[p] = {}
  /\ MaxRules \in Nat /\ MaxListed \in Nat

VARIABLES object,   \* the rules ever added
          rules,    \* e.rules: the order of the rules in force
          nextID,
          request   \* each POST /rules: how far it is, and what it works with

engineVars == <<object, rules, nextID, request>>

Objects == 1..MaxRules
Orders == BoundedSeq(Objects, MaxListed)
Rule == [id : Objects, type : Types, domain : Patterns, compiled : Patterns \ BadPatterns,
         enabled : Switches]

\* A field of the body of PUT /rules/{id}: {} if it is absent.
Optional(S) == {{}} \cup {{x} : x \in S}
Assign(old, field) == IF field = {} THEN old ELSE CHOOSE x \in field : TRUE

Idle == [at |-> "idle"]
Wanted == [type : Types, domain : Patterns, enabled : Switches]

Ids(s) == {object[r].id : r \in ToSet(s)}
-----------------------------------------------------------------------------
\* match: the text of the domain field, and what was compiled last.
RuleMatch(rule, name) ==
  \/ name \in Literal[rule.domain]
  \/ name \in Derived[rule.compiled]

\* Engine.Match: the first enabled rule that matches, 0 if none does.
Match(name) == SelectInSeq(rules, LAMBDA r : object[r].enabled /\ RuleMatch(object[r], name))
-----------------------------------------------------------------------------
EngineInit ==
  /\ object = << >>
  /\ rules = << >>
  /\ nextID = 1
  /\ request = [c \in Posts |-> Idle]

\* handleAddRule: List copies the slice under the read lock.
AddList(c, want) ==
  /\ request[c] = Idle
  /\ request' = [request EXCEPT ![c] = [at |-> "compare", want |-> want, seen |-> ToSet(rules)]]
  /\ UNCHANGED <<object, rules, nextID>>

\* The copied pointers are compared with the request without the lock: 409 if
\* one is alike.
AddCompare(c) ==
  /\ request[c].at = "compare"
  /\ LET alike == \E r \in request[c].seen : /\ object[r].domain = request[c].want.domain
                                             /\ object[r].type = request[c].want.type
     IN request' = [request EXCEPT ![c] = IF alike THEN Idle
                                          ELSE [at |-> "build", want |-> @.want]]
  /\ UNCHANGED <<object, rules, nextID>>

\* Engine.Add reads nextID before it takes the lock, and compiles: 400 if the
\* pattern is bad.
AddBuild(c) ==
  /\ request[c].at = "build"
  /\ request' = [request EXCEPT ![c] = IF @.want.domain \in BadPatterns THEN Idle
                                       ELSE [at |-> "append", want |-> @.want, id |-> nextID]]
  /\ UNCHANGED <<object, rules, nextID>>

Built(c) == [id |-> request[c].id, type |-> request[c].want.type,
             domain |-> request[c].want.domain, compiled |-> request[c].want.domain,
             enabled |-> request[c].want.enabled]

\* Engine.Add under the lock.
AddAppend(c) ==
  /\ request[c].at = "append" /\ Len(object) < MaxRules
  /\ object' = Append(object, Built(c))
  /\ rules' = Append(rules, Len(object'))
  /\ nextID' = nextID + 1
  /\ request' = [request EXCEPT ![c] = Idle]

Find(id) == SelectInSeq(rules, LAMBDA r : object[r].id = id)

\* Mutant: only a change of the type compiles the rule again.
UpdateUncompiled(id, type, domain, enabled) ==
  LET r == rules[Find(id)]
      changed == [object[r] EXCEPT !.type = Assign(@, type), !.domain = Assign(@, domain),
                                   !.enabled = Assign(@, enabled)]
  IN /\ Find(id) # 0
     /\ object' = [object EXCEPT ![r] =
                     IF type = {} \/ changed.domain \in BadPatterns THEN changed
                     ELSE [changed EXCEPT !.compiled = changed.domain]]
     /\ UNCHANGED <<rules, nextID, request>>

\* Engine.Update of the first rule with this ID: the fields are assigned, then
\* compiled; if that fails the error is returned and what was assigned stays.
Update(id, type, domain, enabled) ==
  LET r == rules[Find(id)]
      changed == [object[r] EXCEPT !.type = Assign(@, type), !.domain = Assign(@, domain),
                                   !.enabled = Assign(@, enabled)]
  IN /\ Find(id) # 0
     /\ object' = [object EXCEPT ![r] =
                     IF changed.domain \in BadPatterns THEN changed
                     ELSE [changed EXCEPT !.compiled = changed.domain]]
     /\ UNCHANGED <<rules, nextID, request>>

\* Engine.Delete of the first rule with this ID.
Delete(id) ==
  /\ Find(id) # 0
  /\ rules' = RemoveAt(rules, Find(id))
  /\ UNCHANGED <<object, nextID, request>>

\* ruleMap: of the rules with the same ID, the last.
RuleMap(id) == rules[SelectLastInSeq(rules, LAMBDA r : object[r].id = id)]

\* What of s is in S, in the order of s, each once.
Chosen(s, S) ==
  FoldLeft(LAMBDA t, x : IF x \in S /\ ~Contains(t, x) THEN Append(t, x) ELSE t, << >>, s)

\* The rules with these IDs.
Listed(known) == [i \in 1..Len(known) |-> RuleMap(known[i])]

\* Mutant: the rules that are not listed are forgotten.
ReorderedListed(ids) == Listed(Chosen(ids, Ids(rules)))

\* Engine.Reorder: the listed rules in the order given, each once, then the
\* rules whose ID is not listed.
Reordered(ids) ==
  LET known == Chosen(ids, Ids(rules))
  IN Listed(known) \o Chosen(rules, {r \in ToSet(rules) : object[r].id \notin ToSet(known)})

Reorder(ids) == rules' = Reordered(ids) /\ UNCHANGED <<object, nextID, request>>

AddRule == \E c \in Posts : \/ \E want \in Wanted : AddList(c, want)
                               \/ AddCompare(c) \/ AddBuild(c) \/ AddAppend(c)

EngineNext ==
  \/ AddRule
  \/ \E id \in Objects, type \in Optional(Types), domain \in Optional(Patterns),
        enabled \in Optional(Switches) : Update(id, type, domain, enabled)
  \/ \E id \in Objects : Delete(id)
  \/ \E ids \in Orders : Reorder(ids)

EngineSpec == EngineInit /\ [][EngineNext]_engineVars
-----------------------------------------------------------------------------
EngineTypeOK ==
  /\ object \in Seq(Rule) /\ Len(object) <= MaxRules
  /\ rules \in Seq(1..Len(object))
  /\ nextID \in 1..MaxRules + 1
  /\ \A c \in Posts :
       \/ request[c] = Idle
       \/ request[c].at \in {"compare", "build", "append"} /\ request[c].want \in Wanted

\* The rules that share their ID with another rule of the list.
Ambiguous == {r \in ToSet(rules) : \E s \in ToSet(rules) \ {r} : object[r].id = object[s].id}

\* rules.go:171, 188: POST /rules/order may lose a rule only to another rule with the
\* same ID; whatever IDs it names, leaves out or repeats, every other rule stays, and
\* none is listed twice.
LeavesOnPurpose ==
  [][ /\ ToSet(rules) \ Ambiguous \subseteq ToSet(rules') \/ \E id \in Objects : Delete(id)
      /\ IsInjective(rules') ]_engineVars

\* rules.go:118, 268: the rule that decides a name covers it: by its domain or, if a
\* failed update has left it with a domain that is malformed, by the one before;
\* what it was compiled from in earlier updates no longer counts.
MatchesItsDomain ==
  \A name \in Names : Match(name) # 0 =>
    LET rule == object[rules[Match(name)]]
        accepted == IF rule.domain \in BadPatterns THEN rule.compiled ELSE rule.domain
    IN name \in Literal[accepted] \cup Derived[accepted]
=============================================================================
