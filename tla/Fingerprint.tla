----------------------------- MODULE Fingerprint -----------------------------
(***************************************************************************)
(* match_all_rules of fingerprint/src/rules.rs: the technologies that the    *)
(* rules see in one HTTP response.                                          *)
(*                                                                         *)
(* A response is the set of the texts in it.  A pattern is the text it      *)
(* looks for, whether it compiles and the version it captures.  A rule has  *)
(* a sequence of patterns for the body and, as they are hash maps, a set of *)
(* patterns for headers, meta tags and cookies.  Confidences are in percent.*)
(***************************************************************************)
EXTENDS Naturals, Sequences, FiniteSets

CONSTANTS
  Rulesets,    \* what fingerprint_rules.yaml can hold; a wrong file counts as <<>>
  Responses,   \* what the target can answer
  NoVersion

ASSUME FingerprintAssumption ==
  \A rules \in Rulesets :
    /\ rules \in Seq({rules[i] : i \in DOMAIN rules})
    /\ \A i \in DOMAIN rules : rules[i].confidence \in Nat

VARIABLES
  ruleset,    \* the rules
  fetched,    \* the response
  matching,   \* "rules", "implies" or "done"
  matched,    \* how many rules are matched
  techs,      \* results: the technology of each name
  implied     \* the implied names to add

fingerVars == <<ruleset, fetched, matching, matched, techs, implied>>

-----------------------------------------------------------------------------

\* CompiledRule::compile: a header pattern that is no regular expression spoils
\* the rule, in the body it is taken literally, elsewhere it is left out.
Compiles(rule) == \A p \in rule.headers : p.valid

\* try_match: the first place where a pattern matches gives the version, in the body
\* its first pattern, elsewhere any of the map; a cookie and a literal give none.
\* No version at all stands for no match.
Versions(rule) ==
  LET Read(patterns) == {p \in patterns : p.valid /\ p.text \in fetched}
      hits == {i \in DOMAIN rule.body : rule.body[i].text \in fetched}
      body == {rule.body[i] : i \in {j \in hits : \A k \in hits : j <= k}}
  IN  IF ~Compiles(rule) THEN {}
      ELSE IF Read(rule.headers) # {} THEN {p.version : p \in Read(rule.headers)}
      ELSE IF hits # {} THEN {IF p.valid THEN p.version ELSE NoVersion : p \in body}
      ELSE IF Read(rule.meta) # {} THEN {p.version : p \in Read(rule.meta)}
      ELSE {NoVersion : p \in Read(rule.cookies)}

With(known, name, tech) ==
  [n \in DOMAIN known \cup {name} |-> IF n = name THEN tech ELSE known[n]]

\* One technology per name: the surest of its rules, the first of equals.
Surest(known, name, tech) ==
  IF name \in DOMAIN known /\ known[name].confidence >= tech.confidence
  THEN known
  ELSE With(known, name, tech)

RulesOf(name) == {i \in DOMAIN ruleset : ruleset[i].name = name}

\* An implied technology is a little less sure than its first rule.
Inferred(name) ==
  [version |-> NoVersion,
   confidence |-> IF RulesOf(name) = {} THEN 70
                  ELSE (ruleset[CHOOSE i \in RulesOf(name) : \A j \in RulesOf(name) : i <= j].confidence
                          * 8) \div 10]

ImpliedBy(names) ==
  UNION {{ruleset[i].implies[k] : k \in DOMAIN ruleset[i].implies} :
           i \in {j \in DOMAIN ruleset : ruleset[j].name \in names}}

\* Faulty variant: an implication also counts where a rule matched.
ImplyAlways(known, name) == With(known, name, Inferred(name))

Imply(known, name) == IF name \in DOMAIN known THEN known ELSE With(known, name, Inferred(name))

FingerInit ==
  /\ ruleset \in Rulesets /\ fetched \in Responses
  /\ matching = "rules" /\ matched = 0 /\ techs = <<>> /\ implied = {}

\* The rules are compiled and matched in parallel, but their matches are collected
\* and merged in the order of the rules.
MatchRule ==
  /\ matching = "rules" /\ matched < Len(ruleset)
  /\ matched' = matched + 1
  /\ LET rule == ruleset[matched']
     IN  \/ Versions(rule) = {} /\ UNCHANGED techs
         \/ \E v \in Versions(rule) :
              techs' = Surest(techs, rule.name, [version |-> v, confidence |-> rule.confidence])
  /\ UNCHANGED <<ruleset, fetched, matching, implied>>

\* apply_implies collects the names before it adds one: it goes one level deep.
CollectImplied ==
  /\ matching = "rules" /\ matched = Len(ruleset)
  /\ matching' = "implies"
  /\ implied' = ImpliedBy(DOMAIN techs)
  /\ UNCHANGED <<ruleset, fetched, matched, techs>>

\* In the order of a hash map.
AddImplied(name) ==
  /\ matching = "implies" /\ name \in implied
  /\ implied' = implied \ {name}
  /\ techs' = Imply(techs, name)
  /\ UNCHANGED <<ruleset, fetched, matching, matched>>

EndMatching ==
  /\ matching = "implies" /\ implied = {}
  /\ matching' = "done"
  /\ UNCHANGED <<ruleset, fetched, matched, techs, implied>>

FingerNext ==
  MatchRule \/ CollectImplied \/ (\E name \in implied : AddImplied(name)) \/ EndMatching

FingerSpec == FingerInit /\ [][FingerNext]_fingerVars

-----------------------------------------------------------------------------

\* A technology is found when one of its rules sees it, or one that was seen implies
\* it, and no other is; it has the confidence of its surest rule, of the first of
\* equals, and a version that this very rule reads: none comes from a weaker rule,
\* and none is lost to an implication, whatever the order of a hash map. The CVE
\* look-up takes the version from here.
MatchExact ==
  matching = "done" =>
    LET Hits(n) == {i \in RulesOf(n) : Versions(ruleset[i]) # {}}
        seen    == {n \in {ruleset[i].name : i \in DOMAIN ruleset} : Hits(n) # {}}
    IN  /\ DOMAIN techs = seen \cup ImpliedBy(seen)
        /\ \A n \in seen : \E i \in Hits(n) :
             /\ techs[n].confidence = ruleset[i].confidence
             /\ techs[n].version \in Versions(ruleset[i])
             /\ \A j \in Hits(n) : \/ ruleset[j].confidence < ruleset[i].confidence
                                   \/ ruleset[j].confidence = ruleset[i].confidence /\ i <= j
        /\ \A n \in ImpliedBy(seen) \ seen : techs[n] = Inferred(n)

=============================================================================
