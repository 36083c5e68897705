------------------------------ MODULE TrapStore -----------------------------
(***************************************************************************)
(* snmptrap: a trap is received, the rules are listed, the first one that  *)
(* matches gives it its severity, and the trap is inserted with the id of  *)
(* that rule; rules come and go in between.  An OID is a sequence of arcs, *)
(* a pattern one with or without a star behind it.                         *)
(***************************************************************************)
EXTENDS Integers, Sequences, FiniteSets, SequencesExt

CONSTANTS
  Oids,        \* of traps
  Patterns,    \* of rules: [prefix, star]
  Accepted,    \* communities that are listened to; none means all
  NoRule,
  MaxArcs,     \* of a pattern, whose text a column holds
  MaxRules,    \* bound: rules created
  MaxTraps     \* bound: traps received

ASSUME PatternsAssumption ==
  /\ Oids \subseteq Seq(Nat) /\ Patterns \subseteq [prefix : Seq(Nat), star : BOOLEAN]
  /\ MaxArcs \in Nat /\ \A p \in Patterns : Len(p.prefix) <= MaxArcs
ASSUME TrapBoundsAssumption == MaxRules \in Nat \ {0} /\ MaxTraps \in Nat

Severities == {"info", "warning", "critical"}
RuleRows == [id : Nat, prefix : Seq(Nat), star : BOOLEAN, severity : Severities, enabled : BOOLEAN]
ASSUME NoRuleAssumption == NoRule \notin Nat \cup RuleRows

VARIABLES
  rules,       \* trap_rules: [id, prefix, star, severity, enabled]
  lastRule,    \* the sequence of their ids
  traps,       \* snmp_traps: [oid, rule, severity, best]
  handler,     \* Listener.handle: one trap at a time
  received,    \* how many were received
  (* history, read by properties only *)
  gone         \* traps that were not stored, by reason

trapVars == <<rules, lastRule, traps, handler, received, gone>>

NoTrap == [op |-> "none"]
CatchAll == [id |-> 1, prefix |-> <<>>, star |-> TRUE, severity |-> "warning", enabled |-> TRUE]

TrapInit ==
  /\ rules = {CatchAll} /\ lastRule = 1
  /\ traps = {} /\ handler = NoTrap /\ received = 0
  /\ gone = [deleted |-> 0, failed |-> 0]

-----------------------------------------------------------------------------
(* Rule.Match: a star stands for nothing or for further arcs.              *)
Matches(r, oid) ==
  \/ r.prefix = oid
  \/ r.star /\ IsPrefix(r.prefix, oid)

(* The text of a pattern with n arcs of one digit each: "1.2.3", "1.2.3.*".*)
TextLength(r) ==
  LET n == Len(r.prefix)
  IN  IF n = 0 THEN 1 ELSE 2 * n - 1 + (IF r.star THEN 2 ELSE 0)

(* Mutant: ORDER BY id.                                                    *)
BeforeById(r, s) == r.id < s.id
(* ORDER BY length(oid_pattern) DESC, id ASC.                              *)
Before(r, s) ==
  \/ TextLength(r) > TextLength(s)
  \/ TextLength(r) = TextLength(s) /\ r.id < s.id

FirstMatch(all, oid) ==
  LET hits == {r \in all : r.enabled /\ Matches(r, oid)}
  IN  IF hits = {} THEN NoRule ELSE CHOOSE r \in hits : \A s \in hits \ {r} : Before(r, s)

(* Most arcs in front of the star.                                         *)
Longest(all, oid) ==
  LET hits == {r \in all : r.enabled /\ Matches(r, oid)}
  IN  {r \in hits : \A s \in hits : Len(s.prefix) <= Len(r.prefix)}

-----------------------------------------------------------------------------
(* A packet of an accepted community; a v1 trap's OID is made of its       *)
(* enterprise and specific code.                                           *)
ReceiveTrap(oid, community, v3) ==
  /\ handler = NoTrap /\ received < MaxTraps
  /\ received' = received + 1
  /\ handler' = IF Accepted = {} \/ v3 \/ community \in Accepted
                THEN [op |-> "list", oid |-> oid] ELSE NoTrap
  /\ UNCHANGED <<rules, lastRule, traps, gone>>

(* Store: ListRules, FirstMatch.                                           *)
List ==
  /\ handler.op = "list"
  /\ LET rule == FirstMatch(rules, handler.oid)
     IN  handler' = [op |-> "insert", oid |-> handler.oid,
                     rule |-> IF rule = NoRule THEN NoRule ELSE rule.id,
                     severity |-> IF rule = NoRule THEN "info" ELSE rule.severity,
                     best |-> Longest(rules, handler.oid)]
  /\ UNCHANGED <<rules, lastRule, traps, received, gone>>

RuleExists(id) == id = NoRule \/ \E r \in rules : r.id = id
(* Mutant: the insert does not notice that the rule is gone.               *)
InsertUnchecked ==
  /\ handler.op = "insert"
  /\ handler' = NoTrap
  /\ traps' = traps \cup {[n |-> received, oid |-> handler.oid, rule |-> handler.rule,
                           severity |-> handler.severity, best |-> handler.best]}
  /\ UNCHANGED <<rules, lastRule, received, gone>>

(* matched_rule_id REFERENCES trap_rules.                                  *)
InsertTrap ==
  /\ handler.op = "insert"
  /\ handler' = NoTrap
  /\ IF RuleExists(handler.rule)
     THEN /\ traps' = traps \cup {[n |-> received, oid |-> handler.oid, rule |-> handler.rule,
                                   severity |-> handler.severity, best |-> handler.best]}
          /\ UNCHANGED gone
     ELSE gone' = [gone EXCEPT !.deleted = @ + 1] /\ UNCHANGED traps
  /\ UNCHANGED <<rules, lastRule, received>>

(* A statement fails, or takes more than five seconds: it is logged.       *)
FailTrap ==
  /\ handler.op \in {"list", "insert"}
  /\ handler' = NoTrap
  /\ gone' = [gone EXCEPT !.failed = @ + 1]
  /\ UNCHANGED <<rules, lastRule, traps, received>>

CreateRule(p, severity, enabled) ==
  /\ lastRule < MaxRules
  /\ lastRule' = lastRule + 1
  /\ rules' = rules \cup {[id |-> lastRule', prefix |-> p.prefix, star |-> p.star,
                           severity |-> severity, enabled |-> enabled]}
  /\ UNCHANGED <<traps, handler, received, gone>>

(* ON DELETE SET NULL: the severity stays.                                 *)
DeleteRule(r) ==
  /\ r \in rules
  /\ rules' = rules \ {r}
  /\ traps' = {IF t.rule = r.id THEN [t EXCEPT !.rule = NoRule] ELSE t : t \in traps}
  /\ UNCHANGED <<lastRule, handler, received, gone>>

PruneOlderThan(n) ==
  /\ \E t \in traps : t.n <= n
  /\ traps' = {t \in traps : t.n > n}
  /\ UNCHANGED <<rules, lastRule, handler, received, gone>>

TrapNext ==
  \/ List \/ InsertTrap \/ FailTrap
  \/ \E oid \in Oids, community \in {"public", "other"}, v3 \in BOOLEAN :
       ReceiveTrap(oid, community, v3)
  \/ \E p \in Patterns, severity \in {"info", "critical"}, e \in BOOLEAN : CreateRule(p, severity, e)
  \/ \E r \in rules : DeleteRule(r)
  \/ \E n \in 1..MaxTraps : PruneOlderThan(n)

TrapSpec == TrapInit /\ [][TrapNext]_trapVars

-----------------------------------------------------------------------------
TrapRows == [n : Nat, oid : Oids, rule : Nat \cup {NoRule}, severity : Severities, best : SUBSET RuleRows]
TrapTypeOK ==
  /\ lastRule \in 1..MaxRules /\ received \in 0..MaxTraps
  /\ rules \subseteq RuleRows
  /\ \A r \in rules : r.id \in 1..lastRule /\ Len(r.prefix) <= MaxArcs
  /\ traps \subseteq TrapRows /\ \A t \in traps : t.n \in 1..received
  /\ handler \in {NoTrap} \cup [op : {"list"}, oid : Oids] \cup
       [op : {"insert"}, oid : Oids, rule : Nat \cup {NoRule}, severity : Severities,
        best : SUBSET RuleRows]
  /\ handler # NoTrap => received > 0
  /\ gone \in [deleted : Nat, failed : Nat]

(* A trap has the severity of a most specific rule there was when the      *)
(* rules were listed, whatever became of the rules since; info if there    *)
(* was none.  Where a rule for the very OID is among them, the text of one *)
(* with a star may be as long: then the older one is taken.                *)
MostSpecificRuleDecides ==
  \A t \in traps :
    /\ t.best = {} => t.severity = "info"
    /\ t.best # {} /\ (\A r \in t.best : r.prefix # t.oid) =>
         \E r \in t.best : r.severity = t.severity

(* A trap names a rule that is there, or none.                             *)
NamedRuleExists == \A t \in traps : RuleExists(t.rule)

TrapsAreRuled == MostSpecificRuleDecides /\ NamedRuleExists
=============================================================================
