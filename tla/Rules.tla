------------------------------- MODULE Rules -------------------------------
(***************************************************************************)
(* The configured rows of one organization that tickets are matched with:  *)
(* routing rules (helpdesk/routing/routing-rules.service.ts) and SLA       *)
(* policies (helpdesk/sla/sla-policies.service.ts), which share the        *)
(* matcher of routing-matcher.ts and keep their default row in the same    *)
(* way.  One table stands for either.                                      *)
(*                                                                         *)
(* A criterion compares a column with the ticket's; what counts is whether *)
(* a row declares it and whether the ticket meets it.  A row is therefore  *)
(* the set of criteria it declares, a ticket the set of those it meets.    *)
(*                                                                         *)
(* Ids stand for the order of creation: createdAt, then the id itself.     *)
(*                                                                         *)
(* Abstracted: names, references to departments, agents and employees, the *)
(* audit record and the event of each edit, and the rows beyond the 500    *)
(* that resolve reads.                                                     *)
(***************************************************************************)
EXTENDS Integers, FiniteSets

CONSTANTS
  RuleIds,
  CriteriaSets,   \* sets of criteria that rows declare
  Orders,         \* values of ruleOrder and policyOrder
  Editors,        \* edits in flight that change the default
  NoRule

Criteria == {"ticketType", "category", "priority", "departmentId"}

Rows == [criteria : CriteriaSets, order : Orders, isActive : BOOLEAN,
         isDefault : BOOLEAN]

ASSUME RulesAssumption ==
  /\ RuleIds \subseteq Nat /\ IsFiniteSet(RuleIds)
  /\ CriteriaSets \subseteq SUBSET Criteria
  /\ Orders \subseteq Int /\ NoRule \notin Rows

VARIABLES
  rules,    \* by id: the row, or NoRule
  editor    \* the transactions between their two statements

rulesVars == <<rules, editor>>

Idle == [target |-> NoRule, seen |-> {}]

Present  == {i \in RuleIds : rules[i] # NoRule}
Defaults == {i \in Present : rules[i].isDefault}
Targets  == {editor[e].target : e \in Editors}

RulesInit ==
  /\ rules = [i \in RuleIds |-> NoRule]
  /\ editor = [e \in Editors |-> Idle]

-----------------------------------------------------------------------------
(* Matching.                                                               *)

FlatWeight == [c \in Criteria |-> 1]                                    \* mutant
SPECIFICITY_WEIGHTS ==
  [ticketType |-> 8, category |-> 4, priority |-> 2, departmentId |-> 1]

Weight(row, c) == IF c \in row.criteria THEN SPECIFICITY_WEIGHTS[c] ELSE 0
SpecificityScore(row) ==
  Weight(row, "ticketType") + Weight(row, "category")
    + Weight(row, "priority") + Weight(row, "departmentId")

CriteriaMatch(row, ticket) == row.criteria \subseteq ticket

(* The comparator of pickMostSpecific: does row i come before row j?       *)
Precedes(i, j) ==
  LET key(k) == <<SpecificityScore(rules[k]), rules[k].order, -k>>
  IN  \E k \in 1..3 : /\ key(i)[k] > key(j)[k]
                      /\ \A m \in 1..k - 1 : key(i)[m] = key(j)[m]

(* pickMostSpecific: the rows that may come out first.                     *)
MostSpecific(ids, ticket) ==
  LET matching == {i \in ids : CriteriaMatch(rules[i], ticket)}
  IN  {i \in matching : \A j \in matching \ {i} : ~Precedes(j, i)}

ActiveRules == {i \in Present : rules[i].isActive}

(* resolve.                                                                *)
Resolve(ticket) == MostSpecific(ActiveRules, ticket)

(* resolvePolicy: the default never competes and matches every ticket.     *)
ResolvePolicy(ticket) ==
  LET exact == MostSpecific(ActiveRules \ Defaults, ticket)
  IN  IF exact # {} THEN exact ELSE ActiveRules \cap Defaults

-----------------------------------------------------------------------------
(* Edits.  Without isDefault an edit is one statement.                     *)

CreateRule(i, row) ==
  /\ i \notin Present \cup Targets
  /\ ~row.isDefault
  /\ rules' = [rules EXCEPT ![i] = row]
  /\ UNCHANGED editor

UpdateRule(i, row) ==
  /\ i \in Present
  /\ row.isDefault => rules[i].isDefault
  /\ rules' = [rules EXCEPT ![i] = row]
  /\ UNCHANGED editor

(* A row is made the default or created as such: the rows to clear are     *)
(* those that are the default when the UPDATE starts.                      *)
ClearIncumbent(e, i) ==
  /\ editor[e] = Idle
  /\ i \in Present \/ i \notin Targets
  /\ editor' = [editor EXCEPT ![e] = [target |-> i, seen |-> Defaults]]
  /\ UNCHANGED rules

(* The second statement.  The UPDATE has left alone what another edit has  *)
(* cleared meanwhile; a second default is refused by the partial index,    *)
(* and the transaction rolls back, the clearing with it.                   *)
DefaultsCleared(e) ==
  [i \in RuleIds |-> IF i \in editor[e].seen \cap Defaults
                       THEN [rules[i] EXCEPT !.isDefault = FALSE] ELSE rules[i]]

FitsIndex(e) == Defaults \subseteq editor[e].seen \cup {editor[e].target}

SetDefault(e, row) ==
  LET i == editor[e].target IN
  /\ editor[e] # Idle
  /\ row.isDefault
  /\ i \in Present => row = [rules[i] EXCEPT !.isDefault = TRUE]
  /\ rules' = IF FitsIndex(e) THEN [DefaultsCleared(e) EXCEPT ![i] = row] ELSE rules
  /\ editor' = [editor EXCEPT ![e] = Idle]

(* A later statement fails, or the process dies.                           *)
SetDefaultFails(e) ==
  /\ editor[e] # Idle
  /\ editor' = [editor EXCEPT ![e] = Idle]
  /\ UNCHANGED rules

RulesNext ==
  \/ \E e \in Editors : SetDefaultFails(e)
  \/ \E i \in RuleIds, row \in Rows : CreateRule(i, row) \/ UpdateRule(i, row)
  \/ \E e \in Editors, i \in RuleIds : ClearIncumbent(e, i)
  \/ \E e \in Editors, row \in Rows : SetDefault(e, row)

-----------------------------------------------------------------------------
(* The type invariant.                                                     *)
RulesTypeOK ==
  /\ rules \in [RuleIds -> Rows \cup {NoRule}]
  /\ \A e \in Editors :
       \/ editor[e] = Idle
       \/ editor[e] \in [target : RuleIds, seen : SUBSET RuleIds]

Tickets == SUBSET Criteria

(* The documented order, written out: type before category before priority *)
(* before department, whatever else a row declares.                        *)
Tier == <<"ticketType", "category", "priority", "departmentId">>
MoreSpecific(a, b) ==
  \E k \in 1..4 : /\ Tier[k] \in a.criteria \ b.criteria
                  /\ \A m \in 1..k - 1 : Tier[m] \in a.criteria <=> Tier[m] \in b.criteria

(* "Both must produce the same answer every time": one row at most comes   *)
(* out, one if any matches, and no matching row is more specific.          *)
ResolutionIsDetermined ==
  \A ticket \in Tickets :
    LET matching == {i \in ActiveRules : rules[i].criteria \subseteq ticket}
    IN  /\ Cardinality(Resolve(ticket)) = IF matching = {} THEN 0 ELSE 1
        /\ \A i \in Resolve(ticket), j \in matching :
             i \in matching /\ ~MoreSpecific(rules[j], rules[i])

(* The default policy is the answer exactly where no other one matches.    *)
DefaultIsTheFallback ==
  \A ticket \in Tickets, d \in Defaults :
    LET others == {i \in ActiveRules \ {d} : rules[i].criteria \subseteq ticket}
    IN  d \in ResolvePolicy(ticket) <=> rules[d].isActive /\ others = {}

(* An edit re-routes only the tickets that the row matched before or       *)
(* matches after it.                                                       *)
EditsAreLocal ==
  [][rules' # rules => \A ticket \in Tickets :
       (\A i \in RuleIds : rules[i] # rules'[i] =>
          /\ rules[i] = NoRule \/ ~(rules[i].criteria \subseteq ticket)
          /\ rules'[i] = NoRule \/ ~(rules'[i].criteria \subseteq ticket))
       => Resolve(ticket)' = Resolve(ticket)]_rulesVars

(* Two edits that promote different rows at once leave one default, the    *)
(* first one's: the second fails as a whole.  A default disappears only    *)
(* with an edit of its own row.                                            *)
DefaultIsNotLost ==
  [][Defaults # {} /\ Defaults' = {} =>
       \A i \in Defaults : \E rule \in Rows : UpdateRule(i, rule)]_rulesVars

(* A ticket has one answer, the most specific one or the default, and      *)
(* edits change it only where they must.                                   *)
AnswerIsDetermined ==
  /\ [](ResolutionIsDetermined /\ DefaultIsTheFallback)
  /\ EditsAreLocal
  /\ DefaultIsNotLost
=============================================================================
