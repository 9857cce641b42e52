------------------------------- MODULE SesRules -------------------------------
(***************************************************************************)
(* SES receipt rules kept in step with the mailbox list: SyncReceiptRules  *)
(* and DeleteReceiptRule of internal/ses.  Every call to SES is a step, so *)
(* requests interleave between calls; where Faulty, a call may return an   *)
(* error, having taken effect or not.  SES itself (rule sets and rules     *)
(* under unique names) is external.                                        *)
(*                                                                         *)
(* Abstracted: a rule is its recipient -- bucket and prefix, which the     *)
(* request or the environment names once for all its rules, are data --    *)
(* and the order of the rules in a set is left out.  Rule sets are never   *)
(* deleted.                                                                *)
(***************************************************************************)

CONSTANTS
    RuleSets,
    Names,      \* rule names
    Managed,    \* the names with the prefix "cimplr-inbox-"
    Rcpts,      \* recipients
    Workers,    \* requests being served
    Faulty,     \* whether SES calls may fail
    NoRule, NoSet

ASSUME SesAssumption ==
    /\ RuleSets # {} /\ Names # {}
    /\ Managed \subseteq Names
    /\ Faulty \in BOOLEAN
    /\ NoRule \notin Rcpts
    /\ NoSet \notin RuleSets

RuleMaps == [Names -> Rcpts \union {NoRule}]
NoRules == [n \in Names |-> NoRule]

VARIABLES
    sets,      \* rule sets that exist
    active,    \* the active rule set, or NoSet
    rules,     \* rules[s][n]: recipient of rule n in set s, or NoRule
    pc,        \* where each request is
    set,       \* req.RuleSetName
    want,      \* desired: recipient per rule name
    left,      \* names still to upsert
    cur,       \* the rule being deleted and recreated
    existing,  \* existing: names listed and not yet upserted or removed
    errors     \* names in result.Errors

ses == <<sets, active, rules>>
vars == <<sets, active, rules, pc, set, want, left, cur, existing, errors>>

Places == {"idle", "createSet", "activate", "list", "upsert", "drop", "recreate", "clean",
           "synced", "delete", "deleted"}

AnySet == CHOOSE s \in RuleSets : TRUE
AnyName == CHOOSE n \in Names : TRUE

TypeOK ==
    /\ sets \in SUBSET RuleSets
    /\ active \in RuleSets \union {NoSet}
    /\ rules \in [RuleSets -> RuleMaps]
    /\ pc \in [Workers -> Places]
    /\ set \in [Workers -> RuleSets]
    /\ want \in [Workers -> RuleMaps]
    /\ left \in [Workers -> SUBSET Names]
    /\ cur \in [Workers -> Names]
    /\ existing \in [Workers -> SUBSET Names]
    /\ errors \in [Workers -> SUBSET Names]

\* The account may hold any rules when the service starts.
Init ==
    /\ sets \in SUBSET RuleSets
    /\ active \in sets \union {NoSet}
    /\ rules \in [RuleSets -> RuleMaps]
    /\ \A s \in RuleSets \ sets : rules[s] = NoRules
    /\ pc = [w \in Workers |-> "idle"]
    /\ set = [w \in Workers |-> AnySet]
    /\ want = [w \in Workers |-> NoRules]
    /\ left = [w \in Workers |-> {}]
    /\ cur = [w \in Workers |-> AnyName]
    /\ existing = [w \in Workers |-> {}]
    /\ errors = [w \in Workers |-> {}]

Goto(w, where) == pc' = [pc EXCEPT ![w] = where]
Wanted(w) == {n \in Names : want[w][n] # NoRule}
\* Mutant of Stale: the prefix is not looked at.
StaleAny(w) == existing[w]

Stale(w) == existing[w] \cap Managed
WithRule(w, n, r) == [rules EXCEPT ![set[w]] = [@ EXCEPT ![n] = r]]
Has(w, n) == rules[set[w]][n] # NoRule

Reset(w) ==
    /\ Goto(w, "idle")
    /\ set' = [set EXCEPT ![w] = AnySet]
    /\ want' = [want EXCEPT ![w] = NoRules]
    /\ left' = [left EXCEPT ![w] = {}]
    /\ cur' = [cur EXCEPT ![w] = AnyName]
    /\ existing' = [existing EXCEPT ![w] = {}]
    /\ errors' = [errors EXCEPT ![w] = {}]

\* POST /ses/sync with a rule set and the mailboxes that should have a rule.
StartSync(w, s, f) ==
    /\ pc[w] = "idle"
    /\ Goto(w, "createSet")
    /\ set' = [set EXCEPT ![w] = s]
    /\ want' = [want EXCEPT ![w] = f]
    /\ UNCHANGED <<ses, left, cur, existing, errors>>

\* ensureRuleSet: AlreadyExists counts as success.
CreateSet(w) ==
    /\ pc[w] = "createSet"
    /\ sets' = sets \union {set[w]}
    /\ Goto(w, "activate")
    /\ UNCHANGED <<active, rules, set, want, left, cur, existing, errors>>

Activate(w) ==
    /\ pc[w] = "activate"
    /\ active' = set[w]
    /\ Goto(w, "list")
    /\ UNCHANGED <<sets, rules, set, want, left, cur, existing, errors>>

\* Either of the two fails: the handler answers 500.
EnsureFails(w) ==
    /\ Faulty
    /\ \/ pc[w] = "createSet" /\ sets' \in {sets, sets \union {set[w]}} /\ UNCHANGED active
       \/ pc[w] = "activate" /\ active' \in {active, set[w]} /\ UNCHANGED sets
    /\ Reset(w)
    /\ UNCHANGED rules

\* listRuleNames
ListRules(w) ==
    /\ pc[w] = "list"
    /\ existing' = [existing EXCEPT ![w] = {n \in Names : Has(w, n)}]
    /\ left' = [left EXCEPT ![w] = Wanted(w)]
    /\ Goto(w, "upsert")
    /\ UNCHANGED <<ses, set, want, cur, errors>>

ListFails(w) ==
    /\ Faulty
    /\ pc[w] = "list"
    /\ Reset(w)
    /\ UNCHANGED ses

\* upsertRule succeeded: result.Synced++ and delete(existing, name).
Synced(w, n) ==
    /\ left' = [left EXCEPT ![w] = @ \ {n}]
    /\ existing' = [existing EXCEPT ![w] = @ \ {n}]
    /\ UNCHANGED errors

\* Mutant of NotSynced: the error is dropped.
NotSyncedSilently(w, n) ==
    /\ left' = [left EXCEPT ![w] = @ \ {n}]
    /\ UNCHANGED <<errors, existing>>

\* upsertRule failed: the name stays in `existing`.
NotSynced(w, n) ==
    /\ left' = [left EXCEPT ![w] = @ \ {n}]
    /\ errors' = [errors EXCEPT ![w] = @ \union {n}]
    /\ UNCHANGED existing

\* The first CreateReceiptRule of upsertRule.
Create(w, n) ==
    /\ pc[w] = "upsert" /\ n \in left[w]
    /\ ~Has(w, n)
    /\ rules' = WithRule(w, n, want[w][n])
    /\ Synced(w, n)
    /\ UNCHANGED <<sets, active, pc, set, want, cur>>

AlreadyExists(w, n) ==
    /\ pc[w] = "upsert" /\ n \in left[w]
    /\ Has(w, n)
    /\ cur' = [cur EXCEPT ![w] = n]
    /\ Goto(w, "drop")
    /\ UNCHANGED <<ses, set, want, left, existing, errors>>

CreateFails(w, n) ==
    /\ Faulty
    /\ pc[w] = "upsert" /\ n \in left[w]
    /\ rules' \in {rules} \union (IF Has(w, n) THEN {} ELSE {WithRule(w, n, want[w][n])})
    /\ NotSynced(w, n)
    /\ UNCHANGED <<sets, active, pc, set, want, cur>>

\* The DeleteReceiptRule of upsertRule, whose error is ignored.
DropOld(w) ==
    /\ pc[w] = "drop"
    /\ \/ rules' = WithRule(w, cur[w], NoRule)
       \/ Faulty /\ UNCHANGED rules
    /\ Goto(w, "recreate")
    /\ UNCHANGED <<sets, active, set, want, left, cur, existing, errors>>

\* Mutant of Recreate: AlreadyExists goes back to the delete.
RecreateAgain(w) ==
    /\ pc[w] = "recreate"
    /\ IF Has(w, cur[w])
       THEN Goto(w, "drop") /\ UNCHANGED <<rules, left, existing, errors>>
       ELSE /\ Synced(w, cur[w]) /\ rules' = WithRule(w, cur[w], want[w][cur[w]])
            /\ Goto(w, "upsert")
    /\ UNCHANGED <<sets, active, set, want, cur>>

\* The second CreateReceiptRule: this time AlreadyExists is an error.
Recreate(w) ==
    /\ pc[w] = "recreate"
    /\ IF Has(w, cur[w])
       THEN NotSynced(w, cur[w]) /\ UNCHANGED rules
       ELSE Synced(w, cur[w]) /\ rules' = WithRule(w, cur[w], want[w][cur[w]])
    /\ Goto(w, "upsert")
    /\ UNCHANGED <<sets, active, set, want, cur>>

RecreateFails(w) ==
    /\ Faulty
    /\ pc[w] = "recreate"
    /\ rules' \in {rules} \union
          (IF Has(w, cur[w]) THEN {} ELSE {WithRule(w, cur[w], want[w][cur[w]])})
    /\ NotSynced(w, cur[w])
    /\ Goto(w, "upsert")
    /\ UNCHANGED <<sets, active, set, want, cur>>

Cleanup(w) ==
    /\ pc[w] = "upsert" /\ left[w] = {}
    /\ Goto(w, "clean")
    /\ UNCHANGED <<ses, set, want, left, cur, existing, errors>>

\* The cleanup loop deletes what is left in `existing` under the service's prefix.
Remove(w, n) ==
    /\ pc[w] = "clean" /\ n \in Stale(w)
    /\ rules' = WithRule(w, n, NoRule)
    /\ existing' = [existing EXCEPT ![w] = @ \ {n}]
    /\ UNCHANGED <<sets, active, pc, set, want, left, cur, errors>>

RemoveFails(w, n) ==
    /\ Faulty
    /\ pc[w] = "clean" /\ n \in Stale(w)
    /\ rules' \in {rules, WithRule(w, n, NoRule)}
    /\ existing' = [existing EXCEPT ![w] = @ \ {n}]
    /\ errors' = [errors EXCEPT ![w] = @ \union {n}]
    /\ UNCHANGED <<sets, active, pc, set, want, left, cur>>

Answer(w) ==
    /\ pc[w] = "clean" /\ Stale(w) = {}
    /\ Goto(w, "synced")
    /\ UNCHANGED <<ses, set, want, left, cur, existing, errors>>

\* Mutant of StartDelete: no default for an unnamed rule set.
StartDeleteUnnamed(w, s, n) ==
    /\ pc[w] = "idle"
    /\ Goto(w, "delete")
    /\ set' = [set EXCEPT ![w] = NoSet]
    /\ cur' = [cur EXCEPT ![w] = n]
    /\ UNCHANGED <<ses, want, left, existing, errors>>

\* POST /ses/rules/delete: one rule of the named set, or of the default one.
StartDelete(w, s, n) ==
    /\ pc[w] = "idle"
    /\ Goto(w, "delete")
    /\ set' = [set EXCEPT ![w] = s]
    /\ cur' = [cur EXCEPT ![w] = n]
    /\ UNCHANGED <<ses, want, left, existing, errors>>

DeleteRule(w) ==
    /\ pc[w] = "delete"
    /\ set[w] \in sets
    /\ rules' = WithRule(w, cur[w], NoRule)
    /\ Goto(w, "deleted")
    /\ UNCHANGED <<sets, active, set, want, left, cur, existing, errors>>

\* No such rule set, or SES fails: 500.
DeleteFails(w) ==
    /\ pc[w] = "delete"
    /\ \/ set[w] \notin sets /\ UNCHANGED rules
       \/ Faulty /\ rules' \in {rules, WithRule(w, cur[w], NoRule)}
    /\ Reset(w)
    /\ UNCHANGED <<sets, active>>

\* The answer leaves; or, where calls may fail, the process dies on the way.
Leave(w) ==
    /\ pc[w] \in {"synced", "deleted"} \/ (Faulty /\ pc[w] # "idle")
    /\ Reset(w)
    /\ UNCHANGED ses

Step(w) ==
    \/ CreateSet(w) \/ Activate(w) \/ EnsureFails(w)
    \/ ListRules(w) \/ ListFails(w)
    \/ \E n \in Names : Create(w, n) \/ AlreadyExists(w, n) \/ CreateFails(w, n)
    \/ DropOld(w) \/ Recreate(w) \/ RecreateFails(w)
    \/ Cleanup(w) \/ \E n \in Names : Remove(w, n) \/ RemoveFails(w, n)
    \/ Answer(w)
    \/ DeleteRule(w) \/ DeleteFails(w)
    \/ Leave(w)

Arrive(w) ==
    \/ \E s \in RuleSets, f \in RuleMaps : StartSync(w, s, f)
    \/ \E s \in RuleSets, n \in Names : StartDelete(w, s, n)

Next == \E w \in Workers : Arrive(w) \/ Step(w)

Spec == Init /\ [][Next]_vars
FairSpec == Spec /\ \A w \in Workers : WF_vars(Step(w))
-------------------------------------------------------------------------------
Asked(n) == \E w \in Workers :
    \/ pc[w] = "delete" /\ cur[w] = n
    \/ pc[w] # "idle" /\ n \in Wanted(w)

\* A rule without the service's prefix that no request in progress names is left
\* alone, whatever fails and however many syncs reconcile the same set.
ForeignRulesKept ==
    [][\A s \in RuleSets, n \in Names \ Managed :
          ~Asked(n) => rules'[s][n] = rules[s][n]]_vars

\* One sync at a time: when it answers, the set it names is active, and every
\* rule of it that is not as the caller wanted is named in the errors.
ErrorsTellAll ==
    \A w \in Workers : pc[w] = "synced" =>
        /\ active = set[w]
        /\ \A n \in Names \ errors[w] :
              LET r == rules[set[w]][n] IN
              \/ r = want[w][n]
              \/ want[w][n] = NoRule /\ n \notin Managed

\* Any number of syncs, failing anywhere: a rule the caller wants is removed by the cleanup
\* only when the answer names it in its errors (receipt.go:95 says it is never removed).
RemovedIsTold ==
    \A w \in Workers : pc[w] = "clean" => Stale(w) \cap Wanted(w) \subseteq errors[w]

\* Requests end, whatever SES answers.
SyncEnds == \A w \in Workers : pc[w] # "idle" ~> pc[w] = "idle"

\* The claim of receipt.go:95: what the cleanup removes is not in the desired set.
CleanupSparesDesired ==
    \A w \in Workers : pc[w] = "clean" => Stale(w) \cap Wanted(w) = {}
===============================================================================
