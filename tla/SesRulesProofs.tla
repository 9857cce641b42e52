---------------------------- MODULE SesRulesProofs ---------------------------
(***************************************************************************)
(* SesRules for any number of requests, rule sets and rules, with or       *)
(* without SES errors.                                                     *)
(***************************************************************************)
EXTENDS SesRules, Naturals, TLAPS

\* A rule map changed at one name.
LEMMA WithRuleFacts ==
    ASSUME TypeOK, NEW w \in Workers, NEW n \in Names, NEW r \in Rcpts \union {NoRule}
    PROVE  /\ WithRule(w, n, r) \in [RuleSets -> RuleMaps]
           /\ \A s \in RuleSets, m \in Names \ {n} : WithRule(w, n, r)[s][m] = rules[s][m]
BY DEF TypeOK, WithRule, RuleMaps

LEMMA NamesPicked == AnySet \in RuleSets /\ AnyName \in Names /\ NoRules \in RuleMaps
BY SesAssumption DEF AnySet, AnyName, NoRules, RuleMaps

LEMMA TypeReset ==
    ASSUME TypeOK, NEW w \in Workers, Reset(w)
    PROVE  /\ pc' \in [Workers -> Places] /\ set' \in [Workers -> RuleSets]
           /\ want' \in [Workers -> RuleMaps] /\ left' \in [Workers -> SUBSET Names]
           /\ cur' \in [Workers -> Names] /\ existing' \in [Workers -> SUBSET Names]
           /\ errors' \in [Workers -> SUBSET Names]
BY NamesPicked DEF TypeOK, Reset, Goto, Places

\* The service's state keeps its types, whatever rules the account starts with.
THEOREM TypeCorrect == Spec => []TypeOK
<1>. USE SesAssumption
<1>1. Init => TypeOK
  BY NamesPicked DEF Init, TypeOK, Places
<1>2. TypeOK /\ [Next]_vars => TypeOK'
  <2>. SUFFICES ASSUME TypeOK, [Next]_vars PROVE TypeOK'
    OBVIOUS
  <2>1. CASE UNCHANGED vars  BY <2>1 DEF vars, ses, TypeOK
  <2>2. ASSUME NEW w \in Workers, NEW s \in RuleSets, NEW f \in RuleMaps, StartSync(w, s, f)
        PROVE  TypeOK'
    BY <2>2 DEF StartSync, Goto, ses, Places, TypeOK
  <2>3. ASSUME NEW w \in Workers, NEW s \in RuleSets, NEW n \in Names, StartDelete(w, s, n)
        PROVE  TypeOK'
    BY <2>3 DEF StartDelete, Goto, ses, Places, TypeOK
  <2>4. ASSUME NEW w \in Workers, Step(w) PROVE TypeOK'
    <3>. want[w] \in RuleMaps /\ cur[w] \in Names /\ set[w] \in RuleSets
      BY DEF TypeOK
    <3>0. \A n \in Names : want[w][n] \in Rcpts \union {NoRule}  BY DEF RuleMaps
    <3>1. CASE CreateSet(w) \/ Activate(w)
      BY <3>1 DEF CreateSet, Activate, Goto, Places, TypeOK
    <3>2. CASE EnsureFails(w) \/ ListFails(w) \/ Leave(w)
      BY <3>2, TypeReset DEF EnsureFails, ListFails, Leave, ses, TypeOK
    <3>3. CASE ListRules(w)
      BY <3>3 DEF ListRules, Wanted, Goto, ses, Places, TypeOK
    <3>4. ASSUME NEW n \in Names, Create(w, n) \/ CreateFails(w, n) PROVE TypeOK'
      <4>1. WithRule(w, n, want[w][n]) \in [RuleSets -> RuleMaps]  BY <3>0, WithRuleFacts
      <4>2. rules' \in {rules, WithRule(w, n, want[w][n])}  BY <3>4 DEF Create, CreateFails
      <4>3. Synced(w, n) \/ NotSynced(w, n)  BY <3>4 DEF Create, CreateFails
      <4>4. UNCHANGED <<sets, active, pc, set, want, cur>>  BY <3>4 DEF Create, CreateFails
      <4>. QED  BY <4>1, <4>2, <4>3, <4>4 DEF Synced, NotSynced, TypeOK
    <3>5. ASSUME NEW n \in Names, AlreadyExists(w, n) PROVE TypeOK'
      BY <3>5 DEF AlreadyExists, Goto, ses, Places, TypeOK
    <3>6. CASE DropOld(w)
      BY <3>6, WithRuleFacts DEF DropOld, Goto, Places, TypeOK
    <3>7. CASE Recreate(w) \/ RecreateFails(w)
      <4>0. WithRule(w, cur[w], want[w][cur[w]]) \in [RuleSets -> RuleMaps]
        BY <3>0, WithRuleFacts
      <4>1. rules' \in {rules, WithRule(w, cur[w], want[w][cur[w]])}
        BY <3>7 DEF Recreate, RecreateFails
      <4>2. Synced(w, cur[w]) \/ NotSynced(w, cur[w])
        BY <3>7 DEF Recreate, RecreateFails
      <4>3. pc' \in [Workers -> Places] /\ UNCHANGED <<sets, active, set, want, cur>>
        BY <3>7 DEF Recreate, RecreateFails, Goto, Places, TypeOK
      <4>. QED  BY <4>0, <4>1, <4>2, <4>3 DEF Synced, NotSynced, TypeOK
    <3>8. CASE Cleanup(w) \/ Answer(w)
      BY <3>8 DEF Cleanup, Answer, Goto, ses, Places, TypeOK
    <3>9. ASSUME NEW n \in Names, Remove(w, n) \/ RemoveFails(w, n) PROVE TypeOK'
      <4>1. WithRule(w, n, NoRule) \in [RuleSets -> RuleMaps]  BY WithRuleFacts
      <4>2. rules' \in {rules, WithRule(w, n, NoRule)}  BY <3>9 DEF Remove, RemoveFails
      <4>. QED  BY <3>9, <4>1, <4>2 DEF Remove, RemoveFails, TypeOK
    <3>10. CASE DeleteRule(w)
      BY <3>10, WithRuleFacts DEF DeleteRule, Goto, Places, TypeOK
    <3>11. CASE DeleteFails(w)
      BY <3>11, WithRuleFacts, TypeReset DEF DeleteFails, TypeOK
    <3>. QED  BY <2>4, <3>1, <3>2, <3>3, <3>4, <3>5, <3>6, <3>7, <3>8, <3>9, <3>10, <3>11 DEF Step
  <2>. QED  BY <2>1, <2>2, <2>3, <2>4 DEF Next, Arrive
<1>. QED  BY <1>1, <1>2, PTL DEF Spec
-----------------------------------------------------------------------------
\* Inductive: the names a sync still works on are names of its request.
AskedInv ==
    \A w \in Workers :
        /\ left[w] \subseteq Wanted(w)
        /\ pc[w] \in {"drop", "recreate"} => cur[w] \in Wanted(w)
        /\ pc[w] = "idle" => left[w] = {}

LEMMA AskedStep == ASSUME TypeOK, AskedInv, [Next]_vars PROVE AskedInv'
<1>1. CASE UNCHANGED vars  BY <1>1 DEF vars, AskedInv, Wanted
<1>2. ASSUME NEW w \in Workers, NEW s \in RuleSets, NEW f \in RuleMaps, StartSync(w, s, f)
      PROVE  AskedInv'
  BY <1>2 DEF StartSync, Goto, AskedInv, Wanted, TypeOK
<1>3. ASSUME NEW w \in Workers, NEW s \in RuleSets, NEW n \in Names, StartDelete(w, s, n)
      PROVE  AskedInv'
  BY <1>3 DEF StartDelete, Goto, AskedInv, Wanted, TypeOK
<1>4. ASSUME NEW w \in Workers, Reset(w) PROVE AskedInv'
  BY <1>4 DEF Reset, Goto, AskedInv, Wanted, TypeOK
<1>5. ASSUME NEW w \in Workers, Step(w), ~Reset(w) PROVE AskedInv'
  <2>1. \A v \in Workers \ {w} : pc'[v] = pc[v] /\ left'[v] = left[v] /\ cur'[v] = cur[v]
    BY <1>5 DEF Step, CreateSet, Activate, EnsureFails, ListRules, ListFails, Create,
       AlreadyExists, CreateFails, DropOld, Recreate, RecreateFails, Cleanup, Remove, RemoveFails,
       Answer, DeleteRule, DeleteFails, Leave, Synced, NotSynced, Goto, TypeOK
  <2>2. want' = want
    BY <1>5 DEF Step, CreateSet, Activate, EnsureFails, ListRules, ListFails, Create,
       AlreadyExists, CreateFails, DropOld, Recreate, RecreateFails, Cleanup, Remove, RemoveFails,
       Answer, DeleteRule, DeleteFails, Leave
  <2>3. left'[w] \subseteq left[w] \union Wanted(w)
    BY <1>5 DEF Step, CreateSet, Activate, EnsureFails, ListRules, ListFails, Create,
       AlreadyExists, CreateFails, DropOld, Recreate, RecreateFails, Cleanup, Remove, RemoveFails,
       Answer, DeleteRule, DeleteFails, Leave, Synced, NotSynced, TypeOK
  <2>4. pc'[w] # "idle"
    BY <1>5 DEF Step, CreateSet, Activate, EnsureFails, ListRules, ListFails, Create,
       AlreadyExists, CreateFails, DropOld, Recreate, RecreateFails, Cleanup, Remove, RemoveFails,
       Answer, DeleteRule, DeleteFails, Leave, Goto, TypeOK
  <2>5. pc'[w] \in {"drop", "recreate"} => cur'[w] \in Wanted(w)
    BY <1>5 DEF Step, CreateSet, Activate, EnsureFails, ListRules, ListFails, Create,
       AlreadyExists, CreateFails, DropOld, Recreate, RecreateFails, Cleanup, Remove, RemoveFails,
       Answer, DeleteRule, DeleteFails, Leave, Goto, AskedInv, TypeOK
  <2>. QED  BY <2>1, <2>2, <2>3, <2>4, <2>5 DEF AskedInv, Wanted
<1>. QED  BY <1>1, <1>2, <1>3, <1>4, <1>5 DEF Next, Arrive

LEMMA AskedInvariant == Spec => []AskedInv
<1>1. Init => AskedInv  BY DEF Init, AskedInv, Wanted
<1>2. TypeOK /\ AskedInv /\ [Next]_vars => AskedInv'  BY AskedStep
<1>. QED  BY <1>1, <1>2, TypeCorrect, PTL DEF Spec

\* One step changes rules only under the service's prefix or by a name some
\* request in progress asked for.
LEMMA RulesStep ==
    ASSUME TypeOK, AskedInv, [Next]_vars,
           NEW s \in RuleSets, NEW n \in Names \ Managed, ~Asked(n)
    PROVE  rules'[s][n] = rules[s][n]
<1>1. CASE UNCHANGED rules  BY <1>1
<1>2. ASSUME NEW w \in Workers, NEW m \in Names, NEW r \in Rcpts \union {NoRule},
             rules' = WithRule(w, m, r), m \in Managed \/ Asked(m)
      PROVE  rules'[s][n] = rules[s][n]
  <2>1. n # m  BY <1>2
  <2>. QED  BY <1>2, <2>1, WithRuleFacts
<1>3. ASSUME NEW w \in Workers, Step(w) PROVE rules'[s][n] = rules[s][n]
  <2>. /\ want[w] \in RuleMaps /\ cur[w] \in Names
       /\ \A m \in Names : want[w][m] \in Rcpts \union {NoRule}
    BY DEF TypeOK, RuleMaps
  <2>1. ASSUME pc[w] # "idle", NEW m \in Wanted(w) PROVE Asked(m)
    BY <2>1 DEF Asked
  <2>2. ASSUME NEW m \in Names, Create(w, m) \/ CreateFails(w, m)
        PROVE  rules'[s][n] = rules[s][n]
    <3>1. Asked(m)  BY <2>1, <2>2 DEF Create, CreateFails, AskedInv
    <3>. QED  BY <1>1, <1>2, <2>2, <3>1 DEF Create, CreateFails
  <2>3. CASE DropOld(w) \/ Recreate(w) \/ RecreateFails(w)
    <3>1. Asked(cur[w])  BY <2>1, <2>3 DEF DropOld, Recreate, RecreateFails, AskedInv
    <3>. QED  BY <1>1, <1>2, <2>3, <3>1 DEF DropOld, Recreate, RecreateFails
  <2>4. ASSUME NEW m \in Names, Remove(w, m) \/ RemoveFails(w, m)
        PROVE  rules'[s][n] = rules[s][n]
    <3>1. m \in Managed  BY <2>4 DEF Remove, RemoveFails, Stale
    <3>. QED  BY <1>1, <1>2, <2>4, <3>1 DEF Remove, RemoveFails
  <2>5. CASE DeleteRule(w) \/ DeleteFails(w)
    <3>1. Asked(cur[w])  BY <2>5 DEF DeleteRule, DeleteFails, Asked
    <3>. QED  BY <1>1, <1>2, <2>5, <3>1 DEF DeleteRule, DeleteFails
  <2>6. CASE CreateSet(w) \/ Activate(w) \/ EnsureFails(w) \/ ListRules(w) \/ ListFails(w)
             \/ (\E m \in Names : AlreadyExists(w, m)) \/ Cleanup(w) \/ Answer(w) \/ Leave(w)
    BY <1>1, <2>6 DEF CreateSet, Activate, EnsureFails, ListRules, ListFails, AlreadyExists,
       Cleanup, Answer, Leave, ses
  <2>. QED  BY <1>3, <2>2, <2>3, <2>4, <2>5, <2>6 DEF Step
<1>4. ASSUME NEW w \in Workers, Arrive(w) PROVE rules'[s][n] = rules[s][n]
  BY <1>1, <1>4 DEF Arrive, StartSync, StartDelete, ses
<1>. QED  BY <1>1, <1>3, <1>4 DEF Next, vars

\* Any number of requests, failing anywhere, leave the foreign rules alone.
THEOREM ForeignRulesKeptHolds == Spec => ForeignRulesKept
<1>1. TypeOK /\ AskedInv /\ [Next]_vars
      => \A s \in RuleSets, n \in Names \ Managed : ~Asked(n) => rules'[s][n] = rules[s][n]
  BY RulesStep
<1>2. TypeOK /\ AskedInv /\ [Next]_vars
      => [\A s \in RuleSets, n \in Names \ Managed :
             ~Asked(n) => rules'[s][n] = rules[s][n]]_vars
  BY <1>1
<1>. QED  BY <1>2, TypeCorrect, AskedInvariant, PTL DEF Spec, ForeignRulesKept
-----------------------------------------------------------------------------
LEMMA WithRuleHere ==
    ASSUME TypeOK, NEW w \in Workers, NEW n \in Names, NEW r \in Rcpts \union {NoRule}
    PROVE  WithRule(w, n, r)[set[w]][n] = r
BY DEF TypeOK, WithRule, RuleMaps

\* Inductive, for one sync at a time: a name without an error is still to be upserted, or
\* its rule is the wanted one and out of the cleanup's reach; a name not wanted is still
\* to be cleaned up, or has no rule.
Settled(w, n) ==
    IF want[w][n] = NoRule
    THEN n \in existing[w] \/ rules[set[w]][n] = NoRule
    ELSE n \in left[w] \/ (rules[set[w]][n] = want[w][n] /\ n \notin existing[w])

TellInv ==
    \A w \in Workers :
        /\ pc[w] \in {"list", "upsert", "drop", "recreate", "clean", "synced"} => active = set[w]
        /\ pc[w] \in {"drop", "recreate"} => cur[w] \in left[w]
        /\ pc[w] \in {"clean", "synced"} => left[w] = {}
        /\ pc[w] = "synced" => Stale(w) = {}
        /\ pc[w] \in {"upsert", "drop", "recreate", "clean", "synced"} =>
              \A n \in Names \ errors[w] : Settled(w, n)

LEMMA TellStep ==
    ASSUME TypeOK, TellInv, NEW w, Workers = {w}, [Next]_vars
    PROVE  TellInv'
<1>. DEFINE Here == /\ pc[w] \in Places /\ set[w] \in RuleSets /\ want[w] \in RuleMaps
                    /\ cur[w] \in Names
                    /\ \A n \in Names : want[w][n] \in Rcpts \union {NoRule}
<1>0. Here /\ w \in Workers  BY DEF TypeOK, RuleMaps
<1>1. CASE UNCHANGED vars  BY <1>1 DEF vars, ses, TellInv, Settled, Stale
<1>2. CASE Reset(w)  BY <1>2 DEF Reset, Goto, TellInv, TypeOK
<1>3. CASE Arrive(w)
  BY <1>3 DEF Arrive, StartSync, StartDelete, Goto, TellInv, TypeOK
<1>4. CASE CreateSet(w) \/ Activate(w)
  BY <1>4 DEF CreateSet, Activate, Goto, TellInv, TypeOK
<1>5. CASE ListRules(w)
  BY <1>5 DEF ListRules, Goto, ses, TellInv, Settled, Wanted, Has, TypeOK
<1>6. ASSUME NEW n \in Names, n \in left[w], pc[w] \in {"upsert", "recreate"},
             UNCHANGED <<active, set, want>>, pc'[w] = "upsert",
             \/ rules' = WithRule(w, n, want[w][n]) /\ Synced(w, n)
             \/ rules' \in {rules, WithRule(w, n, want[w][n])} /\ NotSynced(w, n)
      PROVE  TellInv'
  <2>1. rules'[set[w]][n] = want[w][n] \/ NotSynced(w, n)
    BY <1>0, <1>6, WithRuleHere
  <2>2. \A m \in Names \ {n} : rules'[set[w]][m] = rules[set[w]][m]
    BY <1>0, <1>6, WithRuleFacts
  <2>3. \A m \in Names \ errors'[w] : Settled(w, m)'
    <3>. SUFFICES ASSUME NEW m \in Names \ errors'[w] PROVE Settled(w, m)'
      OBVIOUS
    <3>1. CASE m = n
      <4>1. Synced(w, n) /\ rules'[set[w]][n] = want[w][n]
        BY <1>0, <1>6, <2>1, <3>1 DEF NotSynced, TypeOK
      <4>. QED  BY <1>0, <1>6, <3>1, <4>1 DEF Synced, Settled, TypeOK
    <3>2. CASE m # n
      <4>1. m \in Names \ errors[w]  BY <1>0, <1>6, <3>2 DEF Synced, NotSynced, TypeOK
      <4>2. Settled(w, m)  BY <1>0, <1>6, <4>1 DEF TellInv
      <4>3. (m \in left'[w] <=> m \in left[w]) /\ (m \in existing'[w] <=> m \in existing[w])
        BY <1>0, <1>6, <3>2 DEF Synced, NotSynced, TypeOK
      <4>. QED  BY <1>6, <2>2, <3>2, <4>2, <4>3 DEF Settled
    <3>. QED  BY <3>1, <3>2
  <2>. QED  BY <1>0, <1>6, <2>3 DEF TellInv
<1>7. ASSUME NEW n \in Names, Create(w, n) \/ CreateFails(w, n) PROVE TellInv'
  BY <1>6, <1>7 DEF Create, CreateFails
<1>8. ASSUME NEW n \in Names, AlreadyExists(w, n) PROVE TellInv'
  BY <1>8 DEF AlreadyExists, Goto, ses, TellInv, Settled, TypeOK
<1>9. CASE DropOld(w)
  <2>1. cur[w] \in left[w] /\ pc'[w] = "recreate"  BY <1>0, <1>9 DEF DropOld, Goto, TellInv, TypeOK
  <2>2. \A m \in Names \ {cur[w]} : rules'[set[w]][m] = rules[set[w]][m]
    BY <1>0, <1>9, WithRuleFacts DEF DropOld
  <2>3. \A m \in Names \ errors[w] : want[w][m] # NoRule \/ m # cur[w] => Settled(w, m)'
    BY <1>9, <2>1, <2>2 DEF DropOld, TellInv, Settled
  <2>4. rules'[set[w]][cur[w]] \in {NoRule, rules[set[w]][cur[w]]}
    BY <1>0, <1>9, WithRuleHere DEF DropOld
  <2>5. \A m \in Names \ errors[w] : Settled(w, m)'
    BY <1>9, <2>3, <2>4 DEF DropOld, TellInv, Settled
  <2>. QED  BY <1>9, <2>1, <2>5 DEF DropOld, TellInv
<1>10. CASE Recreate(w) \/ RecreateFails(w)
  <2>1. cur[w] \in left[w] /\ pc[w] = "recreate" /\ pc'[w] = "upsert"
    BY <1>0, <1>10 DEF Recreate, RecreateFails, Goto, TellInv, TypeOK
  <2>. QED  BY <1>0, <1>6, <1>10, <2>1 DEF Recreate, RecreateFails
<1>11. CASE Cleanup(w) \/ Answer(w)
  BY <1>0, <1>11 DEF Cleanup, Answer, Goto, ses, TellInv, Settled, Stale, TypeOK
<1>12. ASSUME NEW n \in Names, Remove(w, n) \/ RemoveFails(w, n) PROVE TellInv'
  <2>1. /\ pc[w] = "clean" /\ n \in existing[w]
        /\ existing'[w] = existing[w] \ {n}
        /\ UNCHANGED <<active, pc, set, want, left, cur>>
        /\ errors[w] \subseteq errors'[w]
    BY <1>0, <1>12 DEF Remove, RemoveFails, Stale, TypeOK
  <2>2. rules'[set[w]][n] = NoRule \/ n \in errors'[w]
    BY <1>0, <1>12, WithRuleHere DEF Remove, RemoveFails, TypeOK
  <2>3. \A m \in Names \ {n} : rules'[set[w]][m] = rules[set[w]][m]
    BY <1>0, <1>12, WithRuleFacts DEF Remove, RemoveFails
  <2>4. \A m \in Names \ errors'[w] : Settled(w, m)'
    BY <2>1, <2>2, <2>3 DEF TellInv, Settled
  <2>. QED  BY <2>1, <2>4 DEF TellInv
<1>13. CASE DeleteRule(w)  BY <1>0, <1>13 DEF DeleteRule, Goto, TellInv, TypeOK
<1>14. CASE EnsureFails(w) \/ ListFails(w) \/ DeleteFails(w) \/ Leave(w)
  BY <1>2, <1>14 DEF EnsureFails, ListFails, DeleteFails, Leave
<1>. QED
  BY <1>1, <1>3, <1>4, <1>5, <1>7, <1>8, <1>9, <1>10, <1>11, <1>12, <1>13, <1>14 DEF Next, Step

\* One sync at a time, over any account and any SES errors: when it answers, its set is
\* active and every rule not as wanted is named in the errors.
THEOREM ErrorsTellAllHolds ==
    ASSUME NEW w, Workers = {w}
    PROVE  Spec => []ErrorsTellAll
<1>1. Init => TellInv  BY DEF Init, TellInv
<1>2. TypeOK /\ TellInv /\ [Next]_vars => TellInv'  BY TellStep
<1>3. TellInv => ErrorsTellAll
  <2>. SUFFICES ASSUME TellInv, NEW v \in Workers, pc[v] = "synced",
                       NEW n \in Names \ errors[v]
                PROVE  /\ active = set[v]
                       /\ \/ rules[set[v]][n] = want[v][n]
                          \/ want[v][n] = NoRule /\ n \notin Managed
    BY DEF ErrorsTellAll, TellInv
  <2>1. active = set[v] /\ left[v] = {} /\ Stale(v) = {} /\ Settled(v, n)  BY DEF TellInv
  <2>. QED  BY <2>1 DEF Settled, Stale
<1>. QED  BY <1>1, <1>2, <1>3, TypeCorrect, PTL DEF Spec
-----------------------------------------------------------------------------
\* Inductive, for any number of requests: a wanted rule still listed in `existing` is to be
\* upserted, or its upsert failed.
ListedInv ==
    \A w \in Workers :
        /\ pc[w] \in {"upsert", "drop", "recreate", "clean"} =>
              existing[w] \cap Wanted(w) \subseteq left[w] \union errors[w]
        /\ pc[w] = "clean" => left[w] = {}

\* One step of one request does not touch the locals of another.
LEMMA OthersKept ==
    ASSUME TypeOK, NEW w \in Workers, Arrive(w) \/ Step(w), NEW v \in Workers \ {w}
    PROVE  /\ pc'[v] = pc[v] /\ set'[v] = set[v] /\ want'[v] = want[v] /\ left'[v] = left[v]
           /\ cur'[v] = cur[v] /\ existing'[v] = existing[v] /\ errors'[v] = errors[v]
<1>1. CASE Arrive(w)
  BY <1>1 DEF Arrive, StartSync, StartDelete, Goto, TypeOK
<1>2. CASE Step(w)
  BY <1>2 DEF Step, CreateSet, Activate, EnsureFails, ListRules, ListFails, Create,
     AlreadyExists, CreateFails, DropOld, Recreate, RecreateFails, Cleanup, Remove, RemoveFails,
     Answer, DeleteRule, DeleteFails, Leave, Synced, NotSynced, Reset, Goto, TypeOK
<1>. QED  BY <1>1, <1>2

LEMMA ListedStep == ASSUME TypeOK, ListedInv, [Next]_vars PROVE ListedInv'
<1>. DEFINE Part(v) ==
        /\ pc[v] \in {"upsert", "drop", "recreate", "clean"} =>
              existing[v] \cap Wanted(v) \subseteq left[v] \union errors[v]
        /\ pc[v] = "clean" => left[v] = {}
<1>1. CASE UNCHANGED vars  BY <1>1 DEF vars, ListedInv, Wanted
<1>2. ASSUME NEW w \in Workers, Arrive(w) \/ Step(w) PROVE ListedInv'
  <2>1. \A v \in Workers \ {w} : Part(v)'
    BY <1>2, OthersKept DEF ListedInv, Wanted
  <2>2. CASE Reset(w) \/ Arrive(w) \/ CreateSet(w) \/ Activate(w) \/ DeleteRule(w)
    <3>1. pc'[w] \in {"idle", "createSet", "delete", "activate", "list", "deleted"}
      BY <2>2 DEF Reset, Arrive, StartSync, StartDelete, CreateSet, Activate, DeleteRule, Goto,
         TypeOK
    <3>. QED  BY <2>1, <3>1 DEF ListedInv
  <2>3. CASE ListRules(w)
    <3>1. Part(w)'  BY <2>3 DEF ListRules, Goto, Wanted, TypeOK
    <3>. QED  BY <2>1, <3>1 DEF ListedInv
  <2>4. ASSUME NEW n \in Names, Synced(w, n) \/ NotSynced(w, n), UNCHANGED want,
               pc[w] \in {"upsert", "recreate"}, pc'[w] = "upsert"
        PROVE  ListedInv'
    <3>1. Part(w)'  BY <2>4 DEF Synced, NotSynced, ListedInv, Wanted, TypeOK
    <3>. QED  BY <2>1, <3>1 DEF ListedInv
  <2>5. ASSUME NEW n \in Names, Create(w, n) \/ CreateFails(w, n) PROVE ListedInv'
    BY <2>4, <2>5 DEF Create, CreateFails
  <2>6. CASE Recreate(w) \/ RecreateFails(w)
    <3>1. cur[w] \in Names /\ pc'[w] = "upsert"
      BY <2>6 DEF Recreate, RecreateFails, Goto, TypeOK
    <3>. QED  BY <2>4, <2>6, <3>1 DEF Recreate, RecreateFails
  <2>7. CASE (\E n \in Names : AlreadyExists(w, n)) \/ DropOld(w) \/ Cleanup(w) \/ Answer(w)
    <3>1. Part(w)'
      BY <2>7 DEF AlreadyExists, DropOld, Cleanup, Answer, Goto, ListedInv, Wanted, TypeOK
    <3>. QED  BY <2>1, <3>1 DEF ListedInv
  <2>8. ASSUME NEW n \in Names, Remove(w, n) \/ RemoveFails(w, n) PROVE ListedInv'
    <3>1. Part(w)'  BY <2>8 DEF Remove, RemoveFails, ListedInv, Wanted, TypeOK
    <3>. QED  BY <2>1, <3>1 DEF ListedInv
  <2>9. CASE EnsureFails(w) \/ ListFails(w) \/ DeleteFails(w) \/ Leave(w)
    BY <2>2, <2>9 DEF EnsureFails, ListFails, DeleteFails, Leave
  <2>. QED  BY <1>2, <2>2, <2>3, <2>5, <2>6, <2>7, <2>8, <2>9 DEF Step
<1>. QED  BY <1>1, <1>2 DEF Next

\* Any number of syncs, any SES errors: a wanted rule the cleanup removes is named in the
\* errors of the answer.
THEOREM RemovedIsToldHolds == Spec => []RemovedIsTold
<1>1. Init => ListedInv  BY DEF Init, ListedInv
<1>2. TypeOK /\ ListedInv /\ [Next]_vars => ListedInv'  BY ListedStep
<1>3. ListedInv => RemovedIsTold  BY DEF ListedInv, RemovedIsTold, Stale
<1>. QED  BY <1>1, <1>2, <1>3, TypeCorrect, PTL DEF Spec
-----------------------------------------------------------------------------
\* Inductive, for one request at a time and no SES errors: the rule dropped is gone when it
\* is created again, so no upsert fails.
UpsertedInv ==
    \A w \in Workers :
        /\ pc[w] = "recreate" => ~Has(w, cur[w])
        /\ errors[w] = {}

LEMMA UpsertedStep ==
    ASSUME TypeOK, UpsertedInv, NEW w, Workers = {w}, ~Faulty, [Next]_vars
    PROVE  UpsertedInv'
<1>0. w \in Workers /\ cur[w] \in Names /\ set[w] \in RuleSets  BY DEF TypeOK
<1>1. CASE UNCHANGED vars  BY <1>1 DEF vars, ses, UpsertedInv, Has
<1>2. CASE Reset(w)  BY <1>0, <1>2 DEF Reset, Goto, UpsertedInv, TypeOK
<1>3. CASE Arrive(w)
  BY <1>0, <1>3 DEF Arrive, StartSync, StartDelete, Goto, UpsertedInv, TypeOK
<1>4. CASE DropOld(w)
  <2>1. rules' = WithRule(w, cur[w], NoRule) /\ UNCHANGED <<set, cur, errors>>
    BY <1>4 DEF DropOld
  <2>2. rules'[set[w]][cur[w]] = NoRule  BY <1>0, <2>1, WithRuleHere
  <2>. QED  BY <1>0, <2>1, <2>2 DEF UpsertedInv, Has
<1>5. CASE Recreate(w)
  BY <1>0, <1>5 DEF Recreate, Synced, Goto, UpsertedInv, TypeOK
<1>6. ASSUME NEW n \in Names,
             \/ Create(w, n) \/ AlreadyExists(w, n) \/ Remove(w, n)
             \/ CreateFails(w, n) \/ RemoveFails(w, n)
      PROVE  UpsertedInv'
  BY <1>0, <1>6 DEF Create, AlreadyExists, Remove, CreateFails, RemoveFails, Synced, Goto,
     UpsertedInv, TypeOK
<1>7. CASE CreateSet(w) \/ Activate(w) \/ ListRules(w) \/ Cleanup(w) \/ Answer(w)
           \/ DeleteRule(w) \/ RecreateFails(w)
  BY <1>0, <1>7 DEF CreateSet, Activate, ListRules, Cleanup, Answer, DeleteRule, RecreateFails,
     Goto, UpsertedInv, TypeOK
<1>8. CASE EnsureFails(w) \/ ListFails(w) \/ DeleteFails(w) \/ Leave(w)
  BY <1>2, <1>8 DEF EnsureFails, ListFails, DeleteFails, Leave
<1>. QED  BY <1>1, <1>3, <1>4, <1>5, <1>6, <1>7, <1>8 DEF Next, Step

\* The claim of receipt.go:95 holds when syncs never overlap and SES never errs: it takes a
\* second request, or an error, to make the cleanup remove a wanted rule.
THEOREM CleanupSparesDesiredAlone ==
    ASSUME NEW w, Workers = {w}, ~Faulty
    PROVE  Spec => []CleanupSparesDesired
<1>1. Init => ListedInv /\ UpsertedInv  BY DEF Init, ListedInv, UpsertedInv
<1>2. TypeOK /\ ListedInv /\ UpsertedInv /\ [Next]_vars => ListedInv' /\ UpsertedInv'
  BY ListedStep, UpsertedStep
<1>3. ListedInv /\ UpsertedInv => CleanupSparesDesired
  BY DEF ListedInv, UpsertedInv, CleanupSparesDesired, Stale
<1>. QED  BY <1>1, <1>2, <1>3, TypeCorrect, PTL DEF Spec
-----------------------------------------------------------------------------
\* Inductive, for any number of requests: the rule in hand is one still to be upserted.
InHandInv == \A w \in Workers : pc[w] \in {"drop", "recreate"} => cur[w] \in left[w]

LEMMA InHandStep == ASSUME TypeOK, InHandInv, [Next]_vars PROVE InHandInv'
<1>1. CASE UNCHANGED vars  BY <1>1 DEF vars, InHandInv
<1>2. ASSUME NEW w \in Workers, Arrive(w) \/ Step(w) PROVE InHandInv'
  <2>1. \A v \in Workers \ {w} : pc'[v] \in {"drop", "recreate"} => cur'[v] \in left'[v]
    BY <1>2, OthersKept DEF InHandInv
  <2>2. pc'[w] \in {"drop", "recreate"} => cur'[w] \in left'[w]
    <3>1. CASE Arrive(w)
      BY <3>1 DEF Arrive, StartSync, StartDelete, Goto, TypeOK
    <3>2. CASE Step(w)
      BY <3>2 DEF Step, CreateSet, Activate, EnsureFails, ListRules, ListFails, Create,
         AlreadyExists, CreateFails, DropOld, Recreate, RecreateFails, Cleanup, Remove,
         RemoveFails, Answer, DeleteRule, DeleteFails, Leave, Reset, Goto, InHandInv, TypeOK
    <3>. QED  BY <1>2, <3>1, <3>2
  <2>. QED  BY <2>1, <2>2 DEF InHandInv
<1>. QED  BY <1>1, <1>2 DEF Next

\* What is left of a request: its phase, then the names to upsert, then the calls left for
\* the name in hand, then the rules to clean up.
Phase == [idle |-> 0, deleted |-> 1, synced |-> 1, delete |-> 2, clean |-> 2, upsert |-> 3,
          drop |-> 3, recreate |-> 3, list |-> 4, activate |-> 5, createSet |-> 6]
Less(S, T) == S \subseteq T /\ S # T
Closer(w) ==
    \/ Phase[pc'[w]] < Phase[pc[w]]
    \/ /\ Phase[pc'[w]] = Phase[pc[w]]
       /\ \/ Less(left'[w], left[w])
          \/ /\ left'[w] = left[w]
             /\ \/ <<pc[w], pc'[w]>> \in {<<"upsert", "drop">>, <<"drop", "recreate">>}
                \/ pc'[w] = pc[w] /\ Less(existing'[w], existing[w])

\* Every answer of SES, an error too, brings a request nearer its end: no rule is tried
\* again and again, however other requests change the set meanwhile.
StepsRunOut == [][\A w \in Workers : Step(w) => Closer(w)]_vars

LEMMA StepIsCloser ==
    ASSUME TypeOK, InHandInv, NEW w \in Workers, Step(w)
    PROVE  Closer(w)
<1>1. pc[w] \in Places /\ cur[w] \in Names /\ left[w] \subseteq Names  BY DEF TypeOK
<1>2. ASSUME NEW n \in left[w], Synced(w, n) \/ NotSynced(w, n),
             pc[w] \in {"upsert", "recreate"}, pc'[w] = "upsert"
      PROVE  Closer(w)
  BY <1>2 DEF Synced, NotSynced, Closer, Less, Phase, TypeOK
<1>3. ASSUME NEW n \in Names, Create(w, n) \/ CreateFails(w, n) PROVE Closer(w)
  BY <1>2, <1>3 DEF Create, CreateFails
<1>4. CASE Recreate(w) \/ RecreateFails(w)
  <2>1. cur[w] \in left[w] /\ pc[w] = "recreate" /\ pc'[w] = "upsert"
    BY <1>4 DEF Recreate, RecreateFails, Goto, InHandInv, TypeOK
  <2>. QED  BY <1>2, <1>4, <2>1 DEF Recreate, RecreateFails
<1>5. CASE (\E n \in Names : AlreadyExists(w, n)) \/ DropOld(w)
  BY <1>5 DEF AlreadyExists, DropOld, Goto, Closer, Phase, TypeOK
<1>6. ASSUME NEW n \in Names, Remove(w, n) \/ RemoveFails(w, n) PROVE Closer(w)
  BY <1>6 DEF Remove, RemoveFails, Stale, Closer, Less, Phase, TypeOK
<1>7. CASE Reset(w) /\ pc[w] # "idle"
  BY <1>1, <1>7 DEF Reset, Goto, Closer, Phase, Places, TypeOK
<1>8. CASE EnsureFails(w) \/ ListFails(w) \/ DeleteFails(w) \/ Leave(w)
  BY <1>7, <1>8 DEF EnsureFails, ListFails, DeleteFails, Leave
<1>9. CASE CreateSet(w) \/ Activate(w) \/ ListRules(w) \/ Cleanup(w) \/ Answer(w)
           \/ DeleteRule(w)
  BY <1>9 DEF CreateSet, Activate, ListRules, Cleanup, Answer, DeleteRule, Goto, Closer, Phase,
     TypeOK
<1>. QED  BY <1>3, <1>4, <1>5, <1>6, <1>8, <1>9 DEF Step

\* Any number of requests on one set, failing anywhere: each step of each brings it nearer
\* its end, so a request of finitely many names makes finitely many calls.
THEOREM StepsRunOutHolds == Spec => StepsRunOut
<1>1. Init => InHandInv  BY DEF Init, InHandInv
<1>2. TypeOK /\ InHandInv /\ [Next]_vars => InHandInv'  BY InHandStep
<1>3. TypeOK /\ InHandInv /\ [Next]_vars => [\A w \in Workers : Step(w) => Closer(w)]_vars
  BY StepIsCloser
<1>. QED  BY <1>1, <1>2, <1>3, TypeCorrect, PTL DEF Spec, StepsRunOut
==============================================================================
