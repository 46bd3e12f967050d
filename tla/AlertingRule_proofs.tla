------------------------- MODULE AlertingRule_proofs -------------------------
(***************************************************************************)
(* Theorems about AlertingRuleHistory, for every set of instances, every   *)
(* set of settings, every restored map and every bound.                    *)
(***************************************************************************)
EXTENDS AlertingRuleHistory, FiniteSetTheorems, TLAPS

USE DEF Zero

-------------------------------------------------------------------------------
(***************************************************************************)
(* The operators on one instance.                                          *)
(***************************************************************************)

\* What an evaluation that completes makes of one instance before sending.
Next1(a, seen, ts, forDur, keepFire) ==
    IF seen THEN Advanced(Matched(Purged(a, ts), ts), ts, forDur)
            ELSE Unmatched(Purged(a, ts), ts, keepFire)

\* The operators on one instance keep its type (rule.go:256-342).
LEMMA InstanceTypes ==
    ASSUME NEW a \in Alert, NEW ts \in Nat, NEW d \in Nat
    PROVE  /\ NoAlert \in Alert
           /\ Purged(a, ts) \in Alert
           /\ Matched(a, ts) \in Alert
           /\ Unmatched(a, ts, d) \in Alert
           /\ Advanced(a, ts, d) \in Alert
           /\ [a EXCEPT !.lastSent = ts] \in Alert
BY DEF Alert, AlertState, NoAlert, Purged, Matched, Unmatched, Advanced, Active,
       KeptSince, Resolved

\* The operators on one instance keep it in agreement with its run, whether
\* the evaluation completes or stops at a duplicate.
LEMMA RunStep ==
    ASSUME NEW a \in Alert, NEW r \in Run, NEW ts \in Nat \ {Zero},
           NEW seen \in BOOLEAN, NEW forDur \in Nat, NEW keepFire \in Nat,
           RunAgrees(a, r)
    PROVE  /\ RunAgrees(Purged(a, ts), r)
           /\ RunAgrees(Matched(Purged(a, ts), ts), Continue(r, TRUE, ts))
           /\ RunAgrees(Next1(a, seen, ts, forDur, keepFire), Continue(r, seen, ts))
           /\ Continue(r, seen, ts) \in Run
<1>1. RunAgrees(Purged(a, ts), r) /\ Purged(a, ts) \in Alert
  BY InstanceTypes DEF RunAgrees, Purged, NoAlert, Active
<1>2. Continue(r, seen, ts) \in Run
  BY DEF Continue, Run
<1> DEFINE p == Purged(a, ts)
           m == Matched(p, ts)
<1> HIDE DEF p
<1>3. ASSUME NEW q \in Alert, RunAgrees(q, r)
      PROVE  /\ RunAgrees(Matched(q, ts), Continue(r, TRUE, ts))
             /\ RunAgrees(Advanced(Matched(q, ts), ts, forDur), Continue(r, TRUE, ts))
             /\ RunAgrees(Unmatched(q, ts, keepFire), Continue(r, FALSE, ts))
  <2>1. RunAgrees(Matched(q, ts), Continue(r, TRUE, ts)) /\ Matched(q, ts) \in Alert
    BY <1>3, InstanceTypes DEF RunAgrees, Matched, Continue, Active, Alert, Run
  <2>2. ASSUME NEW x \in Alert, NEW y \in Run, RunAgrees(x, y), x.keepFiringSince = Zero
        PROVE  RunAgrees(Advanced(x, ts, forDur), y)
    BY <2>2 DEF RunAgrees, Advanced, Active, Alert, Run
  <2>3. Matched(q, ts).keepFiringSince = Zero
    BY <1>3 DEF Matched, Alert
  <2>4. Continue(r, TRUE, ts) \in Run
    BY DEF Continue, Run
  <2>5. RunAgrees(Unmatched(q, ts, keepFire), Continue(r, FALSE, ts))
    <3>1. CASE q.state = "firing"
      BY <3>1, <1>3 DEF RunAgrees, Unmatched, Resolved, KeptSince, Continue, Active, Alert, Run
    <3>2. CASE q.state # "firing"
      BY <3>2, <1>3 DEF RunAgrees, Unmatched, NoAlert, Continue, Active, Alert, AlertState, Run
    <3> QED BY <3>1, <3>2
  <2> QED BY <2>1, <2>2, <2>3, <2>4, <2>5
<1> QED BY <1>1, <1>2, <1>3 DEF Next1, p

-------------------------------------------------------------------------------
(***************************************************************************)
(* Type correctness.                                                       *)
(***************************************************************************)

\* An evaluation's timestamp is a real time: no evalDelay reaches back to the
\* zero time.Time (group.go:181-184).
LEMMA EvalTime ==
    ASSUME TypeOK, Tick
    PROVE  /\ evalTS \in Nat \ {Zero}
           /\ clock' \in Nat /\ clock' > clock /\ clock' >= Epoch
           /\ conf \in Conf
BY RuleAssumption DEF TypeOK, Tick, evalTS, Conf

\* The map after an evaluation, instance by instance.
LEMMA EvaluatedInstances ==
    ASSUME TypeOK, NEW rows \in SUBSET Instance
    PROVE  Evaluated(rows) =
             [i \in Instance |->
                Next1(alerts[i], i \in rows, evalTS, conf.forDur, conf.keepFire)]
BY DEF TypeOK, Evaluated, Advance, Upsert, Purge, Next1

\* Every result of an evaluation is a map of instances.
LEMMA EvaluationTypes ==
    ASSUME TypeOK, Tick, NEW rows \in SUBSET Instance
    PROVE  /\ Upsert(Purge(alerts, evalTS), rows, evalTS) \in [Instance -> Alert]
           /\ Evaluated(rows) \in [Instance -> Alert]
           /\ MarkSent(Evaluated(rows), evalTS) \in [Instance -> Alert]
           /\ alertsToSend(Evaluated(rows), evalTS) \subseteq Instance
<1> DEFINE ts == evalTS
<1>1. ts \in Nat /\ conf.forDur \in Nat /\ conf.keepFire \in Nat
  BY EvalTime DEF Conf
<1> HIDE DEF ts
<1>2. \A i \in Instance : alerts[i] \in Alert
  BY DEF TypeOK
<1>3. \A i \in Instance : Purged(alerts[i], ts) \in Alert
  BY <1>1, <1>2, InstanceTypes
<1>4. Upsert(Purge(alerts, ts), rows, ts) \in [Instance -> Alert]
  BY <1>1, <1>3, InstanceTypes DEF TypeOK, Upsert, Purge
<1>5. \A i \in Instance : Matched(Purged(alerts[i], ts), ts) \in Alert
  BY <1>1, <1>3, InstanceTypes
<1>6. \A i \in Instance : Next1(alerts[i], i \in rows, ts, conf.forDur, conf.keepFire) \in Alert
  BY <1>1, <1>3, <1>5, InstanceTypes DEF Next1
<1> DEFINE e == Evaluated(rows)
<1>7. e \in [Instance -> Alert]
  BY <1>6, EvaluatedInstances DEF ts
<1> HIDE DEF e
<1>8. MarkSent(e, ts) \in [Instance -> Alert]
  BY <1>1, <1>7, InstanceTypes DEF MarkSent
<1>9. alertsToSend(e, ts) \subseteq Instance
  BY <1>7 DEF alertsToSend
<1> QED BY <1>4, <1>7, <1>8, <1>9 DEF ts, e

\* One step of the rule keeps its type.
LEMMA TypeStep ==
    ASSUME TypeOK, Next
    PROVE  TypeOK'
<1> USE DEF Step, Outcomes
<1>1. CASE ExecFailed \/ ExecOverRows
  BY <1>1, EvalTime DEF ExecFailed, ExecOverRows, TypeOK, Tick
<1>2. ASSUME NEW rows \in SUBSET Instance, ExecDuplicate(rows)
      PROVE  TypeOK'
  BY <1>2, EvalTime, EvaluationTypes DEF ExecDuplicate, TypeOK, Tick
<1>3. ASSUME NEW rows \in SUBSET Instance, ExecOverLimit(rows)
      PROVE  TypeOK'
  <2>1. NoAlert \in Alert
    BY DEF NoAlert, Alert, AlertState
  <2> QED BY <1>3, <2>1, EvalTime DEF ExecOverLimit, TypeOK, Tick
<1>4. ASSUME NEW rows \in SUBSET Instance, ExecCompleted(rows)
      PROVE  TypeOK'
  BY <1>4, EvalTime, EvaluationTypes DEF ExecCompleted, TypeOK, Tick
<1>5. ASSUME NEW c \in Confs, updateWith(c)
      PROVE  TypeOK'
  BY <1>5 DEF updateWith, TypeOK
<1> QED BY <1>1, <1>2, <1>3, <1>4, <1>5 DEF Next

\* The rule's variables and its histories keep their types.
THEOREM TypeCorrect == HSpec => []HTypeOK
<1>1. HInit => HTypeOK
  <2> SUFFICES ASSUME HInit PROVE HTypeOK
    OBVIOUS
  <2>1. \A i \in Instance : alerts[i] \in Alert /\ alerts[i].activeAt \in Nat
                             /\ alerts[i].keepFiringSince \in Nat
    BY RuleAssumption DEF HInit, Init, IsRestored, Alert, NoAlert, AlertState
  <2>2. TypeOK
    BY <2>1, RuleAssumption DEF HInit, Init, TypeOK, Step, Outcomes
  <2>3. run \in [Instance -> Run] /\ announced \in [Instance -> Words]
    BY <2>1 DEF HInit, RestoredRun, Run, Words
  <2> QED BY <2>2, <2>3 DEF HTypeOK
<1>2. HTypeOK /\ [HNext]_hvars => HTypeOK'
  <2> SUFFICES ASSUME HTypeOK, [HNext]_hvars PROVE HTypeOK'
    OBVIOUS
  <2>1. CASE HNext
    <3>1. TypeOK'
      BY <2>1, TypeStep DEF HNext, HTypeOK
    <3>2. \A i \in Instance : RunAfter(i, last') \in Run
      BY <3>1 DEF TypeOK, HTypeOK, RunAfter, Continue, NoRun, Run
    <3>3. \A i \in Instance : WordAfter(i, last') \in Words
      BY DEF HTypeOK, WordAfter, Words
    <3> QED BY <2>1, <3>1, <3>2, <3>3 DEF HNext, HTypeOK
  <2>2. CASE UNCHANGED hvars
    BY <2>2 DEF hvars, vars, HTypeOK, TypeOK
  <2> QED BY <2>1, <2>2
<1> QED BY <1>1, <1>2, PTL DEF HSpec

-------------------------------------------------------------------------------
(***************************************************************************)
(* A step of the rule, seen from one instance.                             *)
(***************************************************************************)

Sent1(a, ts) == IF MustSend(a, ts) THEN [a EXCEPT !.lastSent = ts] ELSE a

\* Nothing happens to the instance.
Untouched(i) ==
    /\ alerts'[i] = alerts[i] /\ run'[i] = run[i] /\ announced'[i] = announced[i]
    /\ i \notin last'.sent

\* The evaluation stops at a duplicate, having entered the instance or not.
CutShort(i, seen, ts) ==
    /\ alerts'[i] = IF seen THEN Matched(Purged(alerts[i], ts), ts)
                            ELSE Purged(alerts[i], ts)
    /\ run'[i] = IF seen THEN Continue(run[i], TRUE, ts) ELSE run[i]
    /\ announced'[i] = announced[i]
    /\ i \notin last'.sent

\* The map is emptied.
Cleared(i) ==
    /\ alerts'[i] = NoAlert /\ run'[i] = NoRun
    /\ announced'[i] = IF announced[i] = "firing" THEN "abandoned" ELSE announced[i]
    /\ i \notin last'.sent

\* The evaluation completes.
Carried(i, seen, ts) ==
    LET a == Next1(alerts[i], seen, ts, conf.forDur, conf.keepFire)
    IN  /\ alerts'[i] = Sent1(a, ts)
        /\ run'[i] = Continue(run[i], seen, ts)
        /\ i \in last'.sent <=> MustSend(a, ts)
        /\ announced'[i] = IF ~MustSend(a, ts) THEN announced[i]
                           ELSE IF a.state = "firing" THEN "firing" ELSE "resolved"

\* Sending changes nothing but lastSent (rule.go:386-395).
LEMMA SentKeeps ==
    ASSUME NEW a \in Alert, NEW ts \in Nat
    PROVE  /\ Sent1(a, ts) \in Alert
           /\ Sent1(a, ts).state = a.state
           /\ Sent1(a, ts).activeAt = a.activeAt
           /\ Sent1(a, ts).keepFiringSince = a.keepFiringSince
           /\ Sent1(a, ts).resolvedAt = a.resolvedAt
           /\ Sent1(a, ts).lastSent \in {a.lastSent, ts}
BY DEF Sent1, Alert

\* Every step is one of the four above for each instance, at one timestamp.
LEMMA OneInstance ==
    ASSUME HTypeOK, HNext
    PROVE  \/ \A i \in Instance : Untouched(i)
           \/ /\ Tick /\ last'.ts = evalTS /\ last'.ts \in Nat \ {Zero}
              /\ \/ \A i \in Instance : CutShort(i, i \in last'.rows, last'.ts)
                 \/ last'.outcome = "overLimit" /\ \A i \in Instance : Cleared(i)
                 \/ \A i \in Instance : Carried(i, i \in last'.rows, last'.ts)
<1> USE DEF Step, HTypeOK
<1>1. ASSUME ExecFailed \/ ExecOverRows \/ \E c \in Confs : updateWith(c)
      PROVE  \A i \in Instance : Untouched(i)
  <2>1. alerts' = alerts
    BY <1>1 DEF ExecFailed, ExecOverRows, updateWith
  <2>2. last'.sent = {} /\ last'.outcome \in {"failed", "overRows", "updated"}
    BY <1>1 DEF ExecFailed, ExecOverRows, updateWith
  <2>3. \A i \in Instance : run'[i] = run[i]
    BY <2>2 DEF HNext, RunAfter
  <2>4. \A i \in Instance : announced'[i] = announced[i]
    BY <2>2 DEF HNext, WordAfter
  <2> QED BY <2>1, <2>2, <2>3, <2>4 DEF Untouched
<1>2. ASSUME NEW rows \in SUBSET Instance, ExecDuplicate(rows)
      PROVE  /\ Tick /\ last'.ts = evalTS /\ last'.ts \in Nat \ {Zero}
             /\ \A i \in Instance : CutShort(i, i \in last'.rows, last'.ts)
  <2>1. Tick /\ last'.ts = evalTS /\ last'.ts \in Nat \ {Zero}
    BY <1>2, EvalTime DEF ExecDuplicate
  <2>2. last' = Step("duplicate", evalTS, rows, {})
    BY <1>2 DEF ExecDuplicate
  <2>3. \A i \in Instance :
           alerts'[i] = IF i \in rows THEN Matched(Purged(alerts[i], evalTS), evalTS)
                                     ELSE Purged(alerts[i], evalTS)
    BY <1>2 DEF ExecDuplicate, Upsert, Purge, TypeOK
  <2>4. \A i \in Instance :
           run'[i] = IF i \in rows THEN Continue(run[i], TRUE, evalTS) ELSE run[i]
    BY <2>2 DEF HNext, RunAfter
  <2>5. \A i \in Instance : announced'[i] = announced[i]
    BY <2>2 DEF HNext, WordAfter
  <2>6. last'.rows = rows /\ last'.ts = evalTS /\ last'.sent = {}
    BY <2>2
  <2> QED BY <2>1, <2>3, <2>4, <2>5, <2>6 DEF CutShort
<1>3. ASSUME NEW rows \in SUBSET Instance, ExecOverLimit(rows)
      PROVE  /\ Tick /\ last'.ts = evalTS /\ last'.ts \in Nat \ {Zero}
             /\ last'.outcome = "overLimit" /\ \A i \in Instance : Cleared(i)
  <2>1. Tick /\ last'.ts = evalTS /\ last'.ts \in Nat \ {Zero}
    BY <1>3, EvalTime DEF ExecOverLimit
  <2>2. last' = Step("overLimit", evalTS, rows, {})
    BY <1>3 DEF ExecOverLimit
  <2>3. \A i \in Instance : alerts'[i] = NoAlert
    BY <1>3 DEF ExecOverLimit
  <2>4. \A i \in Instance : run'[i] = NoRun
    BY <2>2 DEF HNext, RunAfter
  <2>5. \A i \in Instance : announced'[i] =
           IF announced[i] = "firing" THEN "abandoned" ELSE announced[i]
    BY <2>2 DEF HNext, WordAfter
  <2> QED BY <2>1, <2>2, <2>3, <2>4, <2>5 DEF Cleared
<1>4. ASSUME NEW rows \in SUBSET Instance, ExecCompleted(rows)
      PROVE  /\ Tick /\ last'.ts = evalTS /\ last'.ts \in Nat \ {Zero}
             /\ \A i \in Instance : Carried(i, i \in last'.rows, last'.ts)
  <2>1. Tick /\ last'.ts = evalTS /\ last'.ts \in Nat \ {Zero}
    BY <1>4, EvalTime DEF ExecCompleted
  <2> DEFINE e == Evaluated(rows)
  <2>2. /\ last' = Step("completed", evalTS, rows, alertsToSend(e, evalTS))
        /\ alerts' = MarkSent(e, evalTS)
    BY <1>4 DEF ExecCompleted
  <2>3. \A i \in Instance :
           e[i] = Next1(alerts[i], i \in rows, evalTS, conf.forDur, conf.keepFire)
    BY EvaluatedInstances
  <2>4. e \in [Instance -> Alert]
    BY <2>1, EvaluationTypes
  <2> HIDE DEF e
  <2>5. \A i \in Instance : alerts'[i] = Sent1(e[i], evalTS)
    BY <2>2, <2>4 DEF MarkSent, Sent1
  <2>6. \A i \in Instance : i \in last'.sent <=> MustSend(e[i], evalTS)
    BY <2>2, <2>4 DEF alertsToSend
  <2>7. \A i \in Instance : run'[i] = Continue(run[i], i \in rows, evalTS)
    BY <2>2 DEF HNext, RunAfter
  <2>8. \A i \in Instance : alerts'[i].state = e[i].state
    BY <2>1, <2>4, <2>5, SentKeeps
  <2>9. \A i \in Instance : announced'[i] =
           IF ~MustSend(e[i], evalTS) THEN announced[i]
           ELSE IF e[i].state = "firing" THEN "firing" ELSE "resolved"
    BY <2>2, <2>6, <2>8 DEF HNext, WordAfter
  <2> QED BY <2>1, <2>2, <2>3, <2>5, <2>6, <2>7, <2>9 DEF Carried
<1> QED BY <1>1, <1>2, <1>3, <1>4 DEF HNext, Next

-------------------------------------------------------------------------------
(***************************************************************************)
(* Firing and resolving follow an unbroken run of evaluations.             *)
(***************************************************************************)

\* One step of the rule keeps every instance in agreement with its run.
LEMMA RunsStep ==
    ASSUME HTypeOK, RunsAgree, [HNext]_hvars
    PROVE  RunsAgree'
<1>1. CASE HNext
  <2> SUFFICES ASSUME NEW i \in Instance PROVE RunAgrees(alerts'[i], run'[i])
    BY DEF RunsAgree
  <2> DEFINE a == alerts[i]
             r == run[i]
             ts == last'.ts
  <2>1. a \in Alert /\ r \in Run /\ RunAgrees(a, r) /\ conf \in Conf
    BY RuleAssumption DEF HTypeOK, TypeOK, RunsAgree
  <2>2. conf.forDur \in Nat /\ conf.keepFire \in Nat
    BY <2>1 DEF Conf
  <2>3. CASE Untouched(i)
    BY <2>1, <2>3 DEF Untouched
  <2>4. CASE ts \in Nat \ {Zero} /\ CutShort(i, i \in last'.rows, ts)
    <3>1. (i \in last'.rows) \in BOOLEAN
      OBVIOUS
    <3> HIDE DEF a, r, ts
    <3>2. RunAgrees(Purged(a, ts), r) /\ RunAgrees(Matched(Purged(a, ts), ts), Continue(r, TRUE, ts))
      BY <2>1, <2>2, <2>4, <3>1, RunStep
    <3> QED BY <2>4, <3>2 DEF CutShort, a, r
  <2>5. CASE Cleared(i)
    BY <2>5 DEF Cleared, RunAgrees, NoAlert, NoRun, Active
  <2>6. CASE ts \in Nat \ {Zero} /\ Carried(i, i \in last'.rows, ts)
    <3> DEFINE seen == i \in last'.rows
               n == Next1(a, seen, ts, conf.forDur, conf.keepFire)
    <3>1. alerts'[i] = Sent1(n, ts) /\ run'[i] = Continue(r, seen, ts)
      BY <2>6 DEF Carried
    <3>2. seen \in BOOLEAN
      OBVIOUS
    <3> HIDE DEF a, r, ts, seen
    <3>3. RunAgrees(n, Continue(r, seen, ts))
      BY <2>1, <2>2, <2>6, <3>2, RunStep
    <3>4. n \in Alert
      BY <2>1, <2>2, <2>6, InstanceTypes DEF Next1
    <3> HIDE DEF n
    <3>5. /\ Sent1(n, ts).state = n.state
          /\ Sent1(n, ts).activeAt = n.activeAt
          /\ Sent1(n, ts).keepFiringSince = n.keepFiringSince
      BY <2>6, <3>4, SentKeeps
    <3> QED BY <3>1, <3>3, <3>5 DEF RunAgrees, Active
  <2> QED BY <1>1, <2>3, <2>4, <2>5, <2>6, OneInstance
<1>2. CASE UNCHANGED hvars
  BY <1>2 DEF hvars, vars, RunsAgree
<1> QED BY <1>1, <1>2

\* Every instance agrees with its run, in every reachable state.
THEOREM RunsAlwaysAgree == HSpec => []RunsAgree
<1>1. HInit => RunsAgree
  BY RuleAssumption
     DEF HInit, Init, IsRestored, RestoredRun, RunsAgree, RunAgrees, NoAlert, Active
<1>2. HTypeOK /\ RunsAgree /\ [HNext]_hvars => RunsAgree'
  BY RunsStep
<1> QED BY <1>1, <1>2, TypeCorrect, PTL DEF HSpec

\* One instance that fires in a completed evaluation was returned by it and
\* has been in a run of matches for forDur.
LEMMA FiringOne ==
    ASSUME NEW a \in Alert, NEW r \in Run, NEW ts \in Nat \ {Zero},
           NEW seen \in BOOLEAN, NEW forDur \in Nat, NEW keepFire \in Nat,
           RunAgrees(a, r), a.state # "firing",
           Next1(a, seen, ts, forDur, keepFire).state = "firing"
    PROVE  Continue(r, seen, ts).matched /\ ts - Continue(r, seen, ts).since >= forDur
<1> DEFINE p == Purged(a, ts)
           m == Matched(p, ts)
<1>1. p \in Alert /\ RunAgrees(p, r) /\ p.state # "firing"
  BY InstanceTypes DEF Purged, RunAgrees, NoAlert, Active
<1> HIDE DEF p
<1>2. seen
  BY <1>1 DEF Next1, Unmatched, NoAlert, p
<1>3. m \in Alert /\ m.state = "pending"
  BY <1>1, InstanceTypes DEF Matched, Active, Alert
<1>4. Continue(r, TRUE, ts).matched /\ Continue(r, TRUE, ts).since = m.activeAt
  BY <1>1 DEF RunAgrees, Matched, Continue, Active, Alert, Run
<1> HIDE DEF m
<1>5. ts - m.activeAt >= forDur
  BY <1>2, <1>3 DEF Next1, Advanced, p, m
<1> QED BY <1>2, <1>4, <1>5

\* One instance that resolves in a completed evaluation was not returned by
\* it and has been in a run of misses for keepFire.
LEMMA ResolvingOne ==
    ASSUME NEW a \in Alert, NEW r \in Run, NEW ts \in Nat \ {Zero},
           NEW seen \in BOOLEAN, NEW forDur \in Nat, NEW keepFire \in Nat,
           RunAgrees(a, r), a.state = "firing",
           Next1(a, seen, ts, forDur, keepFire).state = "inactive"
    PROVE  /\ ~Continue(r, seen, ts).matched
           /\ keepFire > 0 => ts - Continue(r, seen, ts).since >= keepFire
<1>1. Purged(a, ts) = a
  BY DEF Purged
<1>2. ~seen
  BY <1>1 DEF Next1, Advanced, Matched, Active, Alert
<1>3. Unmatched(a, ts, keepFire).state = "inactive"
  BY <1>1, <1>2 DEF Next1
<1>4. ~Continue(r, FALSE, ts).matched
  BY DEF Continue, Run
<1>5. ASSUME keepFire > 0
      PROVE  ts - Continue(r, FALSE, ts).since >= keepFire
  BY <1>3, <1>5 DEF Unmatched, Resolved, KeptSince, RunAgrees, Continue, Active, Alert, Run
<1> QED BY <1>2, <1>4, <1>5

\* A step that changes whether an instance fires is a completed evaluation,
\* or clears the map.
LEMMA FiringChanges ==
    ASSUME HTypeOK, HNext, NEW i \in Instance,
           Fires(i) \/ Resolves(i)
    PROVE  /\ last'.ts \in Nat \ {Zero}
           /\ Carried(i, i \in last'.rows, last'.ts)
           /\ alerts'[i].state =
                Next1(alerts[i], i \in last'.rows, last'.ts, conf.forDur, conf.keepFire).state
<1> DEFINE a == alerts[i]
           ts == last'.ts
           seen == i \in last'.rows
<1>1. a \in Alert /\ conf \in Conf
  BY RuleAssumption DEF HTypeOK, TypeOK
<1>2. ~Untouched(i)
  BY DEF Untouched, Fires, Resolves
<1>3. ~CutShort(i, seen, ts)
  <2> DEFINE p == Purged(a, ts)
  <2>1. /\ p \in Alert
        /\ IF a.state = "firing" THEN p.state = "firing" ELSE p.state \notin {"firing"}
    BY <1>1 DEF Purged, NoAlert, Alert, AlertState
  <2> HIDE DEF p
  <2>2. IF a.state = "firing" THEN Matched(p, ts).state = "firing"
                              ELSE Matched(p, ts).state # "firing"
    BY <2>1 DEF Matched, Active, Alert
  <2> QED BY <2>1, <2>2 DEF CutShort, Fires, Resolves, p
<1>4. ~Cleared(i)
  BY DEF Cleared, NoAlert, Fires, Resolves
<1>5. ts \in Nat \ {Zero} /\ Carried(i, seen, ts)
  BY <1>2, <1>3, <1>4, OneInstance
<1> HIDE DEF a, ts, seen
<1>6. Next1(a, seen, ts, conf.forDur, conf.keepFire) \in Alert
  BY <1>1, <1>5, InstanceTypes DEF Next1, Conf
<1> QED BY <1>5, <1>6, SentKeeps DEF Carried, a, ts, seen

\* An instance fires only after an unbroken run of matches of forDur.
THEOREM FiringFollowsARun == HSpec => FiresOnlyAfterFor
<1> DEFINE A == \A i \in Instance : Fires(i) =>
                    /\ run'[i].matched
                    /\ last'.ts - run'[i].since >= conf.forDur
<1>1. HTypeOK /\ RunsAgree /\ [HNext]_hvars => [A]_hvars
  <2> SUFFICES ASSUME HTypeOK, RunsAgree, HNext, NEW i \in Instance, Fires(i)
               PROVE  run'[i].matched /\ last'.ts - run'[i].since >= conf.forDur
    OBVIOUS
  <2>1. alerts[i] \in Alert /\ run[i] \in Run /\ RunAgrees(alerts[i], run[i])
    BY DEF HTypeOK, TypeOK, RunsAgree
  <2>2. conf.forDur \in Nat /\ conf.keepFire \in Nat
    BY RuleAssumption DEF HTypeOK, TypeOK, Conf
  <2>3. run'[i] = Continue(run[i], i \in last'.rows, last'.ts)
    BY FiringChanges DEF Carried
  <2>4. /\ last'.ts \in Nat \ {Zero}
        /\ Next1(alerts[i], i \in last'.rows, last'.ts, conf.forDur, conf.keepFire).state = "firing"
    BY FiringChanges DEF Fires
  <2>5. alerts[i].state # "firing" /\ (i \in last'.rows) \in BOOLEAN
    BY DEF Fires
  <2> QED BY <2>1, <2>2, <2>3, <2>4, <2>5, FiringOne
<1> QED BY <1>1, TypeCorrect, RunsAlwaysAgree, PTL DEF HSpec, FiresOnlyAfterFor

\* An instance resolves only after an unbroken run of misses of keepFire.
THEOREM ResolvingFollowsARun == HSpec => ResolvesOnlyAfterKeepFiring
<1> DEFINE A == \A i \in Instance : Resolves(i) =>
                    /\ ~run'[i].matched
                    /\ conf.keepFire > 0 => last'.ts - run'[i].since >= conf.keepFire
<1>1. HTypeOK /\ RunsAgree /\ [HNext]_hvars => [A]_hvars
  <2> SUFFICES ASSUME HTypeOK, RunsAgree, HNext, NEW i \in Instance, Resolves(i)
               PROVE  /\ ~run'[i].matched
                      /\ conf.keepFire > 0 => last'.ts - run'[i].since >= conf.keepFire
    OBVIOUS
  <2>1. alerts[i] \in Alert /\ run[i] \in Run /\ RunAgrees(alerts[i], run[i])
    BY DEF HTypeOK, TypeOK, RunsAgree
  <2>2. conf.forDur \in Nat /\ conf.keepFire \in Nat
    BY RuleAssumption DEF HTypeOK, TypeOK, Conf
  <2>3. run'[i] = Continue(run[i], i \in last'.rows, last'.ts)
    BY FiringChanges DEF Carried
  <2>4. /\ last'.ts \in Nat \ {Zero}
        /\ Next1(alerts[i], i \in last'.rows, last'.ts, conf.forDur, conf.keepFire).state = "inactive"
    BY FiringChanges DEF Resolves
  <2>5. alerts[i].state = "firing" /\ (i \in last'.rows) \in BOOLEAN
    BY DEF Resolves
  <2> QED BY <2>1, <2>2, <2>3, <2>4, <2>5, ResolvingOne
<1> QED BY <1>1, TypeCorrect, RunsAlwaysAgree, PTL DEF HSpec, ResolvesOnlyAfterKeepFiring

-------------------------------------------------------------------------------
(***************************************************************************)
(* The notifier is told what the machine holds, provided no reload changes *)
(* eval_delay and so sets the evaluations' clock back.                     *)
(***************************************************************************)

\* What the notifier is handed of an evaluated instance.
WordOf(a, word, ts) ==
    IF ~MustSend(a, ts) THEN word ELSE IF a.state = "firing" THEN "firing" ELSE "resolved"

\* An instance a completed evaluation leaves in the map, and the one it found.
LEMMA EvaluatedOne ==
    ASSUME NEW a \in Alert, NEW ts \in Nat \ {Zero}, NEW seen \in BOOLEAN,
           NEW forDur \in Nat, NEW keepFire \in Nat
    PROVE  LET n == Next1(a, seen, ts, forDur, keepFire)
           IN  /\ n \in Alert
               /\ n.lastSent \in {Zero, a.lastSent}
               /\ n.state = "firing" =>
                     \/ a.state = "firing" /\ n.activeAt = a.activeAt
                     \/ a.state = "pending" /\ n.activeAt = a.activeAt /\ n.firedAt = ts
                     \/ a.state \in {"inactive", "absent"} /\ n.firedAt = ts
               /\ n.state = "pending" =>
                     \/ a.state = "pending" /\ n.activeAt = a.activeAt
                     \/ a.state \in {"inactive", "absent"}
               /\ n.state = "inactive" =>
                     \/ a.state = "firing" /\ n.resolvedAt = ts
                     \/ a.state = "inactive" /\ n.resolvedAt = a.resolvedAt
               /\ n.state = "absent" => a.state # "firing"
<1> DEFINE p == Purged(a, ts)
           m == Matched(p, ts)
           n == Next1(a, seen, ts, forDur, keepFire)
<1>1. p \in Alert /\ (p = a \/ (p = NoAlert /\ a.state = "inactive"))
  BY InstanceTypes DEF Purged
<1>2. m \in Alert
  BY <1>1, InstanceTypes
<1>3. n \in Alert
  BY <1>1, <1>2, InstanceTypes DEF Next1
<1> HIDE DEF p
<1>4. CASE seen
  <2>1. n = Advanced(m, ts, forDur)
    BY <1>4 DEF Next1, p
  <2>2. /\ m.lastSent \in {Zero, a.lastSent}
        /\ \/ m.state = a.state /\ Active(a) /\ m.activeAt = a.activeAt
           \/ m.state = "pending" /\ a.state \in {"inactive", "absent"}
    BY <1>1 DEF Matched, Active, Alert, AlertState, NoAlert
  <2> HIDE DEF m, n
  <2>3. /\ n.lastSent = m.lastSent /\ n.activeAt = m.activeAt
        /\ \/ n.state = m.state
           \/ m.state = "pending" /\ n.state = "firing" /\ n.firedAt = ts
    BY <1>2, <2>1 DEF Advanced, Alert
  <2> QED BY <1>3, <2>2, <2>3 DEF Active, n
<1>5. CASE ~seen
  <2>1. n = Unmatched(p, ts, keepFire)
    BY <1>5 DEF Next1, p
  <2> HIDE DEF n
  <2>2. CASE p.state = "firing"
    <3>1. p = a
      BY <1>1, <2>2 DEF NoAlert
    <3>2. /\ n.lastSent = a.lastSent /\ n.activeAt = a.activeAt
          /\ n.state = "firing" \/ (n.state = "inactive" /\ n.resolvedAt = ts)
      BY <1>1, <2>1, <2>2, <3>1 DEF Unmatched, Resolved, KeptSince, Alert
    <3> QED BY <1>3, <2>2, <3>1, <3>2 DEF n
  <2>3. CASE p.state = "pending"
    BY <1>1, <1>3, <2>1, <2>3 DEF Unmatched, NoAlert, n
  <2>4. CASE p.state \in {"inactive", "absent"}
    <3>1. n = p
      BY <2>1, <2>4 DEF Unmatched
    <3> QED BY <1>1, <1>3, <2>4, <3>1 DEF NoAlert, n
  <2> QED BY <1>1, <2>2, <2>3, <2>4 DEF Alert, AlertState
<1> QED BY <1>4, <1>5

\* A completed evaluation keeps an instance in agreement with its last word.
LEMMA AnnouncementStep ==
    ASSUME NEW a \in Alert, NEW word \in Words, NEW now \in Nat,
           NEW ts \in Nat \ {Zero}, NEW seen \in BOOLEAN,
           NEW forDur \in Nat, NEW keepFire \in Nat,
           now < ts, AnnouncementAgrees(a, word, now)
    PROVE  LET n == Next1(a, seen, ts, forDur, keepFire)
           IN  AnnouncementAgrees(Sent1(n, ts), WordOf(n, word, ts), ts)
<1> DEFINE n == Next1(a, seen, ts, forDur, keepFire)
<1>0. /\ n \in Alert
      /\ n.lastSent \in {Zero, a.lastSent}
      /\ n.state = "firing" => a.state = "firing" \/ n.firedAt = ts
      /\ n.state = "inactive" =>
            n.resolvedAt = ts \/ (a.state = "inactive" /\ n.resolvedAt = a.resolvedAt)
      /\ n.state \in {"pending", "absent"} => a.state # "firing"
  BY EvaluatedOne
<1> HIDE DEF n
<1>1. n \in Alert /\ n.lastSent \in Nat /\ n.lastSent < ts
  <2>1. a.lastSent \in Nat /\ a.lastSent <= now
    BY DEF AnnouncementAgrees, Alert
  <2> QED BY <1>0, <2>1
<1>2. /\ Sent1(n, ts).state = n.state
      /\ Sent1(n, ts).resolvedAt = n.resolvedAt
      /\ Sent1(n, ts).lastSent <= ts
  <2>1. /\ Sent1(n, ts).state = n.state
        /\ Sent1(n, ts).resolvedAt = n.resolvedAt
        /\ Sent1(n, ts).lastSent \in {n.lastSent, ts}
    BY <1>1, SentKeeps
  <2> QED BY <1>1, <2>1
<1>3. ASSUME n.state = "firing"
      PROVE  AnnouncementAgrees(Sent1(n, ts), WordOf(n, word, ts), ts)
  <2>1. a.state = "firing" \/ n.firedAt = ts
    BY <1>0, <1>3
  <2>2. word = "firing" \/ MustSend(n, ts)
    BY <1>1, <1>3, <2>1 DEF AnnouncementAgrees, MustSend
  <2>3. WordOf(n, word, ts) = "firing"
    BY <1>3, <2>2 DEF WordOf
  <2> QED BY <1>2, <1>3, <2>3 DEF AnnouncementAgrees
<1>4. ASSUME n.state = "inactive"
      PROVE  AnnouncementAgrees(Sent1(n, ts), WordOf(n, word, ts), ts)
  <2>1. n.resolvedAt # Zero
    BY <1>0, <1>4 DEF AnnouncementAgrees
  <2>2. WordOf(n, word, ts) = "resolved"
    BY <1>4, <2>1 DEF MustSend, WordOf
  <2> QED BY <1>2, <1>4, <2>1, <2>2 DEF AnnouncementAgrees
<1>5. ASSUME n.state \in {"pending", "absent"}
      PROVE  AnnouncementAgrees(Sent1(n, ts), WordOf(n, word, ts), ts)
  <2>1. a.state # "firing"
    BY <1>0, <1>5
  <2>2. WordOf(n, word, ts) = word /\ word # "firing"
    BY <1>5, <2>1 DEF MustSend, WordOf, AnnouncementAgrees
  <2> QED BY <1>2, <1>5, <2>2 DEF AnnouncementAgrees
<1> QED BY <1>1, <1>3, <1>4, <1>5 DEF Alert, AlertState, n

Now == clock - conf.evalDelay

\* With one eval_delay no step sets the evaluations' clock back.
LEMMA NowGrows ==
    ASSUME SameDelay, TypeOK, Next
    PROVE  /\ Now \in Nat /\ Now' \in Nat /\ Now <= Now'
           /\ Tick => evalTS = Now' /\ Now < evalTS
<1>1. /\ conf \in Confs /\ conf' \in Confs /\ clock \in Nat /\ clock' \in Nat
      /\ clock >= Epoch /\ clock' >= Epoch
  BY TypeStep DEF TypeOK
<1>2. conf.evalDelay = conf'.evalDelay /\ conf.evalDelay \in Nat /\ conf.evalDelay < Epoch
  BY <1>1, RuleAssumption DEF SameDelay, Conf
<1>3. (Tick /\ conf' = conf /\ clock' > clock) \/ (clock' = clock /\ ~Tick)
  <2>1. Tick => conf' = conf /\ clock' > clock
    BY EvalTime DEF Tick
  <2>2. Tick \/ clock' = clock
    BY DEF Next, ExecFailed, ExecOverRows, ExecDuplicate, ExecOverLimit, ExecCompleted, updateWith
  <2> QED BY <1>1, <2>1, <2>2
<1> QED BY <1>1, <1>2, <1>3, RuleAssumption DEF Now, evalTS

\* One step of the rule keeps every instance in agreement with its last word,
\* while eval_delay stays.
LEMMA AnnouncementsStep ==
    ASSUME SameDelay, HTypeOK, AnnouncementsAgree, HNext
    PROVE  AnnouncementsAgree'
<1> SUFFICES ASSUME NEW i \in Instance
             PROVE  AnnouncementAgrees(alerts'[i], announced'[i], Now')
  BY DEF AnnouncementsAgree, Now
<1> DEFINE a == alerts[i]
           word == announced[i]
           now == Now
           ts == last'.ts
<1>1. /\ a \in Alert /\ word \in Words
      /\ conf.forDur \in Nat /\ conf.keepFire \in Nat
  BY RuleAssumption DEF HTypeOK, TypeOK, Conf
<1>2. AnnouncementAgrees(a, word, now)
  BY DEF AnnouncementsAgree, Now
<1>3. /\ now \in Nat /\ Now' \in Nat /\ now <= Now'
      /\ Tick => evalTS = Now' /\ now < evalTS
  BY NowGrows DEF HTypeOK, HNext
<1>4. CASE Untouched(i)
  BY <1>1, <1>2, <1>3, <1>4 DEF Untouched, AnnouncementAgrees, Alert
<1>5. CASE CutShort(i, i \in last'.rows, ts)
  <2> DEFINE p == Purged(a, ts)
  <2>1. /\ p \in Alert /\ AnnouncementAgrees(p, word, now)
    BY <1>1, <1>2, <1>3 DEF Purged, NoAlert, AnnouncementAgrees, Alert, AlertState
  <2> HIDE DEF p
  <2>2. /\ Matched(p, ts).state = "firing" <=> p.state = "firing"
        /\ Matched(p, ts).state # "inactive"
        /\ Matched(p, ts).lastSent = p.lastSent
    BY <2>1 DEF Matched, Active, Alert
  <2>3. AnnouncementAgrees(Matched(p, ts), word, now)
    BY <2>1, <2>2 DEF AnnouncementAgrees
  <2>4. alerts'[i] \in {p, Matched(p, ts)} /\ announced'[i] = word
    BY <1>5 DEF CutShort, p
  <2>5. AnnouncementAgrees(alerts'[i], announced'[i], now) /\ alerts'[i].lastSent \in Nat
    BY <2>1, <2>2, <2>3, <2>4 DEF Alert
  <2> QED BY <1>3, <2>5 DEF AnnouncementAgrees
<1>6. CASE Cleared(i)
  BY <1>2, <1>3, <1>6 DEF Cleared, NoAlert, AnnouncementAgrees
<1>7. CASE /\ Tick /\ ts = evalTS /\ ts \in Nat \ {Zero}
           /\ Carried(i, i \in last'.rows, ts)
  <2> DEFINE seen == i \in last'.rows
             n == Next1(a, seen, ts, conf.forDur, conf.keepFire)
  <2>1. alerts'[i] = Sent1(n, ts) /\ announced'[i] = WordOf(n, word, ts)
    BY <1>7 DEF Carried, WordOf
  <2>2. ts = Now' /\ now < ts
    BY <1>3, <1>7
  <2>3. seen \in BOOLEAN
    OBVIOUS
  <2> HIDE DEF a, word, now, ts, seen
  <2>4. AnnouncementAgrees(Sent1(n, ts), WordOf(n, word, ts), ts)
    BY <1>1, <1>2, <1>3, <1>7, <2>2, <2>3, AnnouncementStep
  <2> QED BY <2>1, <2>2, <2>4
<1> QED BY <1>4, <1>5, <1>6, <1>7, OneInstance

\* While no reload changes eval_delay, every instance agrees with the last
\* word about it, and was last sent in the past.
THEOREM AnnouncementsAlwaysAgree == ASSUME SameDelay PROVE HSpec => []AnnouncementsAgree
<1>1. HInit => AnnouncementsAgree
  <2> SUFFICES ASSUME HInit, NEW i \in Instance
               PROVE  AnnouncementAgrees(alerts[i], announced[i], clock - conf.evalDelay)
    BY DEF AnnouncementsAgree
  <2>1. clock - conf.evalDelay \in Nat
    BY RuleAssumption DEF HInit, Init, Conf
  <2>2. alerts[i].lastSent = Zero /\ alerts[i].state # "inactive"
    BY RuleAssumption DEF HInit, Init, IsRestored, NoAlert, Active
  <2>3. alerts[i].state = "firing" <=> announced[i] = "firing"
    BY DEF HInit
  <2> QED BY <2>1, <2>2, <2>3 DEF AnnouncementAgrees
<1>2. HTypeOK /\ AnnouncementsAgree /\ [HNext]_hvars => AnnouncementsAgree'
  <2> SUFFICES ASSUME HTypeOK, AnnouncementsAgree, [HNext]_hvars PROVE AnnouncementsAgree'
    OBVIOUS
  <2>1. CASE HNext
    BY <2>1, AnnouncementsStep
  <2>2. CASE UNCHANGED hvars
    BY <2>2 DEF hvars, vars, AnnouncementsAgree
  <2> QED BY <2>1, <2>2
<1> QED BY <1>1, <1>2, TypeCorrect, PTL DEF HSpec

-------------------------------------------------------------------------------
(***************************************************************************)
(* The rule implements the life cycle it promises its receivers.           *)
(***************************************************************************)

\* A move of one instance the life cycle allows, from map entry a and word w
\* to map entry a2 and word w2.
Moves(a, w, a2, w2) ==
    \/ /\ ~Active(a)
       /\ \/ a2.state = "pending" /\ w2 = w
          \/ a2.state = "firing" /\ w2 = "firing"
          \/ ~Active(a2) /\ w2 = w
    \/ /\ a.state = "pending"
       /\ \/ a2.state = "pending" /\ w2 = w /\ a2.activeAt = a.activeAt
          \/ a2.state = "firing" /\ w2 = "firing" /\ a2.activeAt = a.activeAt
          \/ ~Active(a2) /\ w2 = w
    \/ /\ a.state = "firing"
       /\ \/ a2.state = "firing" /\ w2 = w /\ a2.activeAt = a.activeAt
          \/ ~Active(a2) /\ w2 = "resolved"

\* A completed evaluation moves an instance as the life cycle allows.
LEMMA MovesOne ==
    ASSUME NEW a \in Alert, NEW word \in Words, NEW now \in Nat,
           NEW ts \in Nat \ {Zero}, NEW seen \in BOOLEAN,
           NEW forDur \in Nat, NEW keepFire \in Nat,
           now < ts, AnnouncementAgrees(a, word, now)
    PROVE  LET n == Next1(a, seen, ts, forDur, keepFire)
           IN  Moves(a, word, Sent1(n, ts), WordOf(n, word, ts))
<1> DEFINE n == Next1(a, seen, ts, forDur, keepFire)
           s == Sent1(n, ts)
           w == WordOf(n, word, ts)
<1>1. /\ n \in Alert
      /\ n.state = "firing" =>
            \/ Active(a) /\ n.activeAt = a.activeAt
            \/ a.state \in {"inactive", "absent"}
      /\ n.state = "pending" =>
            \/ a.state = "pending" /\ n.activeAt = a.activeAt
            \/ a.state \in {"inactive", "absent"}
      /\ n.state = "inactive" => a.state \in {"firing", "inactive"}
      /\ n.state = "absent" => a.state # "firing"
  BY EvaluatedOne DEF Active
<1>2. AnnouncementAgrees(s, w, ts)
  BY AnnouncementStep
<1> HIDE DEF n
<1>3. s.state = n.state /\ s.activeAt = n.activeAt
  BY <1>1, SentKeeps
<1>4. ~Active(n) /\ n.state # "inactive" => w = word
  BY <1>1 DEF WordOf, MustSend, Active
<1>5. n.state = "pending" => w = word
  BY DEF WordOf, MustSend
<1> HIDE DEF s, w
<1>6. Moves(a, word, s, w)
  BY <1>1, <1>2, <1>3, <1>4, <1>5 DEF AnnouncementAgrees, Moves, Active, Alert, AlertState
<1> QED BY <1>6 DEF n, s, w

\* One step of the rule is one step of the life cycle.
LEMMA LifecycleStep ==
    ASSUME SameDelay, HTypeOK, HTypeOK', AnnouncementsAgree, HNext
    PROVE  Lifecycle!Next
<1>1. \A i \in Instance : /\ alerts[i] \in Alert /\ alerts'[i] \in Alert
                          /\ announced[i] \in Words /\ announced'[i] \in Words
  BY DEF HTypeOK, TypeOK
<1>2. /\ [i \in Instance |-> Phase(alerts'[i])] \in [Instance -> Lifecycle!Phases]
      /\ announced' \in [Instance -> Lifecycle!Words]
      /\ [i \in Instance |-> alerts'[i].activeAt] \in [Instance -> Nat]
  BY <1>1 DEF HTypeOK, Words, Lifecycle!Words, Lifecycle!Phases, Phase, Active, Alert
<1>3. ASSUME NEW i \in Instance,
             Moves(alerts[i], announced[i], alerts'[i], announced'[i])
      PROVE  \/ Lifecycle!Begin(i) \/ Lifecycle!Fire(i) \/ Lifecycle!Subside(i)
             \/ Lifecycle!Resolve(i) \/ Lifecycle!Stay(i)
  <2>1. /\ alerts'[i].activeAt \in Nat
        /\ alerts[i] \in Alert /\ alerts'[i] \in Alert
    BY <1>1 DEF Alert
  <2> USE DEF Lifecycle!Begin, Lifecycle!Fire, Lifecycle!Subside, Lifecycle!Resolve,
              Lifecycle!Stay, Lifecycle!Becomes, Lifecycle!SameEpisode, Phase, Active, Moves
  <2>2. CASE ~Active(alerts[i])
    BY <1>3, <2>1, <2>2
  <2>3. CASE alerts[i].state = "pending"
    BY <1>3, <2>1, <2>3
  <2>4. CASE alerts[i].state = "firing"
    BY <1>3, <2>1, <2>4
  <2> QED BY <2>2, <2>3, <2>4
<1>4. CASE \A i \in Instance : Cleared(i)
  <2>1. Lifecycle!AbandonAll
    <3>1. ASSUME NEW i \in Instance
          PROVE  AnnouncementAgrees(alerts[i], announced[i], Now)
      BY DEF AnnouncementsAgree, Now
    <3> QED BY <1>4, <3>1 DEF Lifecycle!AbandonAll, Lifecycle!Becomes, Cleared, Phase,
                               Active, NoAlert, AnnouncementAgrees
  <2> QED BY <1>2, <2>1 DEF Lifecycle!Next
<1>5. CASE \A i \in Instance : Moves(alerts[i], announced[i], alerts'[i], announced'[i])
  BY <1>2, <1>3, <1>5 DEF Lifecycle!Next
<1>6. ASSUME NEW i \in Instance, Untouched(i)
      PROVE  Moves(alerts[i], announced[i], alerts'[i], announced'[i])
  BY <1>1, <1>6 DEF Untouched, Moves, Active, Alert
<1>7. ASSUME NEW i \in Instance, CutShort(i, i \in last'.rows, last'.ts)
      PROVE  Moves(alerts[i], announced[i], alerts'[i], announced'[i])
  <2> DEFINE ts == last'.ts
             p == Purged(alerts[i], ts)
  <2>1. p \in Alert /\ (p = alerts[i] \/ (~Active(p) /\ ~Active(alerts[i])))
    BY <1>1 DEF Purged, NoAlert, Active, Alert, AlertState
  <2>2. announced'[i] = announced[i] /\ alerts'[i] \in {p, Matched(p, ts)}
    BY <1>7 DEF CutShort
  <2> HIDE DEF p
  <2>3. /\ Active(p) => Matched(p, ts).state = p.state /\ Matched(p, ts).activeAt = p.activeAt
        /\ ~Active(p) => Matched(p, ts).state = "pending"
    BY <2>1 DEF Matched, Active, Alert
  <2> QED BY <2>1, <2>2, <2>3 DEF Moves, Active
<1>8. ASSUME NEW i \in Instance, Tick, last'.ts = evalTS, last'.ts \in Nat \ {Zero},
             Carried(i, i \in last'.rows, last'.ts)
      PROVE  Moves(alerts[i], announced[i], alerts'[i], announced'[i])
  <2> DEFINE a == alerts[i]
             word == announced[i]
             now == Now
             ts == last'.ts
             seen == i \in last'.rows
             n == Next1(a, seen, ts, conf.forDur, conf.keepFire)
  <2>1. conf.forDur \in Nat /\ conf.keepFire \in Nat
    BY RuleAssumption DEF HTypeOK, TypeOK, Conf
  <2>2. AnnouncementAgrees(a, word, now)
    BY DEF AnnouncementsAgree, Now
  <2>3. now \in Nat /\ now < ts
    BY <1>8, NowGrows DEF HTypeOK, HNext
  <2>4. alerts'[i] = Sent1(n, ts) /\ announced'[i] = WordOf(n, word, ts)
    BY <1>8 DEF Carried, WordOf
  <2>5. seen \in BOOLEAN
    OBVIOUS
  <2> HIDE DEF now, ts, seen
  <2>6. Moves(a, word, Sent1(n, ts), WordOf(n, word, ts))
    <3> HIDE DEF a, word
    <3>1. a \in Alert /\ word \in Words
      BY <1>1 DEF a, word
    <3>2. ts \in Nat \ {Zero}
      BY <1>8 DEF ts
    <3> QED BY <2>1, <2>2, <2>3, <2>5, <3>1, <3>2, MovesOne
  <2> QED BY <2>4, <2>6
<1>9. (\A i \in Instance : Untouched(i)) => Lifecycle!Next
  BY <1>5, <1>6
<1>10. (\A i \in Instance : CutShort(i, i \in last'.rows, last'.ts)) => Lifecycle!Next
  BY <1>5, <1>7
<1>11. Tick /\ last'.ts = evalTS /\ last'.ts \in Nat \ {Zero}
         /\ (\A i \in Instance : Carried(i, i \in last'.rows, last'.ts))
       => Lifecycle!Next
  BY <1>5, <1>8
<1> QED BY <1>4, <1>9, <1>10, <1>11, OneInstance

\* While no reload changes eval_delay, the rule implements the life cycle it
\* promises: every firing is announced in the step it happens, an episode
\* keeps its start, and its end is reported in the step it ends.
THEOREM RuleImplementsLifecycle == ASSUME SameDelay PROVE HSpec => ImplementsLifecycle
<1>1. HInit => Lifecycle!Init
  <2> SUFFICES ASSUME HInit PROVE Lifecycle!Init
    OBVIOUS
  <2>1. \A i \in Instance : alerts[i] \in Alert /\ alerts[i].activeAt \in Nat
    BY RuleAssumption DEF HInit, Init, Alert
  <2>2. announced = [i \in Instance |->
                        IF Phase(alerts[i]) = "firing" THEN "firing" ELSE "nothing"]
    BY DEF HInit, Phase, Active
  <2> QED BY <2>1, <2>2 DEF Lifecycle!Init, Lifecycle!Phases, Phase, Active, Alert
<1>2. HTypeOK /\ HTypeOK' /\ AnnouncementsAgree /\ [HNext]_hvars
        => [Lifecycle!Next]_(Lifecycle!vars)
  <2> SUFFICES ASSUME HTypeOK, HTypeOK', AnnouncementsAgree, [HNext]_hvars
               PROVE  [Lifecycle!Next]_(Lifecycle!vars)
    OBVIOUS
  <2>1. CASE HNext
    BY <2>1, LifecycleStep
  <2>2. CASE UNCHANGED hvars
    BY <2>2 DEF hvars, vars, Lifecycle!vars
  <2> QED BY <2>1, <2>2
<1>3. HSpec => []AnnouncementsAgree
  BY AnnouncementsAlwaysAgree
<1> QED BY <1>1, <1>2, <1>3, TypeCorrect, PTL DEF HSpec, ImplementsLifecycle, Lifecycle!Spec

-------------------------------------------------------------------------------
(***************************************************************************)
(* What a completed evaluation leaves behind.                              *)
(***************************************************************************)

\* Only a completed evaluation says it is one.
LEMMA CompletedStep ==
    ASSUME HTypeOK, HNext, last'.outcome = "completed"
    PROVE  /\ ExecCompleted(last'.rows) /\ last'.rows \in SUBSET Instance
           /\ last'.ts = evalTS /\ evalTS \in Nat \ {Zero} /\ Tick
           /\ conf' = conf /\ conf \in Conf
           /\ \A i \in Instance :
                 run'[i] = Continue(run[i], i \in last'.rows, evalTS)
<1> USE DEF Step
<1>1. PICK rows \in SUBSET Instance : ExecCompleted(rows)
  BY DEF HNext, Next, ExecFailed, ExecOverRows, ExecDuplicate, ExecOverLimit, updateWith
<1>2. last' = Step("completed", evalTS, rows, alertsToSend(Evaluated(rows), evalTS))
  BY <1>1 DEF ExecCompleted
<1>3. Tick /\ conf' = conf
  BY <1>1 DEF ExecCompleted, Tick
<1>4. \A i \in Instance : run'[i] = Continue(run[i], i \in rows, evalTS)
  BY <1>2 DEF HNext, RunAfter
<1>5. evalTS \in Nat \ {Zero} /\ conf \in Conf
  BY <1>3, EvalTime DEF HTypeOK
<1> QED BY <1>1, <1>2, <1>3, <1>4, <1>5

\* An instance returned by a completed evaluation after a run of matches of
\* forDur fires.
LEMMA FiringNow ==
    ASSUME NEW a \in Alert, NEW r \in Run, NEW ts \in Nat \ {Zero},
           NEW forDur \in Nat, NEW keepFire \in Nat, NEW seen \in BOOLEAN, seen,
           RunAgrees(a, r), ts - Continue(r, seen, ts).since >= forDur
    PROVE  Next1(a, seen, ts, forDur, keepFire).state = "firing"
<1> DEFINE m == Matched(Purged(a, ts), ts)
           c == Continue(r, seen, ts)
<1>1. RunAgrees(m, c)
  BY RunStep
<1>2. m \in Alert /\ m.state \in {"pending", "firing"}
  <2>1. Purged(a, ts) \in Alert
    BY DEF Purged, NoAlert, Alert, AlertState, Zero
  <2>2. ts \in Nat
    OBVIOUS
  <2> HIDE DEF m
  <2>3. ASSUME NEW b \in Alert
        PROVE  /\ Matched(b, ts) \in Alert
               /\ Matched(b, ts).state \in {"pending", "firing"}
    BY <2>2 DEF Matched, Active, Alert, AlertState, Zero
  <2> QED BY <2>1, <2>3 DEF m
<1>3. ts - c.since >= forDur /\ Next1(a, seen, ts, forDur, keepFire) = Advanced(m, ts, forDur)
  BY DEF Next1
<1> HIDE DEF m, c
<1>4. m.state = "pending" => c.since = m.activeAt
  BY <1>1 DEF RunAgrees
<1>5. CASE m.state = "pending"
  <2>1. Advanced(m, ts, forDur) = [m EXCEPT !.state = "firing", !.firedAt = ts]
    BY <1>3, <1>4, <1>5 DEF Advanced
  <2>2. Advanced(m, ts, forDur).state = "firing"
    BY <1>2, <2>1 DEF Alert
  <2> QED BY <1>3, <2>2
<1>6. CASE m.state = "firing"
  BY <1>3, <1>6 DEF Advanced
<1> QED BY <1>2, <1>5, <1>6

\* After a completed evaluation no instance that was returned for forDur
\* without a break is still waiting (rule.go:336-341).
THEOREM NoFiringIsEverMissed == HSpec => []NoFiringIsMissed
<1>1. HInit => NoFiringIsMissed
  BY DEF HInit, Init, Step, NoFiringIsMissed
<1>2. HTypeOK /\ RunsAgree /\ NoFiringIsMissed /\ [HNext]_hvars => NoFiringIsMissed'
  <2> SUFFICES ASSUME HTypeOK, RunsAgree, HNext, last'.outcome = "completed",
                      NEW i \in Instance, i \in last'.rows,
                      last'.ts - run'[i].since >= conf'.forDur
               PROVE  alerts'[i].state = "firing"
    <3>1. HTypeOK /\ UNCHANGED hvars /\ NoFiringIsMissed => NoFiringIsMissed'
      BY DEF hvars, vars, NoFiringIsMissed
    <3>2. HTypeOK /\ HNext /\ last'.outcome = "completed" => last'.rows \subseteq Instance
      BY CompletedStep
    <3> QED BY <3>1, <3>2 DEF NoFiringIsMissed
  <2> DEFINE rows == last'.rows
             e == Evaluated(rows)
  <2>1. /\ evalTS \in Nat \ {Zero} /\ last'.ts = evalTS /\ Tick
        /\ conf' = conf /\ conf.forDur \in Nat /\ conf.keepFire \in Nat
        /\ rows \in SUBSET Instance
        /\ run'[i] = Continue(run[i], i \in rows, evalTS)
        /\ alerts' = MarkSent(e, evalTS)
    BY CompletedStep DEF Conf, ExecCompleted
  <2>2. e[i] = Next1(alerts[i], i \in rows, evalTS, conf.forDur, conf.keepFire)
    BY <2>1, EvaluatedInstances DEF HTypeOK
  <2>3. e \in [Instance -> Alert]
    BY <2>1, EvaluationTypes DEF HTypeOK
  <2>4. alerts[i] \in Alert /\ run[i] \in Run /\ RunAgrees(alerts[i], run[i])
    BY DEF HTypeOK, TypeOK, RunsAgree
  <2>5. evalTS - Continue(run[i], i \in rows, evalTS).since >= conf.forDur
    BY <2>1
  <2>6. e[i].state = "firing"
    <3>1. evalTS \in Nat \ {Zero} /\ conf.forDur \in Nat /\ conf.keepFire \in Nat
      BY <2>1
    <3>2. PICK a \in Alert, r \in Run : a = alerts[i] /\ r = run[i]
      BY <2>4
    <3>3. PICK ts \in Nat \ {Zero}, f \in Nat, k \in Nat :
             ts = evalTS /\ f = conf.forDur /\ k = conf.keepFire
      BY <3>1
    <3>4. PICK seen \in BOOLEAN : seen = (i \in rows)
      OBVIOUS
    <3>5. RunAgrees(a, r) /\ seen /\ ts - Continue(r, seen, ts).since >= f
      BY <2>4, <2>5, <3>2, <3>3, <3>4
    <3>6. Next1(a, seen, ts, f, k).state = "firing"
      BY <3>5, FiringNow
    <3> QED BY <2>2, <3>2, <3>3, <3>4, <3>6
  <2> HIDE DEF e
  <2>7. alerts'[i] = Sent1(e[i], evalTS) /\ e[i] \in Alert
    BY <2>1, <2>3 DEF MarkSent, Sent1
  <2>8. evalTS \in Nat
    BY <2>1
  <2> QED BY <2>6, <2>7, <2>8, SentKeeps
<1> QED BY <1>1, <1>2, TypeCorrect, RunsAlwaysAgree, PTL DEF HSpec

\* An instance that a completed evaluation holds resolved did so within its
\* retention.
LEMMA ResolvedRecently ==
    ASSUME NEW a \in Alert, NEW seen \in BOOLEAN, NEW ts \in Nat,
           NEW forDur \in Nat, NEW keepFire \in Nat,
           Next1(a, seen, ts, forDur, keepFire).state = "inactive"
    PROVE  ts - Next1(a, seen, ts, forDur, keepFire).resolvedAt <= resolvedRetention
<1> DEFINE p == Purged(a, ts)
<1>1. p \in Alert /\ (p.state = "inactive" => ts - p.resolvedAt <= resolvedRetention)
  BY DelaysAssumption DEF Purged, NoAlert, Alert, AlertState, Zero
<1> HIDE DEF p
<1>2. ~seen
  <2>1. Matched(p, ts) \in Alert /\ Matched(p, ts).state # "inactive"
    BY <1>1, InstanceTypes DEF Matched, Active, Alert
  <2>2. Advanced(Matched(p, ts), ts, forDur).state # "inactive"
    BY <2>1 DEF Advanced, Alert
  <2> QED BY <2>2 DEF Next1, p
<1>3. Next1(a, seen, ts, forDur, keepFire) = Unmatched(p, ts, keepFire)
  BY <1>2 DEF Next1, p
<1>4. CASE p.state = "firing"
  <2>1. Unmatched(p, ts, keepFire).resolvedAt = ts
    BY <1>1, <1>3, <1>4 DEF Unmatched, Resolved, KeptSince, Alert
  <2> QED BY <1>3, <2>1, DelaysAssumption
<1>5. CASE p.state # "firing"
  BY <1>1, <1>3, <1>5 DEF Unmatched, NoAlert
<1> QED BY <1>4, <1>5

\* A resolved instance is no longer sent once its retention is over
\* (rule.go:255-260, 388-395).
THEOREM ResolvedSendsAlwaysEnd == HSpec => []ResolvedSendsEnd
<1>1. HInit => ResolvedSendsEnd
  BY DEF HInit, Init, Step, ResolvedSendsEnd
<1>2. HTypeOK /\ ResolvedSendsEnd /\ [HNext]_hvars => ResolvedSendsEnd'
  <2> SUFFICES ASSUME HTypeOK, HNext, NEW i \in Instance, i \in last'.sent,
                      alerts'[i].state = "inactive"
               PROVE  last'.ts - alerts'[i].resolvedAt <= resolvedRetention
    <3>1. UNCHANGED hvars /\ ResolvedSendsEnd => ResolvedSendsEnd'
      BY DEF hvars, vars, ResolvedSendsEnd
    <3>2. HTypeOK /\ HNext => last'.sent \subseteq Instance
      BY TypeStep DEF HTypeOK, HNext, TypeOK
    <3> QED BY <3>1, <3>2 DEF ResolvedSendsEnd
  <2> DEFINE seen == i \in last'.rows
             n == Next1(alerts[i], seen, last'.ts, conf.forDur, conf.keepFire)
  <2>1. last'.ts \in Nat \ {Zero} /\ Carried(i, seen, last'.ts)
    BY OneInstance DEF Untouched, CutShort, Cleared
  <2>2. alerts[i] \in Alert /\ conf.forDur \in Nat /\ conf.keepFire \in Nat
    BY RuleAssumption DEF HTypeOK, TypeOK, Conf
  <2>3. alerts'[i] = Sent1(n, last'.ts)
    BY <2>1 DEF Carried
  <2>4. seen \in BOOLEAN
    OBVIOUS
  <2> HIDE DEF seen
  <2>5. n \in Alert
    BY <2>1, <2>2, InstanceTypes DEF Next1
  <2>6. n.state = "inactive" => last'.ts - n.resolvedAt <= resolvedRetention
    BY <2>1, <2>2, <2>4, ResolvedRecently
  <2> HIDE DEF n
  <2> QED BY <2>1, <2>3, <2>5, <2>6, SentKeeps
<1> QED BY <1>1, <1>2, TypeCorrect, PTL DEF HSpec

\* After a completed evaluation the rule holds at most limit pending and
\* firing instances, those kept firing included (rule.go:344-348).
THEOREM ActiveAlwaysWithinLimit == HSpec => []ActiveWithinLimit
<1>1. HInit => ActiveWithinLimit
  BY DEF HInit, Init, Step, ActiveWithinLimit
<1>2. HTypeOK /\ ActiveWithinLimit /\ [HNext]_hvars => ActiveWithinLimit'
  <2> SUFFICES ASSUME HTypeOK, HNext, last'.outcome = "completed", conf'.limit > 0
               PROVE  Cardinality({i \in Instance : Active(alerts'[i])}) <= conf'.limit
    <3>1. UNCHANGED hvars /\ ActiveWithinLimit => ActiveWithinLimit'
      BY DEF hvars, vars, ActiveWithinLimit
    <3> QED BY <3>1 DEF ActiveWithinLimit
  <2> DEFINE rows == last'.rows
             e == Evaluated(rows)
             counted == {i \in Instance : i \in rows \/ e[i].state = "firing"}
             active == {i \in Instance : Active(alerts'[i])}
  <2>1. /\ evalTS \in Nat \ {Zero} /\ Tick
        /\ conf' = conf /\ conf.limit \in Nat /\ conf.forDur \in Nat /\ conf.keepFire \in Nat
        /\ rows \in SUBSET Instance
        /\ ~OverLimit(rows) /\ alerts' = MarkSent(e, evalTS)
    BY CompletedStep DEF Conf, ExecCompleted
  <2>2. e \in [Instance -> Alert]
    BY <2>1, EvaluationTypes DEF HTypeOK
  <2>3. IsFiniteSet(counted) /\ Cardinality(counted) \in Nat
    BY RuleAssumption, FS_Subset, FS_CardinalityType
  <2>4. Cardinality(counted) <= conf.limit
    <3>1. NumActive(e, rows) = Cardinality(counted)
      BY <2>2 DEF NumActive
    <3>2. ~(NumActive(e, rows) > conf.limit)
      BY <2>1 DEF OverLimit
    <3> QED BY <2>1, <2>3, <3>1, <3>2
  <2>5. ASSUME NEW i \in Instance, Active(alerts'[i])
        PROVE  i \in rows \/ e[i].state = "firing"
    <3>1. e[i] = Next1(alerts[i], i \in rows, evalTS, conf.forDur, conf.keepFire)
      BY <2>1, EvaluatedInstances DEF HTypeOK
    <3>2. alerts'[i].state = e[i].state
      <4> HIDE DEF e
      <4>1. alerts'[i] = Sent1(e[i], evalTS) /\ e[i] \in Alert
        BY <2>1, <2>2 DEF MarkSent, Sent1
      <4>2. evalTS \in Nat
        BY <2>1
      <4> QED BY <4>1, <4>2, SentKeeps
    <3>3. CASE i \notin rows
      <4> DEFINE p == Purged(alerts[i], evalTS)
      <4>1. p \in Alert /\ e[i] = Unmatched(p, evalTS, conf.keepFire)
        BY <2>1, <3>1, <3>3, InstanceTypes DEF Next1, HTypeOK, TypeOK
      <4> HIDE DEF p
      <4>2. Unmatched(p, evalTS, conf.keepFire).state # "pending"
        BY <2>1, <4>1 DEF Unmatched, NoAlert, Resolved, KeptSince, Alert
      <4> QED BY <2>5, <3>2, <4>1, <4>2 DEF Active
    <3> QED BY <3>3
  <2>6. active \subseteq counted
    BY <2>5
  <2> HIDE DEF active, counted
  <2>7. Cardinality(active) <= Cardinality(counted) /\ Cardinality(active) \in Nat
    BY <2>3, <2>6, FS_Subset, FS_CardinalityType
  <2>8. Cardinality(active) <= conf.limit
    BY <2>1, <2>3, <2>4, <2>7
  <2> QED BY <2>1, <2>8 DEF active
<1> QED BY <1>1, <1>2, TypeCorrect, PTL DEF HSpec

-------------------------------------------------------------------------------
(***************************************************************************)
(* ExecOutcomes, on which Recovery and Groups are built, allows all that   *)
(* Exec does.                                                              *)
(***************************************************************************)

Outline == INSTANCE ExecOutcomes

\* An instance as Recovery and Groups have it.
MemOf(a) ==
    CASE a.state = "absent" -> "none"
      [] a.state = "inactive" -> "resolved"
      [] OTHER -> a.state

\* The row that RecordHistory writes of an instance that was sent or was not.
RowOf(a, sent) ==
    IF ~sent THEN "none" ELSE IF a.state = "firing" THEN "firing" ELSE "inactive"

\* A resolved instance has its time, and one that is not there was never sent.
Whole(a) ==
    /\ a.state = "inactive" => a.resolvedAt # Zero
    /\ a.state = "absent" => a.lastSent = Zero

AllWhole == \A i \in Instance : Whole(alerts[i])

\* An evaluation that completes takes an instance to one of the outcomes.
LEMMA CompletedOne ==
    ASSUME NEW a \in Alert, Whole(a), NEW ts \in Nat \ {Zero}, NEW seen \in BOOLEAN,
           NEW forDur \in Nat, NEW keepFire \in Nat,
           NEW b, b = Next1(a, seen, ts, forDur, keepFire)
    PROVE  /\ Whole(b)
           /\ <<MemOf(b), RowOf(b, MustSend(b, ts))>> \in Outline!Completed(MemOf(a))
           /\ <<MemOf(b), RowOf(b, MustSend(b, ts))>> \in Outline!Evaluated(MemOf(a), seen)
<1> DEFINE p == Purged(a, ts)
<1>1. /\ p \in Alert /\ Whole(p)
      /\ p.state = a.state \/ (a.state = "inactive" /\ p.state = "absent")
  BY InstanceTypes DEF Purged, NoAlert, Whole
<1> HIDE DEF p
<1>2. CASE seen
  <2> DEFINE m == Matched(p, ts)
  <2>1. /\ m \in Alert /\ m.state \in {"pending", "firing"}
        /\ m.state = "firing" <=> p.state = "firing"
        /\ m.lastSent = p.lastSent
    BY <1>1, InstanceTypes DEF Matched, Active, Alert, AlertState
  <2> HIDE DEF m
  <2>2. b = Advanced(m, ts, forDur)
    BY <1>2 DEF Next1, p, m
  <2>3. /\ b \in Alert /\ b.state \in {"pending", "firing"}
        /\ m.state = "firing" => b.state = "firing"
        /\ b.lastSent = m.lastSent
    BY <2>1, <2>2, InstanceTypes DEF Advanced, Alert
  <2>4. b.state = "pending" => ~MustSend(b, ts)
    BY DEF MustSend
  <2>5. a.state = "absent" /\ b.state = "firing" => MustSend(b, ts)
    BY <1>1, <2>1, <2>3 DEF MustSend, Whole
  <2>6. Whole(b)
    BY <2>3 DEF Whole
  <2>7. a.state \in AlertState /\ (a.state = "firing" => b.state = "firing")
    BY <1>1, <2>1, <2>3 DEF Alert
  <2> QED BY <1>2, <2>3, <2>4, <2>5, <2>6, <2>7
          DEF MemOf, RowOf, AlertState, Outline!Completed, Outline!Unmatched, Outline!Failed, Outline!Evaluated
<1>3. CASE ~seen
  <2>1. b = Unmatched(p, ts, keepFire)
    BY <1>3 DEF Next1, p
  <2>2. CASE p.state = "firing"
    <3>1. b.state = "firing" \/ (b.state = "inactive" /\ b.resolvedAt = ts)
      BY <1>1, <2>1, <2>2 DEF Unmatched, Resolved, KeptSince, Alert
    <3>2. a.state = "firing" /\ Whole(b) /\ (b.state = "inactive" => MustSend(b, ts))
      BY <1>1, <2>2, <3>1 DEF Whole, MustSend
    <3> QED BY <3>1, <3>2 DEF MemOf, RowOf, Outline!Completed, Outline!Unmatched, Outline!Failed, Outline!Evaluated
  <2>3. CASE p.state = "pending"
    <3>1. b = NoAlert /\ a.state = "pending"
      BY <1>1, <2>1, <2>3 DEF Unmatched
    <3>2. Whole(b) /\ ~MustSend(b, ts) /\ b.state = "absent"
      BY <3>1 DEF Whole, MustSend, NoAlert
    <3> QED BY <3>1, <3>2 DEF MemOf, RowOf, Outline!Completed, Outline!Unmatched, Outline!Failed, Outline!Evaluated
  <2>4. CASE p.state = "inactive"
    <3>1. b = p /\ a.state = "inactive" /\ MustSend(b, ts)
      BY <1>1, <2>1, <2>4 DEF Unmatched, Whole, MustSend
    <3> QED BY <1>1, <2>4, <3>1 DEF MemOf, RowOf, Outline!Completed, Outline!Unmatched, Outline!Failed, Outline!Evaluated
  <2>5. CASE p.state = "absent"
    <3>1. b = p /\ a.state \in {"absent", "inactive"} /\ ~MustSend(b, ts)
      BY <1>1, <2>1, <2>5 DEF Unmatched, MustSend
    <3> QED BY <1>1, <2>5, <3>1 DEF MemOf, RowOf, Outline!Completed, Outline!Unmatched, Outline!Failed, Outline!Evaluated
  <2> QED BY <1>1, <2>2, <2>3, <2>4, <2>5 DEF Alert, AlertState
<1> QED BY <1>2, <1>3

\* One that stops at a duplicate does too, without a row.
LEMMA CutShortOne ==
    ASSUME NEW a \in Alert, Whole(a), NEW ts \in Nat \ {Zero}, NEW seen \in BOOLEAN,
           NEW b, b = IF seen THEN Matched(Purged(a, ts), ts) ELSE Purged(a, ts)
    PROVE  /\ Whole(b)
           /\ \/ <<MemOf(b), "none">> = Outline!Failed(MemOf(a))
              \/ <<MemOf(b), "none">> \in Outline!Completed(MemOf(a))
           /\ <<MemOf(b), "none">> \in Outline!Evaluated(MemOf(a), seen)
<1> DEFINE p == Purged(a, ts)
<1>1. /\ p \in Alert /\ Whole(p)
      /\ p.state = a.state \/ (a.state = "inactive" /\ p.state = "absent")
  BY InstanceTypes DEF Purged, NoAlert, Whole
<1>2. b = IF seen THEN Matched(p, ts) ELSE p
  OBVIOUS
<1> HIDE DEF p
<1>3. CASE seen
  <2>1. /\ b.state \in {"pending", "firing"}
        /\ b.state = "firing" <=> a.state = "firing"
    BY <1>1, <1>2, <1>3 DEF Matched, Active, Alert, AlertState
  <2> QED BY <1>1, <1>3, <2>1
          DEF Whole, MemOf, Alert, AlertState,
              Outline!Failed, Outline!Completed, Outline!Unmatched, Outline!Evaluated
<1>4. CASE ~seen
  BY <1>1, <1>2, <1>4
  DEF MemOf, Alert, AlertState, Outline!Failed, Outline!Completed, Outline!Unmatched, Outline!Evaluated
<1> QED BY <1>3, <1>4

\* What a step makes of an instance, as Recovery allows it and as Groups does.
AsInRecovery(i) ==
    LET before == MemOf(alerts[i])
        after  == <<MemOf(alerts'[i]), RowOf(alerts'[i], i \in last'.sent)>>
    IN  \/ after = Outline!Failed(before)
        \/ after \in Outline!Completed(before)
        \/ last'.outcome = "overLimit" /\ after = Outline!Cleared

AsInGroups(i) ==
    \/ <<MemOf(alerts'[i]), RowOf(alerts'[i], i \in last'.sent)>>
          \in Outline!Evaluated(MemOf(alerts[i]), i \in last'.rows)
    \/ last'.outcome = "overLimit"

\* One step of the rule.
LEMMA OutcomeStep ==
    ASSUME HTypeOK, AllWhole, HNext, NEW i \in Instance
    PROVE  Whole(alerts'[i]) /\ AsInRecovery(i) /\ AsInGroups(i)
<1> DEFINE a == alerts[i]
           b == alerts'[i]
           ts == last'.ts
           seen == i \in last'.rows
<1>1. /\ a \in Alert /\ Whole(a) /\ seen \in BOOLEAN
      /\ conf.forDur \in Nat /\ conf.keepFire \in Nat
  BY RuleAssumption DEF HTypeOK, TypeOK, AllWhole, Conf
<1>2. CASE Untouched(i)
  <2>1. b = a /\ i \notin last'.sent
    BY <1>2 DEF Untouched
  <2> QED BY <1>1, <2>1 DEF AsInRecovery, AsInGroups, RowOf, Outline!Failed, Outline!Evaluated
<1>3. CASE ts \in Nat \ {Zero} /\ CutShort(i, seen, ts)
  <2>1. b = (IF seen THEN Matched(Purged(a, ts), ts) ELSE Purged(a, ts)) /\ i \notin last'.sent
    BY <1>3 DEF CutShort
  <2> HIDE DEF a, b, ts, seen
  <2>2. /\ Whole(b)
        /\ \/ <<MemOf(b), "none">> = Outline!Failed(MemOf(a))
           \/ <<MemOf(b), "none">> \in Outline!Completed(MemOf(a))
        /\ <<MemOf(b), "none">> \in Outline!Evaluated(MemOf(a), seen)
    BY <1>1, <1>3, <2>1, CutShortOne
  <2>3. RowOf(b, i \in last'.sent) = "none"
    BY <2>1 DEF RowOf
  <2> QED BY <2>2, <2>3 DEF AsInRecovery, AsInGroups, a, b, seen
<1>4. CASE last'.outcome = "overLimit" /\ Cleared(i)
  <2>1. b = NoAlert /\ i \notin last'.sent
    BY <1>4 DEF Cleared
  <2>2. Whole(b) /\ MemOf(b) = "none" /\ RowOf(b, i \in last'.sent) = "none"
    BY <2>1 DEF Whole, MemOf, RowOf, NoAlert
  <2> QED BY <1>4, <2>2 DEF AsInRecovery, AsInGroups, Outline!Cleared
<1>5. CASE ts \in Nat \ {Zero} /\ Carried(i, seen, ts)
  <2> DEFINE n == Next1(a, seen, ts, conf.forDur, conf.keepFire)
  <2>1. b = Sent1(n, ts) /\ (i \in last'.sent <=> MustSend(n, ts))
    BY <1>5 DEF Carried
  <2> HIDE DEF a, b, ts, seen
  <2>2. n \in Alert
    BY <1>1, <1>5, InstanceTypes DEF Next1
  <2>3. /\ Whole(n)
        /\ <<MemOf(n), RowOf(n, MustSend(n, ts))>> \in Outline!Completed(MemOf(a))
        /\ <<MemOf(n), RowOf(n, MustSend(n, ts))>> \in Outline!Evaluated(MemOf(a), seen)
    BY <1>1, <1>5, CompletedOne
  <2> HIDE DEF n
  <2>4. b.state = n.state /\ b.resolvedAt = n.resolvedAt
    BY <1>5, <2>1, <2>2, SentKeeps
  <2>5. n.state = "absent" => ~MustSend(n, ts)
    BY DEF MustSend
  <2>6. Whole(b)
    BY <2>1, <2>3, <2>4, <2>5 DEF Whole, Sent1
  <2>7. /\ MemOf(b) = MemOf(n) 
        /\ RowOf(b, i \in last'.sent) = RowOf(n, MustSend(n, ts))
    BY <2>1, <2>4 DEF MemOf, RowOf
  <2> QED BY <2>3, <2>6, <2>7 DEF AsInRecovery, AsInGroups, a, b, seen
<1> QED BY <1>2, <1>3, <1>4, <1>5, OneInstance

\* Resolved instances keep their time through purges, reloads and restores.
LEMMA WholeAlways == HSpec => []AllWhole
<1>1. HInit => AllWhole
  BY RuleAssumption DEF HInit, Init, IsRestored, AllWhole, Whole, NoAlert, Active
<1>2. HTypeOK /\ AllWhole /\ [HNext]_hvars => AllWhole'
  <2>1. UNCHANGED hvars /\ AllWhole => AllWhole'
    BY DEF hvars, vars, AllWhole
  <2> QED BY <2>1, OutcomeStep DEF AllWhole
<1> QED BY <1>1, <1>2, TypeCorrect, PTL DEF HSpec

\* Every evaluation and every live update does to an instance, and to its
\* history, one of the things that Recovery supposes and one of those that
\* Groups supposes: what those two show of restarts, retirements and reloads
\* holds of the instances with all their times (rule.go:226-396).
THEOREM ExecIsAsSupposed ==
    HSpec => [][\A i \in Instance : AsInRecovery(i) /\ AsInGroups(i)]_hvars
<1>1. HTypeOK /\ AllWhole /\ [HNext]_hvars
         => [\A i \in Instance : AsInRecovery(i) /\ AsInGroups(i)]_hvars
  BY OutcomeStep
<1> QED BY <1>1, TypeCorrect, WholeAlways, PTL DEF HSpec
==============================================================================
