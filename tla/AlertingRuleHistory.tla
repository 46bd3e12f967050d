------------------------- MODULE AlertingRuleHistory -------------------------
(***************************************************************************)
(* AlertingRule with two history variables, written from the query results *)
(* and the notifications alone, and the properties that relate them to the *)
(* instances Exec keeps.                                                   *)
(***************************************************************************)
EXTENDS AlertingRule

VARIABLES
    run,        \* per instance: whether the latest evaluation returned it,
                \* and since which timestamp every one has said the same
    announced   \* per instance: what the notifier was last handed

hvars == <<vars, run, announced>>

Words == {"nothing", "firing", "resolved", "abandoned"}

Run == [matched : BOOLEAN, since : Nat]

NoRun == [matched |-> FALSE, since |-> Zero]

HTypeOK ==
    /\ TypeOK
    /\ run \in [Instance -> Run]
    /\ announced \in [Instance -> Words]

\* A restored instance goes on with the run it was saved in.
RestoredRun(a) ==
    IF Active(a) /\ a.keepFiringSince = Zero
    THEN [matched |-> TRUE, since |-> a.activeAt]
    ELSE [matched |-> FALSE, since |-> a.keepFiringSince]

HInit ==
    /\ Init
    /\ run = [i \in Instance |-> RestoredRun(alerts[i])]
    /\ announced = [i \in Instance |->
                       IF alerts[i].state = "firing" THEN "firing" ELSE "nothing"]

Continue(r, matched, ts) ==
    IF r.matched = matched /\ r.since # Zero
    THEN r
    ELSE [matched |-> matched, since |-> ts]

\* An evaluation that stopped at a duplicate says something only of the rows
\* it entered, and one that exceeded the limit starts every run anew.
RunAfter(i, step) ==
    CASE step.outcome = "completed" -> Continue(run[i], i \in step.rows, step.ts)
      [] step.outcome = "duplicate" /\ i \in step.rows -> Continue(run[i], TRUE, step.ts)
      [] step.outcome = "overLimit" -> NoRun
      [] OTHER -> run[i]

WordAfter(i, step) ==
    CASE i \in step.sent /\ alerts'[i].state = "firing" -> "firing"
      [] i \in step.sent /\ alerts'[i].state # "firing" -> "resolved"
      [] step.outcome = "overLimit" /\ announced[i] = "firing" -> "abandoned"
      [] OTHER -> announced[i]

HNext ==
    /\ Next
    /\ run' = [i \in Instance |-> RunAfter(i, last')]
    /\ announced' = [i \in Instance |-> WordAfter(i, last')]

HSpec == HInit /\ [][HNext]_hvars

-------------------------------------------------------------------------------
(***************************************************************************)
(* How an instance and its histories agree: the inductive invariants.      *)
(***************************************************************************)

\* An instance and its run: a pending one is counted from the first match of
\* the run, a firing one out of its run is counted from the first miss.
RunAgrees(a, r) ==
    /\ ~Active(a) => ~r.matched
    /\ a.state = "pending" => r.matched /\ r.since = a.activeAt /\ r.since # Zero
    /\ a.state = "firing" =>
          IF r.matched THEN a.keepFiringSince = Zero
                       ELSE a.keepFiringSince = r.since /\ r.since # Zero

RunsAgree == \A i \in Instance : RunAgrees(alerts[i], run[i])

\* An instance and what was announced of it, at an evaluation time of now.
AnnouncementAgrees(a, word, now) ==
    /\ a.state = "firing" <=> word = "firing"
    /\ a.state = "inactive" => word = "resolved" /\ a.resolvedAt # Zero
    /\ a.lastSent <= now

\* No reload changes eval_delay: evaluation times follow the wall clock.
SameDelay == \A c1, c2 \in Confs : c1.evalDelay = c2.evalDelay

AnnouncementsAgree ==
    \A i \in Instance :
        AnnouncementAgrees(alerts[i], announced[i], clock - conf.evalDelay)

-------------------------------------------------------------------------------
(***************************************************************************)
(* Properties.                                                             *)
(***************************************************************************)

Fires(i) == alerts[i].state # "firing" /\ alerts'[i].state = "firing"

\* An instance fires only when every evaluation of the last forDur that
\* looked at it returned it: failed queries, results cut short by a
\* duplicate and reloads in between neither shorten the wait nor break it,
\* and one evaluation without the instance starts the wait again
\* (rule.go:256-342, the pending instance deleted or re-activated).
FiresOnlyAfterFor ==
    [][ \A i \in Instance : Fires(i) =>
            /\ run'[i].matched
            /\ last'.ts - run'[i].since >= conf.forDur ]_hvars

\* The converse: after a completed evaluation no instance that was returned
\* for forDur without a break is still waiting.
NoFiringIsMissed ==
    last.outcome = "completed" =>
        \A i \in last.rows :
            last.ts - run[i].since >= conf.forDur => alerts[i].state = "firing"

Resolves(i) == alerts[i].state = "firing" /\ alerts'[i].state = "inactive"

\* A firing instance is resolved only when every evaluation of the last
\* keepFire that looked at it did not return it; a single match in between,
\* even in a result cut short by a duplicate, starts the wait again
\* (rule.go:283, 314-328).
ResolvesOnlyAfterKeepFiring ==
    [][ \A i \in Instance : Resolves(i) =>
            /\ ~run'[i].matched
            /\ conf.keepFire > 0 => last'.ts - run'[i].since >= conf.keepFire ]_hvars

\* A resolved instance is no longer sent once its retention is over, however
\* many evaluations failed before the one that should have purged it.
ResolvedSendsEnd ==
    \A i \in last.sent :
        alerts[i].state = "inactive" => last.ts - alerts[i].resolvedAt <= resolvedRetention

\* After a completed evaluation the rule holds at most limit pending and
\* firing instances, those kept firing without a match included.
ActiveWithinLimit ==
    last.outcome = "completed" /\ conf.limit > 0 =>
        Cardinality({i \in Instance : Active(alerts[i])}) <= conf.limit

\* The rule implements the life cycle promised to its receivers.
Phase(a) == IF Active(a) THEN a.state ELSE "inactive"

Lifecycle == INSTANCE AlertLifecycle WITH
    Times <- Nat,
    phase <- [i \in Instance |-> Phase(alerts[i])],
    start <- [i \in Instance |-> alerts[i].activeAt],
    told  <- announced

ImplementsLifecycle == Lifecycle!Spec
==============================================================================
