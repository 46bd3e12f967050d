----------------------------- MODULE AlertingRule -----------------------------
(***************************************************************************)
(* One alerting rule under its group's evaluation loop (rule/rule.go and   *)
(* the single goroutine of Group.Start in rule/group.go), over one life of *)
(* the process: from the instances restored at start, through evaluations  *)
(* and live updates of the rule, until the process ends.                   *)
(*                                                                         *)
(* Exec and updateWith both run on the group's goroutine, so each is one   *)
(* step.  The database is outside: a query fails, returns more rows than   *)
(* the limit, repeats a label set, or returns any set of instances.        *)
(***************************************************************************)
EXTENDS AlertInstance

CONSTANTS
    Instance,   \* the identities an instance of this rule can have
    Confs,      \* the settings a reload can give the rule and its group
    Restored,   \* the maps of instances Restore can leave at start
    Epoch,      \* the wall clock when the process starts
    MaxGap,     \* bound: the longest time between two evaluations
    MaxTime     \* bound: the wall clock stops here

Conf == [forDur : Nat, keepFire : Nat, limit : Nat, evalDelay : Nat]

\* What Restore can put into the map: rows of alert_state that are pending
\* or firing, of times before the start, LastSent not among their columns.
IsRestored(a) ==
    \/ a = NoAlert
    \/ /\ Active(a)
       /\ a.activeAt \in 1..Epoch
       /\ a.lastSent = Zero /\ a.resolvedAt = Zero
       /\ a.state = "pending" => a.keepFiringSince = Zero
       /\ a.state = "firing" => a.firedAt \in a.activeAt..Epoch
       /\ a.keepFiringSince \in {Zero} \cup 1..Epoch

ASSUME RuleAssumption ==
    /\ IsFiniteSet(Instance)
    /\ Confs \subseteq Conf
    /\ Epoch \in Nat /\ MaxGap \in Nat /\ MaxTime \in Nat
    /\ \A c \in Confs : c.evalDelay < Epoch
    /\ Restored \subseteq [Instance -> Alert]
    /\ \A r \in Restored : \A i \in Instance : IsRestored(r[i])

VARIABLES
    alerts,     \* ar.alerts
    conf,       \* the rule's and its group's settings in force
    clock,      \* wall clock of the latest tick
    last        \* observer: what the latest step did

vars == <<alerts, conf, clock, last>>

Outcomes == {"start", "failed", "overRows", "duplicate", "overLimit", "completed", "updated"}

\* The observer: the step's outcome, the evaluation's timestamp, the rows it
\* entered into the map and the instances it returned to be sent.
Step(outcome, ts, rows, sent) ==
    [outcome |-> outcome, ts |-> ts, rows |-> rows, sent |-> sent]

TypeOK ==
    /\ alerts \in [Instance -> Alert]
    /\ conf \in Confs
    /\ clock \in Nat /\ clock >= Epoch
    /\ last \in [outcome : Outcomes, ts : Nat, rows : SUBSET Instance, sent : SUBSET Instance]

Init ==
    /\ alerts \in Restored
    /\ conf \in Confs
    /\ clock = Epoch
    /\ last = Step("start", Zero, {}, {})

-------------------------------------------------------------------------------
(***************************************************************************)
(* Exec.  Each outcome is an action; all begin with a tick of the group,   *)
(* whose evaluation looks at the data evalDelay behind the wall clock.     *)
(***************************************************************************)

Tick ==
    /\ clock' \in (clock + 1)..(clock + MaxGap)
    /\ clock' <= MaxTime
    /\ UNCHANGED conf

evalTS == clock' - conf.evalDelay

\* The query fails or panics: the map is not touched.
ExecFailed ==
    /\ Tick
    /\ UNCHANGED alerts
    /\ last' = Step("failed", evalTS, {}, {})

\* More rows than the limit: rejected before any transition.
ExecOverRows ==
    /\ Tick
    /\ conf.limit > 0
    /\ UNCHANGED alerts
    /\ last' = Step("overRows", evalTS, {}, {})

\* A row repeats the label set of an earlier one: Exec returns in the middle
\* of the result, with the purge done and the rows before it entered.
ExecDuplicate(rows) ==
    /\ Tick
    /\ rows # {}
    /\ conf.limit > 0 => Cardinality(rows) < conf.limit
    /\ alerts' = Upsert(Purge(alerts, evalTS), rows, evalTS)
    /\ last' = Step("duplicate", evalTS, rows, {})

\* The map once every row is entered and every instance advanced.
Evaluated(rows) ==
    Advance(Upsert(Purge(alerts, evalTS), rows, evalTS),
            rows, evalTS, conf.forDur, conf.keepFire)

WithinRows(rows) == conf.limit > 0 => Cardinality(rows) <= conf.limit

OverLimit(rows) ==
    conf.limit > 0 /\ NumActive(Evaluated(rows), rows) > conf.limit

\* More active instances than the limit: the map is emptied, nothing is sent.
ExecOverLimit(rows) ==
    /\ Tick
    /\ WithinRows(rows)
    /\ OverLimit(rows)
    /\ alerts' = [i \in Instance |-> NoAlert]
    /\ last' = Step("overLimit", evalTS, rows, {})

ExecCompleted(rows) ==
    /\ Tick
    /\ WithinRows(rows)
    /\ ~OverLimit(rows)
    /\ alerts' = MarkSent(Evaluated(rows), evalTS)
    /\ last' = Step("completed", evalTS, rows, alertsToSend(Evaluated(rows), evalTS))

\* Mutant: the group's own limit is not taken over.
updateWith_KeepsLimit(c) ==
    /\ c # conf
    /\ conf' = [c EXCEPT !.limit = conf.limit]
    /\ last' = Step("updated", Zero, {}, {})
    /\ UNCHANGED <<alerts, clock>>

\* A reload that keeps the rule's identity: settings change, instances stay.
updateWith(c) ==
    /\ c # conf
    /\ conf' = c
    /\ last' = Step("updated", Zero, {}, {})
    /\ UNCHANGED <<alerts, clock>>

Next ==
    \/ ExecFailed
    \/ ExecOverRows
    \/ \E rows \in SUBSET Instance :
          ExecDuplicate(rows) \/ ExecOverLimit(rows) \/ ExecCompleted(rows)
    \/ \E c \in Confs : updateWith(c)

Spec == Init /\ [][Next]_vars

==============================================================================
