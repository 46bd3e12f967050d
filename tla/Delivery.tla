------------------------------- MODULE Delivery -------------------------------
(***************************************************************************)
(* What the Alertmanagers show of one alert instance: the evaluations of   *)
(* its group on the group's ticker (Group.Start in rule/group.go), the     *)
(* instances they return (AlertInstance) and the sends of                  *)
(* notifier/alertmanager.go, which reach each Alertmanager or not.         *)
(*                                                                         *)
(* An Alertmanager is outside: it keeps the last alert it took, and shows  *)
(* it as firing until its EndsAt.                                          *)
(***************************************************************************)
EXTENDS AlertInstance

CONSTANTS
    Receiver,   \* the Alertmanagers of -notifier.url
    interval,   \* the group's interval
    evalDelay,  \* the group's eval_delay
    forDur,     \* the rule's for
    keepFire,   \* the rule's keep_firing_for
    Epoch,      \* the wall clock of the first tick
    MaxExec,    \* the longest time from a tick to the sends of its evaluation
    MaxTime     \* bound: no evaluation starts after this time

ASSUME DeliveryAssumption ==
    /\ interval \in Nat \ {0} /\ MaxExec \in Nat /\ MaxExec < interval
    /\ evalDelay \in Nat /\ forDur \in Nat /\ keepFire \in Nat
    /\ Epoch \in Nat /\ evalDelay < Epoch /\ MaxTime \in Nat

VARIABLES
    clock,      \* wall clock
    due,        \* the group's next tick
    alert,      \* the instance in ar.alerts
    shown,      \* per receiver: the last alert it took
    missed,     \* observer: evaluations that failed since it took one
    lost,       \* observer: sends that did not reach it since it took one
    ended       \* observer: when the instance last stopped firing

vars == <<clock, due, alert, shown, missed, lost, ended>>

Payload == [status : {"none", "firing", "resolved"}, startsAt : Nat, endsAt : Nat]

TypeOK ==
    /\ clock \in Nat /\ due \in Nat
    /\ clock <= due
    /\ alert \in Alert
    /\ shown \in [Receiver -> Payload]
    /\ missed \in [Receiver -> Nat]
    /\ lost \in [Receiver -> Nat]
    /\ ended \in Nat

Init ==
    /\ clock = Epoch /\ due = Epoch
    /\ alert = NoAlert
    /\ shown = [r \in Receiver |-> [status |-> "none", startsAt |-> Zero, endsAt |-> Zero]]
    /\ missed = [r \in Receiver |-> 0]
    /\ lost = [r \in Receiver |-> 0]
    /\ ended = Zero

-------------------------------------------------------------------------------
\* The loop waits for the ticker.
Wait ==
    /\ clock < due
    /\ clock' = due
    /\ UNCHANGED <<due, alert, shown, missed, lost, ended>>

\* An evaluation starts at a tick and has sent its alerts before the next.
\* The ticker starts once the first evaluation is over.
Tick ==
    /\ clock = due
    /\ due <= MaxTime
    /\ clock' \in due..(due + MaxExec)
    /\ due' = (IF due = Epoch THEN clock' ELSE due) + interval

\* Mutant: eval_delay is applied in the wrong direction.
evalTS_Ahead == due + evalDelay

evalTS == due - evalDelay

Ended == ended' = IF alert.state = "firing" /\ alert'.state # "firing" THEN clock' ELSE ended

\* An evaluation that returns no alerts sends nothing.
SendNothing ==
    /\ missed' = [r \in Receiver |-> missed[r] + 1]
    /\ UNCHANGED <<shown, lost>>

EvaluateFailed ==
    /\ Tick
    /\ UNCHANGED alert
    /\ SendNothing /\ Ended

\* A result with a repeated row fails before or after the instance's row.
EvaluateDuplicate ==
    /\ Tick
    /\ LET a == Purged(alert, evalTS)
       IN  alert' \in {a, Matched(a, evalTS)}
    /\ SendNothing /\ Ended

\* The rule's instances exceed the limit and are dropped.
EvaluateOverLimit ==
    /\ Tick
    /\ alert' = NoAlert
    /\ SendNothing /\ Ended

Evaluated(matched) ==
    LET a == Purged(alert, evalTS)
    IN  IF matched THEN Advanced(Matched(a, evalTS), evalTS, forDur)
                   ELSE Unmatched(a, evalTS, keepFire)

\* Mutant: a resolved alert ends when a firing one would.
buildPayload_Late(a, now) ==
    [status |-> IF a.state = "firing" THEN "firing" ELSE "resolved",
     startsAt |-> a.activeAt, endsAt |-> now + 4 * interval]

\* Mutant: a firing alert's end is counted from its last state change.
buildPayload_FromFiring(a, now) ==
    IF a.state = "firing"
    THEN [status |-> "firing", startsAt |-> a.activeAt, endsAt |-> a.firedAt + 4 * interval]
    ELSE [status |-> "resolved", startsAt |-> a.activeAt, endsAt |-> a.resolvedAt]

\* buildPayload: a firing alert ends four intervals from now unless it is
\* sent again, a resolved one ended when it resolved.
buildPayload(a, now) ==
    IF a.state = "firing"
    THEN [status |-> "firing", startsAt |-> a.activeAt, endsAt |-> now + 4 * interval]
    ELSE [status |-> "resolved", startsAt |-> a.activeAt, endsAt |-> a.resolvedAt]

\* Send: every receiver on its own; a send that fails is only reported.
Send(a, reached) ==
    /\ shown' = [r \in Receiver |-> IF r \in reached THEN buildPayload(a, clock') ELSE shown[r]]
    /\ missed' = [r \in Receiver |-> IF r \in reached THEN 0 ELSE missed[r]]
    /\ lost' = [r \in Receiver |-> IF r \in reached THEN 0 ELSE lost[r] + 1]

EvaluateCompleted(matched, reached) ==
    /\ Tick
    /\ LET a == Evaluated(matched)
       IN  IF MustSend(a, evalTS)
           THEN /\ alert' = [a EXCEPT !.lastSent = evalTS]
                /\ Send(a, reached)
           ELSE /\ alert' = a
                /\ reached = {}
                /\ UNCHANGED <<shown, missed, lost>>
    /\ Ended

Next ==
    \/ Wait
    \/ EvaluateFailed \/ EvaluateDuplicate \/ EvaluateOverLimit
    \/ \E matched \in BOOLEAN, reached \in SUBSET Receiver : EvaluateCompleted(matched, reached)

Spec == Init /\ [][Next]_vars

-------------------------------------------------------------------------------
(***************************************************************************)
(* Properties.                                                             *)
(***************************************************************************)

\* A receiver shows the alert as firing: EndsAt decides, not the status.
Shows(r) == shown[r].endsAt > clock

\* The evaluations from one send of a firing instance to the next.
Rounds == IF ResendDelay = 0 THEN 1 ELSE (ResendDelay + interval - 1) \div interval

\* The receiver took the firing the instance is in.
Took(r) ==
    /\ alert.state = "firing"
    /\ shown[r].status = "firing" /\ shown[r].startsAt = alert.activeAt

\* A firing instance that a receiver took stays firing there through three
\* evaluations without a send, whatever mix of failed evaluations, sends that
\* did not reach it and sends held back by the resend delay they are
\* (alertmanager.go:204-210, rule.go:381-386).
StaysFiring ==
    \A r \in Receiver :
        /\ Took(r)
        /\ Rounds * (1 + lost[r]) + missed[r] <= 3
        => Shows(r)

\* No receiver shows the alert for more than four intervals after it stopped
\* firing, though nothing is sent when the rule drops its instances or when
\* no send of the resolution gets through.
EndsWithTheRule ==
    \A r \in Receiver :
        Shows(r) /\ alert.state # "firing" => clock < ended + 4 * interval

\* A receiver that took the resolution does not show the alert, whatever
\* eval_delay lies between the two clocks.
ResolutionEnds ==
    \A r \in Receiver : shown[r].status = "resolved" => shown[r].endsAt <= clock

(***************************************************************************)
(* What comments and documents say and the code does not do.               *)
(***************************************************************************)

\* alertmanager.go:204: "Alertmanager uses this to auto-resolve if we stop
\* sending": an alert whose evaluations and sends all succeed is not resolved.
ResolvedOnlyIfWeStop ==
    \A r \in Receiver :
        Took(r) /\ lost[r] = 0 /\ missed[r] = 0 => Shows(r)
==============================================================================
