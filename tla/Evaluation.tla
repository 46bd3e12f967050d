------------------------------ MODULE Evaluation ------------------------------
(***************************************************************************)
(* One evaluation of a group from end to end: eval in Group.Start          *)
(* (rule/group.go) runs execRules, sends the alerts to every Alertmanager  *)
(* (AlertManager.Send, notifier/alertmanager.go), writes their history and *)
(* records its Evaluations, whatever fails or panics on the way.           *)
(*                                                                         *)
(* Flush, which comes first, is Retirements'; a group has rules, for       *)
(* without any eval returns before execRules.                              *)
(***************************************************************************)
EXTENDS ExecRules

CONSTANT Alertmanager   \* am.urls

ASSUME EvaluationAssumption == IsFiniteSet(Alertmanager)

VARIABLES
    step,       \* where eval is: exec, send, history, log or returned
    alerts,     \* allAlerts: the rules that have alerts in it
    sender,     \* the goroutine of each Alertmanager
    sendTo,     \* observer: what came of each sendTo
    errCh,      \* the errors in the channel errCh
    errs,       \* the errors Send returns
    tried,      \* the alerts RecordHistory was called with
    log         \* the Evaluations recorded

own_vars == <<step, alerts, sender, sendTo, errCh, errs, tried, log>>
eval_vars == <<vars, own_vars>>

SenderPCs == {"idle", "sending", "failed", "leaving", "done"}

EvalTypeOK ==
    /\ step \in {"exec", "send", "history", "log", "returned"}
    /\ alerts \subseteq all
    /\ sender \in [Alertmanager -> SenderPCs]
    /\ sendTo \in [Alertmanager -> Outcomes \cup {"none"}]
    /\ errCh \subseteq Alertmanager /\ errs \subseteq Alertmanager
    /\ tried \subseteq all
    /\ log \in {<<>>, evals}

EvalInit ==
    /\ Init
    /\ step = "exec" /\ alerts = {}
    /\ sender = [u \in Alertmanager |-> "idle"]
    /\ sendTo = [u \in Alertmanager |-> "none"]
    /\ errCh = {} /\ errs = {} /\ tried = {} /\ log = <<>>

\* execRules.
ExecStep == Next /\ UNCHANGED own_vars

\* execRules returned.  A rule that succeeded may have nothing to send.
Executed ==
    /\ step = "exec" /\ main = "returned"
    /\ alerts' \in SUBSET all
    /\ step' = IF alerts' = {} THEN "log" ELSE "send"
    /\ UNCHANGED <<vars, sender, sendTo, errCh, errs, tried, log>>

-------------------------------------------------------------------------------
SenderGoto(u, from, to) == sender[u] = from /\ sender' = [sender EXCEPT ![u] = to]

\* Send's loop over the URLs: wg.Add, and the goroutine.
StartSender(u) ==
    /\ step = "send"
    /\ SenderGoto(u, "idle", "sending")
    /\ UNCHANGED <<vars, step, alerts, sendTo, errCh, errs, tried, log>>

\* A panic is recovered and reported to nobody.
SendTo(u) ==
    /\ \E o \in Outcomes :
          /\ SenderGoto(u, "sending", IF o = "failed" THEN "failed" ELSE "leaving")
          /\ sendTo' = [sendTo EXCEPT ![u] = o]
    /\ UNCHANGED <<vars, step, alerts, errCh, errs, tried, log>>

\* Mutant: errCh has room for one error.
PutError_RoomForOne(u) ==
    /\ Cardinality(errCh) < 1
    /\ SenderGoto(u, "failed", "leaving")
    /\ errCh' = errCh \cup {u}
    /\ UNCHANGED <<vars, step, alerts, sendTo, errs, tried, log>>

PutError(u) ==
    /\ Cardinality(errCh) < Cardinality(Alertmanager)
    /\ SenderGoto(u, "failed", "leaving")
    /\ errCh' = errCh \cup {u}
    /\ UNCHANGED <<vars, step, alerts, sendTo, errs, tried, log>>

SenderDone(u) ==
    /\ SenderGoto(u, "leaving", "done")
    /\ UNCHANGED <<vars, step, alerts, sendTo, errCh, errs, tried, log>>

\* Mutant: wg.Done comes before the send on errCh.
SendReturned_EarlyDone ==
    /\ step = "send"
    /\ \A u \in Alertmanager : sender[u] \in {"failed", "leaving", "done"}
    /\ errs' = errCh
    /\ step' = "history"
    /\ UNCHANGED <<vars, alerts, sender, sendTo, errCh, tried, log>>

\* Mutant: eval gives up when a send failed.
SendReturned_GivesUp ==
    /\ step = "send"
    /\ \A u \in Alertmanager : sender[u] = "done"
    /\ errs' = errCh
    /\ step' = IF errs' = {} THEN "history" ELSE "returned"
    /\ UNCHANGED <<vars, alerts, sender, sendTo, errCh, tried, log>>

\* wg.Wait, close(errCh), and the range over it; eval only logs the error.
SendReturned ==
    /\ step = "send"
    /\ \A u \in Alertmanager : sender[u] = "done"
    /\ errs' = errCh
    /\ step' = "history"
    /\ UNCHANGED <<vars, alerts, sender, sendTo, errCh, tried, log>>

-------------------------------------------------------------------------------
\* A failed write is only logged.
RecordHistory ==
    /\ step = "history"
    /\ tried' = alerts
    /\ step' = "log"
    /\ UNCHANGED <<vars, alerts, sender, sendTo, errCh, errs, log>>

RecordEvaluations ==
    /\ step = "log"
    /\ log' = evals
    /\ step' = "returned"
    /\ UNCHANGED <<vars, alerts, sender, sendTo, errCh, errs, tried>>

Sender(u) == StartSender(u) \/ SendTo(u) \/ PutError(u) \/ SenderDone(u)

Eval == Executed \/ SendReturned \/ RecordHistory \/ RecordEvaluations

EvalNext == ExecStep \/ Eval \/ (\E u \in Alertmanager : Sender(u))

EvalSpec == EvalInit /\ [][EvalNext]_eval_vars

\* As ExecRules'; a send ends at the HTTP client's timeout.
EvalFairness ==
    /\ Fairness
    /\ WF_eval_vars(Eval)
    /\ \A u \in Alertmanager : WF_eval_vars(Sender(u))

FairEvalSpec == EvalSpec /\ EvalFairness

-------------------------------------------------------------------------------
(***************************************************************************)
(* Properties.                                                             *)
(***************************************************************************)

\* A goroutine that has a result or an error to send can send it: no channel
\* is closed, which would make it panic in its recover handler, outside any
\* other, and none is full, which would block it and whoever waits for it
\* (group.go:304-333, alertmanager.go:110-136).
SendsSucceed ==
    /\ NoSendAfterClose
    /\ \A r \in Rule : pc[r] \in {"executed", "recovering"} => Len(results) < Len(order)
    /\ \A u \in Alertmanager :
          sender[u] = "failed" => Cardinality(errCh) < Cardinality(Alertmanager)

\* Once Send has returned no sender is at work, and Send returned exactly the
\* errors of those that failed (alertmanager.go:110-151).
FailuresReported ==
    step \notin {"exec", "send"} =>
        /\ \A u \in Alertmanager : sender[u] \in {"idle", "done"}
        /\ errs = {u \in Alertmanager : sendTo[u] = "failed"}

\* An evaluation that returns has tried every Alertmanager and the history
\* with all its alerts, and recorded one Evaluation for each rule, however
\* many of its rules, sends and writes failed (group.go:166-238).
NothingSkipped ==
    step = "returned" =>
        /\ tried = alerts
        /\ alerts # {} => \A u \in Alertmanager : sendTo[u] # "none"
        /\ Len(log) = Cardinality(Rule)
        /\ \A r \in Rule : \E n \in DOMAIN log :
              log[n] = [rule |-> r, ok |-> outcome[r] = "ok"]

\* An evaluation returns, whatever fails or panics: no goroutine of execRules
\* waits for a token or a place in the channel for good, no sender for a place
\* in errCh, and no eval for either (group.go:166-238).
EvaluationReturns == <>(step = "returned")
==============================================================================
