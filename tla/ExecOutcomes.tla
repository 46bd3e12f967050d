----------------------------- MODULE ExecOutcomes -----------------------------
(***************************************************************************)
(* What an evaluation does to one instance when its times and the rule's   *)
(* settings are left out (AlertingRule.Exec, rule/rule.go): the state it   *)
(* takes the instance to and the row it returns for the history, as pairs. *)
(* Recovery and Groups are built on these; that AlertInstance, which has   *)
(* the times, does nothing else is proved in AlertingRule_proofs.          *)
(***************************************************************************)

MemStates == {"none", "pending", "firing", "resolved"}

\* A completed Exec.  An instance that was sent before, as a resolved one was,
\* may fire without a row: after a reload that raises eval_delay its last send
\* can lie ahead of the evaluation's time.
Completed(s) ==
    CASE s = "none" -> {<<"none", "none">>, <<"pending", "none">>, <<"firing", "firing">>}
      [] s = "pending" -> {<<"none", "none">>, <<"pending", "none">>,
                           <<"firing", "none">>, <<"firing", "firing">>}
      [] s = "firing" -> {<<"firing", "none">>, <<"firing", "firing">>, <<"resolved", "inactive">>}
      [] s = "resolved" -> {<<"resolved", "inactive">>, <<"none", "none">>, <<"pending", "none">>,
                            <<"firing", "none">>, <<"firing", "firing">>}

\* An instance that no row of the result names.
Unmatched(s) ==
    CASE s \in {"none", "pending"} -> {<<"none", "none">>}
      [] s = "firing" -> {<<"firing", "none">>, <<"firing", "firing">>, <<"resolved", "inactive">>}
      [] s = "resolved" -> {<<"resolved", "inactive">>, <<"none", "none">>}

\* A failed query changes nothing, also when ctx is cancelled.
Failed(s) == <<s, "none">>

\* The rule exceeds its limit: its alerts are dropped.
Cleared == <<"none", "none">>

\* Any outcome but an exceeded limit: an instance of labels that the rule no
\* longer has is named by no row.
Evaluated(s, matchable) ==
    {Failed(s)} \cup (IF matchable THEN Completed(s) ELSE Unmatched(s))
==============================================================================
