------------------------------- MODULE ExecRules -------------------------------
(***************************************************************************)
(* One evaluation of a group's rules: Group.execRules (rule/group.go), with *)
(* its sequential path and its concurrent one, in which a goroutine per    *)
(* rule waits for a semaphore, runs Exec and sends its result on a         *)
(* buffered channel that a closer closes when every goroutine is done.     *)
(*                                                                         *)
(* What Exec does to a rule's instances is AlertingRule's; here it returns *)
(* alerts, fails, or panics.                                               *)
(***************************************************************************)
EXTENDS Integers, Sequences, FiniteSets

CONSTANTS
    Rule,           \* the group's rules
    order,          \* g.Rules: the rules in the order they are started
    Concurrencies   \* the values g.Concurrency may have

ASSUME ExecAssumption ==
    /\ IsFiniteSet(Rule)
    /\ order \in [1..Cardinality(Rule) -> Rule]
    /\ \A r \in Rule : \E n \in DOMAIN order : order[n] = r
    /\ Concurrencies \subseteq Nat \ {0}

VARIABLES
    concurrency,    \* g.Concurrency when the evaluation begins
    main,       \* the group's goroutine: sequential, starting, collecting or returned
    started,    \* how many rules the group's loop has begun
    pc,         \* the goroutine of each rule
    sem,        \* tokens in the channel sem
    results,    \* the channel of results
    closed,     \* the channel of results is closed
    outcome,    \* what Exec did for each rule
    evals,      \* the Evaluations collected, one record each
    all         \* the rules whose alerts were collected

vars == <<concurrency, main, started, pc, sem, results, closed, outcome, evals, all>>

Outcomes == {"ok", "failed", "panicked"}

PCs == {"idle",         \* not started
        "waiting",      \* blocked on sem
        "running",      \* in Exec
        "executed",     \* Exec returned, result not sent
        "reported",     \* result sent, semaphore still held
        "panicked",     \* Exec panicked, semaphore still held
        "recovering",   \* semaphore released, in the recover handler
        "leaving",      \* about to call wg.Done
        "done"}

\* A goroutine between its send on sem and its receive from it.
Holding == {"running", "executed", "reported", "panicked"}

Result(r) == [rule |-> r, outcome |-> outcome[r]]

\* evaluation(): the record of a result, OK unless Exec failed or panicked.
evaluation(res) == [rule |-> res.rule, ok |-> res.outcome = "ok"]

TypeOK ==
    /\ concurrency \in Concurrencies
    /\ main \in {"sequential", "starting", "collecting", "returned"}
    /\ started \in 0..Cardinality(Rule)
    /\ pc \in [Rule -> PCs]
    /\ sem \in Nat
    /\ results \in Seq([rule : Rule, outcome : Outcomes])
    /\ closed \in BOOLEAN
    /\ outcome \in [Rule -> Outcomes \cup {"none"}]
    /\ evals \in Seq([rule : Rule, ok : BOOLEAN])
    /\ all \subseteq Rule

Init ==
    /\ concurrency \in Concurrencies
    /\ main = IF concurrency <= 1 THEN "sequential" ELSE "starting"
    /\ started = 0
    /\ pc = [r \in Rule |-> "idle"]
    /\ sem = 0
    /\ results = <<>>
    /\ closed = FALSE
    /\ outcome = [r \in Rule |-> "none"]
    /\ evals = <<>>
    /\ all = {}

-------------------------------------------------------------------------------
\* Mutant: a panicking rule's evaluation is not recorded.
Collected_SkipsPanics(res) ==
    /\ evals' = IF res.outcome = "panicked" THEN evals ELSE Append(evals, evaluation(res))
    /\ all' = IF res.outcome = "ok" THEN all \cup {res.rule} ELSE all

\* A result becomes an Evaluation, and its alerts are kept when Exec succeeded.
Collected(res) ==
    /\ evals' = Append(evals, evaluation(res))
    /\ all' = IF res.outcome = "ok" THEN all \cup {res.rule} ELSE all

\* The sequential path: execRecovered runs the next rule.
ExecSequential ==
    /\ main = "sequential" /\ started < Len(order)
    /\ LET r == order[started + 1]
       IN  \E o \in Outcomes :
              /\ outcome' = [outcome EXCEPT ![r] = o]
              /\ Collected([rule |-> r, outcome |-> o])
    /\ started' = started + 1
    /\ UNCHANGED <<main, pc, sem, results, closed, concurrency>>

ReturnSequential ==
    /\ main = "sequential" /\ started = Len(order)
    /\ main' = "returned"
    /\ UNCHANGED <<started, pc, sem, results, closed, outcome, evals, all, concurrency>>

\* The concurrent path: the loop starts the next rule's goroutine, and once
\* all are started the closer's.
Start ==
    /\ main = "starting" /\ started < Len(order)
    /\ started' = started + 1
    /\ pc' = [pc EXCEPT ![order[started + 1]] = "waiting"]
    /\ UNCHANGED <<main, sem, results, closed, outcome, evals, all, concurrency>>

StartCloser ==
    /\ main = "starting" /\ started = Len(order)
    /\ main' = "collecting"
    /\ UNCHANGED <<started, pc, sem, results, closed, outcome, evals, all, concurrency>>

Goto(r, from, to) == pc[r] = from /\ pc' = [pc EXCEPT ![r] = to]

\* Mutant: the semaphore's buffer is one too large.
Acquire_OneMore(r) ==
    /\ sem <= concurrency
    /\ Goto(r, "waiting", "running")
    /\ sem' = sem + 1
    /\ UNCHANGED <<main, started, results, closed, outcome, evals, all, concurrency>>

Acquire(r) ==
    /\ sem < concurrency
    /\ Goto(r, "waiting", "running")
    /\ sem' = sem + 1
    /\ UNCHANGED <<main, started, results, closed, outcome, evals, all, concurrency>>

Exec(r) ==
    /\ \E o \in Outcomes :
          /\ Goto(r, "running", IF o = "panicked" THEN "panicked" ELSE "executed")
          /\ outcome' = [outcome EXCEPT ![r] = o]
    /\ UNCHANGED <<main, started, sem, results, closed, evals, all, concurrency>>

\* A send on the channel of results, which has room for one per rule.
Send(r) ==
    /\ Len(results) < Len(order)
    /\ results' = Append(results, Result(r))
    /\ UNCHANGED <<main, started, closed, outcome, evals, all, concurrency>>

Report(r) == Goto(r, "executed", "reported") /\ Send(r) /\ UNCHANGED sem

\* The deferred receive from sem, before the recover handler of a panic.
Release(r) ==
    /\ \/ Goto(r, "reported", "leaving")
       \/ Goto(r, "panicked", "recovering")
    /\ sem' = sem - 1
    /\ UNCHANGED <<main, started, results, closed, outcome, evals, all, concurrency>>

ReportPanic(r) == Goto(r, "recovering", "leaving") /\ Send(r) /\ UNCHANGED sem

WgDone(r) ==
    /\ Goto(r, "leaving", "done")
    /\ UNCHANGED <<main, started, sem, results, closed, outcome, evals, all, concurrency>>

\* Mutant: the goroutines call wg.Add themselves, so one that has not yet
\* run is not waited for.
Close_AddInGoroutine ==
    /\ main = "collecting" /\ ~closed
    /\ \A r \in Rule : pc[r] \in {"waiting", "done"}
    /\ closed' = TRUE
    /\ UNCHANGED <<main, started, pc, sem, results, outcome, evals, all, concurrency>>

\* wg.Wait, then close(results).
Close ==
    /\ main = "collecting" /\ ~closed
    /\ \A r \in Rule : pc[r] = "done"
    /\ closed' = TRUE
    /\ UNCHANGED <<main, started, pc, sem, results, outcome, evals, all, concurrency>>

\* The range over the channel of results.
Collect ==
    /\ main = "collecting" /\ results # <<>>
    /\ Collected(Head(results))
    /\ results' = Tail(results)
    /\ UNCHANGED <<main, started, pc, sem, closed, outcome, concurrency>>

Return ==
    /\ main = "collecting" /\ results = <<>> /\ closed
    /\ main' = "returned"
    /\ UNCHANGED <<started, pc, sem, results, closed, outcome, evals, all, concurrency>>

Goroutine(r) ==
    Acquire(r) \/ Exec(r) \/ Report(r) \/ Release(r) \/ ReportPanic(r) \/ WgDone(r)

Main ==
    ExecSequential \/ ReturnSequential \/ Start \/ StartCloser \/ Collect \/ Return

Next == Main \/ Close \/ (\E r \in Rule : Goroutine(r))

\* The Go scheduler runs every runnable goroutine, and a query is bounded by
\* max_execution_time, so Exec returns.
Fairness ==
    /\ WF_vars(Main)
    /\ WF_vars(Close)
    /\ \A r \in Rule : WF_vars(Goroutine(r))

Spec == Init /\ [][Next]_vars

-------------------------------------------------------------------------------
(***************************************************************************)
(* Properties.                                                             *)
(***************************************************************************)

\* The semaphore counts the goroutines that hold it.
SemCounts == sem = Cardinality({r \in Rule : pc[r] \in Holding})

\* At most concurrency rules are in Exec at once, those about to report or to
\* recover from a panic included (group.go:304, 321-322).
ConcurrencyBound == Cardinality({r \in Rule : pc[r] \in Holding}) <= concurrency

\* No goroutine can still send on the channel of results once it is closed:
\* such a send would panic in the recover handler itself, outside any other
\* (group.go:312-319, 330-333).
NoSendAfterClose == closed => \A r \in Rule : pc[r] = "done"

\* When execRules returns, every rule has exactly one Evaluation, OK exactly
\* when its Exec succeeded, and exactly the alerts of the rules that
\* succeeded are returned: a rule's failure or panic costs no other rule its
\* evaluation (group.go:264-266, 356-358).
EveryRuleOnce ==
    main = "returned" =>
        /\ Len(evals) = Cardinality(Rule)
        /\ \A r \in Rule : \E n \in DOMAIN evals :
              evals[n] = [rule |-> r, ok |-> outcome[r] = "ok"]
        /\ all = {r \in Rule : outcome[r] = "ok"}
==============================================================================
