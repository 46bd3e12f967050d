# chalert, verified

chalert evaluates alerting rules, each a ClickHouse query, on the tickers of
their groups, keeps a state machine per alert instance, sends what fires and
resolves to Alertmanagers, and records it in two ClickHouse tables. This
directory holds TLA+ models of that program, the TLC configurations that check
them on small instances, and TLAPS proofs of the results that hold for every
instance. Line numbers refer to the files under `src/`.

`PROJECT.json` lists the components, the runs, the mutants (for every property
a plausible bug that breaks it), the source lines of every definition, the
findings, the hazards and the theorems.

## The system

| Component | State | Operations | Interacts with |
|---|---|---|---|
| Alerting rule (`rule/rule.go`) | `alerts`: the instances by label hash, with state and times; the settings | `Exec`, `alertsToSend`, `Restore`, `GetAlerts` | run by its group; queries the datasource |
| Rule evaluation (`rule/group.go`, `execRules`) | semaphore, results channel, wait group of one evaluation | sequential or concurrent execution, recovery of panics | rules; returns alerts and evaluation records |
| Group loop (`rule/group.go`, `Start`) | rules, settings, checksum; `doneCh`, `finishedCh`, `updateCh` | `eval` per tick, `UpdateWith`, `Close`, `Retire` | notifier, state store, retirements, evaluation log; commanded by main |
| Retirements (`rule/retire.go`) | queue of unwritten resolved rows, mutex | `Resolve`, `Flush`, `Unwritten` | called by main, by every group, and at shutdown |
| State store (`statestore/clickhouse.go`) | tables `alert_state` (latest row per instance), `alert_history` (appended) | `Save`, `LoadActive`, `RecordHistory` | groups, retirements, main |
| Notifier (`notifier/alertmanager.go`) | none | `Send` to every Alertmanager | groups |
| Main (`cmd/chalert/main.go`) | the groups, `lastFP`, three trigger channels, `ctx` | start, reload, shutdown | everything |
| Web server (`web/httpserver.go`) | readiness, reload function | `POST /-/reload`, health and readiness | main |
| Configuration (`config/config.go`) | none | read, fingerprint, parse, validate, rule identity | main |
| Datasource (`datasource/clickhouse.go`) | none | `Query`: the rows of a result as labels and a value | rules |
| Evaluation log (`rule/evaluationlog.go`) | none | one record per rule and evaluation | groups |
| ClickHouse client, metrics | none that decides anything | connections; counters | main |

What is hard in it:

* **Sequences.** An instance's fate follows from a long run of evaluations
  that match, miss, fail, stop at a duplicate or exceed the limit, with reloads
  of the settings in between, and from comparisons of times on two clocks
  (evaluation time, shifted by `eval_delay`, and wall time).
* **Concurrency.** The goroutines of a concurrent evaluation; every group and
  the main goroutine in the retirement queue; the main goroutine commanding
  group loops through channels while they evaluate.
* **Failure.** Every ClickHouse call and every send may fail, most failures
  are only logged; the process may crash or be stopped at any point, and what
  it left in the tables is what the next one starts from.
* **Identity.** Rules, groups and instances are found again by hashes of what
  files and results say: in a reload, after a restart, in the next evaluation.
  What is too much or too little in a hash loses or mixes up state.
* **Time.** An Alertmanager resolves an alert by itself unless it is sent again
  in time.

What makes each part correct:

* a rule fires an instance only after `for`, without missing one, resolves it
  only after `keep_firing_for`, keeps within its limit, and its receivers' last
  word on each instance is what it holds;
* an evaluation runs every rule once, never more than `concurrency` at a time,
  sends, records and logs what came of it, and returns, whatever fails or
  panics;
* the same row is the same instance in the next evaluation, and a rule or
  group that an edit leaves alone keeps its instances;
* no retirement is lost between queue, history and the saved state;
* receivers show an alert while its rule holds it firing and not much longer;
* the rules in the files are the rules that run, reload requests are served,
  SIGTERM ends the process with nothing left evaluating;
* a restart goes on where the last process stopped, and no instance's history
  stays firing without somebody who will resolve it.

## Modules

| Module | Models | Composes | Checked by | Proved in |
|---|---|---|---|---|
| `AlertInstance` | what `Exec` and `alertsToSend` do to one instance and to the map | | through the modules below | |
| `AlertingRule` | one rule under evaluations and live updates | `AlertInstance` | `MCAlertingRule` | `AlertingRule_proofs` |
| `AlertingRuleHistory` | the rule with two histories: the run of query results each instance is in, and the last word sent of it | `AlertingRule`, `AlertLifecycle` | `MCAlertingRule` | `AlertingRule_proofs` |
| `AlertLifecycle` | abstract: the life cycle a rule promises its receivers | | as a property of the rule | `AlertingRule_proofs` |
| `ExecOutcomes` | what an evaluation does to one instance, times left out | | through `Recovery` and `Groups` | `AlertingRule_proofs` |
| `ExecRules` | one evaluation of a group's rules | | through `Evaluation` | `Evaluation_proofs` |
| `Evaluation` | the whole evaluation: rules, sends to every Alertmanager, history, log | `ExecRules` | `MCEvaluation` | `Evaluation_proofs` |
| `Rows` | from a query's rows and columns to instances | | `MCRows` | `Rows_proofs` |
| `Retirements` | the retirement queue under all its callers | | `MCRetirements` | `Retirements_proofs` |
| `Delivery` | a group's evaluations of one instance and its sends, as the Alertmanagers see them | `AlertInstance` | `MCDelivery` | `Delivery_proofs` |
| `Supervisor` | the main goroutine after the start, and the loops of the groups | | `MCSupervisor` | `Supervisor_proofs` |
| `Recovery` | processes one after the other over the two tables, under every fault | `ExecOutcomes` | `MCRecovery` | `Recovery_proofs` |
| `Groups` | rules and groups by identity, through edits, reloads and restarts | `ExecOutcomes` | `MCGroups` | `Groups_proofs` |

The `MC` modules hold the values of constants. `MCRows` also assumes what a
theorem supposes of them beyond `Rows`' own assumptions (`SeparatorFree`).

### AlertInstance, AlertingRule

`alerts` is `ar.alerts` as a function; an identity without an entry is
`NoAlert`. Times are naturals, `Zero` is the zero `time.Time`. `Exec` and
`updateWith` both run on the group's goroutine, so each is one step; `Exec`
splits into one action per outcome: a failed query, too many rows, a duplicate
label set (which returns in the middle, with the purge done and earlier rows
entered), more active instances than the limit (which empties the map), and a
completed evaluation. The database is an input: any set of instances, any
outcome. `last` is an observer of what a step did. `Init` takes every map that
`Restore` can leave.

`AlertingRuleHistory` adds `run` and `announced`, written from query results
and notifications alone, and never read by the rule. Its properties compare
the instances with them: `FiresOnlyAfterFor`, `ResolvesOnlyAfterKeepFiring`,
`NoFiringIsMissed`, `ResolvedSendsEnd`, `AnnouncementsAgree`,
`ActiveWithinLimit`. `AlertLifecycle` is what receivers may rely on, and
`ImplementsLifecycle` is the refinement.

### ExecOutcomes

`Recovery` and `Groups` are about tables, rules and groups, and leave out the
times of instances. What they suppose of an evaluation is here: to which state
it may take an instance from which, and with which row for the history. The
theorem `ExecIsAsSupposed` shows that a rule with all its times does nothing
else, so that the two rest on `AlertInstance` and not on a second reading of
the code.

### ExecRules

One step per channel or wait-group operation of `execRules` and its
goroutines: start, acquire the semaphore, execute, send the result or recover
and report the panic, release, done; the closer that waits and closes; the
collector. With a concurrency of 1 the sequential path runs instead.

### Evaluation

`eval` around `execRules`: every step of `ExecRules` is a step of it
(`ExecStep`), and `EvaluationRunsExecRules` proves that it implements
`ExecRules`. Then come the alerts of rules that succeeded (some or none of
them: a rule may have nothing to send), `Send` with a goroutine per
Alertmanager and its error channel, the history and the log. A panic of a
sender is recovered, and `Send` does not report it; `FailuresReported` is
about errors.

### Rows

A result is columns and rows of cells. A column has a name, the type ClickHouse
reports, and the Go value the driver scans it into (`Scan`): a pointer or not,
to a string, a number, something that prints itself (times, UUIDs, addresses,
decimals, big integers) or something else. `mapRows` decides by the type's name
what is a label, the value or a timestamp, and formats a cell by its Go value;
`buildLabels` merges the rule's labels, a map, into those of a row in any order;
`hashLabels` makes of them the instance's identity. Names and types are
sequences of pieces, so that a type has a prefix and concatenations that read
the same are equal; the hash function itself is taken to be injective. The same
result is evaluated twice, as the evaluations of a condition that persists:
where `%v` prints a pointer's address, the two see different ones. That is so of
numbers and of what is no string and does not print itself; a NULL is "" of a
string and "<nil>" of everything else.

### Retirements

Workers are the groups' goroutines and main. `Resolve` is split at its locks,
`Flush` at its writes, which happen under the mutex; a write of history
succeeds, fails, or lands although it reports an error. A shutdown cancels the
context, lets each group leave between two evaluations, and saves what rules
hold and what is unwritten.

### Delivery

The loop of a group for one instance of one rule, with the wall clock, the
ticker and the evaluation clock, and `shown`, the last alert each Alertmanager
took. A send reaches any subset of the receivers. Evaluations and their sends
take up to `MaxExec`, which is assumed below the interval; an evaluation that
overruns its interval delays the next tick (Go tickers drop ticks), which the
bound of `StaysFiring` does not cover. An Alertmanager is outside the
repository: it keeps the last alert it took and shows it as firing until its
`EndsAt`.

### Supervisor

The main goroutine's `select` and, step by step, `reload`, `reloadGroups` and
the shutdown; each group's loop with its evaluation, its select, and the
window between the receive of an update and its taking over under the group's
lock. `UpdateWith` and `Close` are rendezvous. The rule files are edited at
any moment, and edited back; a content of the files is rejected or gives groups
checksums. The observer `awaited` says that a request was made and the files
not read since, and `raced` which groups the latest comparison of checksums saw
between the receipt of other rules and their taking over. `Triggers` names what
a run allows: the periodic check, the endpoint, SIGHUP and SIGTERM.
`ParseFailed` stands for a content that does not parse and for ClickHouse
failing to hash its queries.

### Recovery

A process starts from `alert_state`, evaluates, reloads, and ends in a
shutdown that saves, in one whose save fails, or in a crash; then the next one
starts. Each rule ID has one instance; an edit of a rule is another rule ID.
An evaluation's `Flush`, `Exec` and `RecordHistory` are separate steps, since
a signal or a crash may come between them; the times of an instance are left
out, so `Completed` allows each state that `Exec` takes an instance to under
some times. A write may fail, or land although it reports an error. A load that
breaks off is only a warning, and the process starts with the rows it read
before (`StartPartlyLoaded`); of an instance whose row it did not reach, nobody
knows any more. `Faults` names the faults a run allows.

### Groups

A content of the rule files is a sequence of groups with their rules. The
first half of the module says what chalert makes of it: which contents are
rejected, the IDs of rules and of groups, checksums, merged labels, the
registry in which the last group of an ID wins. The second half runs contents:
a start with `Restore` and `Unclaimed`, evaluations, a reload step by step (each
group is removed, kept, updated or started on its own, with evaluations of the
others between), a shutdown with `persistAllState`. An update is three steps, as
in `Supervisor`: main compares checksums (`UpdateGroup`), the group receives the
update (`UpdateWith`), and takes it over later (`TakeOver`); `raced` are again
the groups compared in between. Instances are saved and loaded pending and
firing. Rule and label
hashes are taken to be injective; which queries hash alike at parse time and in
ClickHouse are constants, and the group's ID keeps the missing separator
between name and interval. Writes succeed, since their failures are
`Recovery`'s and `Retirements`'. A rule that stands in two groups has its
instances twice, and a shutdown saves both under one key with one version: if
they are in different states, either row may be the one that is loaded
(`ambiguous`).

## Runs

| Run | Question | Instance and bounds |
|---|---|---|
| `rule` | do instances, run histories and announcements agree through waits, firings, keep-firing, purges, an exceeded limit, failures, duplicates and reloads; does the rule implement `AlertLifecycle`? | two instances, every restored map of `MCAlertingRule`, its three settings, gaps of up to `MaxGap`, time up to `MaxTime` |
| `evaluation` | each rule once, bounded concurrency, no send that blocks or finds its channel closed, every sender heard, nothing skipped after a failure, and a return | three rules, one or two at a time; two Alertmanagers |
| `rows` | do the rows of a result make the instances that comments promise, the same in each evaluation? | 5 headers of two label columns under all 256 pairs of rows of four cells, 80 headers of mixed types with and without NULL; seven label sets of the rule |
| `groups` | does what is declared run, and what becomes of instances when rules and groups change their identity or do not? | eight contents (two rejected), two edits or reverts, two processes |
| `retire` | is a retirement lost; is it written in the end? | two instances, main and two groups |
| `delivery` | do the receivers follow the rule? | two receivers, interval 2, `eval_delay` 1, evaluations of up to half an interval, 7 ticks: more than the four intervals of an alert |
| `supervisor` | are requests served, do the loaded groups run, is nothing evaluating what is retired or persisted, does the content that stays run in the end, and does SIGTERM end the process wherever a reload is? | two groups, three contents (one rejected), two edits or reverts, all triggers, failing reloads |
| `recovery` | who resolves an instance whose history says firing, and does a restart take alerts up? | a rule and its edited version, two edits, two processes, all five faults, a load that breaks off among them |

The bounds are small because what the properties are about fits in them: an
episode of an instance needs a wait, a firing, a miss and a purge, which
`MaxTime` allows from every restored map; a race needs two groups or two workers; a
loss between processes needs a stop, a start and one edit on each side. Each
property has a mutant of the code that TLC finds within the same bounds.
The type invariants of `rule`, `rows` and `groups` are checked in their runs,
those of the other modules are proved (`TypeCorrect`, `ExecTypeCorrect`,
`EvaluationTypeCorrect`) and not checked again.
Deadlock is not checked where the system may stop (a shutdown, the end of an
evaluation, the bound on time).

Runs that are expected to fail show where the program does not do what its
comments or documents say:

| Run | What the code does |
|---|---|
| `delivery_resend` | with an interval below a quarter of the resend delay, an alert that fires without a failure resolves at the receivers between sends |
| `supervisor_revert` | an edit that is reverted between a group's receipt of it and its taking over stays in that group, however often the files are checked |
| `supervisor_hang` | the shutdown's timeout does not cover `Close`, which is where it waits for evaluations |
| `recovery_stale` | a row saved at a shutdown stays the latest after the next process has deleted its instance and shut down, so a later start restores what has ended |

Smaller differences that the modules show in their actions, without a run of
their own:

* a firing instance is sent a second time by the evaluation after its first
  send, before the resend delay (`MustSend`: `lastSent` equals `firedAt`,
  `rule/rule.go:383`), and a resolution is sent by every evaluation for its
  whole retention, where `rule.go:374` says once;
* while queries fail nothing is sent, so receivers resolve firing alerts after
  four intervals, where `DESIGN.md:213` says they continue to fire
  (`EvaluateFailed` in `Delivery`; `StaysFiring` counts such evaluations);
* after a reload that raises `eval_delay`, evaluation times step back, and an
  instance that fires again at a time before its last send is held back for the
  resend delay on its first fire (`MustSend`, `rule.go:383`), where
  `rule.go:382` says that a first fire is always sent. The runs and theorems
  about announcements keep `eval_delay` as it is (`SameDelay`);
* `UpdateWith` returns when the group has received its update, not when it has
  taken it over (`rule/group.go:252-255`), and a later reload that compares
  checksums in between (`main.go:400`) compares with the old rules.
  `supervisor_revert` shows what comes of it; the groups it can happen to
  (`raced`) are the exception of `RunsWhatIsLoaded`, `LatestContentLoads` and
  `RunsAsDeclared`;
* a reload that changes a group's name or interval, or moves a rule to another
  group, retires its instances and starts others, though no rule's identity
  changed (`GroupID`, `StartGroup` in `Groups`), where `README.md:160` says that
  their state is preserved. A restart does preserve it (`RestartKeepsHeld`);
* two groups of a file whose names and intervals read the same when concatenated
  have one ID; the last one runs, and no error says so (`Registry`,
  `rule/group.go:132-143`, `main.go:382-386`). `RunsAsDeclared` names the case;
* a nullable column is unknown to `mapRows` and becomes a label, whose value, of
  nullable integers, floats and booleans, is the address of the cell
  (`clickhouse.go:141`, `:256`), different in each evaluation; a `Decimal` or a
  128-bit integer counts as numeric and then cannot be converted
  (`clickhouse.go:228`, `:271`), where `clickhouse.go:8` lists `Decimal`.
  `SameRowsSameInstances` leaves rows with such addresses out;
* with labels `k` and `exported_k` on a rule, a row's labels depend on the order
  of a map (`rule.go:407`); `Contested` names the keys it decides about, and
  `LabelsAsDocumented` is about all others. Without a separator between key and
  value two label sets can be one instance (`rule.go:499`); `DuplicatesAreReal`
  says that they then have a label each that read the same, key and value
  together, under different names;
* a panic of a sender is logged, and `Send` returns as if the alerts had arrived
  (`alertmanager.go:125-137`);
* `envSubstitute` does not end when the value of a variable contains its own
  placeholder (`config.go:378-390`); this one is not modelled;
* `sigCh` holds one signal, so a SIGTERM that finds a SIGHUP waiting is dropped
  (`Signal`, `cmd/chalert/main.go:320`); `ShutdownHappens` is about a SIGTERM
  that `sigCh` took;
* `alert_state` is written at shutdown and not periodically, so a crash loses
  what fired since (`Crash`), a shutdown during an evaluation drops the rows it
  was about to write (`RecordFailed`), and a retired rule that is back at the
  restart claims its retired instances as firing (`Start`). A load that breaks
  off forgets the rows it did not reach, and a rule that stands in two groups
  may be saved in either's state. `NeverStuckFiring` and `RestartKeepsAlerts`
  name the first of these cases as their exceptions, `NoFiringIsOrphaned` and
  `RestartKeepsHeld` the last.

## Fairness

* `Evaluation`: every goroutine runs on, and one that waits for the semaphore
  gets it in turn (Go's channels serve waiters first in, first out); a query
  ends at `max_execution_time`, a send at the HTTP client's timeout. `Groups`
  and `Rows` state no fairness.
* `Retirements`: groups go on evaluating on their tickers, a goroutine that
  waits for the mutex gets it (Go's mutex hands over to a starved waiter), and
  the store does not fail every write for good.
* `Supervisor`: the main goroutine and the loops run on; a `select` chooses at
  random among ready cases, so a channel that is ready again and again is taken
  (strong fairness, needed of the check's tick and SIGTERM alone: none is
  assumed of the endpoint and SIGHUP); reads and ClickHouse do not fail for
  good; the ticker goes on. `EvalFairness`, that an evaluation ends, is stated
  apart: queries are bounded by `max_execution_time` and sends by the client's
  timeout, and `supervisor_hang` shows what depends on it.

## Proofs

TLAPS proves, for every value of the constants that the modules' assumptions
allow:

* `AlertingRule_proofs`. `TypeCorrect`; `RunsAlwaysAgree`, the inductive
  invariant that ties an instance's times to the run of query results it is in:
  without it nothing says that `activeAt` is the start of an unbroken run of
  matches. From it follow `FiringFollowsARun`, `ResolvingFollowsARun` and
  `NoFiringIsEverMissed`, the other direction: a run of `forDur` does fire.
  `ResolvedSendsAlwaysEnd` and `ActiveAlwaysWithinLimit` follow a completed
  evaluation from the maps it leaves. `AnnouncementsAlwaysAgree` ties an
  instance to the last word sent of it and bounds `lastSent` by the evaluation
  clock; from it follows `RuleImplementsLifecycle`, the refinement. These two
  assume `SameDelay`, that no reload changes `eval_delay`; without it they fail
  (see above). Of the constants the proofs use `RuleAssumption` (finitely many
  instances, restored rows that lie in the past, `eval_delay` less than the
  clock) and `DelaysAssumption`. `ExecIsAsSupposed` links the rule to `Recovery`
  and `Groups`: each step of it takes each instance to an outcome of
  `ExecOutcomes`. It needs that a resolved instance has its time and that one
  not there was never sent (`AllWhole`), and no `SameDelay`: that an instance
  may fire without a row is among the outcomes because this proof demanded it.
* `Retirements_proofs`. `TypeCorrect` includes `FlushAgrees`: the mutex is held
  by the one goroutine inside `Flush`, and what it has passed in the queue is
  written or kept. `NoRetirementIsLost` needs it because `Flush` replaces the
  whole queue at its end. `OwedIsAlwaysSaved` adds the order of a shutdown
  (`StopAgrees`): main retires nothing after it cancels the context, and saves
  only when every group has left. The one assumption is that main and the groups
  are different goroutines. The store's outcomes are arbitrary.
* `Evaluation_proofs`, on `ExecRules` first. `EvaluationIsSafe` is the inductive
  invariant: the tokens in the semaphore are the goroutines between acquire and
  release, each goroutine past its rule has an outcome, and the channel is
  closed only when every goroutine is done. From it follow
  `ConcurrencyIsBounded` and `NothingSentAfterClose`. `EveryRuleIsEvaluatedOnce`
  counts besides: a rule has sent or not, and the results in the channel and
  those collected are as many as the rules that have sent; on the sequential
  path, the collected ones are a prefix of `order`. `ExecAssumption` says that
  the rules are finitely many and that `order` lists them; that it lists each
  once then follows.

  `EvaluationRunsExecRules` gives these to the whole evaluation. `SendersAgree`
  ties each sender to what came of its send and to the error channel;
  `FailuresAreReported` and `NothingIsSkipped` follow, the latter with
  `EveryRuleIsEvaluatedOnce`. `SendsAlwaysSucceed`: a goroutine about to send
  has not sent yet, so its channel, made for one value of each, has room
  (`PlaceForResult`, `PlaceForError`). What termination comes down to is proved
  as two safety theorems, of any number of rules, any concurrency and any
  Alertmanagers: `NeverAllWait`, that an evaluation that has not returned can
  take a step (`CanStep` spells out the guards, since `ENABLED` is out of the
  prover's reach), and `EveryStepIsNearer`, that every step decreases a natural
  number. Only that the scheduler lets some goroutine run is left to fairness
  (`EvaluationReturns`). The Alertmanagers are assumed to be finitely many.
* `Delivery_proofs`. `DeliveryAgrees` is the inductive invariant: an instance
  resolved no later than it stopped firing, and what a receiver took ends at
  most four intervals after the last moment the instance fired (`EndsAgree`).
  `AlwaysEndsWithTheRule` and `ResolutionsEnd` are its consequences, for every
  interval longer than its evaluations and every `eval_delay`.
  `AlwaysStaysFiring` needs `PaceAgrees`: while an instance fires as a receiver
  took it, the next tick lies on the grid of the last attempt to send it, and no
  later than the rounds that `lost` and `missed` allow after what the receiver
  took (`Pace`). Its arithmetic is in the lemmas `PaceMissed`, `PaceLost`,
  `PaceHeld` and `PaceTaken`; that an instance fires as taken only if it has not
  restarted since is `StartsApart`.
* `Groups_proofs`. `HeldCorrect` (a group holds instances of its own rules only)
  makes `NeverOrphaned` inductive: a removed group or dropped rule retires all
  that could be left behind. Its one exception is an instance that two groups
  held in different states at a shutdown (`ambiguous`). `RestartKeeps` adds that
  nothing writes `alert_state` between a shutdown and a start.
  `AlwaysRunsAsDeclared` needs the longest argument (`GroupsCorrect`): each
  group runs, and each received update holds, what a declared group makes of it
  (`Built`), so equal checksums mean equal rules (`ChecksumTells`); a group not
  yet taken up waits in `todo`; one that has received rules other than those of
  the reload is in `raced`, the exception of the theorem; and the last group of
  an ID exists because contents are finite sequences (`LastOf`).
  `GroupsAssumption` says just that of the contents.
* `Supervisor_proofs`. `RequestsAreAlwaysServed` needs no more than the types;
  `AlwaysStoppedBeforehand` adds `StopAgrees`, what is known of the loops while
  the main goroutine goes through the groups it removes or stops.
  `SupervisorAssumption` says which contents there are. `GroupsAgree` follows
  `ruleGroups` through a reload: `LoadedGroupsRun` says that what was loaded is
  there and runs, after any edits, and `WaitsAreAnswered` that the main
  goroutine offers updates to, and closes, only loops that can answer.
  `RunsAlwaysWhatIsLoaded` is about the rules too (`RulesAgree`), under any
  edits and reverts: a group's rules, or those it is about to take over, are
  those of the last reload unless it is in `raced`.
* `Rows_proofs`. `TypeCorrect`; `LabelsAlwaysAsDocumented`, from what
  `buildLabels` has merged so far at each key that no two configured labels
  contest (`Merged`); from it `SameRowsAlwaysSameInstances`, by comparing the
  hashes of the first evaluation with those of the second, whatever the orders
  of the map and the addresses. `DuplicatesAlwaysReal` is about `hashLabels`
  itself (`HashTellsLabels`): two label sets with the same hash are equal or
  have labels that cross, the same text under two names (`Crossing`). A
  separator follows each key and its value, so what is hashed can be cut at the
  last separator (`CutOff`), key after key from the end. At a key that only one
  of them has (`OnlyInOne`), the text of the other ends in the part of an
  earlier key (`EndsInPart`), which then reads the same. This holds where no
  text contains a separator: `SeparatorFree`. The separator is byte 0xff, which
  valid UTF-8 does not contain; a ClickHouse `String` may hold any bytes, and
  the theorem says nothing of one that has it. What a concatenation over all
  keys amounts to is an induction, done here on the least position at which it
  could fail (`FirstOf`, `AccumulationExists`).
* `Recovery_proofs`. `NeverStuck` is inductive once `rows` are known to wait
  only between `Exec` and its recording (`RowsAgree`): every step hands an
  instance on to somebody who resolves it. `SettledForGood` adds that a settled
  rule has neither alerts nor a retirement nor an active row, since the final
  save would otherwise bring it back; `RestartKeeps` adds that nothing writes
  `alert_state` between the final save and the start (`SavedAgrees`). The faults
  are any subset of `AllFaults`, the bounds any numbers; the rows a load did not
  reach are counted among what the faults lose.

The temporal steps combine a step lemma per action with PTL. Every invariant
and every action property that a passing run checks is stated by a theorem.
Only model-checked are the properties under fairness, since liveness and
`ENABLED` are out of the prover's reach: `RetirementsWritten`,
`ShutdownHappens`, `LatestContentLoads`, `EvaluationReturns`; and the runs that
are expected to fail, which need no more than their counterexample.

## Not modelled

* Annotation templates of a rule, timestamps of rows, decoding of YAML, checks
  of single fields and environment substitution of the configuration: they
  decide nothing but whether a file is rejected, or nothing at all.
* Connection set-up and TLS, metrics, log lines, the HTTP endpoints without
  effect on the rest, the 90 days of the history's TTL, charts and examples.
* Recording rules, which the program skips (`rule/group.go:111-116`).
* Evaluations that take longer than their interval (in `Delivery`).
* Failed writes together with groups that share rules: `Groups` has the one,
  `Recovery` the other.

## Plan

Done: the modules above, with proofs about all of them. Open, in
order of what the program has most to lose:

1. `Delivery`: evaluations longer than the interval.
2. Announcements under reloads that change `eval_delay`, which `SameDelay` leaves
   out.
3. An abstract specification of the pair of tables that `Recovery` and
   `Groups` both implement.
