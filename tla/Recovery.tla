------------------------------- MODULE Recovery -------------------------------
(***************************************************************************)
(* What survives the end of a chalert process: the evaluations of a group  *)
(* (Group.Start in rule/group.go), the reloads that retire rules           *)
(* (rule/retire.go), the shutdown or crash, and the next start             *)
(* (cmd/chalert/main.go), over the tables of statestore/clickhouse.go.     *)
(*                                                                         *)
(* Each rule has one instance, named as its rule. The times of an instance *)
(* are left to AlertInstance: an evaluation takes it to any state that     *)
(* some times lead to (ExecOutcomes).                                      *)
(***************************************************************************)
EXTENDS Integers, FiniteSets, ExecOutcomes

CONSTANTS
    Rule,       \* rule IDs: an edit of a rule's query, name or labels is another
    Faults,     \* which of AllFaults may happen
    MaxEdits,   \* bound: edits of the rule files
    MaxRuns     \* bound: starts of the process

AllFaults == {"crash", "load", "save", "history", "limit"}

ASSUME RecoveryAssumption ==
    Faults \subseteq AllFaults /\ MaxEdits \in Nat /\ MaxRuns \in Nat

VARIABLES
    files,      \* the rules of the rule files
    edits,      \* how often they were edited
    runs,       \* how often the process was started
    pc,         \* down, or where the group's goroutine is
    cancelled,  \* ctx is cancelled
    running,    \* the rules of the group
    mem,        \* each rule's alerts
    rows,       \* the alerts an evaluation returned, not yet recorded
    pending,    \* Retirements.pending: the rules of each retirement
    state,      \* alert_state FINAL
    history,    \* the latest row of alert_history
    lost,       \* observer: whose resolved row was lost, or may have been
    held,       \* observer: mem when the last process ended
    ending,     \* observer: how it ended: none, saved, unsaved, crash
    owed,       \* observer: the rules of pending when it was saved
    settled     \* observer: retired rules, resolved and saved inactive, that have no alerts

file_vars == <<files, edits>>
table_vars == <<state, history>>
end_vars == <<held, ending, owed>>
vars == <<file_vars, runs, pc, cancelled, running, mem, rows, pending, table_vars,
          lost, end_vars, settled>>

\* The states of alert_state; a table without a row is none.
Enum == {"none", "inactive", "pending", "firing"}

TypeOK ==
    /\ files \subseteq Rule /\ edits \in 0..MaxEdits /\ runs \in 0..MaxRuns
    /\ pc \in {"down", "idle", "flushed", "evaluated", "stopped"}
    /\ cancelled \in BOOLEAN
    /\ running \subseteq Rule
    /\ mem \in [Rule -> MemStates] /\ \A r \in Rule \ running : mem[r] = "none"
    /\ rows \in [Rule -> {"none", "inactive", "firing"}]
    /\ pending \subseteq (SUBSET Rule) \ {{}}
    /\ state \in [Rule -> Enum]
    /\ history \in [Rule -> {"none", "inactive", "firing"}]
    /\ lost \subseteq Rule /\ owed \subseteq Rule /\ settled \subseteq Rule
    /\ held \in [Rule -> MemStates]
    /\ ending \in {"none", "saved", "unsaved", "crash"}

AllNone == [r \in Rule |-> "none"]

Init ==
    /\ files \in (SUBSET Rule) \ {{}} /\ edits = 0 /\ runs = 0
    /\ pc = "down" /\ cancelled = FALSE
    /\ running = {} /\ mem = AllNone /\ rows = AllNone /\ pending = {}
    /\ state = AllNone /\ history = AllNone
    /\ lost = {} /\ held = AllNone /\ ending = "none" /\ owed = {} /\ settled = {}

\* The rule files are edited, whether chalert runs or not.
Edit(rs) ==
    /\ edits < MaxEdits /\ rs # files
    /\ files' = rs /\ edits' = edits + 1
    /\ UNCHANGED <<runs, pc, cancelled, running, mem, rows, pending, table_vars,
                   lost, end_vars, settled>>

-------------------------------------------------------------------------------
(***************************************************************************)
(* Retirements: Flush writes the resolved rows of each retirement and then *)
(* saves its instances inactive; what is not known to be written is kept,  *)
(* also when it landed before an error was reported. Of the instances      *)
(* missed, those a start did not read, nothing is known any more.          *)
(***************************************************************************)

\* Mutant: the saved state of a retired instance is left as it is.
SavedInactive_Never(saved) == state

SavedInactive(saved) == [r \in Rule |-> IF r \in UNION saved THEN "inactive" ELSE state[r]]

Flush(queue, missed) ==
    \E landed \in SUBSET queue : \E written \in SUBSET landed : \E saved \in SUBSET written :
        /\ "history" \in Faults \/ cancelled' \/ written = queue
        /\ "save" \in Faults \/ saved = written
        /\ cancelled' => written = {}
        /\ pending' = queue \ written
        /\ history' = [r \in Rule |-> IF r \in UNION landed THEN "inactive" ELSE history[r]]
        /\ state' = SavedInactive(saved)
        /\ lost' = (lost \cup missed) \ UNION landed
        /\ settled' = {r \in settled \cup UNION saved : r \notin UNION pending' /\ mem'[r] = "none"}

Retirement(rs) == IF rs = {} THEN {} ELSE {rs}

-------------------------------------------------------------------------------
(***************************************************************************)
(* The start: LoadActive, Restore, Unclaimed and Resolve.                  *)
(***************************************************************************)

\* Mutant: only firing rows are loaded.
LoadActive_Firing == {r \in Rule : state[r] = "firing"}

LoadActive == {r \in Rule : state[r] \in {"pending", "firing"}}

\* The process starts with the rows it loaded: they are restored to their rules,
\* and what was firing of no rule of the files is retired.
StartWith(loaded) ==
    /\ pc = "down" /\ runs < MaxRuns
    /\ pc' = "idle" /\ runs' = runs + 1 /\ cancelled' = FALSE
    /\ running' = files
    /\ mem' = [r \in Rule |-> IF r \in loaded \cap files THEN state[r] ELSE "none"]
    /\ Flush(Retirement({r \in loaded \ files : state[r] = "firing"}), LoadActive \ loaded)
    /\ UNCHANGED <<file_vars, rows, end_vars>>

Start == StartWith(LoadActive)

\* A load that fails is only a warning: the process starts with the rows read
\* before the error.
StartPartlyLoaded == "load" \in Faults /\ \E loaded \in SUBSET LoadActive : StartWith(loaded)

-------------------------------------------------------------------------------
(***************************************************************************)
(* An evaluation: Flush, Exec of every rule, RecordHistory.                *)
(***************************************************************************)

EvalFlush ==
    /\ pc = "idle" /\ pc' = "flushed"
    /\ UNCHANGED <<file_vars, runs, cancelled, running, mem, rows, end_vars>>
    /\ Flush(pending, {})

\* What the next evaluation of its rule may do to an instance.
Outcomes(r) ==
    {Failed(mem[r])}
    \cup (IF cancelled THEN {} ELSE Completed(mem[r]))
    \cup (IF "limit" \in Faults /\ ~cancelled THEN {Cleared} ELSE {})

Exec ==
    /\ pc = "flushed" /\ pc' = "evaluated"
    /\ \E f \in [running -> UNION {Outcomes(r) : r \in running}] :
          /\ \A r \in running : f[r] \in Outcomes(r)
          /\ mem' = [r \in Rule |-> IF r \in running THEN f[r][1] ELSE mem[r]]
          /\ rows' = [r \in Rule |-> IF r \in running THEN f[r][2] ELSE "none"]
          /\ lost' = lost \cup {r \in running : mem[r] = "firing" /\ f[r] = Cleared}
          /\ settled' = {r \in settled : r \in running => f[r][1] = "none"}
    /\ UNCHANGED <<file_vars, runs, cancelled, running, pending, table_vars, end_vars>>

Recorded == {r \in Rule : rows[r] # "none"}

Appended == [r \in Rule |-> IF r \in Recorded THEN rows[r] ELSE history[r]]

RecordHistory ==
    /\ pc = "evaluated" /\ pc' = "idle"
    /\ history' = Appended
    /\ lost' = lost \ Recorded
    /\ rows' = AllNone
    /\ UNCHANGED <<file_vars, runs, cancelled, running, mem, pending, state, end_vars, settled>>

\* The store fails, or the shutdown has cancelled the evaluation: the rows
\* are dropped with a log line, if they did not land all the same.
RecordFailed ==
    /\ pc = "evaluated" /\ pc' = "idle"
    /\ "history" \in Faults \/ cancelled
    /\ \/ history' = history /\ lost' = lost \cup {r \in Rule : rows[r] = "inactive"}
       \/ history' = Appended /\ lost' = lost \ Recorded
    /\ rows' = AllNone
    /\ UNCHANGED <<file_vars, runs, cancelled, running, mem, pending, state,
                   end_vars, settled>>

-------------------------------------------------------------------------------
\* A reload: updateWith keeps the alerts of the rules that stay and retires
\* the others.
Reload ==
    /\ pc = "idle" /\ ~cancelled
    /\ running # files /\ running' = files
    /\ mem' = [r \in Rule |-> IF r \in files THEN mem[r] ELSE "none"]
    /\ UNCHANGED <<file_vars, runs, pc, cancelled, rows, end_vars>>
    /\ Flush(pending \cup Retirement({r \in running \ files : mem[r] = "firing"}), {})

\* SIGTERM cancels ctx, wherever the evaluation is.
Signal ==
    /\ pc \in {"idle", "flushed", "evaluated"} /\ ~cancelled
    /\ cancelled' = TRUE
    /\ UNCHANGED <<file_vars, runs, pc, running, mem, rows, pending, table_vars,
                   lost, end_vars, settled>>

GroupExit ==
    /\ cancelled
    /\ pc = "idle" /\ pc' = "stopped"
    /\ UNCHANGED <<file_vars, runs, cancelled, running, mem, rows, pending, table_vars,
                   lost, end_vars, settled>>

\* What ends with the process.
Ended(how) ==
    /\ pc' = "down"
    /\ running' = {} /\ mem' = AllNone /\ rows' = AllNone /\ pending' = {}
    /\ held' = mem /\ ending' = how /\ owed' = UNION pending
    /\ UNCHANGED <<file_vars, runs, cancelled, history, settled>>

\* Mutant: the retirements still unwritten are not saved.
Saved_WithoutUnwritten(r) ==
    CASE mem[r] = "none" -> state[r]
      [] mem[r] = "resolved" -> "inactive"
      [] OTHER -> mem[r]

\* Save's row of an instance: of the rows of one Save the last one counts.
Saved(r) ==
    CASE r \in UNION pending -> "firing"
      [] r \notin UNION pending /\ mem[r] = "none" -> state[r]
      [] r \notin UNION pending /\ mem[r] = "resolved" -> "inactive"
      [] OTHER -> mem[r]

SavedState == [r \in Rule |-> Saved(r)]

persistAllState ==
    /\ pc = "stopped"
    /\ state' = SavedState
    /\ Ended("saved")
    /\ UNCHANGED lost

\* What the process alone knows of the instances.
Known == {r \in Rule : mem[r] # "none" \/ rows[r] # "none"} \cup UNION pending

persistFailed ==
    /\ "save" \in Faults
    /\ pc = "stopped"
    /\ \/ state' = state /\ lost' = lost \cup Known
       \/ state' = SavedState /\ UNCHANGED lost
    /\ Ended("unsaved")

Crash ==
    /\ "crash" \in Faults
    /\ pc # "down"
    /\ lost' = lost \cup Known
    /\ Ended("crash")
    /\ UNCHANGED state

Next ==
    \/ \E rs \in (SUBSET Rule) \ {{}} : Edit(rs)
    \/ Start \/ StartPartlyLoaded
    \/ EvalFlush \/ Exec \/ RecordHistory \/ RecordFailed
    \/ Reload
    \/ Signal \/ GroupExit \/ persistAllState \/ persistFailed \/ Crash

Spec == Init /\ [][Next]_vars

-------------------------------------------------------------------------------
(***************************************************************************)
(* Properties.                                                             *)
(***************************************************************************)

\* Who still resolves an instance: the rule that holds it firing, its result,
\* a retirement, or the next start.
Accounted(r) ==
    IF pc = "down"
    THEN state[r] = "firing"
    ELSE mem[r] = "firing" \/ rows[r] = "inactive" \/ r \in UNION pending

\* An instance's history stays firing only where its resolved row was lost:
\* its write failed or was cut off by the shutdown, the limit dropped the
\* instance, the process crashed, the final save failed, or the load failed
\* before it read the row. Retirements and restarts lose none (retire.go:12-26).
NeverStuckFiring ==
    \A r \in Rule : history[r] = "firing" => Accounted(r) \/ r \in lost

\* A start after a saved shutdown takes up every instance where it was, if
\* its rule is still there; retirements that shutdown saved as firing are the
\* only ones it may take up as firing instead (main.go:201-247).
RestartKeepsAlerts ==
    [][ Start /\ ending = "saved"
        => \A r \in files :
              /\ held[r] = "firing" => mem'[r] = "firing"
              /\ held[r] = "pending" => mem'[r] = IF r \in owed THEN "firing" ELSE "pending"
      ]_vars

\* retire.go:25: once a retirement is written, no later restart resolves its
\* instances again.
SettledOnce ==
    \A r \in settled : state[r] \notin {"firing", "pending"}

(***************************************************************************)
(* What comments and documents say and the code does not do.               *)
(***************************************************************************)

\* statestore/clickhouse.go:8: alert_state is the "current state" table:
\* after a saved shutdown its active rows are what the process held.
StateIsCurrent ==
    pc = "down" /\ ending = "saved" =>
        \A r \in Rule : state[r] \in {"pending", "firing"} => held[r] = state[r] \/ r \in owed
==============================================================================
