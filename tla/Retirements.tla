------------------------------ MODULE Retirements ------------------------------
(***************************************************************************)
(* The retirement queue of rule/retire.go under its callers, over one life *)
(* of the process.  The main goroutine retires the rules of removed groups *)
(* and the groups' goroutines those a live update drops (Resolve); every   *)
(* evaluation of every group retries what failed to be written (Flush); a  *)
(* shutdown saves what is still unwritten (Unwritten).  A write to the     *)
(* store succeeds, fails, or lands although an error is returned.          *)
(***************************************************************************)
EXTENDS Integers, Sequences, FiniteSets

CONSTANTS
    Inst,       \* the instances rules hold firing when the process starts
    Group,      \* the goroutines of the groups
    main,       \* the main goroutine
    none        \* no goroutine

ASSUME WorkerAssumption == main \notin Group /\ none \notin Group \cup {main}

Worker == Group \cup {main}

VARIABLES
    phase,      \* running, stopping (ctx cancelled), stopped with its state
                \* saved, or stopped unsaved
    held,       \* the instances running rules hold firing
    pc,         \* what each goroutine does
    arg,        \* the instances each goroutine is retiring
    pending,    \* r.pending: the sets of rows not known to be written
    lock,       \* r.mu: the goroutine that holds it
    n,          \* Flush: the position in r.pending being written
    kept,       \* Flush: the writes that failed
    history,    \* instances whose resolved row is in alert_history
    state       \* the latest alert_state row of each instance

vars == <<phase, held, pc, arg, pending, lock, n, kept, history, state>>

PCs == {"loop",       \* in its own loop
        "resolve",    \* in Resolve, before the append
        "flush",      \* in Resolve, before its Flush
        "history",    \* in Flush, about to write the next resolved rows
        "save",       \* in Flush, about to save them inactive
        "exited"}

\* One write: the rows of at least one instance.
Rows == {rows \in SUBSET Inst : rows # {}}

TypeOK ==
    /\ phase \in {"running", "stopping", "stopped", "unsaved"}
    /\ held \subseteq Inst
    /\ pc \in [Worker -> PCs]
    /\ arg \in [Worker -> SUBSET Inst]
    /\ \A w \in Worker : pc[w] = "resolve" => arg[w] # {}
    /\ pending \in Seq(Rows)
    /\ lock \in Worker \cup {none}
    /\ n \in Nat
    /\ kept \in Seq(Rows)
    /\ history \subseteq Inst
    /\ state \in [Inst -> {"none", "firing", "inactive"}]

Init ==
    /\ phase = "running"
    /\ held = Inst
    /\ pc = [w \in Worker |-> "loop"]
    /\ arg = [w \in Worker |-> {}]
    /\ pending = <<>>
    /\ lock = none
    /\ n = 0
    /\ kept = <<>>
    /\ history = {}
    /\ state = [i \in Inst |-> "none"]

Goto(w, from, to) == pc[w] = from /\ pc' = [pc EXCEPT ![w] = to]

-------------------------------------------------------------------------------
(***************************************************************************)
(* Resolve.                                                                *)
(***************************************************************************)

\* A reload drops rules that hold the instances rows firing.
Resolve(w, rows) ==
    /\ phase = "running"
    /\ rows # {} /\ rows \subseteq held
    /\ Goto(w, "loop", "resolve")
    /\ arg' = [arg EXCEPT ![w] = rows]
    /\ held' = held \ rows
    /\ UNCHANGED <<phase, pending, lock, n, kept, history, state>>

\* r.mu.Lock, the append, r.mu.Unlock.
Enqueue(w) ==
    /\ lock = none
    /\ Goto(w, "resolve", "flush")
    /\ pending' = Append(pending, arg[w])
    /\ arg' = [arg EXCEPT ![w] = {}]
    /\ UNCHANGED <<phase, held, lock, n, kept, history, state>>

(***************************************************************************)
(* Flush, from Resolve or from a group's evaluation.  It holds r.mu across *)
(* its writes to the store.                                                *)
(***************************************************************************)

CanFlush(w) == pc[w] = "flush" \/ (pc[w] = "loop" /\ w \in Group)

\* With nothing pending Flush returns at once.
FlushNothing(w) ==
    /\ lock = none /\ pending = <<>>
    /\ Goto(w, "flush", "loop")
    /\ UNCHANGED <<phase, held, arg, pending, lock, n, kept, history, state>>

\* Mutant: Flush does not take the mutex.
FlushStart_Unlocked(w) ==
    /\ pending # <<>>
    /\ CanFlush(w)
    /\ pc' = [pc EXCEPT ![w] = "history"]
    /\ lock' = w
    /\ n' = 1
    /\ kept' = <<>>
    /\ UNCHANGED <<phase, held, arg, pending, history, state>>

FlushStart(w) ==
    /\ lock = none /\ pending # <<>>
    /\ CanFlush(w)
    /\ pc' = [pc EXCEPT ![w] = "history"]
    /\ lock' = w
    /\ n' = 1
    /\ kept' = <<>>
    /\ UNCHANGED <<phase, held, arg, pending, history, state>>

\* RecordHistory of the next rows.  Once ctx is cancelled it does not succeed.
HistoryWritten(w) ==
    /\ phase = "running"
    /\ n <= Len(pending)
    /\ Goto(w, "history", "save")
    /\ history' = history \cup pending[n]
    /\ UNCHANGED <<phase, held, arg, pending, lock, n, kept, state>>

\* Mutant: the write that failed is not kept for retry.
HistoryFailed_Dropped(w) ==
    /\ n <= Len(pending)
    /\ pc[w] = "history"
    /\ n' = n + 1
    /\ UNCHANGED <<phase, held, pc, arg, pending, lock, kept, history, state>>

HistoryFailed(w) ==
    /\ n <= Len(pending)
    /\ pc[w] = "history"
    /\ \/ UNCHANGED history
       \/ history' = history \cup pending[n]
    /\ kept' = Append(kept, pending[n])
    /\ n' = n + 1
    /\ UNCHANGED <<phase, held, pc, arg, pending, lock, state>>

\* Save of the written rows as inactive; its failure is only logged.
SaveInactive(w) ==
    /\ Goto(w, "save", "history")
    /\ \/ UNCHANGED state
       \/ state' = [i \in Inst |-> IF i \in pending[n] THEN "inactive" ELSE state[i]]
    /\ n' = n + 1
    /\ UNCHANGED <<phase, held, arg, pending, lock, kept, history>>

\* Mutant: the queue is emptied once it has been gone through.
FlushEnd_Emptied(w) ==
    /\ n > Len(pending)
    /\ Goto(w, "history", "loop")
    /\ pending' = <<>>
    /\ lock' = none /\ n' = 0 /\ kept' = <<>>
    /\ UNCHANGED <<phase, held, arg, history, state>>

\* r.pending = kept, and the mutex is released.
FlushEnd(w) ==
    /\ n > Len(pending)
    /\ Goto(w, "history", "loop")
    /\ pending' = kept
    /\ lock' = none /\ n' = 0 /\ kept' = <<>>
    /\ UNCHANGED <<phase, held, arg, history, state>>

(***************************************************************************)
(* Shutdown: ctx is cancelled, every group is closed, then the firing      *)
(* instances and the unwritten retirements are saved (persistAllState).    *)
(***************************************************************************)

Signal ==
    /\ phase = "running"
    /\ pc[main] = "loop"
    /\ phase' = "stopping"
    /\ UNCHANGED <<held, pc, arg, pending, lock, n, kept, history, state>>

\* A group's loop sees ctx.Done or doneCh between two evaluations.
GroupExit(g) ==
    /\ phase = "stopping"
    /\ Goto(g, "loop", "exited")
    /\ UNCHANGED <<phase, held, arg, pending, lock, n, kept, history, state>>

Unwritten == UNION {pending[m] : m \in 1..Len(pending)}

Saved(firing) == [i \in Inst |-> IF i \in firing THEN "firing" ELSE state[i]]

\* Mutant: only what running rules hold is saved.
persistAllState_HeldOnly ==
    /\ phase = "stopping"
    /\ \A g \in Group : pc[g] = "exited"
    /\ phase' = "stopped" /\ state' = Saved(held)
    /\ UNCHANGED <<held, pc, arg, pending, lock, n, kept, history>>

\* A Save that fails is only logged: the process stops all the same.
persistAllState ==
    /\ phase = "stopping"
    /\ \A g \in Group : pc[g] = "exited"
    /\ \/ phase' = "stopped" /\ state' = Saved(held \cup Unwritten)
       \/ phase' = "unsaved" /\ state' \in {state, Saved(held \cup Unwritten)}
    /\ UNCHANGED <<held, pc, arg, pending, lock, n, kept, history>>

-------------------------------------------------------------------------------
FlushStep(w) ==
    FlushNothing(w) \/ HistoryFailed(w) \/ SaveInactive(w) \/ FlushEnd(w)

Next ==
    \/ \E w \in Worker :
          \/ \E rows \in SUBSET Inst : Resolve(w, rows)
          \/ Enqueue(w) \/ FlushStart(w) \/ HistoryWritten(w) \/ FlushStep(w)
    \/ Signal \/ (\E g \in Group : GroupExit(g)) \/ persistAllState

Spec == Init /\ [][Next]_vars

\* Every group keeps evaluating on its ticker, every goroutine runs on and
\* gets the mutex in turn, and the store does not fail every write for good.
Fairness ==
    /\ \A w \in Worker : /\ SF_vars(Enqueue(w))
                         /\ SF_vars(FlushStart(w))
                         /\ WF_vars(HistoryWritten(w) \/ FlushStep(w))
    /\ SF_vars(\E w \in Worker : HistoryWritten(w))

FairSpec == Spec /\ Fairness

-------------------------------------------------------------------------------
(***************************************************************************)
(* Properties.                                                             *)
(***************************************************************************)

\* The instances whose resolved rows a goroutine or the queue still owes.
Owed ==
    (UNION {arg[w] : w \in Worker}) \cup Unwritten
        \cup (UNION {kept[m] : m \in 1..Len(kept)})

\* No retirement is lost: an instance whose rule was dropped has its resolved
\* row in alert_history, or is still in the hands of Resolve or in the queue,
\* whatever Resolve and Flush calls overlap and whatever writes fail
\* (retire.go:60-66, 73-93).
NoRetirementLost == \A i \in Inst \ held : i \in history \cup Owed

\* The mutex is held by the one goroutine inside Flush, and what that
\* goroutine has passed in the queue is written or kept.
FlushAgrees ==
    /\ \A w \in Worker : pc[w] \in {"history", "save"} <=> lock = w
    /\ \A w \in Worker : pc[w] = "save" => n \in 1..Len(pending) /\ pending[n] \subseteq history
    /\ lock # none =>
          /\ n \in 1..(Len(pending) + 1)
          /\ \A m \in 1..(n - 1) :
                pending[m] \subseteq history \cup (UNION {kept[k] : k \in 1..Len(kept)})

\* Outside Resolve and Flush their local variables hold nothing.
IdleAgrees ==
    /\ \A w \in Worker : pc[w] # "resolve" => arg[w] = {}
    /\ lock = none => kept = <<>>

\* Once ctx is cancelled the main goroutine retires nothing more, and it saves
\* only when every group's goroutine has left.
StopAgrees ==
    /\ phase # "running" => pc[main] = "loop"
    /\ phase \in {"stopped", "unsaved"} => \A g \in Group : pc[g] = "exited"

\* A retirement not written when the process stops is saved as the firing
\* instance it was, so that the restart finds it unclaimed (retire.go:24-25,
\* 99-110), and an instance its rule still holds is saved too.
OwedIsSaved ==
    phase = "stopped" => \A i \in Inst : i \in history \/ state[i] = "firing"

\* While the process runs and the store is not down for good, every retired
\* instance gets its resolved row, whichever group's evaluation writes it
\* (retire.go:20-22).
RetirementsWritten ==
    \A i \in Inst : (i \in Owed) ~> (i \in history \/ phase # "running")
==============================================================================
