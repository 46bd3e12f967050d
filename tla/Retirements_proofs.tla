-------------------------- MODULE Retirements_proofs --------------------------
(***************************************************************************)
(* Theorems about Retirements, for every set of instances and groups.      *)
(***************************************************************************)
EXTENDS Retirements, TLAPS

\* The queue and its growth by one set of rows.
LEMMA AppendedSet ==
    ASSUME NEW q \in Seq(Rows), NEW rows \in Rows
    PROVE  /\ Append(q, rows) \in Seq(Rows)
           /\ Len(Append(q, rows)) = Len(q) + 1
           /\ \A m \in 1..Len(q) : Append(q, rows)[m] = q[m]
           /\ Append(q, rows)[Len(q) + 1] = rows
OBVIOUS

\* A goroutine about to append has rows to append (retire.go:59).
LEMMA SomeRows ==
    ASSUME TypeOK, NEW w \in Worker, Enqueue(w)
    PROVE  arg[w] \in Rows
<1>1. pc[w] = "resolve"
  BY DEF Enqueue, Goto
<1>2. arg[w] # {} /\ arg[w] \in SUBSET Inst
  BY <1>1 DEF TypeOK
<1> QED BY <1>2 DEF Rows

\* The goroutine inside Flush is at a position of the queue.
LEMMA FlushPosition ==
    ASSUME TypeOK, FlushAgrees, NEW w \in Worker, pc[w] \in {"history", "save"}
    PROVE  /\ lock = w /\ lock # none
           /\ n \in 1..(Len(pending) + 1)
           /\ n <= Len(pending) => n \in 1..Len(pending) /\ pending[n] \in Rows
BY WorkerAssumption DEF TypeOK, FlushAgrees, Worker

\* Every step keeps the types (retire.go:27-40).
LEMMA TypeStep ==
    ASSUME TypeOK, FlushAgrees, [Next]_vars
    PROVE  TypeOK'
<1> USE DEF TypeOK, Goto, PCs, Worker
<1>1. CASE UNCHANGED vars
  BY <1>1 DEF vars
<1>2. ASSUME NEW w \in Worker, NEW rows \in SUBSET Inst, Resolve(w, rows)
      PROVE  TypeOK'
  BY <1>2 DEF Resolve
<1>3. ASSUME NEW w \in Worker, Enqueue(w)
      PROVE  TypeOK'
  <2>1. arg[w] \in Rows
    BY <1>3, SomeRows DEF Enqueue, Goto, TypeOK, Worker, PCs
  <2>2. pending' \in Seq(Rows)
    BY <1>3, <2>1, AppendedSet DEF Enqueue
  <2> QED BY <1>3, <2>2 DEF Enqueue
<1>4. ASSUME NEW w \in Worker, FlushStart(w)
      PROVE  TypeOK'
  BY <1>4 DEF FlushStart
<1>5. ASSUME NEW w \in Worker, HistoryWritten(w)
      PROVE  TypeOK'
  <2>1. pending[n] \in Rows
    BY <1>5, FlushPosition DEF HistoryWritten
  <2>2. history' \subseteq Inst
    BY <1>5, <2>1 DEF HistoryWritten, Rows
  <2> QED BY <1>5, <2>2 DEF HistoryWritten
<1>6. ASSUME NEW w \in Worker, FlushNothing(w)
      PROVE  TypeOK'
  BY <1>6 DEF FlushNothing
<1>7. ASSUME NEW w \in Worker, HistoryFailed(w)
      PROVE  TypeOK'
  <2>1. pending[n] \in Rows
    BY <1>7, FlushPosition DEF HistoryFailed
  <2>2. kept' \in Seq(Rows)
    BY <1>7, <2>1, AppendedSet DEF HistoryFailed
  <2>3. history' \subseteq Inst
    BY <1>7, <2>1 DEF HistoryFailed, Rows
  <2> QED BY <1>7, <2>2, <2>3 DEF HistoryFailed
<1>8. ASSUME NEW w \in Worker, SaveInactive(w)
      PROVE  TypeOK'
  BY <1>8 DEF SaveInactive
<1>9. ASSUME NEW w \in Worker, FlushEnd(w)
      PROVE  TypeOK'
  BY <1>9 DEF FlushEnd
<1>10. CASE Signal \/ persistAllState \/ \E g \in Group : GroupExit(g)
  BY <1>10 DEF Signal, persistAllState, GroupExit, Saved
<1> QED BY <1>1, <1>2, <1>3, <1>4, <1>5, <1>6, <1>7, <1>8, <1>9, <1>10 DEF Next, FlushStep

\* The instances in a queue.
In(q) == UNION {q[m] : m \in 1..Len(q)}

\* A queue's instances and those of the queue it grows into.
LEMMA AppendedIn ==
    ASSUME NEW q \in Seq(Rows), NEW rows \in Rows
    PROVE  In(Append(q, rows)) = In(q) \cup rows
<1> DEFINE a == Append(q, rows)
<1>1. /\ Len(a) = Len(q) + 1 /\ Len(q) \in Nat
      /\ \A m \in 1..Len(q) : a[m] = q[m]
      /\ a[Len(q) + 1] = rows
  BY AppendedSet
<1> HIDE DEF a
<1>2. ASSUME NEW i \in In(a) PROVE i \in In(q) \cup rows
  <2>1. PICK m \in 1..Len(a) : i \in a[m]
    BY <1>2 DEF In
  <2>2. CASE m = Len(q) + 1
    BY <1>1, <2>1, <2>2
  <2>3. CASE m # Len(q) + 1
    BY <1>1, <2>1, <2>3 DEF In
  <2> QED BY <2>2, <2>3
<1>3. In(q) \subseteq In(a)
  BY <1>1 DEF In
<1>4. rows \subseteq In(a)
  BY <1>1 DEF In
<1> QED BY <1>2, <1>3, <1>4 DEF a

\* Every step keeps the goroutine inside Flush in agreement with the queue:
\* no other goroutine touches the queue while it is inside.
LEMMA FlushStepAgrees ==
    ASSUME TypeOK, FlushAgrees, [Next]_vars
    PROVE  FlushAgrees'
<1> DEFINE Passed == history \cup In(kept)
<1>0. FlushAgrees <=>
        /\ \A w \in Worker : pc[w] \in {"history", "save"} <=> lock = w
        /\ \A w \in Worker : pc[w] = "save" => n \in 1..Len(pending) /\ pending[n] \subseteq history
        /\ lock # none =>
              /\ n \in 1..(Len(pending) + 1)
              /\ \A m \in 1..(n - 1) : pending[m] \subseteq Passed
  BY DEF FlushAgrees, In
<1>00. FlushAgrees' <=>
        /\ \A w \in Worker : pc'[w] \in {"history", "save"} <=> lock' = w
        /\ \A w \in Worker : pc'[w] = "save" => n' \in 1..Len(pending') /\ pending'[n'] \subseteq history'
        /\ lock' # none =>
              /\ n' \in 1..(Len(pending') + 1)
              /\ \A m \in 1..(n' - 1) : pending'[m] \subseteq Passed'
  BY DEF FlushAgrees, In
<1> USE DEF Goto
<1>1. CASE UNCHANGED vars
  BY <1>1 DEF vars, FlushAgrees
<1>2. ASSUME NEW w \in Worker, NEW rows \in SUBSET Inst, Resolve(w, rows)
      PROVE  FlushAgrees'
  BY <1>2 DEF Resolve, FlushAgrees, TypeOK
<1>3. ASSUME NEW w \in Worker, Enqueue(w)
      PROVE  FlushAgrees'
  BY <1>3, WorkerAssumption DEF Enqueue, FlushAgrees, TypeOK, Worker
<1>4. ASSUME NEW w \in Worker, FlushStart(w)
      PROVE  FlushAgrees'
  <2>1. Len(pending) \in Nat
    BY DEF TypeOK
  <2>2. \A v \in Worker : pc[v] \notin {"history", "save"}
    BY <1>4, WorkerAssumption DEF FlushStart, FlushAgrees, Worker
  <2> QED BY <1>4, <2>1, <2>2 DEF FlushStart, FlushAgrees, TypeOK, CanFlush
<1>5. ASSUME NEW w \in Worker, HistoryWritten(w)
      PROVE  FlushAgrees'
  <2>1. n \in 1..Len(pending) /\ lock = w
    BY <1>5, FlushPosition DEF HistoryWritten
  <2>2. \A v \in Worker : v # w => pc[v] \notin {"history", "save"}
    BY <2>1 DEF FlushAgrees
  <2>3. pc' = [pc EXCEPT ![w] = "save"] /\ pc \in [Worker -> PCs]
    BY <1>5 DEF HistoryWritten, TypeOK
  <2>4. UNCHANGED <<pending, lock, n, kept>> /\ history' = history \cup pending[n]
    BY <1>5 DEF HistoryWritten
  <2> QED BY <2>1, <2>2, <2>3, <2>4 DEF FlushAgrees
<1>6. ASSUME NEW w \in Worker, FlushNothing(w)
      PROVE  FlushAgrees'
  BY <1>6 DEF FlushNothing, FlushAgrees, TypeOK
<1>7. ASSUME NEW w \in Worker, HistoryFailed(w)
      PROVE  FlushAgrees'
  <2>1. n \in 1..Len(pending) /\ lock = w /\ lock # none /\ pending[n] \in Rows
    BY <1>7, FlushPosition DEF HistoryFailed
  <2>2. kept' = Append(kept, pending[n]) /\ history \subseteq history' /\ n' = n + 1
    BY <1>7 DEF HistoryFailed
  <2>3. In(kept') = In(kept) \cup pending[n]
    BY <2>1, <2>2, AppendedIn DEF TypeOK
  <2>4. \A m \in 1..(n' - 1) : pending[m] \subseteq Passed'
    <3> SUFFICES ASSUME NEW m \in 1..(n' - 1) PROVE pending[m] \subseteq Passed'
      OBVIOUS
    <3>1. m \in 1..(n - 1) \/ m = n
      BY <2>1, <2>2
    <3>2. m \in 1..(n - 1) => pending[m] \subseteq Passed
      BY <1>0, <2>1
    <3> QED BY <2>2, <2>3, <3>1, <3>2
  <2>5. UNCHANGED <<pc, lock, pending>>
    BY <1>7 DEF HistoryFailed
  <2>6. \A v \in Worker : pc[v] # "save"
    BY <1>0, <1>7, <2>1 DEF HistoryFailed
  <2> HIDE DEF Passed
  <2> QED BY <1>0, <1>00, <2>1, <2>2, <2>4, <2>5, <2>6
<1>8. ASSUME NEW w \in Worker, SaveInactive(w)
      PROVE  FlushAgrees'
  <2>1. n \in 1..Len(pending) /\ lock = w /\ lock # none /\ pending[n] \subseteq history
    BY <1>8, FlushPosition DEF SaveInactive, FlushAgrees
  <2>2. UNCHANGED <<lock, pending, history, kept>> /\ n' = n + 1
    BY <1>8 DEF SaveInactive
  <2>3. \A m \in 1..(n' - 1) : pending[m] \subseteq Passed'
    <3> SUFFICES ASSUME NEW m \in 1..(n' - 1) PROVE pending[m] \subseteq Passed'
      OBVIOUS
    <3>1. m \in 1..(n - 1) \/ m = n
      BY <2>1, <2>2
    <3>2. m \in 1..(n - 1) => pending[m] \subseteq Passed
      BY <1>0, <2>1
    <3> QED BY <2>1, <2>2, <3>1, <3>2
  <2>9. \A v \in Worker : pc'[v] # "save"
    BY <1>0, <1>8, <2>1 DEF SaveInactive, TypeOK
  <2>4. \A v \in Worker : pc'[v] \in {"history", "save"} <=> v = w
    BY <1>0, <1>8, <2>1 DEF SaveInactive, TypeOK
  <2>5. lock' # none /\ n' \in 1..(Len(pending') + 1)
    BY <2>1, <2>2 DEF TypeOK
  <2>6. pending' = pending
    BY <2>2
  <2>7. \A v \in Worker : pc'[v] \in {"history", "save"} <=> lock' = v
    BY <2>1, <2>2, <2>4
  <2> HIDE DEF Passed
  <2> QED BY <1>00, <2>3, <2>9, <2>5, <2>6, <2>7
<1>9. ASSUME NEW w \in Worker, FlushEnd(w)
      PROVE  FlushAgrees'
  <2>1. lock = w
    BY <1>9, FlushPosition DEF FlushEnd
  <2>2. \A v \in Worker : pc'[v] \notin {"history", "save"}
    BY <1>9, <2>1 DEF FlushEnd, FlushAgrees, TypeOK
  <2> QED BY <1>9, <2>2, WorkerAssumption DEF FlushEnd, FlushAgrees, Worker
<1>10. CASE Signal \/ persistAllState \/ \E g \in Group : GroupExit(g)
  BY <1>10 DEF Signal, persistAllState, GroupExit, FlushAgrees, TypeOK, Worker
<1> QED BY <1>1, <1>2, <1>3, <1>4, <1>5, <1>6, <1>7, <1>8, <1>9, <1>10 DEF Next, FlushStep

\* The queue's variables keep their types, and Flush and the queue agree.
THEOREM TypeCorrect == Spec => [](TypeOK /\ FlushAgrees)
<1>1. Init => TypeOK
  BY DEF Init, TypeOK, PCs, Worker
<1>2. Init => FlushAgrees
  BY WorkerAssumption DEF Init, FlushAgrees, Worker
<1>3. TypeOK /\ FlushAgrees /\ [Next]_vars => TypeOK' /\ FlushAgrees'
  BY TypeStep, FlushStepAgrees
<1> QED BY <1>1, <1>2, <1>3, PTL DEF Spec

-------------------------------------------------------------------------------
(***************************************************************************)
(* No retirement is lost.                                                  *)
(***************************************************************************)

\* Owed, by where the instances are.
LEMMA OwedParts ==
    /\ \A i : i \in Owed <=>
          (\E w \in Worker : i \in arg[w]) \/ i \in In(pending) \/ i \in In(kept)
    /\ \A i : i \in Owed' <=>
          (\E w \in Worker : i \in arg'[w]) \/ i \in In(pending') \/ i \in In(kept')
BY DEF Owed, Unwritten, In

\* Every step leaves nothing behind in the locals of Resolve and Flush.
LEMMA IdleStep ==
    ASSUME TypeOK, FlushAgrees, IdleAgrees, [Next]_vars
    PROVE  IdleAgrees'
<1> USE WorkerAssumption DEF IdleAgrees, TypeOK, Goto, Worker
<1>1. CASE UNCHANGED vars
  BY <1>1 DEF vars
<1>2. ASSUME NEW w \in Worker, NEW rows \in SUBSET Inst, Resolve(w, rows)
      PROVE  IdleAgrees'
  BY <1>2 DEF Resolve
<1>3. ASSUME NEW w \in Worker, Enqueue(w)
      PROVE  IdleAgrees'
  BY <1>3 DEF Enqueue
<1>4. ASSUME NEW w \in Worker, FlushStart(w)
      PROVE  IdleAgrees'
  BY <1>4 DEF FlushStart, CanFlush
<1>5. ASSUME NEW w \in Worker, HistoryWritten(w) \/ SaveInactive(w)
      PROVE  IdleAgrees'
  BY <1>5 DEF HistoryWritten, SaveInactive
<1>6. ASSUME NEW w \in Worker, FlushNothing(w)
      PROVE  IdleAgrees'
  BY <1>6 DEF FlushNothing
<1>7. ASSUME NEW w \in Worker, HistoryFailed(w)
      PROVE  IdleAgrees'
  <2>1. lock # none
    BY <1>7, FlushPosition DEF HistoryFailed
  <2> QED BY <1>7, <2>1 DEF HistoryFailed
<1>8. ASSUME NEW w \in Worker, FlushEnd(w)
      PROVE  IdleAgrees'
  BY <1>8 DEF FlushEnd
<1>9. CASE Signal \/ persistAllState \/ \E g \in Group : GroupExit(g)
  BY <1>9 DEF Signal, persistAllState, GroupExit
<1> QED BY <1>1, <1>2, <1>3, <1>4, <1>5, <1>6, <1>7, <1>8, <1>9 DEF Next, FlushStep

\* A step moves an instance from a rule to Resolve, from Resolve into the
\* queue, from the queue into alert_history or to the writes kept for retry,
\* and from there back into the queue.
LEMMA NoneLostStep ==
    ASSUME TypeOK, FlushAgrees, IdleAgrees, NoRetirementLost, [Next]_vars
    PROVE  NoRetirementLost'
<1> SUFFICES ASSUME NEW i \in Inst, i \notin held' PROVE i \in history' \cup Owed'
  BY DEF NoRetirementLost
<1> USE DEF Goto
<1>1. i \notin held => i \in history \cup Owed
  BY DEF NoRetirementLost
<1>2. CASE UNCHANGED vars
  BY <1>1, <1>2 DEF vars, Owed, Unwritten
<1>3. ASSUME NEW w \in Worker, NEW rows \in SUBSET Inst, Resolve(w, rows)
      PROVE  i \in history' \cup Owed'
  <2>1. UNCHANGED <<history, pending, kept>>
    BY <1>3 DEF Resolve
  <2>2. arg[w] = {} /\ arg'[w] = rows /\ \A v \in Worker : v # w => arg'[v] = arg[v]
    BY <1>3 DEF Resolve, TypeOK, IdleAgrees
  <2>3. i \notin held \/ i \in rows
    BY <1>3 DEF Resolve
  <2> QED BY <1>1, <2>1, <2>2, <2>3, OwedParts
<1>4. ASSUME NEW w \in Worker, Enqueue(w)
      PROVE  i \in history' \cup Owed'
  <2>1. In(pending') = In(pending) \cup arg[w]
    <3>1. arg[w] \in Rows /\ pending \in Seq(Rows)
      BY <1>4, SomeRows DEF TypeOK
    <3> QED BY <1>4, <3>1, AppendedIn DEF Enqueue
  <2>2. /\ \A v \in Worker : v # w => arg'[v] = arg[v]
        /\ UNCHANGED <<history, kept, held>>
    BY <1>4 DEF Enqueue, TypeOK
  <2>3. i \in history \cup Owed
    BY <1>1, <2>2
  <2>4. history' = history /\ In(kept') = In(kept)
    BY <2>2 DEF In
  <2>5. (\E v \in Worker : i \in arg[v]) => i \in arg[w] \/ \E v \in Worker : i \in arg'[v]
    BY <2>2
  <2> QED BY <2>1, <2>3, <2>4, <2>5, OwedParts
<1>5. ASSUME NEW w \in Worker, FlushStart(w)
      PROVE  i \in history' \cup Owed'
  <2>1. UNCHANGED <<history, arg, pending, held>>
    BY <1>5 DEF FlushStart
  <2>2. In(kept) = {}
    BY <1>5 DEF FlushStart, IdleAgrees, In
  <2> QED BY <1>1, <2>1, <2>2, OwedParts
<1>6. ASSUME NEW w \in Worker, HistoryWritten(w) \/ SaveInactive(w) \/ FlushNothing(w)
      PROVE  i \in history' \cup Owed'
  <2>1. UNCHANGED <<arg, pending, kept, held>> /\ history \subseteq history'
    BY <1>6 DEF HistoryWritten, SaveInactive, FlushNothing
  <2> QED BY <1>1, <2>1, OwedParts
<1>7. ASSUME NEW w \in Worker, HistoryFailed(w)
      PROVE  i \in history' \cup Owed'
  <2>1. pending[n] \in Rows
    BY <1>7, FlushPosition DEF HistoryFailed
  <2>2. In(kept') = In(kept) \cup pending[n]
    BY <1>7, <2>1, AppendedIn DEF HistoryFailed, TypeOK
  <2>3. UNCHANGED <<arg, pending, held>> /\ history \subseteq history'
    BY <1>7 DEF HistoryFailed
  <2> QED BY <1>1, <2>2, <2>3, OwedParts
<1>8. ASSUME NEW w \in Worker, FlushEnd(w)
      PROVE  i \in history' \cup Owed'
  <2>1. lock # none /\ n = Len(pending) + 1
    <3>1. lock # none /\ n \in 1..(Len(pending) + 1) /\ n > Len(pending)
      BY <1>8, FlushPosition DEF FlushEnd
    <3>2. Len(pending) \in Nat
      BY DEF TypeOK
    <3> QED BY <3>1, <3>2
  <2>2. \A m \in 1..Len(pending) : pending[m] \subseteq history \cup In(kept)
    <3>1. Len(pending) \in Nat /\ n - 1 = Len(pending)
      BY <2>1 DEF TypeOK
    <3> QED BY <2>1, <3>1 DEF FlushAgrees, In
  <2>3. In(pending) \subseteq history \cup In(kept)
    BY <2>2 DEF In
  <2>4. UNCHANGED <<arg, history, held>> /\ pending' = kept
    BY <1>8 DEF FlushEnd
  <2>5. In(pending') = In(kept)
    BY <2>4 DEF In
  <2>6. arg' = arg /\ history' = history
    BY <2>4
  <2>7. i \in history \/ (\E v \in Worker : i \in arg[v]) \/ i \in In(pending) \/ i \in In(kept)
    BY <1>1, <2>4, OwedParts
  <2>8. i \in history \/ (\E v \in Worker : i \in arg'[v]) \/ i \in In(pending')
    BY <2>3, <2>5, <2>6, <2>7
  <2> QED BY <2>6, <2>8, OwedParts
<1>9. CASE Signal \/ persistAllState \/ \E g \in Group : GroupExit(g)
  BY <1>1, <1>9 DEF Signal, persistAllState, GroupExit, Owed, Unwritten
<1> QED BY <1>2, <1>3, <1>4, <1>5, <1>6, <1>7, <1>8, <1>9 DEF Next, FlushStep

\* Whatever Resolve and Flush calls overlap and whatever writes fail, the
\* resolved row of every retired instance is written or still owed.
THEOREM NoRetirementIsLost == Spec => []NoRetirementLost
<1>1. Init => NoRetirementLost /\ IdleAgrees
  BY DEF Init, NoRetirementLost, IdleAgrees
<1>2. TypeOK /\ FlushAgrees /\ IdleAgrees /\ NoRetirementLost /\ [Next]_vars
        => IdleAgrees' /\ NoRetirementLost'
  BY IdleStep, NoneLostStep
<1> QED BY <1>1, <1>2, TypeCorrect, PTL DEF Spec

-------------------------------------------------------------------------------
(***************************************************************************)
(* What is owed when the process stops is saved.                           *)
(***************************************************************************)

\* Every step keeps the order of a shutdown.
LEMMA StopStep ==
    ASSUME TypeOK, StopAgrees, [Next]_vars
    PROVE  StopAgrees'
<1> USE WorkerAssumption DEF StopAgrees, TypeOK, Goto, Worker
<1>1. CASE UNCHANGED vars
  BY <1>1 DEF vars
<1>2. ASSUME NEW w \in Worker, NEW rows \in SUBSET Inst, Resolve(w, rows)
      PROVE  StopAgrees'
  BY <1>2 DEF Resolve
<1>3. ASSUME NEW w \in Worker,
             Enqueue(w) \/ HistoryWritten(w) \/ FlushNothing(w) \/ SaveInactive(w) \/ FlushEnd(w)
      PROVE  StopAgrees'
  BY <1>3 DEF Enqueue, HistoryWritten, FlushNothing, SaveInactive, FlushEnd
<1>4. ASSUME NEW w \in Worker, FlushStart(w)
      PROVE  StopAgrees'
  BY <1>4 DEF FlushStart, CanFlush
<1>5. ASSUME NEW w \in Worker, HistoryFailed(w)
      PROVE  StopAgrees'
  BY <1>5 DEF HistoryFailed
<1>6. CASE Signal \/ persistAllState \/ \E g \in Group : GroupExit(g)
  BY <1>6 DEF Signal, persistAllState, GroupExit
<1> QED BY <1>1, <1>2, <1>3, <1>4, <1>5, <1>6 DEF Next, FlushStep

\* With every group's goroutine gone only the queue owes anything, and it is
\* what persistAllState saves; nothing writes after it.
LEMMA SavedStep ==
    ASSUME TypeOK, FlushAgrees, IdleAgrees, NoRetirementLost, StopAgrees, OwedIsSaved, [Next]_vars
    PROVE  OwedIsSaved'
<1> USE DEF Goto
<1>1. ASSUME phase = "stopped"
      PROVE  OwedIsSaved'
  <2>1. \A w \in Worker : pc[w] \in {"loop", "exited"} /\ (pc[w] = "loop" => w \notin Group)
    BY <1>1, WorkerAssumption DEF StopAgrees, Worker
  <2>2. UNCHANGED <<history, state>>
    BY <1>1, <2>1 DEF Next, vars, Resolve, Enqueue, FlushStart, CanFlush, HistoryWritten,
                      FlushStep, FlushNothing, HistoryFailed, SaveInactive, FlushEnd,
                      Signal, GroupExit, persistAllState
  <2> QED BY <1>1, <2>2 DEF OwedIsSaved
<1>2. ASSUME phase # "stopped", phase' = "stopped"
      PROVE  OwedIsSaved'
  <2>1. /\ \A g \in Group : pc[g] = "exited"
        /\ phase = "stopping" /\ history' = history
        /\ state' = Saved(held \cup Unwritten)
    BY <1>2 DEF Next, vars, Resolve, Enqueue, FlushStart, HistoryWritten,
                FlushStep, FlushNothing, HistoryFailed, SaveInactive, FlushEnd,
                Signal, GroupExit, persistAllState
  <2>2. \A w \in Worker : pc[w] \in {"loop", "exited"}
    BY <2>1 DEF StopAgrees, Worker
  <2>3. \A w \in Worker : arg[w] = {}
    BY <2>2 DEF IdleAgrees
  <2>4. lock = none /\ kept = <<>>
    BY <2>2 DEF FlushAgrees, IdleAgrees, TypeOK
  <2>5. In(kept) = {}
    BY <2>4 DEF In
  <2>6. In(pending) = Unwritten
    BY DEF In, Unwritten
  <2>7. \A i \in Inst : i \in history \/ i \in held \cup Unwritten
    BY <2>3, <2>5, <2>6, OwedParts DEF NoRetirementLost
  <2> QED BY <2>1, <2>7 DEF OwedIsSaved, Saved
<1> QED BY <1>1, <1>2 DEF OwedIsSaved

\* A process that stops with its state saved leaves every instance's resolved
\* row in alert_history or the instance saved as firing, for the next start
\* to restore or to retire.
THEOREM OwedIsAlwaysSaved == Spec => []OwedIsSaved
<1>1. Init => NoRetirementLost /\ IdleAgrees /\ StopAgrees /\ OwedIsSaved
  BY WorkerAssumption DEF Init, NoRetirementLost, IdleAgrees, StopAgrees, OwedIsSaved, Worker
<1>2. TypeOK /\ FlushAgrees /\ IdleAgrees /\ NoRetirementLost /\ StopAgrees /\ OwedIsSaved
        /\ [Next]_vars
        => IdleAgrees' /\ NoRetirementLost' /\ StopAgrees' /\ OwedIsSaved'
  BY IdleStep, NoneLostStep, StopStep, SavedStep
<1> QED BY <1>1, <1>2, TypeCorrect, PTL DEF Spec

\* The variables of the queue and its callers keep their types.
THEOREM TypesKept == Spec => []TypeOK
BY TypeCorrect, PTL
==============================================================================
