---------------------------- MODULE Recovery_proofs ----------------------------
(***************************************************************************)
(* Theorems about Recovery, for every set of rules, faults and bounds.     *)
(***************************************************************************)
EXTENDS Recovery, TLAPS

\* The retirements are sets of rules.
LEMMA FlushTypes ==
    ASSUME TypeOK, NEW queue \in SUBSET ((SUBSET Rule) \ {{}}),
           NEW missed \in SUBSET Rule, Flush(queue, missed)
    PROVE  /\ pending' \in SUBSET ((SUBSET Rule) \ {{}})
           /\ history' \in [Rule -> {"none", "inactive", "firing"}]
           /\ state' \in [Rule -> Enum]
           /\ lost' \subseteq Rule /\ settled' \subseteq Rule
<1>1. PICK landed \in SUBSET queue : \E written \in SUBSET landed : \E saved \in SUBSET written :
        /\ pending' = queue \ written
        /\ history' = [r \in Rule |-> IF r \in UNION landed THEN "inactive" ELSE history[r]]
        /\ state' = SavedInactive(saved)
        /\ lost' = (lost \cup missed) \ UNION landed
        /\ settled' = {r \in settled \cup UNION saved : r \notin UNION pending' /\ mem'[r] = "none"}
  BY DEF Flush
<1>2. PICK written \in SUBSET landed, saved \in SUBSET queue :
        /\ pending' = queue \ written
        /\ state' = SavedInactive(saved)
        /\ settled' = {r \in settled \cup UNION saved : r \notin UNION pending' /\ mem'[r] = "none"}
  BY <1>1
<1>3. UNION saved \subseteq Rule
  OBVIOUS
<1>4. state' \in [Rule -> Enum]
  BY <1>2 DEF SavedInactive, TypeOK, Enum
<1>5. history' \in [Rule -> {"none", "inactive", "firing"}]
  BY <1>1 DEF TypeOK
<1>6. lost' \subseteq Rule
  BY <1>1 DEF TypeOK
<1>7. settled' \subseteq Rule
  BY <1>2, <1>3 DEF TypeOK
<1>8. pending' \in SUBSET ((SUBSET Rule) \ {{}})
  BY <1>2
<1> QED BY <1>4, <1>5, <1>6, <1>7, <1>8

\* The rules a reload or a start retires are a retirement, or none.
LEMMA RetirementType ==
    ASSUME NEW rs \in SUBSET Rule
    PROVE  Retirement(rs) \in SUBSET ((SUBSET Rule) \ {{}}) /\ UNION Retirement(rs) = rs
<1>1. CASE rs = {}
  <2>1. Retirement(rs) = {}
    BY <1>1 DEF Retirement
  <2> QED BY <1>1, <2>1
<1>2. CASE rs # {}
  <2>1. Retirement(rs) = {rs}
    BY <1>2 DEF Retirement
  <2>2. UNION {rs} = rs
    OBVIOUS
  <2>3. {rs} \in SUBSET ((SUBSET Rule) \ {{}})
    <3>1. rs \in (SUBSET Rule) \ {{}}
      BY <1>2
    <3> QED BY <3>1
  <2>4. UNION Retirement(rs) = rs
    BY <2>1, <2>2
  <2> QED BY <2>1, <2>3, <2>4
<1> QED BY <1>1, <1>2

\* What an evaluation can do to an instance.
LEMMA OutcomeTypes ==
    ASSUME TypeOK, NEW r \in Rule, NEW o \in Outcomes(r)
    PROVE  /\ o[1] \in MemStates /\ o[2] \in {"none", "inactive", "firing"}
           /\ o[2] = "firing" => o[1] = "firing"
           /\ mem[r] = "firing" => o[1] = "firing" \/ o[2] = "inactive" \/ o = Cleared
<1>1. mem[r] \in MemStates
  BY DEF TypeOK
<1>2. o = Failed(mem[r]) \/ o \in Completed(mem[r]) \/ o = Cleared
  BY DEF Outcomes
<1>3. CASE o = Failed(mem[r])
  BY <1>1, <1>3 DEF Failed, MemStates
<1>4. CASE o = Cleared
  BY <1>4 DEF Cleared, MemStates
<1>5. CASE o \in Completed(mem[r])
  <2>1. CASE mem[r] = "none"
    BY <1>5, <2>1 DEF Completed, MemStates
  <2>2. CASE mem[r] = "pending"
    BY <1>5, <2>2 DEF Completed, MemStates
  <2>3. CASE mem[r] = "firing"
    BY <1>5, <2>3 DEF Completed, MemStates
  <2>4. CASE mem[r] = "resolved"
    BY <1>5, <2>4 DEF Completed, MemStates
  <2> QED BY <1>1, <2>1, <2>2, <2>3, <2>4 DEF MemStates
<1> QED BY <1>2, <1>3, <1>4, <1>5

\* What the rows and the map say at each point of the evaluation: rows wait
\* only between Exec and RecordHistory, a firing one is of a firing instance.
\* A process that is down holds nothing.
RowsAgree ==
    /\ pc # "evaluated" => \A r \in Rule : rows[r] = "none"
    /\ \A r \in Rule : rows[r] = "firing" => mem[r] = "firing"
    /\ pc = "down" => running = {} /\ pending = {} /\ \A r \in Rule : mem[r] = "none"

\* A settled rule has no alerts, no retirement and no active row.
SettledAgrees ==
    \A r \in settled :
        mem[r] = "none" /\ r \notin UNION pending /\ state[r] \notin {"firing", "pending"}

\* What a saved shutdown held is in alert_state until the next start.
SavedAgrees ==
    pc = "down" /\ ending = "saved" =>
        \A r \in Rule :
            /\ held[r] = "firing" => state[r] = "firing"
            /\ held[r] = "pending" => state[r] = IF r \in owed THEN "firing" ELSE "pending"

Inv == TypeOK /\ RowsAgree

\* Where Exec leads each rule.
LEMMA ExecOutcome ==
    ASSUME TypeOK, Exec
    PROVE  \E f :
             /\ \A r \in running : f[r] \in Outcomes(r)
             /\ \A r \in Rule : /\ mem'[r] = IF r \in running THEN f[r][1] ELSE mem[r]
                                /\ rows'[r] = IF r \in running THEN f[r][2] ELSE "none"
             /\ DOMAIN mem' = Rule /\ DOMAIN rows' = Rule
             /\ mem' = [r \in Rule |-> mem'[r]] /\ rows' = [r \in Rule |-> rows'[r]]
             /\ lost' = lost \cup {r \in running : mem[r] = "firing" /\ f[r] = Cleared}
             /\ settled' = {r \in settled : r \in running => f[r][1] = "none"}
BY DEF Exec

\* Every step keeps the types (main.go, group.go:153-262, retire.go).
LEMMA TypeStep ==
    ASSUME Inv, [Next]_vars
    PROVE  TypeOK'
<1> USE RecoveryAssumption DEF Inv
<1> DEFINE Queue == SUBSET ((SUBSET Rule) \ {{}})
<1>1. CASE UNCHANGED vars
  BY <1>1 DEF vars, TypeOK, file_vars, table_vars, end_vars
<1>2. ASSUME NEW rs \in (SUBSET Rule) \ {{}}, Edit(rs)
      PROVE  TypeOK'
  BY <1>2 DEF Edit, TypeOK, table_vars, end_vars
<1>3. ASSUME NEW loaded \in SUBSET LoadActive, StartWith(loaded)
      PROVE  TypeOK'
  <2> DEFINE unclaimed == {r \in loaded \ files : state[r] = "firing"}
  <2>1. Retirement(unclaimed) \in Queue /\ LoadActive \ loaded \in SUBSET Rule
    BY RetirementType DEF LoadActive
  <2>2. Flush(Retirement(unclaimed), LoadActive \ loaded)
    BY <1>3 DEF StartWith
  <2>3. mem' = [r \in Rule |-> IF r \in loaded \cap files THEN state[r] ELSE "none"]
    BY <1>3 DEF StartWith
  <2>4. mem' \in [Rule -> MemStates] /\ \A r \in Rule \ files : mem'[r] = "none"
    BY <2>3 DEF LoadActive, MemStates
  <2>5. runs' \in 0..MaxRuns
    BY <1>3 DEF StartWith, TypeOK
  <2> HIDE DEF unclaimed
  <2> QED BY <1>3, <2>1, <2>2, <2>4, <2>5, FlushTypes DEF StartWith, TypeOK, file_vars, end_vars
<1>4. CASE Start \/ StartPartlyLoaded
  BY <1>3, <1>4 DEF Start, StartPartlyLoaded
<1>5. CASE EvalFlush
  <2>1. pending \in Queue /\ Flush(pending, {})
    BY <1>5 DEF EvalFlush, TypeOK
  <2> QED BY <1>5, <2>1, FlushTypes DEF EvalFlush, TypeOK, file_vars, end_vars
<1>6. CASE Exec
  <2>1. PICK f :
          /\ \A r \in running : f[r] \in Outcomes(r)
          /\ \A r \in Rule : /\ mem'[r] = IF r \in running THEN f[r][1] ELSE mem[r]
                             /\ rows'[r] = IF r \in running THEN f[r][2] ELSE "none"
          /\ mem' = [r \in Rule |-> mem'[r]] /\ rows' = [r \in Rule |-> rows'[r]]
          /\ lost' = lost \cup {r \in running : mem[r] = "firing" /\ f[r] = Cleared}
          /\ settled' = {r \in settled : r \in running => f[r][1] = "none"}
    BY <1>6, ExecOutcome
  <2>2. \A r \in Rule : mem'[r] \in MemStates /\ rows'[r] \in {"none", "inactive", "firing"}
    BY <2>1, OutcomeTypes DEF TypeOK
  <2>3. mem' \in [Rule -> MemStates] /\ rows' \in [Rule -> {"none", "inactive", "firing"}]
    BY <2>1, <2>2
  <2>4. \A r \in Rule \ running : mem'[r] = "none"
    BY <2>1 DEF TypeOK
  <2>5. lost' \subseteq Rule /\ settled' \subseteq Rule
    BY <2>1 DEF TypeOK
  <2> QED BY <1>6, <2>3, <2>4, <2>5 DEF Exec, TypeOK, file_vars, table_vars, end_vars
<1>7. CASE RecordHistory
  <2>1. history' \in [Rule -> {"none", "inactive", "firing"}]
    BY <1>7 DEF RecordHistory, Appended, TypeOK
  <2>2. rows' \in [Rule -> {"none", "inactive", "firing"}] /\ lost' \subseteq Rule
    BY <1>7 DEF RecordHistory, AllNone, TypeOK
  <2> QED BY <1>7, <2>1, <2>2 DEF RecordHistory, TypeOK, file_vars, end_vars
<1>8. CASE RecordFailed
  <2>1. rows' \in [Rule -> {"none", "inactive", "firing"}] /\ lost' \subseteq Rule
    BY <1>8 DEF RecordFailed, AllNone, TypeOK
  <2>2. history' \in [Rule -> {"none", "inactive", "firing"}]
    BY <1>8 DEF RecordFailed, Appended, TypeOK
  <2> QED BY <1>8, <2>1, <2>2 DEF RecordFailed, TypeOK, file_vars, end_vars
<1>9. CASE Reload
  <2> DEFINE rs == {r \in running \ files : mem[r] = "firing"}
  <2>1. pending \cup Retirement(rs) \in Queue
    BY RetirementType DEF TypeOK
  <2>2. Flush(pending \cup Retirement(rs), {})
    BY <1>9 DEF Reload
  <2>3. mem' \in [Rule -> MemStates] /\ \A r \in Rule \ files : mem'[r] = "none"
    BY <1>9 DEF Reload, TypeOK, MemStates
  <2> QED BY <1>9, <2>1, <2>2, <2>3, FlushTypes DEF Reload, TypeOK, file_vars, end_vars
<1>10. CASE Signal \/ GroupExit
  BY <1>10 DEF Signal, GroupExit, TypeOK, file_vars, table_vars, end_vars
<1>11. ASSUME NEW how \in {"saved", "unsaved", "crash"}, Ended(how),
              lost' \subseteq Rule, state' \in [Rule -> Enum]
       PROVE  TypeOK'
  <2>1. AllNone \in [Rule -> MemStates] /\ AllNone \in [Rule -> {"none", "inactive", "firing"}]
        /\ \A r \in Rule : AllNone[r] = "none"
    BY DEF AllNone, MemStates
  <2>2. UNION pending \subseteq Rule
    BY DEF TypeOK
  <2> QED BY <1>11, <2>1, <2>2 DEF Ended, TypeOK, file_vars
<1>12. Known \subseteq Rule
  BY DEF Known, TypeOK
<1>13. CASE persistAllState \/ persistFailed \/ Crash
  <2>1. \A r \in Rule : Saved(r) \in Enum
    BY DEF Saved, Enum, TypeOK, MemStates
  <2>2. state' \in [Rule -> Enum] /\ lost' \subseteq Rule
    BY <1>12, <1>13, <2>1 DEF persistAllState, persistFailed, Crash, SavedState, TypeOK
  <2> QED BY <1>11, <1>13, <2>2 DEF persistAllState, persistFailed, Crash
<1> QED BY <1>1, <1>2, <1>3, <1>4, <1>5, <1>6, <1>7, <1>8, <1>9, <1>10, <1>13 DEF Next

\* What Flush does to a rule: it takes no history to firing, and what it does
\* not write it keeps.
LEMMA FlushKeeps ==
    ASSUME TypeOK, NEW queue \in SUBSET ((SUBSET Rule) \ {{}}),
           NEW missed \in SUBSET Rule, Flush(queue, missed), NEW r \in Rule, history'[r] = "firing"
    PROVE  /\ history[r] = "firing"
           /\ r \in lost \cup missed => r \in lost'
           /\ r \in UNION queue => r \in UNION pending'
<1>1. PICK landed \in SUBSET queue, written \in SUBSET queue :
        /\ written \subseteq landed
        /\ pending' = queue \ written
        /\ history' = [x \in Rule |-> IF x \in UNION landed THEN "inactive" ELSE history[x]]
        /\ lost' = (lost \cup missed) \ UNION landed
  BY DEF Flush
<1>2. r \notin UNION landed /\ history[r] = "firing"
  BY <1>1
<1>3. ASSUME r \in UNION queue  PROVE r \in UNION pending'
  <2>1. PICK q \in queue : r \in q
    BY <1>3
  <2>2. q \in pending'
    BY <1>1, <1>2, <2>1
  <2> QED BY <2>1, <2>2
<1> QED BY <1>1, <1>2, <1>3

\* Flush leaves the settled rules without a retirement or an active row.
LEMMA FlushSettles ==
    ASSUME TypeOK, NEW queue \in SUBSET ((SUBSET Rule) \ {{}}),
           NEW missed \in SUBSET Rule, Flush(queue, missed), SettledAgrees, NEW r \in settled'
    PROVE  mem'[r] = "none" /\ r \notin UNION pending' /\ state'[r] \notin {"firing", "pending"}
<1>1. PICK saved \in SUBSET queue :
        /\ state' = SavedInactive(saved)
        /\ settled' = {x \in settled \cup UNION saved : x \notin UNION pending' /\ mem'[x] = "none"}
  BY DEF Flush
<1>2. r \in settled \cup UNION saved /\ r \notin UNION pending' /\ mem'[r] = "none"
  BY <1>1
<1>3. r \in Rule
  <2>1. UNION saved \subseteq Rule
    OBVIOUS
  <2> QED BY <1>2, <2>1 DEF TypeOK
<1>4. state'[r] = IF r \in UNION saved THEN "inactive" ELSE state[r]
  BY <1>1, <1>3 DEF SavedInactive
<1> QED BY <1>2, <1>4 DEF SettledAgrees


\* Rows wait only between Exec and RecordHistory.
LEMMA RowsStep ==
    ASSUME Inv, [Next]_vars
    PROVE  RowsAgree'
<1> USE DEF Inv, RowsAgree
<1>1. CASE UNCHANGED vars
  BY <1>1 DEF vars
<1>2. ASSUME NEW rs \in (SUBSET Rule) \ {{}}, Edit(rs)
      PROVE  RowsAgree'
  BY <1>2 DEF Edit
<1>3. CASE Start \/ StartPartlyLoaded
  BY <1>3 DEF Start, StartPartlyLoaded, StartWith
<1>5. CASE EvalFlush
  BY <1>5 DEF EvalFlush
<1>6. CASE Exec
  <2>1. PICK f :
          /\ \A r \in running : f[r] \in Outcomes(r)
          /\ \A r \in Rule : /\ mem'[r] = IF r \in running THEN f[r][1] ELSE mem[r]
                             /\ rows'[r] = IF r \in running THEN f[r][2] ELSE "none"
    BY <1>6, ExecOutcome
  <2>2. \A r \in Rule : rows'[r] = "firing" => mem'[r] = "firing"
    BY <2>1, OutcomeTypes
  <2> QED BY <1>6, <2>2 DEF Exec
<1>7. CASE RecordHistory \/ RecordFailed
  BY <1>7 DEF RecordHistory, RecordFailed, AllNone
<1>8. CASE Reload
  BY <1>8 DEF Reload
<1>9. CASE Signal \/ GroupExit
  BY <1>9 DEF Signal, GroupExit
<1>10. CASE persistAllState \/ persistFailed \/ Crash
  BY <1>10 DEF persistAllState, persistFailed, Crash, Ended, AllNone
<1> QED BY <1>1, <1>2, <1>3, <1>5, <1>6, <1>7, <1>8, <1>9, <1>10 DEF Next

LEMMA InvInit == ASSUME Init PROVE Inv
<1> USE RecoveryAssumption
<1>1. AllNone \in [Rule -> MemStates] /\ AllNone \in [Rule -> Enum]
      /\ AllNone \in [Rule -> {"none", "inactive", "firing"}]
      /\ \A r \in Rule : AllNone[r] = "none"
  BY DEF AllNone, MemStates, Enum
<1>2. TypeOK
  <2>1. 0 \in 0..MaxEdits /\ 0 \in 0..MaxRuns
    OBVIOUS
  <2>2. /\ files \subseteq Rule /\ edits \in 0..MaxEdits /\ runs \in 0..MaxRuns
        /\ pc = "down" /\ cancelled \in BOOLEAN /\ running \subseteq Rule
        /\ pending \subseteq (SUBSET Rule) \ {{}}
        /\ lost \subseteq Rule /\ owed \subseteq Rule /\ settled \subseteq Rule
        /\ ending = "none"
    BY <2>1 DEF Init
  <2> QED BY <1>1, <2>2 DEF Init, TypeOK
<1> QED BY <1>1, <1>2 DEF Init, Inv, RowsAgree

\* Every reachable state is of its type, and rows wait only within an
\* evaluation.
THEOREM TypeCorrect == Spec => []Inv
<1>1. Inv /\ [Next]_vars => Inv'
  BY TypeStep, RowsStep DEF Inv
<1> QED BY InvInit, <1>1, PTL DEF Spec

-------------------------------------------------------------------------------
(***************************************************************************)
(* No instance stays firing in alert_history.                              *)
(***************************************************************************)

\* Each step hands the instance on: a start from alert_state to its rule or a
\* retirement, Exec to its row, RecordHistory to the history, a reload to a
\* retirement, the final save to alert_state.
LEMMA FiringStep ==
    ASSUME Inv, NeverStuckFiring, [Next]_vars
    PROVE  NeverStuckFiring'
<1> SUFFICES ASSUME NEW r \in Rule, history'[r] = "firing"
             PROVE  Accounted(r)' \/ r \in lost'
  BY DEF NeverStuckFiring
<1> USE DEF Inv
<1>0. history[r] = "firing" => Accounted(r) \/ r \in lost
  BY DEF NeverStuckFiring
<1>1. CASE UNCHANGED vars
  BY <1>0, <1>1 DEF vars, Accounted, table_vars
<1>2. ASSUME NEW rs \in (SUBSET Rule) \ {{}}, Edit(rs)
      PROVE  Accounted(r)' \/ r \in lost'
  BY <1>0, <1>2 DEF Edit, Accounted, table_vars
<1>3. ASSUME NEW loaded \in SUBSET LoadActive, StartWith(loaded)
      PROVE  Accounted(r)' \/ r \in lost'
  <2> DEFINE unclaimed == {x \in loaded \ files : state[x] = "firing"}
  <2>1. /\ Retirement(unclaimed) \in SUBSET ((SUBSET Rule) \ {{}})
        /\ UNION Retirement(unclaimed) = unclaimed
        /\ LoadActive \ loaded \in SUBSET Rule
    BY RetirementType DEF LoadActive
  <2>2. Flush(Retirement(unclaimed), LoadActive \ loaded)
    BY <1>3 DEF StartWith
  <2>3. /\ history[r] = "firing"
        /\ r \in lost \cup (LoadActive \ loaded) => r \in lost'
        /\ r \in unclaimed => r \in UNION pending'
    <3> HIDE DEF unclaimed
    <3> QED BY <2>1, <2>2, FlushKeeps
  <2>4. (r \in loaded /\ state[r] = "firing") \/ r \in lost'
    BY <1>0, <1>3, <2>3 DEF StartWith, Accounted, LoadActive
  <2>5. ASSUME r \in loaded, state[r] = "firing", r \in files  PROVE mem'[r] = "firing"
    BY <1>3, <2>5 DEF StartWith
  <2>6. ASSUME r \in loaded, state[r] = "firing", r \notin files  PROVE r \in UNION pending'
    BY <2>3, <2>6
  <2>7. pc' # "down"
    BY <1>3 DEF StartWith
  <2> QED BY <2>4, <2>5, <2>6, <2>7 DEF Accounted
<1>4. CASE Start \/ StartPartlyLoaded
  BY <1>3, <1>4 DEF Start, StartPartlyLoaded
<1>5. CASE EvalFlush
  <2>1. pending \in SUBSET ((SUBSET Rule) \ {{}}) /\ Flush(pending, {})
    BY <1>5 DEF EvalFlush, TypeOK
  <2>2. /\ history[r] = "firing"
        /\ r \in lost => r \in lost'
        /\ r \in UNION pending => r \in UNION pending'
    BY <2>1, FlushKeeps
  <2> QED BY <1>0, <1>5, <2>2 DEF EvalFlush, Accounted
<1>6. CASE Exec
  <2>1. PICK f :
          /\ \A x \in running : f[x] \in Outcomes(x)
          /\ \A x \in Rule : /\ mem'[x] = IF x \in running THEN f[x][1] ELSE mem[x]
                             /\ rows'[x] = IF x \in running THEN f[x][2] ELSE "none"
          /\ lost' = lost \cup {x \in running : mem[x] = "firing" /\ f[x] = Cleared}
    BY <1>6, ExecOutcome
  <2>2. history[r] = "firing" /\ pending' = pending /\ pc = "flushed" /\ pc' = "evaluated"
    BY <1>6 DEF Exec, table_vars
  <2>3. mem[r] = "firing" \/ r \in UNION pending \/ r \in lost
    BY <1>0, <2>2 DEF Accounted, RowsAgree
  <2>4. ASSUME mem[r] = "firing"  PROVE mem'[r] = "firing" \/ rows'[r] = "inactive" \/ r \in lost'
    <3>1. r \in running
      BY <2>4 DEF TypeOK
    <3>2. f[r][1] = "firing" \/ f[r][2] = "inactive" \/ f[r] = Cleared
      BY <2>1, <2>4, <3>1, OutcomeTypes
    <3> QED BY <2>1, <2>4, <3>1, <3>2
  <2> QED BY <2>1, <2>2, <2>3, <2>4 DEF Accounted
<1>7. CASE RecordHistory \/ RecordFailed
  <2>1. mem' = mem /\ pending' = pending /\ pc' # "down" /\ pc # "down"
    BY <1>7 DEF RecordHistory, RecordFailed
  <2>2. CASE history' = Appended /\ lost' = lost \ Recorded
    <3>1. history'[r] = IF rows[r] # "none" THEN rows[r] ELSE history[r]
      BY <2>2 DEF Appended, Recorded
    <3>2. CASE rows[r] = "none"
      BY <1>0, <2>1, <2>2, <3>1, <3>2 DEF Accounted, Recorded
    <3>3. CASE rows[r] # "none"
      BY <2>1, <3>1, <3>3 DEF Accounted, RowsAgree
    <3> QED BY <3>2, <3>3
  <2>3. CASE history' = history /\ lost' = lost \cup {x \in Rule : rows[x] = "inactive"}
    BY <1>0, <2>1, <2>3 DEF Accounted
  <2> QED BY <1>7, <2>2, <2>3 DEF RecordHistory, RecordFailed
<1>9. CASE Reload
  <2> DEFINE rs == {x \in running \ files : mem[x] = "firing"}
             queue == pending \cup Retirement(rs)
  <2>1. queue \in SUBSET ((SUBSET Rule) \ {{}}) /\ UNION Retirement(rs) = rs
    BY RetirementType DEF TypeOK
  <2>2. Flush(queue, {})
    BY <1>9 DEF Reload
  <2> HIDE DEF queue
  <2>3. /\ history[r] = "firing"
        /\ r \in lost => r \in lost'
        /\ r \in UNION queue => r \in UNION pending'
    BY <2>1, <2>2, FlushKeeps
  <2>4. r \in UNION pending \/ r \in rs => r \in UNION queue
    BY <2>1 DEF queue
  <2>5. mem[r] = "firing" \/ r \in UNION pending \/ r \in lost
    BY <1>0, <1>9, <2>3 DEF Reload, Accounted, RowsAgree
  <2>6. ASSUME mem[r] = "firing"  PROVE mem'[r] = "firing" \/ r \in rs
    BY <1>9, <2>6 DEF Reload, TypeOK
  <2> QED BY <1>9, <2>3, <2>4, <2>5, <2>6 DEF Reload, Accounted
<1>10. CASE Signal \/ GroupExit
  BY <1>0, <1>10 DEF Signal, GroupExit, Accounted, table_vars
<1>11. CASE persistAllState \/ persistFailed \/ Crash
  <2>1. history[r] = "firing" /\ pc # "down" /\ pc' = "down"
    BY <1>11 DEF persistAllState, persistFailed, Crash, Ended
  <2>2. CASE lost' = lost \cup Known
    BY <1>0, <2>1, <2>2 DEF Accounted, Known
  <2>3. CASE pc = "stopped" /\ state' = SavedState /\ lost' = lost
    <3>1. state'[r] = Saved(r) /\ rows[r] = "none"
      BY <2>3 DEF SavedState, RowsAgree
    <3>2. mem[r] = "firing" \/ r \in UNION pending => Saved(r) = "firing"
      BY DEF Saved
    <3> QED BY <1>0, <2>1, <2>3, <3>1, <3>2 DEF Accounted
  <2> QED BY <1>11, <2>2, <2>3 DEF persistAllState, persistFailed, Crash
<1> QED BY <1>1, <1>2, <1>3, <1>4, <1>5, <1>6, <1>7, <1>9, <1>10, <1>11 DEF Next

\* An instance's history stays firing only where its resolved row was lost:
\* retirements, reloads and restarts lose none (retire.go:12-26).
THEOREM NeverStuck == Spec => []NeverStuckFiring
<1>1. Init => NeverStuckFiring
  BY DEF Init, NeverStuckFiring, AllNone
<1>2. Inv /\ NeverStuckFiring /\ [Next]_vars => NeverStuckFiring'
  BY FiringStep
<1> QED BY <1>1, <1>2, TypeCorrect, PTL DEF Spec

-------------------------------------------------------------------------------
(***************************************************************************)
(* A written retirement is done with.                                      *)
(***************************************************************************)

\* Once settled, a rule is out of alert_state: no start loads it and the
\* final save leaves its row alone.
LEMMA SettledStep ==
    ASSUME Inv, SettledAgrees, [Next]_vars
    PROVE  SettledAgrees'
<1> SUFFICES ASSUME NEW r \in settled'
             PROVE  mem'[r] = "none" /\ r \notin UNION pending' /\ state'[r] \notin {"firing", "pending"}
  BY DEF SettledAgrees
<1> USE DEF Inv
<1>0. r \in settled =>
        r \in Rule /\ mem[r] = "none" /\ r \notin UNION pending /\ state[r] \notin {"firing", "pending"}
  BY DEF SettledAgrees, TypeOK
<1>1. CASE UNCHANGED vars
  BY <1>0, <1>1 DEF vars, table_vars
<1>2. ASSUME NEW rs \in (SUBSET Rule) \ {{}}, Edit(rs)
      PROVE  mem'[r] = "none" /\ r \notin UNION pending' /\ state'[r] \notin {"firing", "pending"}
  BY <1>0, <1>2 DEF Edit, table_vars
<1>3. ASSUME NEW loaded \in SUBSET LoadActive, StartWith(loaded)
      PROVE  mem'[r] = "none" /\ r \notin UNION pending' /\ state'[r] \notin {"firing", "pending"}
  <2> DEFINE unclaimed == {x \in loaded \ files : state[x] = "firing"}
  <2>1. /\ Retirement(unclaimed) \in SUBSET ((SUBSET Rule) \ {{}})
        /\ LoadActive \ loaded \in SUBSET Rule
    BY RetirementType DEF LoadActive
  <2>2. Flush(Retirement(unclaimed), LoadActive \ loaded)
    BY <1>3 DEF StartWith
  <2> QED BY <2>1, <2>2, FlushSettles
<1>4. CASE Start \/ StartPartlyLoaded
  BY <1>3, <1>4 DEF Start, StartPartlyLoaded
<1>5. CASE EvalFlush
  <2>1. pending \in SUBSET ((SUBSET Rule) \ {{}}) /\ Flush(pending, {})
    BY <1>5 DEF EvalFlush, TypeOK
  <2> QED BY <2>1, FlushSettles
<1>6. CASE Exec
  <2>1. PICK f :
          /\ \A x \in Rule : mem'[x] = IF x \in running THEN f[x][1] ELSE mem[x]
          /\ settled' = {x \in settled : x \in running => f[x][1] = "none"}
    BY <1>6, ExecOutcome
  <2> QED BY <1>0, <1>6, <2>1 DEF Exec, table_vars
<1>7. CASE RecordHistory \/ RecordFailed
  BY <1>0, <1>7 DEF RecordHistory, RecordFailed, table_vars
<1>8. CASE Reload
  <2> DEFINE queue == pending \cup Retirement({x \in running \ files : mem[x] = "firing"})
  <2>1. queue \in SUBSET ((SUBSET Rule) \ {{}})
    BY RetirementType DEF TypeOK
  <2>2. Flush(queue, {})
    BY <1>8 DEF Reload
  <2> QED BY <2>1, <2>2, FlushSettles
<1>9. CASE Signal \/ GroupExit
  BY <1>0, <1>9 DEF Signal, GroupExit, table_vars
<1>10. CASE persistAllState \/ persistFailed \/ Crash
  <2>1. r \in settled
    BY <1>10 DEF persistAllState, persistFailed, Crash, Ended
  <2>2. state'[r] = Saved(r) \/ state' = state
    BY <1>0, <1>10, <2>1 DEF persistAllState, persistFailed, Crash, SavedState
  <2>3. Saved(r) = state[r]
    BY <1>0, <2>1 DEF Saved
  <2>4. mem'[r] = "none" /\ pending' = {}
    BY <1>0, <1>10, <2>1 DEF persistAllState, persistFailed, Crash, Ended, AllNone
  <2> QED BY <1>0, <2>1, <2>2, <2>3, <2>4
<1> QED BY <1>1, <1>2, <1>3, <1>4, <1>5, <1>6, <1>7, <1>8, <1>9, <1>10 DEF Next

\* Once a retirement is written and its state saved, no later restart
\* resolves its instances again (retire.go:25).
THEOREM SettledForGood == Spec => []SettledOnce
<1>1. Init => SettledAgrees
  BY DEF Init, SettledAgrees
<1>2. Inv /\ SettledAgrees /\ [Next]_vars => SettledAgrees'
  BY SettledStep
<1>3. SettledAgrees => SettledOnce
  BY DEF SettledAgrees, SettledOnce
<1> QED BY <1>1, <1>2, <1>3, TypeCorrect, PTL DEF Spec

-------------------------------------------------------------------------------
(***************************************************************************)
(* A restart after a saved shutdown.                                       *)
(***************************************************************************)

\* Nothing writes alert_state between the final save and the next start.
LEMMA SavedStep ==
    ASSUME Inv, SavedAgrees, [Next]_vars
    PROVE  SavedAgrees'
<1> USE DEF Inv, SavedAgrees
<1>1. CASE UNCHANGED vars
  BY <1>1 DEF vars, table_vars, end_vars
<1>2. ASSUME NEW rs \in (SUBSET Rule) \ {{}}, Edit(rs)
      PROVE  SavedAgrees'
  BY <1>2 DEF Edit, table_vars, end_vars
<1>3. CASE Start \/ StartPartlyLoaded \/ EvalFlush \/ Exec \/ RecordHistory \/ RecordFailed
           \/ Signal \/ GroupExit
  BY <1>3 DEF Start, StartPartlyLoaded, StartWith, EvalFlush, Exec, RecordHistory, RecordFailed, Signal, GroupExit
<1>4. CASE Reload
  BY <1>4 DEF Reload
<1>5. CASE persistAllState
  <2>1. \A r \in Rule : state'[r] = Saved(r)
    BY <1>5 DEF persistAllState, SavedState
  <2>2. held' = mem /\ owed' = UNION pending
    BY <1>5 DEF persistAllState, Ended
  <2>3. \A r \in Rule :
          /\ mem[r] = "firing" => Saved(r) = "firing"
          /\ mem[r] = "pending" => Saved(r) = IF r \in UNION pending THEN "firing" ELSE "pending"
    BY DEF Saved
  <2> QED BY <2>1, <2>2, <2>3
<1>6. CASE persistFailed \/ Crash
  BY <1>6 DEF persistFailed, Crash, Ended
<1> QED BY <1>1, <1>2, <1>3, <1>4, <1>5, <1>6 DEF Next

\* A start after a saved shutdown takes up every instance whose rule is still
\* there, firing or pending as it was; pending is taken up firing only where
\* a retirement of its instance was saved unwritten (main.go:201-247).
THEOREM RestartKeeps == Spec => RestartKeepsAlerts
<1>1. Init => SavedAgrees
  BY DEF Init, SavedAgrees
<1>2. Inv /\ SavedAgrees /\ [Next]_vars => SavedAgrees'
  BY SavedStep
<1>3. ASSUME Inv, SavedAgrees, Start, ending = "saved", NEW r \in files
      PROVE  /\ held[r] = "firing" => mem'[r] = "firing"
             /\ held[r] = "pending" => mem'[r] = IF r \in owed THEN "firing" ELSE "pending"
  <2>1. r \in Rule /\ pc = "down"
    BY <1>3 DEF Inv, TypeOK, Start, StartWith
  <2>2. mem'[r] = IF r \in LoadActive \cap files THEN state[r] ELSE "none"
    BY <1>3, <2>1 DEF Start, StartWith
  <2> QED BY <1>3, <2>1, <2>2 DEF SavedAgrees, LoadActive
<1>4. Inv /\ SavedAgrees => [Start /\ ending = "saved"
        => \A r \in files :
              /\ held[r] = "firing" => mem'[r] = "firing"
              /\ held[r] = "pending" => mem'[r] = IF r \in owed THEN "firing" ELSE "pending"]_vars
  BY <1>3
<1> QED BY <1>1, <1>2, <1>4, TypeCorrect, PTL DEF Spec, RestartKeepsAlerts

\* The variables of processes and tables keep their types.
THEOREM TypesKept == Spec => []TypeOK
<1>1. Inv => TypeOK
  BY DEF Inv
<1> QED BY <1>1, TypeCorrect, PTL
==============================================================================
