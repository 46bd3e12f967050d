--------------------------- MODULE Evaluation_proofs ---------------------------
(***************************************************************************)
(* Theorems about ExecRules and about Evaluation, which composes it with   *)
(* the sends, for every set of rules, every concurrency and every set of   *)
(* Alertmanagers.                                                          *)
(***************************************************************************)
EXTENDS Evaluation, FiniteSetTheorems, TLAPS

\* The rules stand in order once each: a position's rule stands nowhere else.
LEMMA OrderIsOnce ==
    /\ Len(order) = Cardinality(Rule) /\ Cardinality(Rule) \in Nat
    /\ DOMAIN order = 1..Len(order)
    /\ \A n \in 1..Len(order) : order[n] \in Rule
    /\ \A k, n \in 1..Len(order) : order[k] = order[n] => k = n
    /\ \A r \in Rule : \E n \in 1..Len(order) : order[n] = r
<1> DEFINE N == Cardinality(Rule)
<1>1. N \in Nat
  BY ExecAssumption, FS_CardinalityType
<1>2. order \in Seq(Rule) /\ Len(order) = N /\ DOMAIN order = 1..N
  BY <1>1, ExecAssumption
<1>3. IsFiniteSet(1..N) /\ Cardinality(1..N) = N
  BY <1>1, FS_Interval
<1>4. order \in Surjection(1..N, Rule)
  BY ExecAssumption DEF Surjection
<1>5. order \in Injection(1..N, Rule)
  BY <1>3, <1>4, FS_Surjection
<1> QED BY <1>1, <1>2, <1>5, ExecAssumption DEF Injection, IsInjective

Held == {r \in Rule : pc[r] \in Holding}

\* Where the group's goroutine can be, and what it has started.
MainAgrees ==
    /\ concurrency = 1 => main \in {"sequential", "returned"} /\ \A r \in Rule : pc[r] = "idle"
    /\ concurrency # 1 => main # "sequential"
    /\ main = "starting" => \A n \in 1..Len(order) : n > started => pc[order[n]] = "idle"
    /\ closed => main \in {"collecting", "returned"}

\* A goroutine past Exec has an outcome to send.
OutcomeAgrees ==
    \A r \in Rule : pc[r] \notin {"idle", "waiting", "running"} => outcome[r] \in Outcomes

SafeInv ==
    /\ TypeOK /\ SemCounts /\ ConcurrencyBound
    /\ MainAgrees /\ OutcomeAgrees /\ NoSendAfterClose

\* A goroutine that holds a token is one of the counted ones.
LEMMA HeldFinite ==
    /\ IsFiniteSet(Held) /\ Cardinality(Held) \in Nat
    /\ \A r \in Rule : /\ Cardinality(Held \cup {r}) = IF r \in Held THEN Cardinality(Held) ELSE Cardinality(Held) + 1
                       /\ Cardinality(Held \ {r}) = IF r \in Held THEN Cardinality(Held) - 1 ELSE Cardinality(Held)
                       /\ r \in Held => Cardinality(Held) >= 1
<1>1. Held \in SUBSET Rule
  BY DEF Held
<1>2. IsFiniteSet(Held)
  BY <1>1, ExecAssumption, FS_Subset
<1>3. Cardinality(Held) \in Nat
  BY <1>2, FS_CardinalityType
<1>4. ASSUME NEW r \in Rule
      PROVE  /\ Cardinality(Held \cup {r}) = IF r \in Held THEN Cardinality(Held) ELSE Cardinality(Held) + 1
             /\ Cardinality(Held \ {r}) = IF r \in Held THEN Cardinality(Held) - 1 ELSE Cardinality(Held)
             /\ r \in Held => Cardinality(Held) >= 1
  <2>1. /\ Cardinality(Held \cup {r}) = IF r \in Held THEN Cardinality(Held) ELSE Cardinality(Held) + 1
        /\ Cardinality(Held \ {r}) = IF r \in Held THEN Cardinality(Held) - 1 ELSE Cardinality(Held)
    BY <1>2, FS_AddElement, FS_RemoveElement
  <2>2. Cardinality(Held) = 0 => Held = {}
    BY <1>2, FS_EmptySet
  <2> QED BY <2>1, <2>2, <1>3
<1> QED BY <1>2, <1>3, <1>4

\* A sequence grows by its last element.
LEMMA AppendedOne ==
    ASSUME NEW S, NEW s \in Seq(S), NEW e \in S
    PROVE  /\ Append(s, e) \in Seq(S)
           /\ Len(Append(s, e)) = Len(s) + 1 /\ Len(s) \in Nat
           /\ \A n \in 1..Len(s) : Append(s, e)[n] = s[n]
           /\ Append(s, e)[Len(s) + 1] = e
OBVIOUS

\* A sequence loses its first element.
LEMMA HeadAndTail ==
    ASSUME NEW S, NEW s \in Seq(S), s # <<>>
    PROVE  /\ Head(s) \in S /\ Head(s) = s[1]
           /\ Tail(s) \in Seq(S)
           /\ Len(Tail(s)) = Len(s) - 1 /\ Len(s) \in Nat \ {0}
           /\ \A n \in 1..Len(Tail(s)) : Tail(s)[n] = s[n + 1]
OBVIOUS

Results == [rule : Rule, outcome : Outcomes]

Evaluations == [rule : Rule, ok : BOOLEAN]

\* What collecting a result does to the records.
LEMMA CollectedOne ==
    ASSUME TypeOK, NEW res \in Results, Collected(res)
    PROVE  evals' \in Seq(Evaluations) /\ all' \subseteq Rule
<1>1. evaluation(res) \in Evaluations
  BY DEF evaluation, Results, Evaluations, Outcomes
<1>2. evals' \in Seq(Evaluations)
  BY <1>1, AppendedOne DEF Collected, TypeOK, Evaluations
<1> QED BY <1>2 DEF Collected, TypeOK, Results

\* Every step keeps the types; the semaphore is not drained below zero
\* because the goroutine that releases it is counted (group.go:304-322).
LEMMA TypeStep ==
    ASSUME SafeInv, [Next]_vars
    PROVE  TypeOK'
<1> USE DEF SafeInv
<1> USE OrderIsOnce
<1>1. CASE UNCHANGED vars
  BY <1>1 DEF vars, TypeOK
<1>2. CASE ExecSequential
  <2>1. order[started + 1] \in Rule /\ started + 1 \in 0..Cardinality(Rule)
    BY <1>2 DEF ExecSequential, TypeOK
  <2>2. PICK o \in Outcomes :
            /\ outcome' = [outcome EXCEPT ![order[started + 1]] = o]
            /\ Collected([rule |-> order[started + 1], outcome |-> o])
    BY <1>2 DEF ExecSequential
  <2>3. evals' \in Seq(Evaluations) /\ all' \subseteq Rule
    BY <2>1, <2>2, CollectedOne DEF Results
  <2> QED BY <1>2, <2>1, <2>2, <2>3 DEF ExecSequential, TypeOK, Evaluations
<1>3. CASE ReturnSequential \/ StartCloser \/ Return \/ Close
  BY <1>3 DEF ReturnSequential, StartCloser, Return, Close, TypeOK
<1>4. CASE Start
  BY <1>4 DEF Start, TypeOK, PCs
<1>5. CASE Collect
  <2>1. /\ Head(results) \in Results
        /\ Tail(results) \in Seq(Results)
    BY <1>5, HeadAndTail DEF Collect, TypeOK, Results
  <2>2. evals' \in Seq(Evaluations) /\ all' \subseteq Rule
    BY <1>5, <2>1, CollectedOne DEF Collect
  <2> QED BY <1>5, <2>1, <2>2 DEF Collect, TypeOK, Results, Evaluations
<1>6. ASSUME NEW r \in Rule, Acquire(r) \/ WgDone(r)
      PROVE  TypeOK'
  <2>1. /\ pc' \in [Rule -> PCs] /\ sem' \in Nat
        /\ UNCHANGED <<main, started, results, closed, outcome, evals, all, concurrency>>
    <3>1. pc' \in [Rule -> PCs]
      BY <1>6 DEF Acquire, WgDone, Goto, TypeOK, PCs
    <3>2. sem' \in Nat
      BY <1>6 DEF Acquire, WgDone, TypeOK
    <3> QED BY <1>6, <3>1, <3>2 DEF Acquire, WgDone
  <2> QED BY <2>1 DEF TypeOK
<1>9. ASSUME NEW r \in Rule, Exec(r)
      PROVE  TypeOK'
  <2>1. PICK o \in Outcomes :
            /\ pc' = [pc EXCEPT ![r] = IF o = "panicked" THEN "panicked" ELSE "executed"]
            /\ outcome' = [outcome EXCEPT ![r] = o]
    BY <1>9 DEF Exec, Goto
  <2>2. pc' \in [Rule -> PCs] /\ outcome' \in [Rule -> Outcomes \cup {"none"}]
    BY <2>1 DEF TypeOK, PCs
  <2> QED BY <1>9, <2>2 DEF Exec, TypeOK
<1>7. ASSUME NEW r \in Rule, Report(r) \/ ReportPanic(r)
      PROVE  TypeOK'
  <2>1. Result(r) \in Results
    BY <1>7 DEF Report, ReportPanic, Goto, OutcomeAgrees, Result, Results
  <2>3. results \in Seq(Results) /\ results' = Append(results, Result(r))
    BY <1>7 DEF Report, ReportPanic, Send, TypeOK, Results
  <2>2. results' \in Seq(Results)
    BY <2>1, <2>3, AppendedOne
  <2> QED BY <1>7, <2>2 DEF Report, ReportPanic, Send, Goto, TypeOK, PCs, Results
<1>8. ASSUME NEW r \in Rule, Release(r)
      PROVE  TypeOK'
  <2>1. r \in Held /\ sem = Cardinality(Held)
    BY <1>8 DEF Release, Goto, Held, Holding, SemCounts
  <2>3. Cardinality(Held) \in Nat /\ Cardinality(Held) >= 1
    BY <2>1, HeldFinite
  <2>2. sem' \in Nat
    BY <1>8, <2>1, <2>3 DEF Release
  <2> QED BY <1>8, <2>2 DEF Release, Goto, TypeOK, PCs
<1> QED BY <1>1, <1>2, <1>3, <1>4, <1>5, <1>6, <1>7, <1>8, <1>9 DEF Next, Main, Goroutine

\* The semaphore counts the goroutines between Acquire and Release, which is
\* passed on a panic too (group.go:304-325).
LEMMA CountStep ==
    ASSUME SafeInv, [Next]_vars
    PROVE  SemCounts' /\ ConcurrencyBound'
<1> USE DEF SafeInv, Goto
<1> USE HeldFinite
<1>a. sem = Cardinality(Held) /\ sem <= concurrency
  BY DEF SemCounts, ConcurrencyBound, Held
<1>b. SUFFICES sem' = Cardinality(Held') /\ sem' <= concurrency'
  BY DEF SemCounts, ConcurrencyBound, Held
<1>1. CASE UNCHANGED <<pc, sem, concurrency>>
  BY <1>1, <1>a DEF Held
<1>2. CASE Start
  <2>1. order[started + 1] \in Rule /\ pc[order[started + 1]] = "idle"
    BY <1>2, OrderIsOnce DEF Start, MainAgrees, TypeOK
  <2>2. Held' = Held
    BY <1>2, <2>1 DEF Start, Held, Holding, TypeOK
  <2> QED BY <1>2, <1>a, <2>2 DEF Start
<1>3. ASSUME NEW r \in Rule, Acquire(r)
      PROVE  sem' = Cardinality(Held') /\ sem' <= concurrency'
  <2>1. r \notin Held /\ Held' = Held \cup {r}
    BY <1>3 DEF Acquire, Held, Holding, TypeOK
  <2>2. sem' = sem + 1 /\ sem < concurrency /\ concurrency' = concurrency
    BY <1>3 DEF Acquire
  <2>3. concurrency \in Nat
    BY ExecAssumption DEF TypeOK
  <2> QED BY <1>a, <2>1, <2>2, <2>3
<1>4. ASSUME NEW r \in Rule, Exec(r) \/ Report(r)
      PROVE  sem' = Cardinality(Held') /\ sem' <= concurrency'
  <2>1. Held' = Held
    BY <1>4 DEF Exec, Report, Held, Holding, TypeOK
  <2> QED BY <1>4, <1>a, <2>1 DEF Exec, Report, Send
<1>5. ASSUME NEW r \in Rule, ReportPanic(r) \/ WgDone(r)
      PROVE  sem' = Cardinality(Held') /\ sem' <= concurrency'
  <2>1. Held' = Held
    BY <1>5 DEF ReportPanic, WgDone, Held, Holding, TypeOK
  <2> QED BY <1>5, <1>a, <2>1 DEF ReportPanic, WgDone, Send
<1>6. ASSUME NEW r \in Rule, Release(r)
      PROVE  sem' = Cardinality(Held') /\ sem' <= concurrency'
  <2>1. r \in Held /\ Held' = Held \ {r}
    BY <1>6 DEF Release, Held, Holding, TypeOK
  <2>2. sem' = sem - 1 /\ concurrency' = concurrency
    BY <1>6 DEF Release
  <2>3. concurrency \in Nat
    BY ExecAssumption DEF TypeOK
  <2> QED BY <1>a, <2>1, <2>2, <2>3
<1>7. CASE Close \/ ExecSequential \/ ReturnSequential \/ StartCloser \/ Collect \/ Return
  BY <1>7, <1>1 DEF Close, ExecSequential, ReturnSequential, StartCloser, Collect, Return
<1> QED BY <1>1, <1>2, <1>3, <1>4, <1>5, <1>6, <1>7 DEF Next, Main, Goroutine, vars

\* Once closed, everyone is done, and done is done; before that the loop has
\* started everyone (group.go:312-333).
LEMMA ControlStep ==
    ASSUME SafeInv, [Next]_vars
    PROVE  MainAgrees' /\ OutcomeAgrees' /\ NoSendAfterClose'
<1> USE DEF SafeInv, Goto
<1>1. CASE UNCHANGED vars
  BY <1>1 DEF vars, MainAgrees, OutcomeAgrees, NoSendAfterClose
<1>2. CASE ExecSequential
  <2>1. concurrency = 1 /\ ~closed
    BY <1>2 DEF ExecSequential, MainAgrees
  <2> QED BY <1>2, <2>1 DEF ExecSequential, MainAgrees, OutcomeAgrees, NoSendAfterClose
<1>3. CASE ReturnSequential \/ StartCloser \/ Return \/ Close \/ Collect
  BY <1>3 DEF ReturnSequential, StartCloser, Return, Close, Collect,
              MainAgrees, OutcomeAgrees, NoSendAfterClose
<1>4. CASE Start
  <2>1. order[started + 1] \in Rule /\ started \in Nat
    BY <1>4, OrderIsOnce DEF Start, TypeOK
  <2>2. \A n \in 1..Len(order) : n > started + 1 =>
            order[n] \in Rule /\ order[n] # order[started + 1] /\ pc[order[n]] = "idle"
    BY <1>4, <2>1, OrderIsOnce DEF Start, TypeOK, MainAgrees
  <2>3. ~closed /\ concurrency # 1
    BY <1>4 DEF Start, MainAgrees
  <2> QED BY <1>4, <2>1, <2>2, <2>3 DEF Start, TypeOK, MainAgrees, OutcomeAgrees, NoSendAfterClose
<1>5. ASSUME NEW r \in Rule, Goroutine(r)
      PROVE  MainAgrees' /\ OutcomeAgrees' /\ NoSendAfterClose'
  <2>1. /\ pc[r] \notin {"idle", "done"}
        /\ pc' = [pc EXCEPT ![r] = pc'[r]] /\ pc'[r] # "idle"
        /\ UNCHANGED <<concurrency, main, started, closed>>
    BY <1>5 DEF Goroutine, Acquire, Exec, Report, Release, ReportPanic, WgDone, Send, TypeOK
  <2>2. ~closed /\ concurrency # 1
    BY <2>1 DEF NoSendAfterClose, MainAgrees
  <2>3. MainAgrees' /\ NoSendAfterClose'
    BY <2>1, <2>2, OrderIsOnce DEF MainAgrees, NoSendAfterClose, TypeOK
  <2>4. OutcomeAgrees'
    BY <1>5 DEF Goroutine, Acquire, Exec, Report, Release, ReportPanic, WgDone, Send,
                TypeOK, OutcomeAgrees
  <2> QED BY <2>3, <2>4
<1> QED BY <1>1, <1>2, <1>3, <1>4, <1>5 DEF Next, Main

\* The beginning of an evaluation.
LEMMA SafeInit == Init => SafeInv
<1> SUFFICES ASSUME Init PROVE SafeInv
  OBVIOUS
<1>1. TypeOK
  <2>1. <<>> \in Seq(Results) /\ <<>> \in Seq(Evaluations)
    OBVIOUS
  <2>2. 0 \in 0..Cardinality(Rule)
    BY OrderIsOnce
  <2>3. pc \in [Rule -> PCs] /\ outcome \in [Rule -> Outcomes \cup {"none"}]
    BY DEF Init, PCs
  <2> QED BY <2>1, <2>2, <2>3 DEF Init, TypeOK, Results, Evaluations
<1>2. Held = {}
  BY DEF Init, Held, Holding
<1>3. Cardinality(Held) = 0
  BY <1>2, FS_EmptySet
<1>4. SemCounts /\ ConcurrencyBound
  BY <1>3, ExecAssumption DEF Init, SemCounts, ConcurrencyBound, Held
<1>5. MainAgrees /\ OutcomeAgrees /\ NoSendAfterClose
  BY ExecAssumption, OrderIsOnce DEF Init, MainAgrees, OutcomeAgrees, NoSendAfterClose
<1> QED BY <1>1, <1>4, <1>5 DEF SafeInv

\* Types, the count of the semaphore and the closing of the channel hold
\* together: each needs the others to be kept.
THEOREM EvaluationIsSafe == Spec => []SafeInv
<1>1. SafeInv /\ [Next]_vars => SafeInv'
  BY TypeStep, CountStep, ControlStep DEF SafeInv
<1> QED BY SafeInit, <1>1, PTL DEF Spec

-------------------------------------------------------------------------------
(***************************************************************************)
(* Every rule has its one evaluation.                                      *)
(***************************************************************************)

\* The rules whose result was sent.
Sent == {r \in Rule : pc[r] \in {"reported", "leaving", "done"}}

InResults(r) == \E n \in 1..Len(results) : results[n] = Result(r)

InEvals(r) == \E n \in 1..Len(evals) : evals[n] = evaluation(Result(r))

\* The concurrent path: what was sent is in the channel or collected, once.
ConcurrentAgrees ==
    concurrency # 1 =>
        /\ Len(evals) + Len(results) = Cardinality(Sent)
        /\ \A n \in 1..Len(results) : results[n].rule \in Sent /\ results[n] = Result(results[n].rule)
        /\ \A r \in Sent : InResults(r) \/ InEvals(r)
        /\ \A r \in all : r \in Sent /\ outcome[r] = "ok"
        /\ \A r \in Sent : outcome[r] = "ok" => r \in all \/ InResults(r)
        /\ main = "returned" => closed /\ results = <<>>

\* The sequential path: the rules up to started, in order.
SequentialAgrees ==
    concurrency = 1 =>
        /\ Len(evals) = started
        /\ \A n \in 1..started : evals[n] = evaluation(Result(order[n]))
        /\ \A n \in 1..Len(order) : order[n] \in all <=> n <= started /\ outcome[order[n]] = "ok"
        /\ main = "returned" => started = Len(order)

\* A step that sends and collects nothing, and gives no sender another outcome.
LEMMA NothingSent ==
    ASSUME ConcurrentAgrees, Sent' = Sent, UNCHANGED <<concurrency, results, evals, all>>,
           \A r \in Sent : outcome'[r] = outcome[r],
           main' = "returned" => closed' /\ results' = <<>>
    PROVE  ConcurrentAgrees'
<1>1. \A r \in Sent : (Result(r))' = Result(r)
  BY DEF Result
<1>2. \A r \in Sent : (InResults(r))' = InResults(r) /\ (InEvals(r))' = InEvals(r)
  BY <1>1 DEF InResults, InEvals, evaluation
<1> QED BY <1>1, <1>2 DEF ConcurrentAgrees

\* A result is sent by a goroutine that has sent none.
LEMMA OneSent ==
    ASSUME TypeOK, ConcurrentAgrees, NEW r \in Rule, r \notin Sent, Sent' = Sent \cup {r},
           outcome[r] \in Outcomes, results' = Append(results, Result(r)),
           UNCHANGED <<concurrency, outcome, evals, all>>, main' # "returned"
    PROVE  ConcurrentAgrees'
<1> SUFFICES ASSUME concurrency # 1
             PROVE  ConcurrentAgrees'
  BY DEF ConcurrentAgrees
<1>1. results \in Seq(Results) /\ evals \in Seq(Evaluations) /\ Result(r) \in Results
  BY DEF TypeOK, Results, Evaluations, Result
<1>2. /\ Len(results') = Len(results) + 1 /\ Len(results) \in Nat /\ Len(evals) \in Nat
      /\ \A n \in 1..Len(results) : results'[n] = results[n]
      /\ results'[Len(results) + 1] = Result(r)
  BY <1>1, AppendedOne
<1>3. Cardinality(Sent') = Cardinality(Sent) + 1
  <2>1. IsFiniteSet(Sent)
    BY ExecAssumption, FS_Subset DEF Sent
  <2> QED BY <2>1, FS_AddElement
<1>4. \A s \in Rule : (Result(s))' = Result(s)
  BY DEF Result
<1>5. \A s \in Rule : InResults(s) => (InResults(s))'
  BY <1>2, <1>4 DEF InResults
<1>6. (InResults(r))'
  BY <1>2, <1>4 DEF InResults
<1>7. \A s \in Rule : InEvals(s) => (InEvals(s))'
  BY <1>4 DEF InEvals, evaluation
<1>8. \A n \in 1..Len(results') :
          results'[n].rule \in Sent' /\ results'[n] = (Result(results[n].rule))'
  <2>1. \A n \in 1..Len(results) :
            results'[n].rule \in Sent' /\ results'[n] = (Result(results'[n].rule))
    BY <1>2, <1>4 DEF ConcurrentAgrees, Sent
  <2>2. Result(r).rule = r
    BY DEF Result
  <2> QED BY <1>2, <1>4, <2>1, <2>2 DEF Result
<1> QED BY <1>2, <1>3, <1>4, <1>5, <1>6, <1>7, <1>8 DEF ConcurrentAgrees, Sent

\* The head of the channel of results becomes an Evaluation.
LEMMA OneCollected ==
    ASSUME TypeOK, ConcurrentAgrees, Sent' = Sent, results # <<>>,
           Collected(Head(results)), results' = Tail(results),
           UNCHANGED <<concurrency, outcome>>, main' # "returned"
    PROVE  ConcurrentAgrees'
<1> SUFFICES ASSUME concurrency # 1
             PROVE  ConcurrentAgrees'
  BY DEF ConcurrentAgrees
<1>1. results \in Seq(Results) /\ evals \in Seq(Evaluations)
  BY DEF TypeOK, Results, Evaluations
<1>2. /\ Len(results') = Len(results) - 1 /\ Len(results) \in Nat \ {0} /\ Len(evals) \in Nat
      /\ \A n \in 1..Len(results') : results'[n] = results[n + 1]
      /\ Head(results) = results[1] /\ results[1] \in Results
  BY <1>1, HeadAndTail, AppendedOne
<1>3. PICK h \in Rule : h \in Sent /\ results[1] = Result(h)
  BY <1>2 DEF ConcurrentAgrees, Sent
<1>4. evaluation(Result(h)) \in Evaluations
  BY <1>2, <1>3 DEF evaluation, Result, Evaluations
<1>5. /\ evals' = Append(evals, evaluation(Result(h)))
      /\ all' = IF outcome[h] = "ok" THEN all \cup {h} ELSE all
  <2>1. Head(results) = Result(h)
    BY <1>2, <1>3
  <2>2. /\ evals' = Append(evals, evaluation(Head(results)))
        /\ all' = IF Head(results).outcome = "ok" THEN all \cup {Head(results).rule} ELSE all
    BY DEF Collected
  <2>3. evals' = Append(evals, evaluation(Result(h)))
    BY <2>1, <2>2
  <2>4. Head(results).rule = h /\ Head(results).outcome = outcome[h]
    BY <2>1 DEF Result
  <2> QED BY <2>2, <2>3, <2>4
<1>6. /\ Len(evals') = Len(evals) + 1
      /\ \A n \in 1..Len(evals) : evals'[n] = evals[n]
      /\ evals'[Len(evals) + 1] = evaluation(Result(h))
  BY <1>1, <1>4, <1>5, AppendedOne
<1>7. \A r \in Rule : (Result(r))' = Result(r) /\ (evaluation(Result(r)))' = evaluation(Result(r))
  BY DEF Result, evaluation
<1>8. \A r \in Rule : InEvals(r) => (InEvals(r))'
  BY <1>2, <1>6, <1>7 DEF InEvals
<1>9. (InEvals(h))'
  BY <1>2, <1>3, <1>6, <1>7 DEF InEvals
<1>10. \A r \in Rule : InResults(r) => r = h \/ (InResults(r))'
  <2> SUFFICES ASSUME NEW r \in Rule, NEW n \in 1..Len(results), results[n] = Result(r), r # h
               PROVE  (InResults(r))'
    BY DEF InResults
  <2>1. n # 1
    BY <1>3 DEF Result
  <2>2. n - 1 \in 1..Len(results') /\ results'[n - 1] = results[n]
    BY <1>2, <2>1
  <2> QED BY <2>2, <1>7 DEF InResults
<1>11. \A n \in 1..Len(results') :
           results'[n].rule \in Sent /\ results'[n] = Result(results'[n].rule)
  BY <1>2 DEF ConcurrentAgrees
<1>12. \A r \in all' : r \in Sent /\ outcome[r] = "ok"
  BY <1>3, <1>5 DEF ConcurrentAgrees
<1>13. Sent \subseteq Rule
  BY DEF Sent
<1>14. \A r \in Sent : outcome[r] = "ok" => r \in all' \/ (InResults(r))'
  BY <1>5, <1>10, <1>13 DEF ConcurrentAgrees
<1>15. \A r \in Sent : (InResults(r))' \/ (InEvals(r))'
  BY <1>8, <1>9, <1>10, <1>13 DEF ConcurrentAgrees
<1>16. Len(evals') + Len(results') = Cardinality(Sent')
  BY <1>2, <1>6 DEF ConcurrentAgrees
<1>17. \A n \in 1..Len(results') :
           results'[n].rule \in Sent' /\ results'[n] = (Result(results[n].rule))'
  <2>1. \A n \in 1..Len(results') : results'[n].rule \in Rule
    BY <1>11, <1>13
  <2> QED BY <1>7, <1>11, <2>1 DEF Result
<1> QED BY <1>12, <1>14, <1>15, <1>16, <1>17 DEF ConcurrentAgrees

\* Every step of the goroutines, the closer and the collector keeps it.
LEMMA ConcurrentStep ==
    ASSUME SafeInv, ConcurrentAgrees, [Next]_vars
    PROVE  ConcurrentAgrees'
<1> USE DEF SafeInv, Goto
<1>1. CASE UNCHANGED vars
  <2>1. Sent' = Sent
    BY <1>1 DEF vars, Sent
  <2> QED BY <1>1, <2>1, NothingSent DEF vars, ConcurrentAgrees
<1>2. CASE ExecSequential \/ ReturnSequential
  <2>1. concurrency' = 1
    BY <1>2 DEF ExecSequential, ReturnSequential, MainAgrees
  <2> QED BY <2>1 DEF ConcurrentAgrees
<1>3. CASE Start
  <2>1. order[started + 1] \in Rule /\ pc[order[started + 1]] = "idle"
    BY <1>3, OrderIsOnce DEF Start, MainAgrees, TypeOK
  <2>2. Sent' = Sent
    BY <1>3, <2>1 DEF Start, Sent, TypeOK
  <2> QED BY <1>3, <2>2, NothingSent DEF Start
<1>4. CASE StartCloser \/ Return \/ Close
  <2>1. Sent' = Sent
    BY <1>4 DEF StartCloser, Return, Close, Sent
  <2> QED BY <1>4, <2>1, NothingSent DEF StartCloser, Return, Close
<1>5. CASE Collect
  <2>1. Sent' = Sent
    BY <1>5 DEF Collect, Sent
  <2> QED BY <1>5, <2>1, OneCollected DEF Collect
<1>6. ASSUME NEW r \in Rule, Acquire(r) \/ Exec(r) \/ Release(r) \/ WgDone(r)
      PROVE  ConcurrentAgrees'
  <2>1. Sent' = Sent
    BY <1>6 DEF Acquire, Exec, Release, WgDone, Sent, TypeOK
  <2>2. \A s \in Sent : outcome'[s] = outcome[s]
    BY <1>6 DEF Acquire, Exec, Release, WgDone, Sent, TypeOK
  <2>3. UNCHANGED <<concurrency, results, evals, all, main, closed>>
    BY <1>6 DEF Acquire, Exec, Release, WgDone
  <2>4. ~closed
    BY <1>6 DEF Acquire, Exec, Release, WgDone, NoSendAfterClose
  <2>5. concurrency # 1
    BY <1>6 DEF Acquire, Exec, Release, WgDone, MainAgrees
  <2>6. main' # "returned"
    BY <2>3, <2>4, <2>5 DEF ConcurrentAgrees
  <2> QED BY <2>1, <2>2, <2>3, <2>6, NothingSent
<1>7. ASSUME NEW r \in Rule, Report(r) \/ ReportPanic(r)
      PROVE  ConcurrentAgrees'
  <2>1. r \notin Sent /\ Sent' = Sent \cup {r}
    BY <1>7 DEF Report, ReportPanic, Sent, TypeOK
  <2>2. outcome[r] \in Outcomes
    BY <1>7 DEF Report, ReportPanic, OutcomeAgrees
  <2>3. /\ results' = Append(results, Result(r))
        /\ UNCHANGED <<concurrency, outcome, evals, all, main>>
    BY <1>7 DEF Report, ReportPanic, Send
  <2>4. ~closed /\ concurrency # 1
    BY <1>7 DEF Report, ReportPanic, NoSendAfterClose, MainAgrees
  <2>5. main' # "returned"
    BY <2>3, <2>4 DEF ConcurrentAgrees
  <2> QED BY <2>1, <2>2, <2>3, <2>5, OneSent
<1> QED BY <1>1, <1>2, <1>3, <1>4, <1>5, <1>6, <1>7 DEF Next, Main, Goroutine

\* The sequential path executes the rules in order, once each.
LEMMA SequentialStep ==
    ASSUME SafeInv, SequentialAgrees, [Next]_vars
    PROVE  SequentialAgrees'
<1> USE DEF SafeInv
<1> SUFFICES ASSUME concurrency = 1
             PROVE  SequentialAgrees'
  <2>1. concurrency' = concurrency
    BY DEF Next, vars, Main, Goroutine, ExecSequential, ReturnSequential, Start, StartCloser,
           Collect, Return, Close, Acquire, Exec, Report, Release, ReportPanic, WgDone, Send
  <2> QED BY <2>1 DEF SequentialAgrees
<1>1. UNCHANGED vars \/ ExecSequential \/ ReturnSequential
  BY DEF Next, Main, Goroutine, Start, StartCloser, Collect, Return, Close, MainAgrees,
         Acquire, Exec, Report, Release, ReportPanic, WgDone, Goto
<1>2. CASE UNCHANGED vars
  BY <1>2 DEF vars, SequentialAgrees, Result
<1>3. CASE ReturnSequential
  BY <1>3, OrderIsOnce DEF ReturnSequential, SequentialAgrees, Result
<1>4. CASE ExecSequential
  <2> DEFINE k == started + 1
  <2>1. k \in 1..Len(order) /\ started \in Nat /\ k = started + 1
    BY <1>4, OrderIsOnce DEF ExecSequential, TypeOK
  <2>2. PICK r \in Rule : r = order[k]
    BY <2>1, OrderIsOnce
  <2>3. PICK o \in Outcomes : /\ outcome' = [outcome EXCEPT ![r] = o]
                              /\ Collected([rule |-> r, outcome |-> o])
    BY <1>4, <2>2 DEF ExecSequential
  <2>4. /\ outcome'[r] = o
        /\ \A n \in 1..Len(order) : n # k => order[n] # r /\ outcome'[order[n]] = outcome[order[n]]
    BY <2>1, <2>2, <2>3, OrderIsOnce DEF TypeOK
  <2> DEFINE e == evaluation([rule |-> r, outcome |-> o])
  <2>5. e \in Evaluations
    BY DEF evaluation, Evaluations
  <2>6. evals \in Seq(Evaluations) /\ evals' = Append(evals, e)
    BY <2>3 DEF TypeOK, Evaluations, Collected
  <2>7. /\ Len(evals') = started + 1
        /\ \A n \in 1..started : evals'[n] = evals[n]
        /\ evals'[started + 1] = e
    BY <2>5, <2>6, AppendedOne DEF SequentialAgrees
  <2>13. ASSUME NEW n \in 1..(started + 1)
         PROVE  evals'[n] = (evaluation(Result(order[n])))'
    <3>1. n \in 1..Len(order)
      BY <2>1
    <3>2. CASE n = started + 1
      BY <3>2, <2>2, <2>4, <2>7 DEF evaluation, Result
    <3>3. CASE n # started + 1
      <4>1. n \in 1..started /\ outcome'[order[n]] = outcome[order[n]]
        BY <3>1, <3>3, <2>1, <2>4
      <4>2. evals'[n] = evaluation(Result(order[n]))
        BY <4>1, <2>7 DEF SequentialAgrees
      <4> QED BY <4>1, <4>2 DEF evaluation, Result
    <3> QED BY <3>2, <3>3
  <2>9. all' = IF o = "ok" THEN all \cup {r} ELSE all
    BY <2>3 DEF Collected
  <2>10. \A n \in 1..Len(order) : order[n] \in all' <=> n <= started + 1 /\ outcome'[order[n]] = "ok"
    BY <2>1, <2>2, <2>4, <2>9 DEF SequentialAgrees
  <2>11. started' = started + 1 /\ main' = "sequential"
    BY <1>4 DEF ExecSequential
  <2>14. \A n \in 1..started' : evals'[n] = (evaluation(Result(order[n])))'
    BY <2>11, <2>13
  <2> QED BY <2>1, <2>7, <2>10, <2>11, <2>14 DEF SequentialAgrees
<1> QED BY <1>1, <1>2, <1>3, <1>4

\* Nothing is sent or collected when an evaluation begins.
LEMMA CollectedInit == Init => ConcurrentAgrees /\ SequentialAgrees
<1> SUFFICES ASSUME Init PROVE ConcurrentAgrees /\ SequentialAgrees
  OBVIOUS
<1>1. Sent = {} /\ Cardinality(Sent) = 0
  BY FS_EmptySet DEF Init, Sent
<1>2. ConcurrentAgrees
  BY <1>1, ExecAssumption DEF Init, ConcurrentAgrees
<1>3. SequentialAgrees
  BY OrderIsOnce DEF Init, SequentialAgrees
<1> QED BY <1>2, <1>3

\* Once everyone is done and the channel is empty everything is collected.
LEMMA ReturnedConcurrent ==
    ASSUME SafeInv, ConcurrentAgrees, concurrency # 1
    PROVE  EveryRuleOnce
<1> SUFFICES ASSUME main = "returned"
             PROVE  /\ Len(evals) = Cardinality(Rule)
                    /\ \A r \in Rule : \E n \in DOMAIN evals :
                          evals[n] = [rule |-> r, ok |-> outcome[r] = "ok"]
                    /\ all = {r \in Rule : outcome[r] = "ok"}
  BY DEF EveryRuleOnce
<1>1. results = <<>> /\ Sent = Rule
  BY DEF ConcurrentAgrees, SafeInv, NoSendAfterClose, Sent
<1>2. /\ evals \in Seq(Evaluations) /\ Len(evals) \in Nat /\ DOMAIN evals = 1..Len(evals)
      /\ Len(results) = 0
  BY <1>1 DEF SafeInv, TypeOK, Evaluations
<1>3. Len(evals) = Cardinality(Rule)
  BY <1>1, <1>2, OrderIsOnce DEF ConcurrentAgrees
<1>4. \A r \in Rule : ~InResults(r)
  BY <1>2 DEF InResults
<1>5. \A r \in Rule : InEvals(r)
  BY <1>1, <1>4 DEF ConcurrentAgrees
<1>6. all = {r \in Rule : outcome[r] = "ok"}
  BY <1>1, <1>4 DEF ConcurrentAgrees
<1> QED BY <1>2, <1>3, <1>5, <1>6 DEF InEvals, evaluation, Result

\* Once the last rule in order has run everything is collected.
LEMMA ReturnedSequential ==
    ASSUME SafeInv, SequentialAgrees, concurrency = 1
    PROVE  EveryRuleOnce
<1> SUFFICES ASSUME main = "returned"
             PROVE  /\ Len(evals) = Cardinality(Rule)
                    /\ \A r \in Rule : \E n \in DOMAIN evals :
                          evals[n] = [rule |-> r, ok |-> outcome[r] = "ok"]
                    /\ all = {r \in Rule : outcome[r] = "ok"}
  BY DEF EveryRuleOnce
<1>1. started = Len(order) /\ Len(evals) = Len(order)
  BY DEF SequentialAgrees
<1>2. DOMAIN evals = 1..Len(order)
  BY <1>1 DEF SafeInv, TypeOK
<1>3. \A r \in Rule : \E n \in DOMAIN evals : evals[n] = evaluation(Result(r))
  BY <1>1, <1>2, OrderIsOnce DEF SequentialAgrees
<1>4. \A r \in Rule : r \in all <=> outcome[r] = "ok"
  BY <1>1, OrderIsOnce DEF SequentialAgrees
<1>5. all \subseteq Rule
  BY DEF SafeInv, TypeOK
<1> QED BY <1>1, <1>3, <1>4, <1>5, OrderIsOnce DEF evaluation, Result

\* When execRules returns every rule has its one Evaluation, and exactly the
\* alerts of the rules that succeeded are returned (group.go:264-266, 356-358).
THEOREM EveryRuleIsEvaluatedOnce == Spec => []EveryRuleOnce
<1>1. SafeInv /\ ConcurrentAgrees /\ SequentialAgrees /\ [Next]_vars
        => ConcurrentAgrees' /\ SequentialAgrees'
  BY ConcurrentStep, SequentialStep
<1>2. SafeInv /\ ConcurrentAgrees /\ SequentialAgrees => EveryRuleOnce
  BY ReturnedConcurrent, ReturnedSequential
<1> QED BY CollectedInit, <1>1, <1>2, EvaluationIsSafe, PTL DEF Spec

\* At most concurrency rules are in Exec at once (group.go:304, 321-322).
THEOREM ConcurrencyIsBounded == Spec => []ConcurrencyBound
<1>1. SafeInv => ConcurrencyBound
  BY DEF SafeInv
<1> QED BY <1>1, EvaluationIsSafe, PTL

\* No goroutine sends on the channel of results once it is closed
\* (group.go:312-319, 330-333).
THEOREM NothingSentAfterClose == Spec => []NoSendAfterClose
<1>1. SafeInv => NoSendAfterClose
  BY DEF SafeInv
<1> QED BY <1>1, EvaluationIsSafe, PTL

\* The variables of execRules keep their types.
THEOREM ExecTypeCorrect == Spec => []TypeOK
<1>1. SafeInv => TypeOK
  BY DEF SafeInv
<1> QED BY <1>1, EvaluationIsSafe, PTL

\* No token is lost or given back twice, whatever panics (group.go:314-323).
THEOREM SemaphoreCounts == Spec => []SemCounts
<1>1. SafeInv => SemCounts
  BY DEF SafeInv
<1> QED BY <1>1, EvaluationIsSafe, PTL
-------------------------------------------------------------------------------
(***************************************************************************)
(* The evaluation as a whole.                                              *)
(***************************************************************************)

\* Where the senders are when eval is elsewhere, and what became of the sends.
SendersAgree ==
    /\ step = "exec" => alerts = {} /\ \A u \in Alertmanager : sender[u] = "idle"
    /\ step = "send" => alerts # {}
    /\ step \notin {"exec", "send"} =>
          \A u \in Alertmanager : sender[u] = IF alerts = {} THEN "idle" ELSE "done"
    /\ \A u \in Alertmanager :
          /\ sender[u] \in {"idle", "sending"} <=> sendTo[u] = "none"
          /\ sender[u] = "failed" => sendTo[u] = "failed"
          /\ u \in errCh <=> sendTo[u] = "failed" /\ sender[u] # "failed"
    /\ step \notin {"exec", "send"} => errs = errCh
    /\ step = "exec" => errs = {}

\* What eval has done with the alerts and the Evaluations.
LogAgrees ==
    /\ step # "exec" => main = "returned"
    /\ log = IF step = "returned" THEN evals ELSE <<>>
    /\ step = "exec" => tried = {}
    /\ step \in {"log", "returned"} => tried = alerts

EvalInv == EvalTypeOK /\ SendersAgree /\ LogAgrees

\* A step of execRules leaves what eval knows as it is.
LEMMA ExecStepKeeps ==
    ASSUME EvalInv, ExecStep
    PROVE  EvalInv'
<1> USE DEF EvalInv, own_vars, ExecStep
<1>1. main # "returned" => step = "exec"
  BY DEF LogAgrees
<1>2. main = "returned" => UNCHANGED <<main, evals, all>>
  BY DEF ExecStep, Next, Main, ExecSequential, ReturnSequential, Start, StartCloser,
         Collect, Return, Close, Goroutine, Acquire, Exec, Report, Release, ReportPanic, WgDone, Send
<1>3. all \subseteq all'
  BY DEF ExecStep, Next, Main, ExecSequential, ReturnSequential, Start, StartCloser, Collected,
         Collect, Return, Close, Goroutine, Acquire, Exec, Report, Release, ReportPanic, WgDone, Send
<1>4. EvalTypeOK' /\ LogAgrees'
  BY <1>1, <1>2, <1>3 DEF ExecStep, EvalTypeOK, LogAgrees
<1>5. SendersAgree'
  BY DEF ExecStep, SendersAgree
<1> QED BY <1>4, <1>5

\* A step of a sender.
LEMMA SenderKeeps ==
    ASSUME EvalInv, NEW u \in Alertmanager, Sender(u)
    PROVE  EvalInv'
<1> USE DEF EvalInv, SenderGoto
<1>1. step = "send"
  BY DEF Sender, StartSender, SendTo, PutError, SenderDone, SendersAgree
<1>2. UNCHANGED <<vars, step, alerts, errs, tried, log>>
  BY DEF Sender, StartSender, SendTo, PutError, SenderDone
<1>3. LogAgrees'
  BY <1>2 DEF LogAgrees, vars
<1>4. EvalTypeOK'
  BY <1>2 DEF EvalTypeOK, vars, Sender, StartSender, SendTo, PutError, SenderDone, Outcomes, SenderPCs
<1>5. SendersAgree'
  <2>1. CASE StartSender(u)
    BY <1>1, <1>2, <2>1 DEF SendersAgree, StartSender, EvalTypeOK
  <2>2. CASE SendTo(u)
    BY <1>1, <1>2, <2>2 DEF SendersAgree, SendTo, EvalTypeOK, Outcomes
  <2>3. CASE PutError(u)
    BY <1>1, <1>2, <2>3 DEF SendersAgree, PutError, EvalTypeOK
  <2>4. CASE SenderDone(u)
    BY <1>1, <1>2, <2>4 DEF SendersAgree, SenderDone, EvalTypeOK
  <2> QED BY <2>1, <2>2, <2>3, <2>4 DEF Sender
<1> QED BY <1>3, <1>4, <1>5

\* A step of eval itself.
LEMMA EvalKeeps ==
    ASSUME EvalInv, Eval
    PROVE  EvalInv'
<1> USE DEF EvalInv, vars
<1>1. CASE Executed
  BY <1>1 DEF Executed, EvalTypeOK, SendersAgree, LogAgrees
<1>2. CASE SendReturned
  BY <1>2 DEF SendReturned, EvalTypeOK, SendersAgree, LogAgrees
<1>3. CASE RecordHistory
  BY <1>3 DEF RecordHistory, EvalTypeOK, SendersAgree, LogAgrees
<1>4. CASE RecordEvaluations
  BY <1>4 DEF RecordEvaluations, EvalTypeOK, SendersAgree, LogAgrees
<1> QED BY <1>1, <1>2, <1>3, <1>4 DEF Eval

\* In every reachable state eval, the senders and what each has done agree.
THEOREM EvaluationAgrees == EvalSpec => []EvalInv
<1>1. EvalInit => EvalInv
  BY DEF EvalInit, Init, EvalInv, EvalTypeOK, SendersAgree, LogAgrees, SenderPCs, Outcomes
<1>2. EvalInv /\ [EvalNext]_eval_vars => EvalInv'
  <2> SUFFICES ASSUME EvalInv, [EvalNext]_eval_vars
               PROVE  EvalInv'
    OBVIOUS
  <2>1. CASE UNCHANGED eval_vars
    BY <2>1 DEF eval_vars, own_vars, vars, EvalInv, EvalTypeOK, SendersAgree, LogAgrees
  <2> QED BY <2>1, ExecStepKeeps, SenderKeeps, EvalKeeps DEF EvalNext
<1> QED BY <1>1, <1>2, PTL DEF EvalSpec

\* What an evaluation does of execRules is execRules: everything proved of
\* ExecRules holds here (group.go:197).
THEOREM EvaluationRunsExecRules == EvalSpec => Spec
<1>1. EvalInit => Init
  BY DEF EvalInit
<1>2. [EvalNext]_eval_vars => [Next]_vars
  BY DEF EvalNext, eval_vars, ExecStep, Eval, Executed, SendReturned, RecordHistory, RecordEvaluations,
         Sender, StartSender, SendTo, PutError, SenderDone
<1> QED BY <1>1, <1>2, PTL DEF EvalSpec, Spec

\* The variables of an evaluation keep their types.
THEOREM EvaluationTypeCorrect == EvalSpec => []EvalTypeOK
<1>1. EvalInv => EvalTypeOK
  BY DEF EvalInv
<1> QED BY <1>1, EvaluationAgrees, PTL

\* Send waits for every sender and returns the error of each that failed,
\* whichever of them panic (alertmanager.go:116-149).
THEOREM FailuresAreReported == EvalSpec => []FailuresReported
<1>1. EvalInv => FailuresReported
  BY DEF EvalInv, SendersAgree, FailuresReported, EvalTypeOK
<1> QED BY <1>1, EvaluationAgrees, PTL

\* However many rules, sends and writes fail, an evaluation that returns has
\* tried every receiver and the history, and recorded each rule once.
THEOREM NothingIsSkipped == EvalSpec => []NothingSkipped
<1>1. EvalInv /\ EveryRuleOnce => NothingSkipped
  BY DEF EvalInv, SendersAgree, LogAgrees, NothingSkipped, EveryRuleOnce
<1> QED BY <1>1, EvaluationAgrees, EvaluationRunsExecRules, EveryRuleIsEvaluatedOnce, PTL

-------------------------------------------------------------------------------
(***************************************************************************)
(* An evaluation returns.  With any number of rules and Alertmanagers some *)
(* goroutine can take its next step until it has, and each step leaves     *)
(* fewer to take, so that it does return if only goroutines that can run   *)
(* do run.                                                                 *)
(***************************************************************************)

\* Everything that is known of execRules' state.
ExecInv == SafeInv /\ ConcurrentAgrees /\ SequentialAgrees

LEMMA ExecAgrees == Spec => []ExecInv
<1>1. Init => ExecInv
  BY SafeInit, CollectedInit DEF ExecInv
<1>2. ExecInv /\ [Next]_vars => ExecInv'
  BY TypeStep, CountStep, ControlStep, ConcurrentStep, SequentialStep DEF ExecInv, SafeInv
<1> QED BY <1>1, <1>2, PTL DEF Spec

\* A subset that lacks an element is smaller.
LEMMA FewerInSubset ==
    ASSUME NEW S, IsFiniteSet(S), NEW T \in SUBSET S, NEW x \in S, x \notin T
    PROVE  Cardinality(T) < Cardinality(S)
<1>1. T # S /\ IsFiniteSet(T)
  BY FS_Subset
<1>2. Cardinality(T) <= Cardinality(S) /\ (Cardinality(T) = Cardinality(S) => T = S)
  BY FS_Subset
<1>3. Cardinality(T) \in Nat /\ Cardinality(S) \in Nat
  BY <1>1, FS_CardinalityType
<1> QED BY <1>1, <1>2, <1>3

\* A rule whose result is not yet sent leaves room for it.
LEMMA PlaceForResult ==
    ASSUME ExecInv, NEW r \in Rule, pc[r] \in {"executed", "recovering"}
    PROVE  Len(results) < Len(order)
<1>1. r \notin Sent /\ Sent \subseteq Rule /\ IsFiniteSet(Rule)
  BY ExecAssumption DEF Sent
<1>2. Cardinality(Sent) < Cardinality(Rule)
  BY <1>1, FewerInSubset
<1>3. concurrency # 1
  BY DEF ExecInv, SafeInv, MainAgrees
<1>4. Len(evals) + Len(results) = Cardinality(Sent)
  BY <1>3 DEF ExecInv, ConcurrentAgrees
<1>5. Len(evals) \in Nat /\ Len(results) \in Nat
  BY DEF ExecInv, SafeInv, TypeOK
<1>6. Cardinality(Sent) \in Nat
  BY <1>1, FS_Subset, FS_CardinalityType
<1> QED BY <1>2, <1>4, <1>5, <1>6, OrderIsOnce

\* A sender whose error is not yet in errCh leaves room for it.
LEMMA PlaceForError ==
    ASSUME EvalInv, NEW u \in Alertmanager, sender[u] = "failed"
    PROVE  Cardinality(errCh) < Cardinality(Alertmanager)
<1>1. u \notin errCh /\ errCh \subseteq Alertmanager
  BY DEF EvalInv, EvalTypeOK, SendersAgree
<1> QED BY <1>1, EvaluationAssumption, FewerInSubset

\* No send on the channels of results and of errors panics or blocks
\* (group.go:304-333, alertmanager.go:110-136).
THEOREM SendsAlwaysSucceed == EvalSpec => []SendsSucceed
<1>1. ExecInv /\ EvalInv => SendsSucceed
  BY PlaceForResult, PlaceForError DEF ExecInv, SafeInv, SendsSucceed
<1> QED BY <1>1, ExecAgrees, EvaluationRunsExecRules, EvaluationAgrees, PTL

\* What the group's goroutine, the closer, those of the rules and eval with
\* its senders are waiting for has happened for one of them at least.
CanStep ==
    \/ main \in {"sequential", "starting"}
    \/ \E r \in Rule :
          \/ pc[r] = "waiting" /\ sem < concurrency
          \/ pc[r] \in {"running", "reported", "panicked", "leaving"}
          \/ pc[r] \in {"executed", "recovering"} /\ Len(results) < Len(order)
    \/ main = "collecting" /\ ~closed /\ \A r \in Rule : pc[r] = "done"
    \/ main = "collecting" /\ (results # <<>> \/ closed)
    \/ step = "exec" /\ main = "returned"
    \/ \E u \in Alertmanager :
          \/ step = "send" /\ sender[u] = "idle"
          \/ sender[u] \in {"sending", "leaving"}
          \/ sender[u] = "failed" /\ Cardinality(errCh) < Cardinality(Alertmanager)
    \/ step = "send" /\ \A u \in Alertmanager : sender[u] = "done"
    \/ step \in {"history", "log"}

\* Once the group's goroutine collects, it has started all the others.
Begun ==
    concurrency # 1 =>
        /\ \A n \in 1..Len(order) : n <= started => pc[order[n]] # "idle"
        /\ main = "collecting" => started = Len(order)

LEMMA BegunStep ==
    ASSUME SafeInv, Begun, [Next]_vars
    PROVE  Begun'
<1> USE DEF SafeInv, Begun
<1>1. CASE UNCHANGED vars
  BY <1>1 DEF vars
<1>2. CASE ExecSequential \/ ReturnSequential
  BY <1>2 DEF ExecSequential, ReturnSequential, MainAgrees
<1>3. CASE Start
  <2>1. order[started + 1] \in Rule /\ started \in Nat /\ started + 1 \in 1..Len(order)
    BY <1>3, OrderIsOnce DEF Start, TypeOK
  <2>2. started' = started + 1 /\ main' = "starting" /\ concurrency' = concurrency
        /\ pc' = [pc EXCEPT ![order[started + 1]] = "waiting"]
    BY <1>3 DEF Start
  <2>3. ASSUME NEW n \in 1..Len(order), n <= started + 1, concurrency # 1 PROVE pc'[order[n]] # "idle"
    <3>1. order[n] \in Rule
      BY OrderIsOnce
    <3>2. CASE n <= started
      BY <2>2, <2>3, <3>1, <3>2 DEF TypeOK
    <3>3. CASE n = started + 1
      BY <2>2, <3>1, <3>3 DEF TypeOK
    <3> QED BY <2>1, <2>3, <3>2, <3>3
  <2> QED BY <2>2, <2>3
<1>4. CASE StartCloser \/ Return \/ Close \/ Collect
  BY <1>4 DEF StartCloser, Return, Close, Collect
<1>5. ASSUME NEW r \in Rule, Goroutine(r) PROVE Begun'
  <2>1. /\ pc' = [pc EXCEPT ![r] = pc'[r]] /\ pc'[r] # "idle"
        /\ UNCHANGED <<concurrency, main, started>>
    BY <1>5 DEF Goroutine, Acquire, Exec, Report, Release, ReportPanic, WgDone, Send, Goto, TypeOK
  <2> QED BY <2>1, OrderIsOnce DEF TypeOK
<1> QED BY <1>1, <1>2, <1>3, <1>4, <1>5 DEF Next, Main

LEMMA AlwaysBegun == Spec => []Begun
<1>1. Init => Begun
  BY OrderIsOnce, ExecAssumption DEF Init, Begun
<1>2. SafeInv /\ Begun /\ [Next]_vars => Begun'
  BY BegunStep
<1> QED BY <1>1, <1>2, EvaluationIsSafe, PTL DEF Spec

\* While the rules are executed some goroutine can go on: if one waits for a
\* token, one of those that hold them can.
LEMMA ExecNotStuck ==
    ASSUME ExecInv, Begun, main # "returned"
    PROVE  CanStep
<1> USE DEF ExecInv, SafeInv
<1>1. SUFFICES ASSUME main = "collecting" PROVE CanStep
  BY DEF TypeOK, CanStep
<1>2. CASE \E r \in Rule : pc[r] \in Holding
  <2>1. PICK r \in Rule : pc[r] \in Holding
    BY <1>2
  <2> QED BY <2>1, PlaceForResult DEF CanStep, Holding
<1>3. CASE ~\E r \in Rule : pc[r] \in Holding
  <2>1. Held = {}
    BY <1>3 DEF Held
  <2>2. sem = 0
    BY <2>1, FS_EmptySet DEF SemCounts, Held
  <2>3. sem < concurrency
    BY <2>2, ExecAssumption DEF TypeOK
  <2>4. CASE \E r \in Rule : pc[r] # "done"
    <3>1. PICK r \in Rule : pc[r] # "done"
      BY <2>4
    <3>2. pc[r] # "idle"
      BY <1>1, OrderIsOnce DEF Begun, MainAgrees
    <3> QED BY <1>3, <2>3, <3>1, <3>2, PlaceForResult DEF CanStep, Holding, TypeOK, PCs
  <2>5. CASE \A r \in Rule : pc[r] = "done"
    BY <1>1, <2>5 DEF CanStep, TypeOK
  <2> QED BY <2>4, <2>5
<1> QED BY <1>2, <1>3

\* While the alerts are sent a sender can go on, or Send can return.
LEMMA SendNotStuck ==
    ASSUME EvalInv, step = "send"
    PROVE  CanStep
<1>1. CASE \A u \in Alertmanager : sender[u] = "done"
  BY <1>1 DEF CanStep
<1>2. CASE \E u \in Alertmanager : sender[u] # "done"
  <2>1. PICK u \in Alertmanager : sender[u] # "done"
    BY <1>2
  <2>2. sender[u] \in SenderPCs
    BY DEF EvalInv, EvalTypeOK
  <2> QED BY <2>1, <2>2, PlaceForError DEF CanStep, SenderPCs
<1> QED BY <1>1, <1>2

\* Whatever fails or panics, in no order do the goroutines of an evaluation
\* all wait for one another before it has returned (group.go:166-238,
\* 296-358, alertmanager.go:110-151).
THEOREM NeverAllWait == EvalSpec => [](step # "returned" => CanStep)
<1>1. ExecInv /\ Begun /\ EvalInv => (step # "returned" => CanStep)
  <2> SUFFICES ASSUME ExecInv, Begun, EvalInv, step # "returned" PROVE CanStep
    OBVIOUS
  <2>1. CASE step = "exec"
    BY <2>1, ExecNotStuck DEF CanStep
  <2>2. CASE step = "send"
    BY <2>2, SendNotStuck
  <2>3. CASE step \in {"history", "log"}
    BY <2>3 DEF CanStep
  <2> QED BY <2>1, <2>2, <2>3 DEF EvalInv, EvalTypeOK
<1> QED BY <1>1, ExecAgrees, AlwaysBegun, EvaluationRunsExecRules, EvaluationAgrees, PTL

\* How far a rule's goroutine, the group's, eval and a sender have come.
RuleStage(p) ==
    CASE p = "idle" -> 0 [] p = "waiting" -> 1 [] p = "running" -> 2
      [] p \in {"executed", "panicked"} -> 3 [] p \in {"reported", "recovering"} -> 4
      [] p = "leaving" -> 5 [] p = "done" -> 6

MainStage(m) == CASE m \in {"sequential", "starting"} -> 0 [] m = "collecting" -> 1 [] m = "returned" -> 2

EvalStage(s) ==
    CASE s = "exec" -> 0 [] s = "send" -> 1 [] s = "history" -> 2 [] s = "log" -> 3 [] s = "returned" -> 4

SenderStage(p) ==
    CASE p = "idle" -> 0 [] p = "sending" -> 1 [] p = "failed" -> 2 [] p = "leaving" -> 3 [] p = "done" -> 4

\* The steps each of them has left, the rules left to start and to collect,
\* and whether the channel of results is left to close.
RuleSteps == {x \in Rule \X (1..6) : RuleStage(pc[x[1]]) < x[2]}

MainSteps == {i \in 1..2 : MainStage(main) < i}

EvalSteps == {i \in 1..4 : EvalStage(step) < i}

SenderSteps == {x \in Alertmanager \X (1..4) : SenderStage(sender[x[1]]) < x[2]}

Starts == {n \in 1..Len(order) : started < n}

Collects == {n \in 1..Len(order) : Len(evals) < n}

Closings == {c \in BOOLEAN : c # closed /\ c}

ExecLeft == <<RuleSteps, MainSteps, Starts, Collects, Closings>>

EvalLeft == <<EvalSteps, SenderSteps>>

\* Nothing that was not left to do is, and something that was is not.
ExecNearer ==
    /\ RuleSteps' \subseteq RuleSteps /\ MainSteps' \subseteq MainSteps
    /\ Starts' \subseteq Starts /\ Collects' \subseteq Collects /\ Closings' \subseteq Closings
    /\ ExecLeft' # ExecLeft

Nearer ==
    \/ ExecNearer /\ EvalLeft' = EvalLeft
    \/ /\ EvalSteps' \subseteq EvalSteps /\ SenderSteps' \subseteq SenderSteps
       /\ EvalLeft' # EvalLeft /\ ExecLeft' = ExecLeft

\* What is left to do is finite.
LEMMA LeftIsFinite ==
    /\ IsFiniteSet(RuleSteps) /\ IsFiniteSet(MainSteps) /\ IsFiniteSet(Starts)
    /\ IsFiniteSet(Collects) /\ IsFiniteSet(Closings)
    /\ IsFiniteSet(EvalSteps) /\ IsFiniteSet(SenderSteps)
<1>1. /\ IsFiniteSet(1..6) /\ IsFiniteSet(1..4) /\ IsFiniteSet(1..2) /\ IsFiniteSet(1..Len(order))
  <2>1. Len(order) \in Int /\ 1 \in Int /\ 2 \in Int /\ 4 \in Int /\ 6 \in Int
    BY OrderIsOnce
  <2> QED BY <2>1, FS_Interval
<1>2. IsFiniteSet(Rule \X (1..6)) /\ IsFiniteSet(Alertmanager \X (1..4))
  BY <1>1, ExecAssumption, EvaluationAssumption, FS_Product
<1>3. IsFiniteSet(BOOLEAN)
  <2>1. BOOLEAN = {TRUE} \cup {FALSE}
    OBVIOUS
  <2>2. IsFiniteSet({TRUE}) /\ IsFiniteSet({FALSE})
    BY FS_Singleton
  <2> QED BY <2>1, <2>2, FS_Union
<1> QED BY <1>1, <1>2, <1>3, FS_Subset
        DEF RuleSteps, MainSteps, Starts, Collects, Closings, EvalSteps, SenderSteps

\* A goroutine that goes on to its next stage.
LEMMA OneStage ==
    ASSUME TypeOK, NEW r \in Rule, NEW q \in PCs, pc' = [pc EXCEPT ![r] = q],
           RuleStage(q) = RuleStage(pc[r]) + 1
    PROVE  RuleSteps' \subseteq RuleSteps /\ RuleSteps' # RuleSteps
<1>1. pc'[r] = q /\ \A s \in Rule : s # r => pc'[s] = pc[s]
  BY DEF TypeOK
<1>2. \A p \in PCs : RuleStage(p) \in 0..6
  BY DEF PCs, RuleStage
<1>3. \A s \in Rule : pc[s] \in PCs
  BY DEF TypeOK
<1>4. RuleStage(pc[r]) \in 0..6 /\ RuleStage(q) \in 1..6
  BY <1>2, <1>3
<1>5. \A s \in Rule : RuleStage(pc[s]) <= RuleStage(pc'[s])
  <2>1. ASSUME NEW s \in Rule PROVE RuleStage(pc[s]) <= RuleStage(pc'[s])
    <3>1. CASE s = r
      BY <1>1, <1>4, <3>1
    <3>2. CASE s # r
      BY <1>1, <1>2, <1>3, <3>2
    <3> QED BY <3>1, <3>2
  <2> QED BY <2>1
<1>6. \A s \in Rule : RuleStage(pc[s]) \in 0..6 /\ RuleStage(pc'[s]) \in 0..6
  BY <1>1, <1>2, <1>3
<1>7. RuleSteps' = {x \in Rule \X (1..6) : RuleStage(pc'[x[1]]) < x[2]}
  BY DEF RuleSteps, RuleStage
<1>8. RuleSteps' \subseteq RuleSteps
  <2>1. ASSUME NEW x \in RuleSteps' PROVE x \in RuleSteps
    <3>1. x \in Rule \X (1..6) /\ RuleStage(pc'[x[1]]) < x[2]
      BY <1>7
    <3>2. RuleStage(pc[x[1]]) < x[2]
      BY <1>5, <1>6, <3>1
    <3> QED BY <3>1, <3>2 DEF RuleSteps
  <2> QED BY <2>1
<1>9. <<r, RuleStage(q)>> \in RuleSteps
  BY <1>4 DEF RuleSteps
<1>10. <<r, RuleStage(q)>> \notin RuleSteps'
  BY <1>1, <1>4, <1>7
<1> QED BY <1>8, <1>9, <1>10

\* A sender that goes on to its next stage, or past the error it has not got.
LEMMA OneSenderStage ==
    ASSUME EvalTypeOK, NEW u \in Alertmanager, NEW q \in SenderPCs,
           sender' = [sender EXCEPT ![u] = q], SenderStage(q) > SenderStage(sender[u])
    PROVE  SenderSteps' \subseteq SenderSteps /\ SenderSteps' # SenderSteps
<1>1. sender'[u] = q /\ \A v \in Alertmanager : v # u => sender'[v] = sender[v]
  BY DEF EvalTypeOK
<1>2. \A p \in SenderPCs : SenderStage(p) \in 0..4
  BY DEF SenderPCs, SenderStage
<1>3. \A v \in Alertmanager : sender[v] \in SenderPCs
  BY DEF EvalTypeOK
<1>4. SenderStage(sender[u]) \in 0..4 /\ SenderStage(q) \in 1..4
  BY <1>2, <1>3
<1>5. \A v \in Alertmanager : SenderStage(sender[v]) <= SenderStage(sender'[v])
  <2>1. ASSUME NEW v \in Alertmanager PROVE SenderStage(sender[v]) <= SenderStage(sender'[v])
    <3>1. CASE v = u
      BY <1>1, <1>4, <3>1
    <3>2. CASE v # u
      BY <1>1, <1>2, <1>3, <3>2
    <3> QED BY <3>1, <3>2
  <2> QED BY <2>1
<1>6. \A v \in Alertmanager : SenderStage(sender[v]) \in 0..4 /\ SenderStage(sender'[v]) \in 0..4
  BY <1>1, <1>2, <1>3
<1>7. SenderSteps' = {x \in Alertmanager \X (1..4) : SenderStage(sender'[x[1]]) < x[2]}
  BY DEF SenderSteps, SenderStage
<1>8. SenderSteps' \subseteq SenderSteps
  <2>1. ASSUME NEW x \in SenderSteps' PROVE x \in SenderSteps
    <3>1. x \in Alertmanager \X (1..4) /\ SenderStage(sender'[x[1]]) < x[2]
      BY <1>7
    <3>2. SenderStage(sender[x[1]]) < x[2]
      BY <1>5, <1>6, <3>1
    <3> QED BY <3>1, <3>2 DEF SenderSteps
  <2> QED BY <2>1
<1>9. <<u, SenderStage(q)>> \in SenderSteps
  BY <1>4 DEF SenderSteps
<1>10. <<u, SenderStage(q)>> \notin SenderSteps'
  BY <1>1, <1>4, <1>7
<1> QED BY <1>8, <1>9, <1>10

\* A step of execRules.
LEMMA ExecStepNearer ==
    ASSUME ExecInv, Next
    PROVE  ExecNearer
<1> USE DEF ExecInv, SafeInv
<1>1. /\ started \in Nat /\ Len(evals) \in Nat /\ Len(results) \in Nat
      /\ Len(order) = Cardinality(Rule) /\ Len(order) \in Nat
  BY OrderIsOnce DEF TypeOK
<1>2. UNCHANGED pc => RuleSteps' = RuleSteps
  BY DEF RuleSteps, RuleStage
<1>3. UNCHANGED main => MainSteps' = MainSteps
  BY DEF MainSteps, MainStage
<1>4. UNCHANGED started => Starts' = Starts
  BY DEF Starts
<1>5. UNCHANGED evals => Collects' = Collects
  BY DEF Collects
<1>6. UNCHANGED closed => Closings' = Closings
  BY DEF Closings
<1>7. ASSUME NEW r \in Rule, NEW q \in PCs, pc' = [pc EXCEPT ![r] = q],
             RuleStage(q) = RuleStage(pc[r]) + 1,
             UNCHANGED <<main, evals, closed>>, Starts' \subseteq Starts
      PROVE  ExecNearer
  <2>1. RuleSteps' \subseteq RuleSteps /\ RuleSteps' # RuleSteps
    BY <1>7, OneStage
  <2> QED BY <1>3, <1>5, <1>6, <1>7, <2>1 DEF ExecNearer, ExecLeft
\* One more rule is collected.
<1>8. ASSUME NEW res, Collected(res), res.rule \in Rule, Len(evals) < Len(order),
             UNCHANGED <<main, pc, closed>>, Starts' \subseteq Starts
      PROVE  ExecNearer
  <2>1. Len(evals') = Len(evals) + 1
    <3>1. evaluation(res) \in Evaluations
      BY <1>8 DEF evaluation, Evaluations
    <3>2. evals \in Seq(Evaluations) /\ evals' = Append(evals, evaluation(res))
      BY <1>8 DEF TypeOK, Evaluations, Collected
    <3> QED BY <3>1, <3>2, AppendedOne
  <2>2. Collects' \subseteq Collects
    BY <1>1, <2>1 DEF Collects
  <2>3. Len(evals) + 1 \in Collects /\ Len(evals) + 1 \notin Collects'
    BY <1>1, <1>8, <2>1 DEF Collects
  <2> QED BY <1>2, <1>3, <1>6, <1>8, <2>2, <2>3 DEF ExecNearer, ExecLeft
<1>9. CASE ExecSequential
  <2>1. started' = started + 1 /\ UNCHANGED <<main, pc, closed>> /\ started < Len(order)
    BY <1>9 DEF ExecSequential
  <2>2. Starts' \subseteq Starts
    BY <1>1, <2>1 DEF Starts
  <2>3. PICK r \in Rule, o \in Outcomes : Collected([rule |-> r, outcome |-> o])
    <3>1. order[started + 1] \in Rule
      BY <1>1, <2>1, OrderIsOnce
    <3> QED BY <1>9, <3>1 DEF ExecSequential
  <2>4. Len(evals) = started
    <3>1. concurrency = 1
      BY <1>9 DEF ExecSequential, MainAgrees
    <3> QED BY <3>1 DEF SequentialAgrees
  <2> DEFINE res == [rule |-> r, outcome |-> o]
  <2>5. res.rule \in Rule /\ Collected(res)
    BY <2>3
  <2> HIDE DEF res
  <2> QED BY <1>8, <2>1, <2>2, <2>4, <2>5
<1>10. CASE ReturnSequential \/ StartCloser \/ Return
  <2>1. UNCHANGED <<pc, started, evals, closed>>
    BY <1>10 DEF ReturnSequential, StartCloser, Return
  <2>2. MainSteps' \subseteq MainSteps /\ MainSteps' # MainSteps
    <3>1. \/ MainStage(main) = 0 /\ MainStage(main') = 2
          \/ MainStage(main) = 0 /\ MainStage(main') = 1
          \/ MainStage(main) = 1 /\ MainStage(main') = 2
      BY <1>10 DEF ReturnSequential, StartCloser, Return, MainStage
    <3>2. MainSteps' = {i \in 1..2 : MainStage(main') < i}
      BY DEF MainSteps, MainStage
    <3>3. 2 \in MainSteps /\ (MainStage(main) = 0 => 1 \in MainSteps)
      BY <3>1 DEF MainSteps
    <3>4. (MainStage(main') = 2 => 2 \notin MainSteps') /\ (MainStage(main') = 1 => 1 \notin MainSteps')
      BY <3>2
    <3>5. MainSteps' \subseteq MainSteps
      BY <3>1, <3>2 DEF MainSteps
    <3> QED BY <3>1, <3>3, <3>4, <3>5
  <2> QED BY <1>2, <1>4, <1>5, <1>6, <2>1, <2>2 DEF ExecNearer, ExecLeft
<1>11. CASE Start
  <2>1. PICK r \in Rule : r = order[started + 1]
    BY <1>1, <1>11, OrderIsOnce DEF Start
  <2>2. /\ started' = started + 1 /\ pc' = [pc EXCEPT ![r] = "waiting"]
        /\ UNCHANGED <<main, evals, closed>>
    BY <1>11, <2>1 DEF Start
  <2>3. pc[r] = "idle"
    BY <1>1, <1>11, <2>1 DEF Start, MainAgrees
  <2>4. Starts' \subseteq Starts
    BY <1>1, <2>2 DEF Starts
  <2>5. RuleStage("waiting") = RuleStage(pc[r]) + 1 /\ "waiting" \in PCs
    BY <2>3 DEF RuleStage, PCs
  <2> QED BY <1>7, <2>2, <2>4, <2>5
<1>12. CASE Close
  <2>1. UNCHANGED <<main, pc, started, evals>> /\ ~closed /\ closed' = TRUE
    BY <1>12 DEF Close
  <2>2. TRUE \in Closings /\ Closings' = {}
    BY <2>1 DEF Closings
  <2> QED BY <1>2, <1>3, <1>4, <1>5, <2>1, <2>2 DEF ExecNearer, ExecLeft
<1>13. CASE Collect
  <2>1. Collected(Head(results)) /\ results # <<>> /\ UNCHANGED <<main, started, pc, closed>>
    BY <1>13 DEF Collect
  <2>2. results \in Seq(Results) /\ Head(results) \in Results /\ Len(results) # 0
    <3>1. results \in Seq(Results)
      BY DEF TypeOK, Results
    <3> QED BY <2>1, <3>1, HeadAndTail
  <2>3. Len(evals) < Len(order)
    <3>1. concurrency # 1
      BY <1>13 DEF Collect, MainAgrees
    <3>2. Len(evals) + Len(results) = Cardinality(Sent)
      BY <3>1 DEF ConcurrentAgrees
    <3>3. Cardinality(Sent) <= Cardinality(Rule) /\ Cardinality(Sent) \in Nat
      <4>1. Sent \in SUBSET Rule
        BY DEF Sent
      <4> QED BY <4>1, ExecAssumption, FS_Subset, FS_CardinalityType
    <3> QED BY <1>1, <2>2, <3>2, <3>3
  <2>4. PICK res : res = Head(results)
    OBVIOUS
  <2>5. res.rule \in Rule /\ Collected(res)
    BY <2>1, <2>2, <2>4 DEF Results
  <2>6. Starts' \subseteq Starts
    BY <1>4, <2>1
  <2> QED BY <1>8, <2>1, <2>3, <2>5, <2>6
<1>14. ASSUME NEW r \in Rule, Goroutine(r) PROVE ExecNearer
  <2>1. UNCHANGED <<main, started, evals, closed>>
    BY <1>14 DEF Goroutine, Acquire, Exec, Report, Release, ReportPanic, WgDone, Send
  <2>2. PICK p \in PCs, q \in PCs :
           /\ pc[r] = p /\ pc' = [pc EXCEPT ![r] = q]
           /\ <<p, q>> \in { <<"waiting", "running">>, <<"running", "executed">>,
                             <<"running", "panicked">>, <<"executed", "reported">>,
                             <<"reported", "leaving">>, <<"panicked", "recovering">>,
                             <<"recovering", "leaving">>, <<"leaving", "done">> }
    BY <1>14 DEF Goroutine, Acquire, Exec, Report, Release, ReportPanic, WgDone, Goto, PCs
  <2>3. RuleStage(q) = RuleStage(p) + 1
    BY <2>2 DEF RuleStage
  <2> QED BY <1>4, <1>7, <2>1, <2>2, <2>3
<1> QED BY <1>9, <1>10, <1>11, <1>12, <1>13, <1>14 DEF Next, Main

\* A step of eval or of a sender.
LEMMA EvalStepNearer ==
    ASSUME EvalInv, Eval \/ \E u \in Alertmanager : Sender(u)
    PROVE  Nearer
<1> USE DEF EvalInv
<1>1. UNCHANGED vars
  BY DEF Eval, Executed, SendReturned, RecordHistory, RecordEvaluations,
         Sender, StartSender, SendTo, PutError, SenderDone
<1>2. ExecLeft' = ExecLeft
  BY <1>1 DEF vars, ExecLeft, RuleSteps, RuleStage, MainSteps, MainStage, Starts, Collects, Closings
<1>3. CASE Eval
  <2>1. PICK s, t : /\ s = step /\ t = step'
                    /\ <<s, t>> \in { <<"exec", "send">>, <<"exec", "log">>, <<"send", "history">>,
                                     <<"history", "log">>, <<"log", "returned">> }
    BY <1>3 DEF Eval, Executed, SendReturned, RecordHistory, RecordEvaluations
  <2>2. EvalStage(s) \in 0..3 /\ EvalStage(t) \in 1..4 /\ EvalStage(s) < EvalStage(t)
    BY <2>1 DEF EvalStage
  <2>3. EvalSteps = {i \in 1..4 : EvalStage(s) < i} /\ EvalSteps' = {i \in 1..4 : EvalStage(t) < i}
    BY <2>1 DEF EvalSteps, EvalStage
  <2>4. EvalSteps' \subseteq EvalSteps /\ EvalStage(t) \in EvalSteps /\ EvalStage(t) \notin EvalSteps'
    BY <2>2, <2>3
  <2>5. UNCHANGED sender
    BY <1>3 DEF Eval, Executed, SendReturned, RecordHistory, RecordEvaluations
  <2>6. SenderSteps' = SenderSteps
    BY <2>5 DEF SenderSteps, SenderStage
  <2> QED BY <1>2, <2>4, <2>6 DEF Nearer, EvalLeft
<1>4. ASSUME NEW u \in Alertmanager, Sender(u) PROVE Nearer
  <2>1. EvalSteps' = EvalSteps
    BY <1>4 DEF EvalSteps, EvalStage, Sender, StartSender, SendTo, PutError, SenderDone
  <2>2. PICK p \in SenderPCs, q \in SenderPCs :
           /\ sender[u] = p /\ sender' = [sender EXCEPT ![u] = q]
           /\ <<p, q>> \in { <<"idle", "sending">>, <<"sending", "failed">>, <<"sending", "leaving">>,
                             <<"failed", "leaving">>, <<"leaving", "done">> }
    BY <1>4 DEF Sender, StartSender, SendTo, PutError, SenderDone, SenderGoto, SenderPCs
  <2>3. SenderStage(q) > SenderStage(p)
    BY <2>2 DEF SenderStage
  <2>4. SenderSteps' \subseteq SenderSteps /\ SenderSteps' # SenderSteps
    BY <2>2, <2>3, OneSenderStage
  <2> QED BY <1>2, <2>1, <2>4 DEF Nearer, EvalLeft
<1> QED BY <1>3, <1>4

\* Every step of an evaluation takes something off what is left to do, a
\* finite set (LeftIsFinite), and puts nothing back: no evaluation, of however
\* many rules with whatever outcomes, takes infinitely many steps.
THEOREM EveryStepIsNearer == EvalSpec => [][Nearer]_eval_vars
<1>1. ExecInv /\ EvalInv /\ [EvalNext]_eval_vars => [Nearer]_eval_vars
  <2> SUFFICES ASSUME ExecInv, EvalInv, EvalNext PROVE Nearer
    OBVIOUS
  <2>1. CASE ExecStep
    <3>1. EvalLeft' = EvalLeft
      BY <2>1 DEF ExecStep, own_vars, EvalLeft, EvalSteps, EvalStage, SenderSteps, SenderStage
    <3> QED BY <2>1, <3>1, ExecStepNearer DEF ExecStep, Nearer
  <2>2. CASE Eval \/ \E u \in Alertmanager : Sender(u)
    BY <2>2, EvalStepNearer
  <2> QED BY <2>1, <2>2 DEF EvalNext
<1> QED BY <1>1, ExecAgrees, EvaluationRunsExecRules, EvaluationAgrees, PTL DEF EvalSpec
================================================================================
