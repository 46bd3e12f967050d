------------------------------ MODULE Rows_proofs ------------------------------
(***************************************************************************)
(* Theorems about Rows: for every query result, every label set of a rule, *)
(* every order in which that set is ranged over and every allocation.      *)
(***************************************************************************)
EXTENDS Rows, SequenceTheorems, WellFoundedInduction, TLAPS

-------------------------------------------------------------------------------
(***************************************************************************)
(* Texts and label sets.                                                   *)
(***************************************************************************)

\* The label sets of rows and of instances.
LabelSet == UNION {[S -> Values \ {<<>>}] : S \in SUBSET Keys}

\* Where values come from.
LEMMA ValuesFrom ==
    /\ Addresses \subseteq Values /\ alert \in Values /\ nil \in Values
    /\ \A l \in Labelings : \A k \in DOMAIN l : l[k] \in Values
    /\ \A res \in Results : \A m \in DOMAIN res.rows, c \in DOMAIN res.columns :
          res.rows[m][c] # NULL => res.rows[m][c] \in Values
    /\ \A t \in Values :
          \/ t \in Addresses \cup {alert, nil}
          \/ \E l \in Labelings : \E k \in DOMAIN l : t = l[k]
          \/ \E res \in Results : \E m \in DOMAIN res.rows, c \in DOMAIN res.columns :
                t = res.rows[m][c] /\ t # NULL
<1> DEFINE cells(res) == {res.rows[m][c] : m \in DOMAIN res.rows, c \in DOMAIN res.columns} \ {NULL}
           own(l)     == {l[k] : k \in DOMAIN l}
           O          == UNION {own(l) : l \in Labelings}
           C          == UNION {cells(res) : res \in Results}
<1>1. Values = Addresses \cup {alert, nil} \cup O \cup C
  BY DEF Values
<1>2. \A t : t \in O <=> \E l \in Labelings : \E k \in DOMAIN l : t = l[k]
  OBVIOUS
<1>3. \A t : t \in C <=> \E res \in Results : \E m \in DOMAIN res.rows, c \in DOMAIN res.columns :
                t = res.rows[m][c] /\ t # NULL
  OBVIOUS
<1> HIDE DEF O, C
<1> QED BY <1>1, <1>2, <1>3

\* Keys and values are texts.
LEMMA AllTexts == Values \subseteq Text /\ Keys \subseteq Text
<1>1. \A l \in Labelings : \A k \in DOMAIN l : l[k] \in Text
  BY RowsAssumption
<1>2. ASSUME NEW res \in Results, NEW m \in DOMAIN res.rows, NEW c \in DOMAIN res.columns,
             res.rows[m][c] # NULL
      PROVE  res.rows[m][c] \in Text
  <2>1. res.rows \in Seq([DOMAIN res.columns -> Text \cup {NULL}])
    BY RowsAssumption
  <2>2. res.rows[m] \in [DOMAIN res.columns -> Text \cup {NULL}]
    BY <2>1
  <2> QED BY <1>2, <2>2
<1>3. Keys \subseteq Text
  BY RowsAssumption DEF Keys, ToSet
<1>4. Addresses \subseteq Text /\ alert \in Text /\ nil \in Text
  BY RowsAssumption
<1> QED BY <1>1, <1>2, <1>3, <1>4, ValuesFrom

\* A piece before a sequence.
LEMMA Prefixed ==
    ASSUME NEW S, NEW e \in S, NEW k \in Seq(S)
    PROVE  /\ Len(<<e>> \o k) = Len(k) + 1 /\ (<<e>> \o k)[1] = e
           /\ \A m \in 1..Len(k) : (<<e>> \o k)[m + 1] = k[m]
<1> DEFINE g == <<e>>
<1>1. g \in Seq(S) /\ Len(g) = 1 /\ g[1] = e /\ Len(k) \in Nat
  OBVIOUS
<1> HIDE DEF g
<1>2. /\ Len(g \o k) = Len(g) + Len(k)
      /\ \A i \in 1..Len(g) + Len(k) :
            (g \o k)[i] = IF i <= Len(g) THEN g[i] ELSE k[i - Len(g)]
  BY <1>1, ConcatProperties
<1> QED BY <1>1, <1>2

\* The exported name of a key is another key, and of one key only.
LEMMA ExportedNames ==
    /\ \A k \in Text : exported(k) # k /\ exported(k) # alertname
    /\ \A j, k \in Text : exported(j) = exported(k) => j = k
<1> DEFINE S == STRING \cup {"exported_"}
<1>1. ASSUME NEW k \in Text
      PROVE  /\ Len(k) \in Nat /\ Len(exported(k)) = Len(k) + 1
             /\ exported(k)[1] = "exported_"
             /\ \A m \in 1..Len(k) : exported(k)[m + 1] = k[m]
  <2>1. "exported_" \in S /\ k \in Seq(S) /\ Len(k) \in Nat
    BY DEF Text
  <2> QED BY <2>1, Prefixed DEF exported
<1>2. alertname[1] = "alertname"
  BY DEF alertname
<1>3. ASSUME NEW j \in Text, NEW k \in Text, exported(j) = exported(k) PROVE j = k
  <2>1. Len(j) \in Nat /\ Len(k) \in Nat /\ Len(j) = Len(k)
    BY <1>1, <1>3
  <2>2. \A m \in 1..Len(j) : j[m] = k[m]
    BY <1>1, <1>3, <2>1
  <2> QED BY <2>1, <2>2 DEF Text
<1> HIDE DEF S
<1> QED BY <1>1, <1>2, <1>3

\* Some position is the last.
LEMMA LastOf ==
    ASSUME NEW N \in Nat, NEW T \in SUBSET (1..N), T # {}
    PROVE  \E m \in T : \A j \in T : j <= m
<1> DEFINE R == OpToRel(<, Nat)
           U == {N - j : j \in T}
<1>1. IsWellFoundedOn(R, Nat)
  BY NatLessThanWellFounded
<1>2. U \subseteq Nat /\ U # {}
  <2>1. \A j \in T : N - j \in Nat
    OBVIOUS
  <2> QED BY <2>1
<1> HIDE DEF R
<1>3. \E x \in U : \A y \in U : ~ (<<y, x>> \in R)
  <2> HIDE DEF U
  <2> QED BY <1>1, <1>2, WFMin
<1>4. PICK m \in T : \A j \in T : ~ (<<N - j, N - m>> \in R)
  BY <1>3
<1>5. ASSUME NEW j \in T PROVE j <= m
  <2>1. N - j \in Nat /\ N - m \in Nat
    OBVIOUS
  <2>2. N - j < N - m => <<N - j, N - m>> \in R
    BY <2>1 DEF R, OpToRel
  <2> QED BY <1>4, <2>1, <2>2
<1> QED BY <1>5

\* A row is mapped to a label set.
LEMMA MappedRow ==
    ASSUME NEW res \in Results, NEW m \in DOMAIN res.rows, NEW a \in Addresses
    PROVE  MetricLabels(res.columns, res.rows[m], a) \in LabelSet
<1> DEFINE columns == res.columns
           row == res.rows[m]
           text(i) == derefToString(columns[i].scan, row[i], a)
           named(k) == {i \in DOMAIN columns : /\ Role(columns[i].type) = "label"
                                               /\ columns[i].name = k /\ text(i) # <<>>}
           found == {j \in Keys : named(j) # {}}
           last(k) == CHOOSE i \in named(k) : \A j \in named(k) : j <= i
<1>1. columns \in Seq([name : Keys, type : Text, scan : Scan])
  BY RowsAssumption
<1>2. Len(columns) \in Nat /\ DOMAIN columns = 1..Len(columns)
  BY <1>1
<1>3. \A i \in DOMAIN columns : text(i) \in Values \cup {<<>>}
  <2>2. \A i \in DOMAIN columns : row[i] # NULL => row[i] \in Values
    BY ValuesFrom
  <2>3. a \in Values /\ nil \in Values
    BY ValuesFrom
  <2> QED BY <2>2, <2>3 DEF derefToString
<1> HIDE DEF text
<1>4. ASSUME NEW k \in found PROVE text(last(k)) \in Values \ {<<>>}
  <2>1. named(k) # {} /\ named(k) \in SUBSET (1..Len(columns))
    BY <1>2
  <2>2. \E i \in named(k) : \A j \in named(k) : j <= i
    <3> HIDE DEF named
    <3> QED BY <1>2, <2>1, LastOf
  <2>3. last(k) \in named(k)
    <3> HIDE DEF named
    <3> QED BY <2>2
  <2> QED BY <1>3, <2>3
<1>5. [k \in found |-> text(last(k))] \in [found -> Values \ {<<>>}]
  <2> HIDE DEF found, last
  <2> QED BY <1>4
<1>6. found \in SUBSET Keys
  OBVIOUS
<1>7. MetricLabels(columns, row, a) = [k \in found |-> text(last(k))]
  BY DEF MetricLabels, Keys, text
<1> HIDE DEF found, last, text
<1> QED BY <1>5, <1>6, <1>7 DEF LabelSet

-------------------------------------------------------------------------------
(***************************************************************************)
(* Types.                                                                  *)
(***************************************************************************)

\* What Exec enters of a row: the instance's labels, and their hash.
Entry == [labels : LabelSet, hash : {hashLabels(f) : f \in LabelSet}]

\* The label sets, and where an evaluation is in its rows.
Typed ==
    /\ result \in Results /\ labels \in Labelings
    /\ pc \in {"query", "rows", "merge", "done", "failed", "duplicate"} /\ pass \in {1, 2}
    /\ metrics \in Seq(LabelSet) /\ built \in LabelSet
    /\ todo \subseteq DOMAIN labels
    /\ n \in 0..Len(metrics)
    /\ metrics = <<>> \/ Len(metrics) = Len(result.rows)
    /\ pc \in {"rows", "merge", "done", "duplicate"} => Len(metrics) = Len(result.rows)
    /\ pc = "query" => metrics = <<>> /\ ids = <<>>
    /\ pc = "merge" => n > 0
    /\ pc = "done" => n = Len(metrics)
    /\ ids \in Seq(Entry)
    /\ Len(ids) = IF pc = "merge" THEN n - 1 ELSE n

\* A label that is put into a label set.
LEMMA PutLabel ==
    ASSUME NEW f \in LabelSet, NEW k \in Keys, NEW v \in Values \ {<<>>}
    PROVE  Put(f, k, v) \in LabelSet
<1>1. PICK S \in SUBSET Keys : f \in [S -> Values \ {<<>>}]
  BY DEF LabelSet
<1>2. Put(f, k, v) \in [S \cup {k} -> Values \ {<<>>}]
  BY <1>1 DEF Put
<1> QED BY <1>2 DEF LabelSet

\* What a label set is.
LEMMA IsLabelSet ==
    ASSUME NEW f \in LabelSet
    PROVE  /\ DOMAIN f \subseteq Keys
           /\ \A k \in DOMAIN f : f[k] \in Values \ {<<>>}
BY DEF LabelSet

\* Merging a configured label leaves a label set.
LEMMA MergedLabel ==
    ASSUME NEW f \in LabelSet, labels \in Labelings, NEW k \in DOMAIN labels
    PROVE  Merge(f, k) \in LabelSet
<1>1. k \in Keys /\ exported(k) \in Keys /\ labels[k] \in Values
  BY RowsAssumption, ValuesFrom
<1>2. k \in DOMAIN f => Put(f, exported(k), f[k]) \in LabelSet
  BY <1>1, IsLabelSet, PutLabel
<1>3. labels[k] # <<>> => Put(f, k, labels[k]) \in LabelSet
  BY <1>1, PutLabel
<1>4. labels[k] # <<>> /\ k \in DOMAIN f =>
        Put(Put(f, exported(k), f[k]), k, labels[k]) \in LabelSet
  BY <1>1, <1>2, PutLabel
<1> QED BY <1>2, <1>3, <1>4 DEF Merge

\* No labels are a label set.
LEMMA NoLabels == << >> \in LabelSet
<1>1. << >> \in [{} -> Values \ {<<>>}]
  OBVIOUS
<1> QED BY <1>1 DEF LabelSet

LEMMA TypedStep ==
    ASSUME Typed, [Next]_vars
    PROVE  Typed'
<1> USE DEF Typed
<1>1. CASE UNCHANGED vars
  BY <1>1 DEF vars
<1>2. CASE Query
  <2>1. PICK address \in [DOMAIN result.rows -> Addresses] :
          metrics' = [m \in DOMAIN result.rows |->
                         MetricLabels(result.columns, result.rows[m], address[m])]
    BY <1>2 DEF Query
  <2>2. DOMAIN result.rows = 1..Len(result.rows) /\ Len(result.rows) \in Nat
    BY RowsAssumption
  <2>3. \A m \in DOMAIN result.rows :
          MetricLabels(result.columns, result.rows[m], address[m]) \in LabelSet
    BY MappedRow
  <2>4. metrics' \in Seq(LabelSet) /\ Len(metrics') = Len(result.rows)
    BY <2>1, <2>2, <2>3
  <2> QED BY <1>2, <2>2, <2>4 DEF Query
<1>3. CASE QueryFails
  BY <1>3 DEF QueryFails
<1>4. CASE NextRow
  <2>1. metrics[n + 1] \in LabelSet /\ n + 1 \in 1..Len(metrics)
    BY <1>4 DEF NextRow
  <2> QED BY <1>4, <2>1 DEF NextRow
<1>5. ASSUME NEW k \in todo, MergeLabel(k) PROVE Typed'
  BY <1>5, MergedLabel DEF MergeLabel
<1>6. CASE Enter
  <2> DEFINE all == Put(built, alertname, alert)
             e   == [labels |-> all, hash |-> hashLabels(all)]
  <2>1. all \in LabelSet
    BY RowsAssumption, ValuesFrom, PutLabel
  <2>2. e \in Entry
    BY <2>1 DEF Entry
  <2>3. ids' = Append(ids, e)
    BY <1>6 DEF Enter
  <2>4. ids' \in Seq(Entry) /\ Len(ids') = Len(ids) + 1
    <3> HIDE DEF e
    <3> QED BY <2>2, <2>3, AppendProperties
  <2>5. /\ pc = "merge" /\ pc' \in {"duplicate", "rows"}
        /\ UNCHANGED <<result, labels, pass, metrics, n, built, todo>>
    BY <1>6 DEF Enter
  <2>6. n \in Nat
    OBVIOUS
  <2> QED BY <2>4, <2>5, <2>6
<1>7. CASE Done
  BY <1>7 DEF Done
<1>8. CASE Again
  BY <1>8, NoLabels DEF Again
<1> QED BY <1>1, <1>2, <1>3, <1>4, <1>5, <1>6, <1>7, <1>8 DEF Next

LEMMA TypedAlways == Spec => []Typed
<1>1. Init => Typed
  BY NoLabels DEF Init, Typed
<1>2. Typed /\ [Next]_vars => Typed'
  BY TypedStep
<1> QED BY <1>1, <1>2, PTL DEF Spec

\* In every state of an evaluation, whatever a query returns, its rows and
\* label sets are well formed, and no instance has an empty label.
THEOREM TypeCorrect == Spec => []TypeOK
<1>1. Typed => TypeOK
  <2> SUFFICES ASSUME Typed PROVE TypeOK
    OBVIOUS
  <2>1. ASSUME NEW m \in DOMAIN result.rows PROVE DOMAIN result.rows[m] = DOMAIN result.columns
    <3>1. result.rows \in Seq([DOMAIN result.columns -> Text \cup {NULL}])
      BY RowsAssumption DEF Typed
    <3>2. result.rows[m] \in [DOMAIN result.columns -> Text \cup {NULL}]
      BY <3>1
    <3> QED BY <3>2
  <2>2. DOMAIN labels \subseteq Keys /\ Len(result.rows) \in Nat
    BY RowsAssumption DEF Typed
  <2>3. \A m \in DOMAIN metrics : DOMAIN metrics[m] \subseteq Keys
    BY IsLabelSet DEF Typed
  <2>4. DOMAIN built \subseteq Keys
    BY IsLabelSet DEF Typed
  <2>5. \A m \in DOMAIN ids : ids[m].labels \in LabelSet
    <3>1. \A m \in DOMAIN ids : ids[m] \in Entry
      BY DEF Typed
    <3> QED BY <3>1 DEF Entry
  <2>6. \A m \in DOMAIN ids : <<>> \notin {ids[m].labels[k] : k \in DOMAIN ids[m].labels}
    BY <2>5, IsLabelSet
  <2> QED BY <2>1, <2>2, <2>3, <2>4, <2>6 DEF Typed, TypeOK
<1> QED BY <1>1, TypedAlways, PTL

-------------------------------------------------------------------------------
(***************************************************************************)
(* The labels of an instance.  What buildLabels has merged so far decides  *)
(* what it has built, whatever the order, about every key that is not      *)
(* contested: the name that one configured label exports is then no name   *)
(* that another one looks at or sets.                                      *)
(***************************************************************************)

\* The configured labels of M that a row has with another value.
Conflicts(row, M) == {k \in Configured \cap M \cap DOMAIN row : row[k] # labels[k]}

\* f has at key k what it has of a row into which the labels of M are merged.
MergedAt(f, row, M, k) ==
    /\ k \in DOMAIN f <=> \/ k \in DOMAIN row \cup (Configured \cap M)
                          \/ \E j \in Conflicts(row, M) : k = exported(j)
    /\ k \in Configured \cap M => f[k] = labels[k]
    /\ \A j \in Conflicts(row, M) : k = exported(j) => f[k] = row[j]
    /\ k \in DOMAIN row \ (Configured \cap M) /\ (\A j \in Conflicts(row, M) : k # exported(j))
          => f[k] = row[k]

Merged(f, row, M) == \A k : k \notin Contested => MergedAt(f, row, M, k)

\* What is built at a row is the merge of the labels ranged over so far, and
\* every instance entered has the documented labels of its row.
BuiltAsDocumented ==
    /\ pc = "merge" => Merged(built, metrics[n], DOMAIN labels \ todo)
    /\ \A m \in DOMAIN ids : Uncontested(ids[m].labels) = Uncontested(Documented(metrics[m]))

\* A key that a configured label exports is not contested only if it is not
\* configured, and if its own name is not exported.
LEMMA ExportedOnce ==
    ASSUME NEW j \in Configured, exported(j) \notin Contested
    PROVE  exported(j) \notin Configured /\ \A i \in Configured : j # exported(i)
BY DEF Contested

\* Merging one more label.
LEMMA MergedFurther ==
    ASSUME labels \in Labelings, NEW f \in LabelSet, NEW row \in LabelSet,
           NEW M \in SUBSET DOMAIN labels, Merged(f, row, M), NEW k \in DOMAIN labels \ M
    PROVE  Merged(Merge(f, k), row, M \cup {k})
<1>1. DOMAIN labels \subseteq Text
  BY RowsAssumption, AllTexts
<1>2. CASE labels[k] = <<>>
  <2>1. Configured \cap (M \cup {k}) = Configured \cap M
    BY <1>2 DEF Configured
  <2>2. Conflicts(row, M \cup {k}) = Conflicts(row, M)
    BY <2>1 DEF Conflicts
  <2> QED BY <1>2, <2>1, <2>2 DEF Merged, MergedAt, Merge
<1>3. CASE labels[k] # <<>>
  <2> DEFINE g == Merge(f, k)
             L == M \cup {k}
             exports == k \in DOMAIN f /\ f[k] # labels[k]
  <2>1. /\ k \in Configured /\ Configured \cap L = (Configured \cap M) \cup {k}
        /\ Configured \subseteq Text /\ exported(k) # k
    BY <1>1, <1>3, ExportedNames DEF Configured
  <2>2. \A j \in Conflicts(row, M) : j \in Configured /\ j # k
    BY DEF Conflicts
  <2>3. Conflicts(row, L) = IF k \in DOMAIN row /\ row[k] # labels[k]
                            THEN Conflicts(row, M) \cup {k} ELSE Conflicts(row, M)
    BY <2>1 DEF Conflicts
  <2>4. /\ DOMAIN g = DOMAIN f \cup {k} \cup (IF exports THEN {exported(k)} ELSE {})
        /\ g[k] = labels[k] /\ (exports => g[exported(k)] = f[k])
        /\ \A x \in DOMAIN f : x # k /\ ~(exports /\ x = exported(k)) => g[x] = f[x]
    BY <1>3, <2>1 DEF Merge, Put
  <2>5. \A j \in Configured : exported(j) = exported(k) => j = k
    BY <2>1, ExportedNames
  <2> HIDE DEF g, exports
  <2>6. ASSUME NEW x, x \notin Contested PROVE MergedAt(g, row, L, x)
    <3>1. MergedAt(f, row, M, x)
      BY <2>6 DEF Merged
    <3>2. CASE x = k
      <4>1. \A j \in Conflicts(row, L) : x # exported(j)
        <5>1. \A j \in Conflicts(row, L) : j \in Configured
          BY DEF Conflicts
        <5> QED BY <2>1, <2>6, <3>2, <5>1, ExportedOnce
      <4> QED BY <2>1, <2>4, <3>2, <4>1 DEF MergedAt
    <3>3. CASE x = exported(k)
      <4>1. x \notin Configured /\ \A j \in Configured : k # exported(j)
        BY <2>1, <2>6, <3>3, ExportedOnce
      <4>2. k \notin Contested
        <5>1. Contested \subseteq {exported(j) : j \in Configured}
                \cup {exported(exported(j)) : j \in {i \in Configured : exported(i) \in Configured}}
          BY DEF Contested
        <5> QED BY <4>1, <5>1
      <4>3. MergedAt(f, row, M, k)
        BY <4>2 DEF Merged
      <4>4. k \in DOMAIN f <=> k \in DOMAIN row
        BY <2>2, <4>1, <4>3 DEF MergedAt
      <4>5. k \in DOMAIN row => f[k] = row[k]
        BY <2>2, <4>1, <4>3 DEF MergedAt
      <4>6. exports <=> k \in DOMAIN row /\ row[k] # labels[k]
        BY <4>4, <4>5 DEF exports
      <4>7. \A j \in Conflicts(row, M) : x # exported(j)
        BY <2>2, <2>5, <3>3
      <4>8. CASE exports
        <5>1. x \in DOMAIN g /\ g[x] = row[k] /\ Conflicts(row, L) = Conflicts(row, M) \cup {k}
          BY <2>3, <2>4, <3>3, <4>5, <4>6, <4>8
        <5> QED BY <3>3, <4>1, <4>7, <5>1 DEF MergedAt
      <4>9. CASE ~exports
        <5>1. /\ Conflicts(row, L) = Conflicts(row, M) /\ x # k
              /\ x \in DOMAIN g <=> x \in DOMAIN f
              /\ x \in DOMAIN f => g[x] = f[x]
          BY <2>1, <2>3, <2>4, <3>3, <4>6, <4>9
        <5> QED BY <3>1, <4>1, <4>7, <5>1 DEF MergedAt
      <4> QED BY <4>8, <4>9
    <3>4. CASE x # k /\ x # exported(k)
      <4>1. /\ x \in DOMAIN g <=> x \in DOMAIN f
            /\ x \in DOMAIN f => g[x] = f[x]
        BY <2>4, <3>4
      <4>2. x \in Configured \cap L <=> x \in Configured \cap M
        BY <2>1, <3>4
      <4>3. \A j : j \in Conflicts(row, L) /\ x = exported(j) <=> j \in Conflicts(row, M) /\ x = exported(j)
        BY <2>3, <3>4
      <4> QED BY <3>1, <4>1, <4>2, <4>3 DEF MergedAt
    <3> QED BY <3>2, <3>3, <3>4
  <2> QED BY <2>6 DEF Merged, g
<1> QED BY <1>2, <1>3

\* When all are merged, the rule's name makes the labels the documented ones.
LEMMA MergedAll ==
    ASSUME labels \in Labelings, NEW f \in LabelSet, NEW row \in LabelSet,
           Merged(f, row, DOMAIN labels)
    PROVE  Uncontested(Put(f, alertname, alert)) = Uncontested(Documented(row))
<1> DEFINE conflicts == {k \in Configured \cap DOMAIN row : row[k] # labels[k]}
           keys      == DOMAIN row \cup Configured \cup {exported(k) : k \in conflicts} \cup {alertname}
           value(k)  == CASE k = alertname -> alert
              [] k # alertname /\ k \in Configured -> labels[k]
              [] k \notin Configured \cup {alertname} /\ (\E j \in conflicts : k = exported(j)) ->
                    row[CHOOSE j \in conflicts : k = exported(j)]
              [] OTHER -> row[k]
           all == Put(f, alertname, alert)
<1>1. /\ Configured \subseteq DOMAIN labels /\ Configured \subseteq Text
      /\ Configured \cap DOMAIN labels = Configured
  BY RowsAssumption, AllTexts DEF Configured
<1>2. Conflicts(row, DOMAIN labels) = conflicts
  BY <1>1 DEF Conflicts
<1>3. \A k : k \notin Contested => MergedAt(f, row, DOMAIN labels, k)
  BY DEF Merged
<1>4. /\ DOMAIN all = DOMAIN f \cup {alertname} /\ all[alertname] = alert
      /\ \A k \in DOMAIN f : k # alertname => all[k] = f[k]
  BY DEF Put
<1>5. Documented(row) = [k \in keys |-> value(k)]
  BY DEF Documented
<1> HIDE DEF all, conflicts
<1>6. \A k : k \notin Contested => (k \in DOMAIN all <=> k \in keys)
  BY <1>1, <1>2, <1>3, <1>4 DEF MergedAt
<1>7. ASSUME NEW k \in keys, k \notin Contested PROVE all[k] = value(k)
  <2>1. CASE k = alertname
    BY <1>4, <2>1
  <2>2. CASE k # alertname
    <3>1. all[k] = f[k] /\ MergedAt(f, row, DOMAIN labels, k)
      BY <1>3, <1>4, <1>6, <1>7, <2>2
    <3>2. CASE k \in Configured
      BY <1>1, <2>2, <3>1, <3>2 DEF MergedAt
    <3>3. CASE k \notin Configured /\ \E j \in conflicts : k = exported(j)
      <4>1. PICK i \in conflicts : k = exported(i)
        BY <3>3
      <4>2. \A j \in conflicts : k = exported(j) => j = i
        BY <1>1, <4>1, ExportedNames DEF conflicts
      <4>3. (CHOOSE j \in conflicts : k = exported(j)) = i
        BY <4>1, <4>2
      <4>4. f[k] = row[i]
        BY <1>2, <3>1, <4>1 DEF MergedAt
      <4>5. value(k) = row[CHOOSE j \in conflicts : k = exported(j)]
        BY <2>2, <3>3
      <4> QED BY <3>1, <4>3, <4>4, <4>5
    <3>4. CASE k \notin Configured /\ ~\E j \in conflicts : k = exported(j)
      <4>1. k \in DOMAIN row /\ f[k] = row[k]
        BY <1>1, <1>2, <2>2, <3>1, <3>4 DEF MergedAt
      <4>2. value(k) = row[k]
        BY <2>2, <3>4
      <4> QED BY <3>1, <4>1, <4>2
    <3> QED BY <3>2, <3>3, <3>4
  <2> QED BY <2>1, <2>2
<1>8. Uncontested(all) = [k \in DOMAIN all \ Contested |-> all[k]]
  BY DEF Uncontested
<1>9. Uncontested(Documented(row)) = [k \in keys \ Contested |-> value(k)]
  <2> HIDE DEF keys, value
  <2> QED BY <1>5 DEF Uncontested
<1>10. DOMAIN all \ Contested = keys \ Contested
  BY <1>6
<1> HIDE DEF keys, value
<1>11. \A k \in keys \ Contested : all[k] = value(k)
  BY <1>7
<1> QED BY <1>8, <1>9, <1>10, <1>11 DEF all

\* A row before any label is merged.
LEMMA MergedNone ==
    ASSUME NEW row \in LabelSet
    PROVE  Merged(row, row, {})
BY DEF Merged, MergedAt, Conflicts

\* No step changes the labels of the rule or the result of its query.
LEMMA ConfigurationKept ==
    ASSUME [Next]_vars
    PROVE  /\ labels' = labels /\ result' = result
           /\ Configured' = Configured /\ Contested' = Contested
           /\ \A f : Uncontested(f)' = Uncontested(f)
           /\ \A row : Documented(row)' = Documented(row)
           /\ \A f, row, M : Merged(f, row, M)' = Merged(f, row, M)
<1>1. labels' = labels /\ result' = result
  BY DEF Next, vars, Query, QueryFails, NextRow, MergeLabel, Enter, Done, Again
<1>2. Configured' = Configured
  BY <1>1 DEF Configured
<1>3. Contested' = Contested
  BY <1>2 DEF Contested
<1> QED BY <1>1, <1>2, <1>3 DEF Uncontested, Documented, Merged, MergedAt, Conflicts

LEMMA BuiltStep ==
    ASSUME Typed, BuiltAsDocumented, [Next]_vars
    PROVE  BuiltAsDocumented'
<1> USE DEF BuiltAsDocumented
<1>1. SUFFICES /\ pc' = "merge" => Merged(built', metrics'[n'], DOMAIN labels \ todo')
               /\ \A m \in DOMAIN ids' :
                     Uncontested(ids'[m].labels) = Uncontested(Documented(metrics'[m]))
  <2>1. \A row : Documented(row)' = Documented(row)
    BY ConfigurationKept
  <2>2. \A f, row, M : Merged(f, row, M)' = Merged(f, row, M)
    BY ConfigurationKept
  <2>3. \A f : Uncontested(f)' = Uncontested(f)
    BY ConfigurationKept
  <2> HIDE DEF BuiltAsDocumented
  <2>4. BuiltAsDocumented' <=>
          /\ pc' = "merge" => Merged(built', metrics'[n'], (DOMAIN labels \ todo)')
          /\ \A m \in DOMAIN ids' :
                Uncontested(ids'[m].labels) = Uncontested(Documented(metrics'[m]))
    BY <2>1, <2>2, <2>3 DEF BuiltAsDocumented
  <2> QED BY <2>4, ConfigurationKept
<1>2. CASE UNCHANGED vars
  BY <1>1, <1>2 DEF vars
<1>3. CASE Query
  BY <1>3 DEF Query, Typed
<1>4. CASE QueryFails
  BY <1>1, <1>4 DEF QueryFails
<1>5. CASE NextRow
  <2>1. metrics[n + 1] \in LabelSet
    BY <1>5 DEF NextRow, Typed
  <2>2. Merged(built', metrics'[n'], DOMAIN labels \ todo')
    BY <1>5, <2>1, MergedNone DEF NextRow
  <2> QED BY <1>1, <1>5, <2>2 DEF NextRow
<1>6. ASSUME NEW k \in todo, MergeLabel(k)
      PROVE  /\ pc' = "merge" => Merged(built', metrics'[n'], DOMAIN labels \ todo')
             /\ \A m \in DOMAIN ids' :
                   Uncontested(ids'[m].labels) = Uncontested(Documented(metrics'[m]))
  <2>1. built \in LabelSet /\ metrics[n] \in LabelSet /\ k \in DOMAIN labels
    BY <1>6 DEF MergeLabel, Typed
  <2>2. Merged(built, metrics[n], DOMAIN labels \ todo)
    BY <1>1, <1>6 DEF MergeLabel
  <2>3. (DOMAIN labels \ todo) \cup {k} = DOMAIN labels \ (todo \ {k})
    BY <2>1
  <2>4. Merged(Merge(built, k), metrics[n], (DOMAIN labels \ todo) \cup {k})
    BY <1>1, <2>1, <2>2, MergedFurther DEF Typed
  <2>5. Merged(built', metrics'[n'], DOMAIN labels \ todo')
    BY <1>6, <2>3, <2>4 DEF MergeLabel
  <2> QED BY <1>1, <1>6, <2>5 DEF MergeLabel
<1>7. CASE Enter
  <2> DEFINE all == Put(built, alertname, alert)
             e   == [labels |-> all, hash |-> hashLabels(all)]
  <2>1. built \in LabelSet /\ metrics[n] \in LabelSet /\ labels \in Labelings
    BY <1>7 DEF Enter, Typed
  <2>2. Merged(built, metrics[n], DOMAIN labels)
    BY <1>1, <1>7 DEF Enter
  <2>3. Uncontested(all) = Uncontested(Documented(metrics[n]))
    BY <2>1, <2>2, MergedAll
  <2>4. ids' = Append(ids, e) /\ e.labels = all /\ metrics' = metrics /\ pc' # "merge"
    BY <1>7 DEF Enter
  <2>5. Len(ids) + 1 = n /\ Len(ids) \in Nat /\ ids \in Seq(Entry)
    BY <1>7 DEF Enter, Typed
  <2>6. /\ DOMAIN ids' = DOMAIN ids \cup {n} /\ ids'[n].labels = all
        /\ \A m \in DOMAIN ids : ids'[m] = ids[m]
    <3> HIDE DEF all, e
    <3> QED BY <2>4, <2>5
  <2> HIDE DEF all, e
  <2> QED BY <1>1, <2>3, <2>4, <2>6
<1>8. CASE Done
  BY <1>1, <1>8 DEF Done
<1>9. CASE Again
  BY <1>9 DEF Again
<1> QED BY <1>2, <1>3, <1>4, <1>5, <1>6, <1>7, <1>8, <1>9 DEF Next

\* Whatever the order in which the map of configured labels is ranged over at
\* each row, every instance that an evaluation enters has the labels that the
\* comment on buildLabels promises at every key but those that two configured
\* labels contest, one being the exported name of the other (rule.go:400-421).
THEOREM LabelsAlwaysAsDocumented == Spec => []LabelsAsDocumented
<1>1. Init => BuiltAsDocumented
  BY DEF Init, BuiltAsDocumented
<1>2. Typed /\ BuiltAsDocumented /\ [Next]_vars => BuiltAsDocumented'
  BY BuiltStep
<1>3. BuiltAsDocumented => LabelsAsDocumented
  BY DEF BuiltAsDocumented, LabelsAsDocumented
<1> QED BY <1>1, <1>2, <1>3, TypedAlways, PTL DEF Spec

-------------------------------------------------------------------------------
(***************************************************************************)
(* The second evaluation.  If no cell is formatted as an address, a row    *)
(* has the same labels wherever it is scanned, and so each row is entered  *)
(* under the hash that it had in the first evaluation.                     *)
(***************************************************************************)

\* The hypothesis of SameRowsSameInstances.
Fixed ==
    /\ Contested = {}
    /\ \A m \in DOMAIN result.rows, c \in DOMAIN result.columns :
          result.columns[c].scan.pointer /\ result.rows[m][c] # NULL =>
              result.columns[c].scan.of \in {"string", "stringer"}

\* The labels of a row of the result, at no address in particular.
RowLabels(m) == MetricLabels(result.columns, result.rows[m], <<>>)

\* The hash of its instance.
RowHash(m) == hashLabels(Documented(RowLabels(m)))

\* The rows have the hashes that are entered, and those of the first
\* evaluation, if it ended, are pairwise different.
SameHashes ==
    Fixed =>
        /\ \A m \in DOMAIN metrics : metrics[m] = RowLabels(m)
        /\ \A m \in DOMAIN ids : ids[m].hash = RowHash(m)
        /\ pc # "duplicate" => \A m, k \in DOMAIN ids : RowHash(m) = RowHash(k) => m = k
        /\ pass = 2 =>
              /\ \A m, k \in DOMAIN result.rows : RowHash(m) = RowHash(k) => m = k
              /\ before = {RowHash(m) : m \in DOMAIN result.rows}
              /\ pc # "duplicate"

\* An evaluation that is done has entered every row.
LEMMA SameLength ==
    ASSUME Typed, pc = "done"
    PROVE  DOMAIN ids = DOMAIN result.rows
<1>1. result.rows \in Seq([DOMAIN result.columns -> Text \cup {NULL}])
  BY RowsAssumption DEF Typed
<1>2. Len(ids) = Len(result.rows)
  BY DEF Typed
<1>3. ids \in Seq(Entry)
  BY DEF Typed
<1> QED BY <1>1, <1>2, <1>3

\* Without contested keys all labels are the documented ones.
LEMMA AllDocumented ==
    ASSUME Contested = {}, labels \in Labelings, NEW f \in LabelSet, NEW row \in LabelSet,
           Merged(f, row, DOMAIN labels)
    PROVE  Put(f, alertname, alert) = Documented(row)
<1>1. \A h : Uncontested(h) = [k \in DOMAIN h |-> h[k]]
  BY DEF Uncontested
<1> DEFINE g == Put(f, alertname, alert)
<1>2. g = [k \in DOMAIN g |-> g[k]]
  BY DEF Put
<1>3. Documented(row) = [k \in DOMAIN Documented(row) |-> Documented(row)[k]]
  BY DEF Documented
<1>4. Uncontested(g) = Uncontested(Documented(row))
  BY MergedAll
<1> HIDE DEF g
<1> QED BY <1>1, <1>2, <1>3, <1>4 DEF g

\* Cells that are not formatted as addresses do not depend on the address.
LEMMA AnyAddress ==
    ASSUME Typed, Fixed, NEW m \in DOMAIN result.rows, NEW a
    PROVE  MetricLabels(result.columns, result.rows[m], a) = RowLabels(m)
<1>1. \A i \in DOMAIN result.columns :
        derefToString(result.columns[i].scan, result.rows[m][i], a)
          = derefToString(result.columns[i].scan, result.rows[m][i], <<>>)
  BY DEF Fixed, derefToString, FormattedAsPointer
<1> DEFINE columns == result.columns
           row == result.rows[m]
           text(i, b) == derefToString(columns[i].scan, row[i], b)
           named(k, b) == {i \in DOMAIN columns : /\ Role(columns[i].type) = "label"
                                                  /\ columns[i].name = k /\ text(i, b) # <<>>}
           found(b) == {j \in Keys : named(j, b) # {}}
           last(k, b) == CHOOSE i \in named(k, b) : \A j \in named(k, b) : j <= i
           labelsAt(b) == [k \in found(b) |-> text(last(k, b), b)]
<1>2. MetricLabels(columns, row, a) = labelsAt(a)
  BY DEF MetricLabels, Keys
<1>3. MetricLabels(columns, row, <<>>) = labelsAt(<<>>)
  BY DEF MetricLabels, Keys
<1>4. \A i \in DOMAIN columns : text(i, a) = text(i, <<>>)
  BY <1>1
<1> HIDE DEF text
<1>5. \A k : named(k, a) = named(k, <<>>)
  BY <1>4
<1>6. \A k \in Keys : named(k, a) \subseteq DOMAIN columns
  OBVIOUS
<1>7. ASSUME NEW k \in found(a) PROVE last(k, a) \in DOMAIN columns
  <2>1. columns \in Seq([name : Keys, type : Text, scan : Scan])
    BY RowsAssumption DEF Typed
  <2>2. Len(columns) \in Nat /\ DOMAIN columns = 1..Len(columns)
    BY <2>1
  <2>3. named(k, a) # {} /\ named(k, a) \in SUBSET (1..Len(columns))
    BY <1>6, <2>2
  <2> HIDE DEF named
  <2>4. \E i \in named(k, a) : \A j \in named(k, a) : j <= i
    BY <2>2, <2>3, LastOf
  <2>5. last(k, a) \in named(k, a)
    BY <2>4
  <2> QED BY <2>2, <2>3, <2>5
<1> HIDE DEF named
<1>8. found(a) = found(<<>>)
  BY <1>5
<1>9. \A k : last(k, a) = last(k, <<>>)
  BY <1>5
<1> HIDE DEF found, last
<1>10. \A k \in found(a) : text(last(k, a), a) = text(last(k, <<>>), <<>>)
  BY <1>4, <1>7, <1>9
<1>11. labelsAt(a) = labelsAt(<<>>)
  BY <1>8, <1>10
<1> HIDE DEF labelsAt
<1> QED BY <1>2, <1>3, <1>11 DEF RowLabels

\* No step changes the hashes of the rows.
LEMMA HashesKept ==
    ASSUME [Next]_vars
    PROVE  /\ Fixed' = Fixed
           /\ \A m : RowLabels(m)' = RowLabels(m) /\ RowHash(m)' = RowHash(m)
<1>1. \A m : RowLabels(m)' = RowLabels(m)
  BY ConfigurationKept DEF RowLabels
<1>2. \A row : Documented(row)' = Documented(row)
  BY ConfigurationKept
<1>3. \A m : RowHash(m)' = RowHash(m)
  BY <1>1, <1>2 DEF RowHash
<1> QED BY <1>1, <1>3, ConfigurationKept DEF Fixed

LEMMA SameHashesStep ==
    ASSUME Typed, BuiltAsDocumented, BuiltAsDocumented', SameHashes, [Next]_vars
    PROVE  SameHashes'
<1> DEFINE Conclusion ==
        /\ \A m \in DOMAIN metrics' : metrics'[m] = RowLabels(m)
        /\ \A m \in DOMAIN ids' : ids'[m].hash = RowHash(m)
        /\ pc' # "duplicate" => \A m, k \in DOMAIN ids' : RowHash(m) = RowHash(k) => m = k
        /\ pass' = 2 =>
              /\ \A m, k \in DOMAIN result.rows : RowHash(m) = RowHash(k) => m = k
              /\ before' = {RowHash(m) : m \in DOMAIN result.rows}
              /\ pc' # "duplicate"
<1>1. SUFFICES ASSUME Fixed PROVE Conclusion
  <2>1. result' = result /\ Fixed' = Fixed
    BY HashesKept, ConfigurationKept
  <2>2. \A m : RowLabels(m)' = RowLabels(m) /\ RowHash(m)' = RowHash(m)
    BY HashesKept
  <2> QED BY <2>1, <2>2 DEF SameHashes
<1>2. SameHashes /\ Contested = {}
  BY <1>1 DEF Fixed
<1> USE DEF SameHashes
<1>3. CASE UNCHANGED vars
  BY <1>1, <1>3 DEF vars
<1>4. CASE Query
  <2>1. PICK address \in [DOMAIN result.rows -> Addresses] :
          metrics' = [m \in DOMAIN result.rows |->
                         MetricLabels(result.columns, result.rows[m], address[m])]
    BY <1>4 DEF Query
  <2>2. \A m \in DOMAIN metrics' : metrics'[m] = RowLabels(m)
    BY <1>1, <2>1, AnyAddress
  <2> QED BY <1>1, <1>4, <2>2 DEF Query
<1>5. CASE QueryFails
  BY <1>1, <1>5 DEF QueryFails
<1>6. CASE NextRow
  BY <1>1, <1>6 DEF NextRow
<1>7. ASSUME NEW k \in todo, MergeLabel(k) PROVE Conclusion
  BY <1>1, <1>7 DEF MergeLabel
<1>8. CASE Enter
  <2> DEFINE all == Put(built, alertname, alert)
             id  == hashLabels(all)
             e   == [labels |-> all, hash |-> id]
  <2>1. /\ ids' = Append(ids, e) /\ e.labels = all /\ e.hash = id
        /\ UNCHANGED <<metrics, pass, before, result>>
        /\ pc = "merge" /\ todo = {}
        /\ pc' = IF \E m \in DOMAIN ids : ids[m].hash = id THEN "duplicate" ELSE "rows"
    BY <1>8 DEF Enter
  <2>2. n = Len(ids) + 1 /\ n \in DOMAIN metrics /\ n \in DOMAIN result.rows
        /\ Len(ids) \in Nat /\ ids \in Seq(Entry) /\ DOMAIN ids = 1..Len(ids)
        /\ DOMAIN ids \subseteq DOMAIN result.rows
    <3>1. Len(metrics) = Len(result.rows) /\ result.rows \in Seq([DOMAIN result.columns -> Text \cup {NULL}])
      BY <2>1, RowsAssumption DEF Typed
    <3> QED BY <2>1, <3>1 DEF Typed
  <2>3. all = Documented(metrics[n])
    <3>1. built \in LabelSet /\ metrics[n] \in LabelSet /\ labels \in Labelings
      BY <2>2 DEF Typed
    <3>2. Merged(built, metrics[n], DOMAIN labels)
      BY <1>2, <2>1 DEF BuiltAsDocumented
    <3> QED BY <1>2, <3>1, <3>2, AllDocumented
  <2>4. id = RowHash(n)
    BY <1>1, <2>2, <2>3 DEF RowHash
  <2>5. /\ DOMAIN ids' = DOMAIN ids \cup {n} /\ ids'[n].hash = id
        /\ \A m \in DOMAIN ids : ids'[m] = ids[m]
    <3> HIDE DEF all, id, e
    <3> QED BY <2>1, <2>2
  <2>6. \A m \in DOMAIN ids' : ids'[m].hash = RowHash(m)
    BY <1>1, <2>4, <2>5
  <2>7. pc' # "duplicate" => \A m, k \in DOMAIN ids' : RowHash(m) = RowHash(k) => m = k
    <3> HIDE DEF all, id, e
    <3>1. pc' # "duplicate" => \A m \in DOMAIN ids : RowHash(m) # RowHash(n)
      BY <1>1, <2>1, <2>4
    <3> QED BY <1>1, <2>1, <2>5, <3>1
  <2>8. pass = 2 => pc' # "duplicate"
    <3> HIDE DEF all, id, e
    <3>1. n \notin DOMAIN ids
      BY <2>2
    <3>2. pass = 2 => \A m \in DOMAIN ids : RowHash(m) # RowHash(n)
      BY <1>1, <2>2, <3>1
    <3> QED BY <1>1, <2>1, <2>4, <3>2
  <2> QED BY <1>1, <2>1, <2>6, <2>7, <2>8
<1>9. CASE Done
  BY <1>1, <1>9 DEF Done
<1>10. CASE Again
  <2>1. DOMAIN ids = DOMAIN result.rows
    BY <1>10, SameLength DEF Again
  <2> QED BY <1>1, <1>10, <2>1 DEF Again, Hashes
<1> QED BY <1>3, <1>4, <1>5, <1>6, <1>7, <1>8, <1>9, <1>10 DEF Next

\* Rows that persist are the same instances in the second evaluation, which
\* finds no duplicate among them, provided that no two configured labels
\* contest a key and that no row has a value in a nullable column of which
\* derefToString prints the address (clickhouse.go:246-258, rule.go:407): for
\* every order of the labels and every allocation, in both evaluations.
THEOREM SameRowsAlwaysSameInstances == Spec => []SameRowsSameInstances
<1>1. Init => BuiltAsDocumented /\ SameHashes
  BY DEF Init, BuiltAsDocumented, SameHashes
<1>2. Typed /\ BuiltAsDocumented /\ SameHashes /\ [Next]_vars => BuiltAsDocumented' /\ SameHashes'
  BY BuiltStep, SameHashesStep
<1>3. Typed /\ SameHashes => SameRowsSameInstances
  <2> SUFFICES ASSUME Typed, SameHashes, Fixed, pass = 2
               PROVE  pc # "duplicate" /\ (pc = "done" => Hashes = before)
    BY DEF Fixed, SameRowsSameInstances
  <2> QED BY SameLength DEF SameHashes, Hashes
<1> QED BY <1>1, <1>2, <1>3, TypedAlways, PTL DEF Spec

-------------------------------------------------------------------------------
(***************************************************************************)
(* What is hashed.  A text without separators, and then a separator, can   *)
(* be cut off a sequence in one way only: from the last label to the first *)
(* what is hashed tells keys and values, unless two labels read the same.  *)
(***************************************************************************)

\* Some position is the first.
LEMMA FirstOf ==
    ASSUME NEW N \in Nat, NEW T \in SUBSET (1..N), T # {}
    PROVE  \E m \in T : \A j \in T : m <= j
<1> DEFINE U == {N + 1 - j : j \in T}
<1>1. U \in SUBSET (1..N) /\ U # {}
  <2>1. \A j \in T : N + 1 - j \in 1..N
    OBVIOUS
  <2> QED BY <2>1
<1>2. PICK x \in U : \A y \in U : y <= x
  <2> HIDE DEF U
  <2> QED BY <1>1, LastOf
<1>3. PICK m \in T : x = N + 1 - m
  BY <1>2
<1>4. \A j \in T : N + 1 - j <= N + 1 - m
  BY <1>2, <1>3
<1> QED BY <1>4

\* F accumulates the sequences of s up to position k.
Accumulates(F, s, k) ==
    /\ DOMAIN F = 1..k
    /\ \A i \in 1..k : F[i] = IF i = 1 THEN s[i] ELSE F[i - 1] \o s[i]

\* Sequences can be accumulated, up to any position.
LEMMA AccumulationExists ==
    ASSUME NEW S, NEW N \in Nat \ {0}, NEW s \in [1..N -> Seq(S)]
    PROVE  \E F \in [1..N -> Seq(S)] : Accumulates(F, s, N)
<1> DEFINE Has(k) == \E F \in [1..k -> Seq(S)] : Accumulates(F, s, k)
           T == {k \in 1..N : ~Has(k)}
<1>1. SUFFICES ASSUME T # {} PROVE FALSE
  <2>1. N \in 1..N
    OBVIOUS
  <2> QED BY <2>1
<1>2. PICK k \in T : \A j \in T : k <= j
  <2>1. T \in SUBSET (1..N) /\ N \in Nat
    OBVIOUS
  <2> HIDE DEF T
  <2> QED BY <1>1, <2>1, FirstOf
<1>3. CASE k = 1
  <2> DEFINE F == [i \in 1..1 |-> s[i]]
  <2>1. F \in [1..1 -> Seq(S)] /\ Accumulates(F, s, 1)
    BY DEF Accumulates
  <2> HIDE DEF F
  <2> QED BY <1>2, <1>3, <2>1
<1>4. CASE k # 1
  <2>1. k - 1 \in 1..N /\ k \in 2..N
    BY <1>4
  <2>2. Has(k - 1)
    <3>1. k - 1 \notin T
      BY <1>2, <2>1
    <3> HIDE DEF Has
    <3> QED BY <2>1, <3>1
  <2>3. PICK F \in [1..(k - 1) -> Seq(S)] : Accumulates(F, s, k - 1)
    BY <2>2
  <2> DEFINE G == [i \in 1..k |-> IF i = k THEN F[k - 1] \o s[k] ELSE F[i]]
  <2>4. G \in [1..k -> Seq(S)]
    <3>1. F[k - 1] \in Seq(S) /\ s[k] \in Seq(S)
      BY <2>1
    <3>2. F[k - 1] \o s[k] \in Seq(S)
      BY <3>1
    <3>3. \A i \in 1..k : i # k => F[i] \in Seq(S)
      BY <2>1
    <3> QED BY <3>2, <3>3
  <2>5. ASSUME NEW i \in 1..k PROVE G[i] = IF i = 1 THEN s[i] ELSE G[i - 1] \o s[i]
    <3>1. CASE i = k
      <4>1. G[i] = F[k - 1] \o s[k] /\ G[k - 1] = F[k - 1]
        BY <2>1, <3>1
      <4> QED BY <1>4, <3>1, <4>1
    <3>2. CASE i # k
      <4>1. i \in 1..(k - 1) /\ G[i] = F[i] /\ (i # 1 => G[i - 1] = F[i - 1])
        BY <2>1, <3>2
      <4> QED BY <2>3, <4>1 DEF Accumulates
    <3> QED BY <3>1, <3>2
  <2>6. DOMAIN G = 1..k
    OBVIOUS
  <2> HIDE DEF G
  <2>7. Has(k)
    BY <2>4, <2>5, <2>6 DEF Accumulates
  <2> QED BY <2>7
<1> QED BY <1>3, <1>4

\* What is flattened is the accumulation of all.
LEMMA Flattened ==
    ASSUME NEW S, NEW N \in Nat \ {0}, NEW s \in [1..N -> Seq(S)]
    PROVE  \E F \in [1..N -> Seq(S)] : Accumulates(F, s, N) /\ FlattenSeq(s) = F[N]
<1>1. s \in Seq(Seq(S)) /\ Len(s) = N
  OBVIOUS
<1> DEFINE Is(F) == F = [i \in 1..N |-> IF i = 1 THEN s[i] ELSE F[i - 1] \o s[i]]
           flatten == CHOOSE F : Is(F)
<1>2. PICK F \in [1..N -> Seq(S)] : Accumulates(F, s, N)
  BY AccumulationExists
<1>3. Is(F)
  BY <1>2 DEF Accumulates
<1>4. Is(flatten)
  <2> HIDE DEF Is
  <2> QED BY <1>3
<1>5. FlattenSeq(s) = flatten[N]
  BY <1>1 DEF FlattenSeq
<1> HIDE DEF flatten
<1>6. /\ DOMAIN flatten = 1..N
      /\ \A i \in 1..N : flatten[i] = IF i = 1 THEN s[i] ELSE flatten[i - 1] \o s[i]
  BY <1>4
<1> DEFINE T == {i \in 1..N : flatten[i] # F[i]}
<1>7. T = {}
  <2>1. SUFFICES ASSUME T # {} PROVE FALSE
    OBVIOUS
  <2>2. PICK k \in T : \A j \in T : k <= j
    <3>1. T \in SUBSET (1..N) /\ N \in Nat
      OBVIOUS
    <3> HIDE DEF T
    <3> QED BY <2>1, <3>1, FirstOf
  <2>3. k # 1
    BY <1>2, <1>6 DEF Accumulates
  <2>4. k - 1 \in 1..N /\ k - 1 \notin T
    BY <2>2, <2>3
  <2>5. flatten[k - 1] = F[k - 1]
    BY <2>4
  <2> QED BY <1>2, <1>6, <2>3, <2>5 DEF Accumulates
<1>8. flatten[N] = F[N]
  <2>1. N \in 1..N
    OBVIOUS
  <2> QED BY <1>7, <2>1
<1> QED BY <1>2, <1>5, <1>8

Piece == STRING \cup {"ff"}

Plain(t) == t \in Seq(Piece) /\ \A i \in 1..Len(t) : t[i] # "ff"

Closed(t) == t \in Seq(Piece) /\ (Len(t) > 0 => t[Len(t)] = "ff")

\* A text and the separator after it.
LEMMA Separated ==
    ASSUME NEW u, Plain(u)
    PROVE  /\ u \o <<"ff">> \in Seq(Piece) /\ Len(u \o <<"ff">>) = Len(u) + 1
           /\ (u \o <<"ff">>)[Len(u) + 1] = "ff"
           /\ \A i \in 1..Len(u) : (u \o <<"ff">>)[i] = u[i]
<1> DEFINE e == "ff"
           g == <<e>>
<1>1. e \in Piece
  BY DEF Piece
<1>2. g \in Seq(Piece) /\ Len(g) = 1 /\ g[1] = "ff"
  BY <1>1
<1>3. u \in Seq(Piece) /\ Len(u) \in Nat
  BY DEF Plain
<1> HIDE DEF g
<1>4. /\ u \o g \in Seq(Piece) /\ Len(u \o g) = Len(u) + Len(g)
      /\ \A i \in 1..Len(u) + Len(g) :
            (u \o g)[i] = IF i <= Len(u) THEN u[i] ELSE g[i - Len(u)]
  BY <1>2, <1>3, ConcatProperties
<1>5. g = <<"ff">>
  BY DEF g
<1> QED BY <1>2, <1>3, <1>4, <1>5

\* After a closed sequence a separated text is closed.
LEMMA ClosedFurther ==
    ASSUME NEW a, NEW u, Closed(a), Plain(u)
    PROVE  Closed(a \o (u \o <<"ff">>))
<1> DEFINE w == u \o <<"ff">>
<1>1. w \in Seq(Piece) /\ Len(w) = Len(u) + 1 /\ w[Len(u) + 1] = "ff" /\ Len(u) \in Nat
  BY Separated DEF Plain
<1>2. a \in Seq(Piece) /\ Len(a) \in Nat
  BY DEF Closed
<1> HIDE DEF w
<1>3. /\ a \o w \in Seq(Piece) /\ Len(a \o w) = Len(a) + Len(w)
      /\ \A i \in 1..Len(a) + Len(w) :
            (a \o w)[i] = IF i <= Len(a) THEN a[i] ELSE w[i - Len(a)]
  BY <1>1, <1>2, ConcatProperties
<1>4. (a \o w)[Len(a) + Len(w)] = w[Len(w)]
  BY <1>1, <1>2, <1>3
<1>5. Closed(a \o w)
  BY <1>1, <1>3, <1>4 DEF Closed
<1> QED BY <1>5 DEF w

\* A closed sequence is no shorter than another that one separated text each
\* makes equal to it.
LEMMA NotShorter ==
    ASSUME NEW a, NEW b, NEW u, NEW v, Closed(a), Closed(b), Plain(u), Plain(v),
           a \o (u \o <<"ff">>) = b \o (v \o <<"ff">>)
    PROVE  Len(a) >= Len(b)
<1> DEFINE w == u \o <<"ff">>
           x == v \o <<"ff">>
<1>1. w \in Seq(Piece) /\ Len(w) = Len(u) + 1 /\ \A i \in 1..Len(u) : w[i] = u[i]
  BY Separated
<1>2. x \in Seq(Piece) /\ Len(x) = Len(v) + 1
  BY Separated
<1>3. Len(a) \in Nat /\ Len(b) \in Nat /\ Len(u) \in Nat /\ Len(v) \in Nat
  BY DEF Closed, Plain
<1>4. a \o w = b \o x
  OBVIOUS
<1> HIDE DEF w, x
<1>5. /\ Len(a \o w) = Len(a) + Len(w)
      /\ \A i \in 1..Len(a) + Len(w) :
            (a \o w)[i] = IF i <= Len(a) THEN a[i] ELSE w[i - Len(a)]
  BY <1>1, ConcatProperties DEF Closed
<1>6. /\ Len(b \o x) = Len(b) + Len(x)
      /\ \A i \in 1..Len(b) + Len(x) :
            (b \o x)[i] = IF i <= Len(b) THEN b[i] ELSE x[i - Len(b)]
  BY <1>2, ConcatProperties DEF Closed
<1>7. SUFFICES ASSUME Len(a) < Len(b) PROVE FALSE
  BY <1>3
<1>8. Len(a) + Len(u) = Len(b) + Len(v)
  <2>1. Len(a) + Len(w) = Len(b) + Len(x)
    BY <1>4, <1>5, <1>6
  <2>2. Len(w) = Len(u) + 1 /\ Len(x) = Len(v) + 1
    BY <1>1, <1>2
  <2>3. PICK p \in Nat, q \in Nat, y \in Nat, z \in Nat :
          p = Len(a) /\ q = Len(b) /\ y = Len(u) /\ z = Len(v)
    BY <1>3
  <2>4. p + (y + 1) = q + (z + 1)
    BY <2>1, <2>2, <2>3
  <2>5. p + y = q + z
    BY <2>4
  <2> QED BY <2>3, <2>5
<1>9. b[Len(b)] = "ff"
  BY <1>3, <1>7 DEF Closed
<1>10. (b \o x)[Len(b)] = b[Len(b)]
  BY <1>2, <1>3, <1>6, <1>7
<1>11. Len(b) - Len(a) \in 1..Len(u)
  BY <1>3, <1>7, <1>8
<1>12. (a \o w)[Len(b)] = u[Len(b) - Len(a)]
  <2>1. Len(b) \in 1..Len(a) + Len(w) /\ ~(Len(b) <= Len(a))
    BY <1>1, <1>3, <1>7, <1>8
  <2>2. (a \o w)[Len(b)] = w[Len(b) - Len(a)]
    BY <1>5, <2>1
  <2> QED BY <1>1, <1>11, <2>2
<1>13. u[Len(b) - Len(a)] # "ff"
  BY <1>11 DEF Plain
<1> QED BY <1>4, <1>9, <1>10, <1>12, <1>13

\* The separated text at the end of a closed sequence is determined by it.
LEMMA CutOff ==
    ASSUME NEW a, NEW b, NEW u, NEW v, Closed(a), Closed(b), Plain(u), Plain(v),
           a \o (u \o <<"ff">>) = b \o (v \o <<"ff">>)
    PROVE  a = b /\ u = v
<1> DEFINE w == u \o <<"ff">>
           x == v \o <<"ff">>
<1>1. Len(a) >= Len(b)
  BY NotShorter
<1>2. Len(b) >= Len(a)
  BY NotShorter
<1>3. Len(a) \in Nat /\ Len(b) \in Nat /\ Len(u) \in Nat /\ Len(v) \in Nat
  BY DEF Closed, Plain
<1>4. w \in Seq(Piece) /\ Len(w) = Len(u) + 1 /\ \A i \in 1..Len(u) : w[i] = u[i]
  BY Separated
<1>5. x \in Seq(Piece) /\ Len(x) = Len(v) + 1 /\ \A i \in 1..Len(v) : x[i] = v[i]
  BY Separated
<1>6. a \o w = b \o x
  OBVIOUS
<1> HIDE DEF w, x
<1>7. /\ Len(a \o w) = Len(a) + Len(w)
      /\ \A i \in 1..Len(a) + Len(w) :
            (a \o w)[i] = IF i <= Len(a) THEN a[i] ELSE w[i - Len(a)]
  BY <1>4, ConcatProperties DEF Closed
<1>8. /\ Len(b \o x) = Len(b) + Len(x)
      /\ \A i \in 1..Len(b) + Len(x) :
            (b \o x)[i] = IF i <= Len(b) THEN b[i] ELSE x[i - Len(b)]
  BY <1>5, ConcatProperties DEF Closed
<1>9. Len(a) = Len(b)
  BY <1>1, <1>2, <1>3
<1>10. Len(u) = Len(v)
  BY <1>3, <1>4, <1>5, <1>6, <1>7, <1>8, <1>9
<1>11. ASSUME NEW i \in 1..Len(a) PROVE a[i] = b[i]
  BY <1>3, <1>4, <1>5, <1>6, <1>7, <1>8, <1>9, <1>10
<1>12. ASSUME NEW i \in 1..Len(u) PROVE u[i] = v[i]
  <2>1. Len(a) + i \in 1..Len(a) + Len(w) /\ Len(b) + i \in 1..Len(b) + Len(x)
        /\ ~(Len(a) + i <= Len(a)) /\ Len(a) + i - Len(a) = i
    BY <1>3, <1>4, <1>5, <1>10
  <2>2. (a \o w)[Len(a) + i] = w[i]
    BY <1>7, <2>1
  <2>3. (b \o x)[Len(a) + i] = x[i]
    BY <1>8, <1>9, <2>1
  <2> QED BY <1>4, <1>5, <1>6, <1>10, <2>2, <2>3
<1>13. a = b
  BY <1>9, <1>11, SeqEqual DEF Closed
<1>14. u = v
  BY <1>10, <1>12, SeqEqual DEF Plain
<1> QED BY <1>13, <1>14

\* A label's part of what is hashed.
PartOf(f, k) == IF k \in DOMAIN f THEN k \o f[k] \o <<"ff">> ELSE <<>>

\* Without separators in the texts, a key and a value are plain.
LEMMA PlainLabel ==
    ASSUME SeparatorFree, NEW f \in LabelSet, NEW k \in DOMAIN f
    PROVE  /\ k \in Seq(Piece) /\ f[k] \in Seq(Piece) /\ Plain(k \o f[k])
           /\ PartOf(f, k) = (k \o f[k]) \o <<"ff">>
<1>1. k \in Values \cup Keys /\ f[k] \in Values \cup Keys
  BY IsLabelSet
<1>2. \A t \in Values \cup Keys : t \in Seq(Piece) /\ \A i \in 1..Len(t) : t[i] # "ff"
  <2>1. \A t \in Values \cup Keys : t \in Seq(STRING)
    BY AllTexts DEF Text
  <2>2. \A t \in Values \cup Keys : t \in Seq(Piece)
    BY <2>1 DEF Piece
  <2>3. \A t \in Values \cup Keys : \A i \in 1..Len(t) : t[i] # "ff"
    BY <2>1 DEF SeparatorFree, ToSet
  <2> QED BY <2>2, <2>3
<1> DEFINE t == f[k]
<1>3. /\ k \in Seq(Piece) /\ \A i \in 1..Len(k) : k[i] # "ff"
      /\ t \in Seq(Piece) /\ \A i \in 1..Len(t) : t[i] # "ff"
      /\ Len(k) \in Nat /\ Len(t) \in Nat
  <2>1. Len(k) \in Nat /\ Len(t) \in Nat
    BY <1>1, <1>2
  <2> QED BY <1>1, <1>2, <2>1
<1>4. PartOf(f, k) = (k \o t) \o <<"ff">>
  BY DEF PartOf
<1> HIDE DEF t
<1>5. /\ k \o t \in Seq(Piece) /\ Len(k \o t) = Len(k) + Len(t)
      /\ \A i \in 1..Len(k) + Len(t) :
            (k \o t)[i] = IF i <= Len(k) THEN k[i] ELSE t[i - Len(k)]
  BY <1>3, ConcatProperties
<1>6. Plain(k \o t)
  <2>1. ASSUME NEW i \in 1..Len(k) + Len(t) PROVE (k \o t)[i] # "ff"
    <3>1. CASE i <= Len(k)
      BY <1>3, <1>5, <3>1
    <3>2. CASE ~(i <= Len(k))
      <4>1. i - Len(k) \in 1..Len(t)
        BY <1>3, <3>2
      <4> QED BY <1>3, <1>5, <3>2, <4>1
    <3> QED BY <3>1, <3>2
  <2> QED BY <1>5, <2>1 DEF Plain
<1> QED BY <1>3, <1>4, <1>6 DEF t

\* The parts are sequences.
LEMMA PartsTyped ==
    ASSUME SeparatorFree, NEW f \in LabelSet
    PROVE  /\ Len(byteOrder) \in Nat \ {0} /\ DOMAIN byteOrder = 1..Len(byteOrder)
           /\ [m \in 1..Len(byteOrder) |-> PartOf(f, byteOrder[m])] \in [1..Len(byteOrder) -> Seq(Piece)]
           /\ hashLabels(f) = FlattenSeq([m \in 1..Len(byteOrder) |-> PartOf(f, byteOrder[m])])
<1>1. Len(byteOrder) \in Nat /\ DOMAIN byteOrder = 1..Len(byteOrder)
  BY RowsAssumption
<1>2. Len(byteOrder) # 0
  <2>1. DOMAIN byteOrder # {}
    BY RowsAssumption DEF Keys, ToSet
  <2> QED BY <1>1, <2>1
<1>3. \A k : PartOf(f, k) \in Seq(Piece)
  <2>1. ASSUME NEW k \in DOMAIN f PROVE PartOf(f, k) \in Seq(Piece)
    BY PlainLabel, Separated
  <2>2. << >> \in Seq(Piece)
    OBVIOUS
  <2> QED BY <2>1, <2>2 DEF PartOf
<1>4. hashLabels(f) = FlattenSeq([m \in 1..Len(byteOrder) |-> PartOf(f, byteOrder[m])])
  BY <1>1 DEF hashLabels, PartOf
<1> QED BY <1>1, <1>2, <1>3, <1>4

\* What is accumulated of the parts is closed.
LEMMA PartsClosed ==
    ASSUME SeparatorFree, NEW f \in LabelSet, NEW F,
           Accumulates(F, [m \in 1..Len(byteOrder) |-> PartOf(f, byteOrder[m])], Len(byteOrder))
    PROVE  \A i \in 1..Len(byteOrder) : Closed(F[i])
<1> DEFINE N == Len(byteOrder)
           s == [m \in 1..N |-> PartOf(f, byteOrder[m])]
           T == {i \in 1..N : ~Closed(F[i])}
<1>1. N \in Nat
  BY PartsTyped
<1> HIDE DEF N
<1>2. SUFFICES ASSUME T # {} PROVE FALSE
  BY DEF N
<1>3. PICK i \in T : \A j \in T : i <= j
  <2>1. T \in SUBSET (1..N)
    OBVIOUS
  <2> HIDE DEF T
  <2> QED BY <1>1, <1>2, <2>1, FirstOf
<1>4. /\ F[i] = IF i = 1 THEN s[i] ELSE F[i - 1] \o s[i]
      /\ s[i] = PartOf(f, byteOrder[i])
  BY DEF Accumulates, N
<1>5. Closed(<<>>) /\ \A t : Closed(t) => <<>> \o t = t /\ t \o <<>> = t
  BY ConcatEmptySeq DEF Closed
<1>6. i # 1 => Closed(F[i - 1])
  <2>1. i # 1 => i - 1 \in 1..N /\ i - 1 \notin T
    BY <1>1, <1>3
  <2> QED BY <2>1
<1>7. CASE byteOrder[i] \notin DOMAIN f
  <2>1. s[i] = <<>>
    BY <1>4, <1>7 DEF PartOf
  <2>2. Closed(F[i])
    BY <1>4, <1>5, <1>6, <2>1
  <2> QED BY <2>2
<1>8. CASE byteOrder[i] \in DOMAIN f
  <2> DEFINE k == byteOrder[i]
             u == k \o f[k]
  <2>1. Plain(u) /\ s[i] = u \o <<"ff">>
    BY <1>4, <1>8, PlainLabel
  <2> HIDE DEF u
  <2>2. \A a : Closed(a) => Closed(a \o s[i])
    BY <2>1, ClosedFurther
  <2>3. s[i] \in Seq(Piece) /\ <<>> \o s[i] = s[i]
    <3>1. s[i] \in Seq(Piece)
      BY <2>1, Separated
    <3> HIDE DEF s
    <3> QED BY <3>1, ConcatEmptySeq
  <2>4. Closed(s[i])
    BY <1>5, <2>2, <2>3
  <2>5. Closed(F[i])
    BY <1>4, <1>6, <2>2, <2>4
  <2> QED BY <2>5
<1> QED BY <1>7, <1>8

Parts(f) == [m \in 1..Len(byteOrder) |-> PartOf(f, byteOrder[m])]

\* What is accumulated of the parts is nothing, or ends in the part of a label.
LEMMA EndsInPart ==
    ASSUME SeparatorFree, NEW f \in LabelSet, NEW F,
           Accumulates(F, Parts(f), Len(byteOrder))
    PROVE  \A i \in 1..Len(byteOrder) :
              \/ F[i] = <<>>
              \/ \E j \in 1..i : /\ byteOrder[j] \in DOMAIN f
                                 /\ \E a : Closed(a) /\ F[i] = a \o PartOf(f, byteOrder[j])
<1> DEFINE N == Len(byteOrder)
           s == Parts(f)
           EndsAt(i, j) == /\ byteOrder[j] \in DOMAIN f
                           /\ \E a : Closed(a) /\ F[i] = a \o PartOf(f, byteOrder[j])
           Ends(i) == F[i] = <<>> \/ \E j \in 1..i : EndsAt(i, j)
           T == {i \in 1..N : ~Ends(i)}
<1>1. N \in Nat /\ \A i \in 1..N : Closed(F[i])
  BY PartsTyped, PartsClosed DEF Parts
<1>2. \A i \in 1..N : F[i] = IF i = 1 THEN s[i] ELSE F[i - 1] \o s[i]
  BY DEF Accumulates
<1>3. \A i \in 1..N : s[i] = PartOf(f, byteOrder[i])
  BY DEF Parts
<1>4. Closed(<<>>)
  BY DEF Closed
<1> HIDE DEF N, s
<1>5. SUFFICES ASSUME T # {} PROVE FALSE
  BY DEF N
<1>6. PICK i \in T : \A j \in T : i <= j
  <2>1. T \in SUBSET (1..N)
    OBVIOUS
  <2> HIDE DEF T
  <2> QED BY <1>1, <1>5, <2>1, FirstOf
<1>7. i \in 1..N /\ ~Ends(i) /\ (i # 1 => i - 1 \in 1..N /\ Ends(i - 1))
  <2>1. i \in 1..N /\ ~Ends(i)
    OBVIOUS
  <2>2. i # 1 => i - 1 \in 1..N /\ i - 1 \notin T
    <3> HIDE DEF T
    <3> QED BY <1>1, <1>6, <2>1
  <2> HIDE DEF Ends
  <2> QED BY <2>1, <2>2
<1>8. CASE byteOrder[i] \in DOMAIN f
  <2>1. PICK a : Closed(a) /\ F[i] = a \o PartOf(f, byteOrder[i])
    <3>1. CASE i = 1
      <4> DEFINE k == byteOrder[i]
                 u == k \o f[k]
      <4>1. Plain(u) /\ PartOf(f, k) = u \o <<"ff">>
        BY <1>8, PlainLabel
      <4> HIDE DEF u
      <4>2. PartOf(f, k) \in Seq(Piece)
        BY <4>1, Separated
      <4>3. <<>> \o PartOf(f, k) = PartOf(f, k)
        BY <4>2, ConcatEmptySeq
      <4> QED BY <1>2, <1>3, <1>4, <1>7, <3>1, <4>3
    <3>2. CASE i # 1
      <4>1. F[i] = F[i - 1] \o PartOf(f, byteOrder[i]) /\ Closed(F[i - 1])
        BY <1>1, <1>2, <1>3, <1>7, <3>2
      <4> QED BY <4>1
    <3> QED BY <3>1, <3>2
  <2>2. EndsAt(i, i)
    BY <1>8, <2>1
  <2>3. i \in 1..i
    BY <1>1, <1>7
  <2> HIDE DEF EndsAt
  <2> QED BY <1>7, <2>2, <2>3
<1>9. CASE byteOrder[i] \notin DOMAIN f
  <2>1. s[i] = <<>>
    BY <1>3, <1>7, <1>9 DEF PartOf
  <2>2. i # 1 /\ F[i] = F[i - 1]
    <3>1. i # 1
      BY <1>2, <1>7, <2>1
    <3>2. F[i - 1] \o <<>> = F[i - 1]
      BY <1>1, <1>7, <3>1, ConcatEmptySeq DEF Closed
    <3> QED BY <1>2, <1>7, <2>1, <3>1, <3>2
  <2>3. \A j \in 1..(i - 1) : j \in 1..i
    BY <1>1, <1>7
  <2>4. ASSUME NEW j, EndsAt(i - 1, j) PROVE EndsAt(i, j)
    BY <2>2, <2>4
  <2> HIDE DEF EndsAt
  <2> QED BY <1>7, <2>2, <2>3, <2>4
<1> QED BY <1>8, <1>9

\* A label of g of another name than k reads the same as f at k.
ReadsSame(f, g, k) == \E j \in DOMAIN g : k # j /\ k \o f[k] = j \o g[j]

Crossing(f, g) == \E k \in DOMAIN f : ReadsSame(f, g, k)

\* If the same was accumulated up to a label that only f has, a label of g
\* reads the same.
LEMMA OnlyInOne ==
    ASSUME SeparatorFree, NEW f \in LabelSet, NEW g \in LabelSet, NEW F, NEW G,
           Accumulates(F, Parts(f), Len(byteOrder)),
           Accumulates(G, Parts(g), Len(byteOrder)),
           NEW i \in 1..Len(byteOrder), F[i] = G[i],
           byteOrder[i] \in DOMAIN f, byteOrder[i] \notin DOMAIN g
    PROVE  ReadsSame(f, g, byteOrder[i])
<1> DEFINE k == byteOrder[i]
           u == k \o f[k]
<1>1. Plain(u) /\ PartOf(f, k) = u \o <<"ff">>
  BY PlainLabel
<1>2. PICK a : Closed(a) /\ F[i] = a \o (u \o <<"ff">>)
  <2> HIDE DEF u
  <2>1. /\ F[i] = IF i = 1 THEN PartOf(f, k) ELSE F[i - 1] \o PartOf(f, k)
        /\ Len(byteOrder) \in Nat
    BY PartsTyped DEF Accumulates, Parts
  <2>2. CASE i = 1
    <3>1. PartOf(f, k) \in Seq(Piece)
      BY <1>1, Separated
    <3>2. <<>> \o PartOf(f, k) = PartOf(f, k) /\ Closed(<<>>)
      BY <3>1, ConcatEmptySeq DEF Closed
    <3> QED BY <1>1, <2>1, <2>2, <3>2
  <2>3. CASE i # 1
    <3>1. Closed(F[i - 1])
      BY <2>1, <2>3, PartsClosed DEF Parts
    <3> QED BY <1>1, <2>1, <2>3, <3>1
  <2> QED BY <2>2, <2>3
<1>3. F[i] # <<>>
  <2> HIDE DEF u
  <2>1. Len(u) \in Nat /\ u \o <<"ff">> \in Seq(Piece) /\ Len(u \o <<"ff">>) = Len(u) + 1
    BY <1>1, Separated DEF Plain
  <2> DEFINE w == u \o <<"ff">>
  <2> HIDE DEF w
  <2>2. Len(a \o w) = Len(a) + Len(w) /\ Len(a) \in Nat
    BY <1>2, <2>1, ConcatProperties DEF Closed, w
  <2> QED BY <1>2, <2>1, <2>2 DEF w
<1>4. PICK l \in 1..i : /\ byteOrder[l] \in DOMAIN g
                        /\ \E b : Closed(b) /\ G[i] = b \o PartOf(g, byteOrder[l])
  <2>1. \/ G[i] = <<>>
        \/ \E l \in 1..i : /\ byteOrder[l] \in DOMAIN g
                           /\ \E b : Closed(b) /\ G[i] = b \o PartOf(g, byteOrder[l])
    BY EndsInPart
  <2> HIDE DEF k, u
  <2> QED BY <1>3, <2>1
<1> DEFINE j == byteOrder[l]
           v == j \o g[j]
<1>5. Plain(v) /\ PartOf(g, j) = v \o <<"ff">>
  BY <1>4, PlainLabel
<1>6. u = v
  <2>1. PICK b : Closed(b) /\ G[i] = b \o PartOf(g, byteOrder[l])
    BY <1>4
  <2> HIDE DEF u, v
  <2> QED BY <1>1, <1>2, <1>5, <2>1, CutOff
<1>7. j \in DOMAIN g /\ k # j
  BY <1>4
<1> QED BY <1>6, <1>7 DEF ReadsSame

\* Label sets with the same hash are the same, or cross.
LEMMA HashTellsLabels ==
    ASSUME SeparatorFree, NEW f \in LabelSet, NEW g \in LabelSet,
           hashLabels(f) = hashLabels(g), ~Crossing(f, g)
    PROVE  f = g
<1> DEFINE N == Len(byteOrder)
           s == [m \in 1..N |-> PartOf(f, byteOrder[m])]
           t == [m \in 1..N |-> PartOf(g, byteOrder[m])]
<1>1. N \in Nat \ {0} /\ DOMAIN byteOrder = 1..N /\ N \in 1..N
  <2>1. N \in Nat \ {0} /\ DOMAIN byteOrder = 1..N
    BY PartsTyped
  <2> HIDE DEF N
  <2> QED BY <2>1
<1>2. PICK F : Accumulates(F, s, N) /\ hashLabels(f) = F[N]
  <2>1. s \in [1..N -> Seq(Piece)] /\ hashLabels(f) = FlattenSeq(s)
    BY PartsTyped
  <2> HIDE DEF s, N
  <2> QED BY <1>1, <2>1, Flattened
<1>3. PICK G : Accumulates(G, t, N) /\ hashLabels(g) = G[N]
  <2>1. t \in [1..N -> Seq(Piece)] /\ hashLabels(g) = FlattenSeq(t)
    BY PartsTyped
  <2> HIDE DEF t, N
  <2> QED BY <1>1, <2>1, Flattened
<1>4. \A i \in 1..N : Closed(F[i]) /\ Closed(G[i])
  BY <1>2, <1>3, PartsClosed
<1>5. /\ \A i \in 1..N : F[i] = IF i = 1 THEN s[i] ELSE F[i - 1] \o s[i]
      /\ \A i \in 1..N : G[i] = IF i = 1 THEN t[i] ELSE G[i - 1] \o t[i]
  BY <1>2, <1>3 DEF Accumulates
<1>6. \A i \in 1..N : s[i] = PartOf(f, byteOrder[i]) /\ t[i] = PartOf(g, byteOrder[i])
  OBVIOUS
<1>7. Closed(<<>>)
  BY DEF Closed
\* Where the same was accumulated, a label is in both sets or in neither.
<1>8. ASSUME NEW i \in 1..N, F[i] = G[i]
       PROVE  byteOrder[i] \in DOMAIN f <=> byteOrder[i] \in DOMAIN g
  <2>3. /\ Accumulates(F, Parts(f), Len(byteOrder)) /\ Accumulates(G, Parts(g), Len(byteOrder))
        /\ i \in 1..Len(byteOrder)
    BY <1>2, <1>3 DEF Parts
  <2> HIDE DEF N, s, t
  <2>1. ASSUME byteOrder[i] \in DOMAIN f, byteOrder[i] \notin DOMAIN g PROVE FALSE
    <3>1. ReadsSame(f, g, byteOrder[i])
      BY <1>8, <2>1, <2>3, OnlyInOne
    <3> QED BY <2>1, <3>1 DEF Crossing
  <2>2. ASSUME byteOrder[i] \in DOMAIN g, byteOrder[i] \notin DOMAIN f PROVE FALSE
    <3>1. ReadsSame(g, f, byteOrder[i])
      BY <1>8, <2>2, <2>3, OnlyInOne
    <3>2. PICK j \in DOMAIN f : byteOrder[i] # j /\ byteOrder[i] \o g[byteOrder[i]] = j \o f[j]
      BY <3>1 DEF ReadsSame
    <3>3. ReadsSame(f, g, j)
      BY <2>2, <3>2 DEF ReadsSame
    <3> QED BY <3>3 DEF Crossing
  <2> QED BY <2>1, <2>2
<1> HIDE DEF N, s, t
\* From a closed start a label's part leads to one end for one value only.
<1>9. ASSUME NEW k \in DOMAIN f, k \in DOMAIN g, NEW a, NEW b, Closed(a), Closed(b),
             a \o PartOf(f, k) = b \o PartOf(g, k)
      PROVE  a = b /\ f[k] = g[k]
  <2> DEFINE u == k \o f[k]
             v == k \o g[k]
  <2>1. /\ Plain(u) /\ PartOf(f, k) = u \o <<"ff">> /\ k \in Seq(Piece) /\ f[k] \in Seq(Piece)
    BY PlainLabel
  <2>2. /\ Plain(v) /\ PartOf(g, k) = v \o <<"ff">> /\ g[k] \in Seq(Piece)
    BY <1>9, PlainLabel
  <2>3. a = b /\ u = v
    <3> HIDE DEF u, v
    <3> QED BY <1>9, <2>1, <2>2, CutOff
  <2>4. f[k] = g[k]
    BY <2>1, <2>2, <2>3, ConcatSimplifications
  <2> QED BY <2>3, <2>4
<1> DEFINE T == {i \in 1..N : F[i] # G[i]}
<1>10. T = {}
  <2>1. SUFFICES ASSUME T # {} PROVE FALSE
    OBVIOUS
  <2>2. PICK i \in T : \A j \in T : j <= i
    <3>1. T \in SUBSET (1..N) /\ N \in Nat
      BY <1>1
    <3> HIDE DEF T
    <3> QED BY <2>1, <3>1, LastOf
  <2>3. i # N
    BY <1>2, <1>3, <2>2
  <2>4. i + 1 \in 1..N /\ i + 1 # 1 /\ (i + 1) - 1 = i /\ i + 1 \notin T /\ i \in 1..N
    BY <1>1, <2>2, <2>3
  <2>5. F[i + 1] = G[i + 1]
    BY <2>4
  <2>6. F[i] \o s[i + 1] = G[i] \o t[i + 1]
    BY <1>5, <2>4, <2>5
  <2>7. Closed(F[i]) /\ Closed(G[i])
    BY <1>4, <2>4
  <2>8. byteOrder[i + 1] \in DOMAIN f <=> byteOrder[i + 1] \in DOMAIN g
    BY <1>8, <2>4, <2>5
  <2>9. CASE byteOrder[i + 1] \in DOMAIN f
    <3>1. F[i] = G[i]
      <4>1. PICK k, x, y : /\ k \in DOMAIN f /\ k \in DOMAIN g /\ k = byteOrder[i + 1]
                           /\ x = F[i] /\ y = G[i]
        BY <2>9, <2>8
      <4>2. Closed(x) /\ Closed(y) /\ x \o PartOf(f, k) = y \o PartOf(g, k)
        BY <1>6, <2>4, <2>6, <2>7, <4>1
      <4> QED BY <1>9, <4>1, <4>2
    <3> QED BY <2>2, <3>1
  <2>10. CASE byteOrder[i + 1] \notin DOMAIN f
    <3>1. s[i + 1] = <<>> /\ t[i + 1] = <<>>
      BY <1>6, <2>4, <2>10, <2>8 DEF PartOf
    <3>2. F[i] \o <<>> = F[i] /\ G[i] \o <<>> = G[i]
      BY <2>7, ConcatEmptySeq DEF Closed
    <3>3. F[i] = G[i]
      BY <2>6, <3>1, <3>2
    <3> QED BY <2>2, <3>3
  <2> QED BY <2>9, <2>10
<1>11. DOMAIN f = DOMAIN g
  <2>1. DOMAIN f \subseteq Keys /\ DOMAIN g \subseteq Keys
    BY IsLabelSet
  <2>2. \A k \in Keys : \E i \in 1..N : byteOrder[i] = k
    BY <1>1 DEF Keys, ToSet
  <2>3. \A i \in 1..N : byteOrder[i] \in DOMAIN f <=> byteOrder[i] \in DOMAIN g
    BY <1>10, <1>8
  <2> QED BY <2>1, <2>2, <2>3
<1>12. ASSUME NEW k \in DOMAIN f PROVE f[k] = g[k]
  <2>1. PICK i \in 1..N : byteOrder[i] = k
    <3>1. k \in Keys
      BY IsLabelSet
    <3> QED BY <1>1, <3>1 DEF Keys, ToSet
  <2>2. F[i] = G[i]
    BY <1>10
  <2>3. CASE i = 1
    <3>1. s[i] = t[i]
      BY <1>5, <2>2, <2>3
    <3>2. <<>> \o PartOf(f, k) = <<>> \o PartOf(g, k)
      BY <1>6, <2>1, <3>1
    <3> QED BY <1>7, <1>9, <1>11, <3>2
  <2>4. CASE i # 1
    <3>1. i - 1 \in 1..N
      BY <1>1, <2>4
    <3>2. F[i - 1] \o s[i] = G[i - 1] \o t[i]
      BY <1>5, <2>2, <2>4
    <3>3. F[i - 1] \o PartOf(f, k) = G[i - 1] \o PartOf(g, k)
      BY <1>6, <2>1, <3>2
    <3> QED BY <1>4, <1>9, <1>11, <3>1, <3>3
  <2> QED BY <2>3, <2>4
<1>13. f = [k \in DOMAIN f |-> f[k]] /\ g = [k \in DOMAIN g |-> g[k]]
  BY DEF LabelSet
<1> QED BY <1>12, <1>13, <1>11

\* Entries have the hashes of their labels, and a duplicate that of another.
Hashed ==
    /\ \A m \in DOMAIN ids : ids[m].hash = hashLabels(ids[m].labels)
    /\ pc = "duplicate" => \E m \in 1..Len(ids) - 1 : ids[m].hash = ids[Len(ids)].hash

LEMMA HashedStep ==
    ASSUME Typed, Hashed, [Next]_vars
    PROVE  Hashed'
<1> USE DEF Hashed
<1>1. CASE UNCHANGED vars
  BY <1>1 DEF vars
<1>2. CASE Query
  BY <1>2 DEF Query
<1>3. CASE QueryFails
  BY <1>3 DEF QueryFails
<1>4. CASE NextRow
  BY <1>4 DEF NextRow
<1>5. ASSUME NEW k \in todo, MergeLabel(k) PROVE Hashed'
  BY <1>5 DEF MergeLabel
<1>6. CASE Enter
  <2> DEFINE all == Put(built, alertname, alert)
             id  == hashLabels(all)
             e   == [labels |-> all, hash |-> id]
  <2>1. /\ ids' = Append(ids, e) /\ e.labels = all /\ e.hash = id
        /\ pc' = IF \E m \in DOMAIN ids : ids[m].hash = id THEN "duplicate" ELSE "rows"
    BY <1>6 DEF Enter
  <2>2. ids \in Seq(Entry) /\ Len(ids) \in Nat /\ DOMAIN ids = 1..Len(ids)
    BY DEF Typed
  <2>3. id = hashLabels(all)
    OBVIOUS
  <2> HIDE DEF all, id, e
  <2>4. /\ DOMAIN ids' = DOMAIN ids \cup {Len(ids) + 1} /\ Len(ids') = Len(ids) + 1
        /\ ids'[Len(ids) + 1] = e /\ \A m \in DOMAIN ids : ids'[m] = ids[m]
    BY <2>1, <2>2
  <2>5. \A m \in DOMAIN ids' : ids'[m].hash = hashLabels(ids'[m].labels)
    BY <2>1, <2>3, <2>4
  <2>6. pc' = "duplicate" => \E m \in 1..Len(ids') - 1 : ids'[m].hash = ids'[Len(ids')].hash
    BY <2>1, <2>2, <2>4
  <2> QED BY <2>5, <2>6
<1>7. CASE Done
  BY <1>7 DEF Done
<1>8. CASE Again
  BY <1>8 DEF Again
<1> QED BY <1>1, <1>2, <1>3, <1>4, <1>5, <1>6, <1>7, <1>8 DEF Next

\* Where no text contains the separator, an evaluation fails for a duplicate
\* only if an earlier row has the same labels, or has a label that reads the
\* same as one of another name when key and value are put together, as they
\* are hashed (rule.go:491-504): for texts of any length and any number of
\* labels.
THEOREM DuplicatesAlwaysReal ==
    ASSUME SeparatorFree
    PROVE  Spec => []DuplicatesAreReal
<1>1. Init => Hashed
  BY DEF Init, Hashed
<1>2. Typed /\ Hashed /\ [Next]_vars => Hashed'
  BY HashedStep
<1>3. Typed /\ Hashed => DuplicatesAreReal
  <2> SUFFICES ASSUME Typed, Hashed, pc = "duplicate" PROVE DuplicatesAreReal
    BY DEF DuplicatesAreReal
  <2>1. PICK m \in 1..Len(ids) - 1 : ids[m].hash = ids[Len(ids)].hash
    BY DEF Hashed
  <2>2. Len(ids) \in DOMAIN ids /\ m \in DOMAIN ids
    BY <2>1 DEF Typed
  <2>3. \A k \in DOMAIN ids : ids[k].labels \in LabelSet
    <3>1. \A k \in DOMAIN ids : ids[k] \in Entry
      BY DEF Typed
    <3> QED BY <3>1 DEF Entry
  <2> DEFINE f == ids[m].labels
             g == ids[Len(ids)].labels
  <2>4. f \in LabelSet /\ g \in LabelSet /\ hashLabels(f) = hashLabels(g)
    BY <2>1, <2>2, <2>3 DEF Hashed
  <2> HIDE DEF f, g
  <2>5. f = g \/ Crossing(f, g)
    BY <2>4, HashTellsLabels
  <2> QED BY <2>5 DEF f, g, Crossing, ReadsSame, DuplicatesAreReal
<1> QED BY <1>1, <1>2, <1>3, TypedAlways, PTL DEF Spec
================================================================================
