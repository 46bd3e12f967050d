--------------------------------- MODULE Rows ---------------------------------
(***************************************************************************)
(* From the rows of a query to the instances of a rule: mapRows            *)
(* (datasource/clickhouse.go), which makes the columns of a row labels,    *)
(* value or neither, and buildLabels, hashLabels and the loop over the     *)
(* rows in AlertingRule.Exec (rule/rule.go).  The same result is evaluated *)
(* twice, as the evaluations of a condition that persists.                 *)
(*                                                                         *)
(* A string is a sequence of pieces, so that what is concatenated can be   *)
(* read in two ways, and a type's name has a prefix.  A cell is the string *)
(* that its value is formatted as, or NULL.                                *)
(***************************************************************************)
EXTENDS Integers, Sequences, FiniteSets, SequencesExt

CONSTANTS
    Results,        \* query results: [columns |-> <<[name, type, scan], ...>>, rows |-> <<cells, ...>>]
    NULL,           \* the cell without a value
    Labelings,      \* label sets a rule may have, group's and external's merged in
    alert,          \* the rule's name
    Addresses,      \* of allocations of the driver
    byteOrder       \* every label name, in the order of sort.Strings

Text == Seq(STRING)

exported(k) == <<"exported_">> \o k

alertname == <<"alertname">>

nil == <<"<nil>">>

Keys == ToSet(byteOrder)

\* ScanType of a column: a Go value, or a pointer to one, whose kind is string,
\* an integer or float, a type that prints itself (the driver's time, UUID, IP,
\* decimal and big integer), or another.
Scan == [pointer : BOOLEAN, of : {"string", "number", "stringer", "other"}]

\* Every row has a cell in each column, NULL only where a pointer can be nil;
\* every name is in byteOrder once, and a rule has a name.
ASSUME RowsAssumption ==
    /\ NULL \notin Text
    /\ Addresses # {} /\ Addresses \subseteq Text
    /\ alert \in Text \ {<<>>} /\ alertname \in Keys /\ nil \in Text
    /\ byteOrder \in Seq(Text)
    /\ \A m, k \in DOMAIN byteOrder : byteOrder[m] = byteOrder[k] => m = k
    /\ \A res \in Results :
          /\ res.columns \in Seq([name : Keys, type : Text, scan : Scan]) \ {<<>>}
          /\ res.rows \in Seq([DOMAIN res.columns -> Text \cup {NULL}])
          /\ \A m \in DOMAIN res.rows, c \in DOMAIN res.columns :
                res.rows[m][c] = NULL => res.columns[c].scan.pointer
    /\ \A l \in Labelings : \A k \in DOMAIN l :
          /\ k \in Keys /\ exported(k) \in Keys
          /\ l[k] \in Text

-------------------------------------------------------------------------------
(***************************************************************************)
(* Columns.                                                                *)
(***************************************************************************)

HasPrefix(t, S) == t # <<>> /\ t[1] \in S

isStringType(t) ==
    \/ t \in {<<"String">>, <<"FixedString">>, <<"UUID">>, <<"IPv4">>, <<"IPv6">>,
              <<"Enum8">>, <<"Enum16">>}
    \/ HasPrefix(t, {"LowCardinality("})

isNumericType(t) ==
    t \in {<<"Float32">>, <<"Float64">>} \/ HasPrefix(t, {"UInt", "Int", "Decimal"})

isDateTimeType(t) ==
    t \in {<<"DateTime">>, <<"Date">>, <<"Date32">>} \/ HasPrefix(t, {"DateTime64"})

\* What derefToFloat64 knows: no decimal and no integer wider than 64 bits.
Convertible(scan) == ~scan.pointer /\ scan.of = "number"

\* Mutant: a pointer to a string has no case of its own.
FormattedAsPointer_Strings(scan) == scan.pointer /\ scan.of # "stringer"

\* Scanned into a pointer of which %v prints the address.
FormattedAsPointer(scan) == scan.pointer /\ scan.of \in {"number", "other"}

\* Unknown types are labels too.
Role(t) ==
    IF isStringType(t) THEN "label"
    ELSE IF isNumericType(t) THEN "value"
    ELSE IF isDateTimeType(t) THEN "timestamp"
    ELSE "label"

\* The loop that picks the column of the value; 0 is none.
valueIdx(columns) ==
    LET idx[n \in 0..Len(columns)] ==
            IF n = 0 THEN 0
            ELSE IF /\ Role(columns[n].type) = "value"
                    /\ columns[n].name = <<"value">> \/ idx[n - 1] = 0
                 THEN n
                 ELSE idx[n - 1]
    IN  idx[Len(columns)]

\* derefToString of a cell of the row scanned at address.
derefToString(scan, cell, address) ==
    IF cell = NULL THEN IF scan.of = "string" THEN <<>> ELSE nil
    ELSE IF FormattedAsPointer(scan) THEN address
    ELSE cell

\* The labels of a row: its label columns that are not empty, of columns with
\* one name the last.
MetricLabels(columns, row, address) ==
    LET text(n)  == derefToString(columns[n].scan, row[n], address)
        named(k) == {n \in DOMAIN columns : /\ Role(columns[n].type) = "label"
                                            /\ columns[n].name = k /\ text(n) # <<>>}
    IN  [k \in {j \in ToSet(byteOrder) : named(j) # {}} |->
            text(CHOOSE n \in named(k) : \A m \in named(k) : m <= n)]

\* mapRows reports an error, and no row is evaluated.
Unmappable(res) ==
    LET idx == valueIdx(res.columns)
    IN  idx = 0 \/ (idx # 0 /\ res.rows # <<>> /\ ~Convertible(res.columns[idx].scan))

-------------------------------------------------------------------------------
VARIABLES
    result,     \* what the rule's query returns
    labels,     \* ar.labels
    pc,         \* query, rows, merge, done, failed or duplicate
    pass,       \* the first or the second evaluation
    metrics,    \* the labels of each mapped row
    n,          \* the row Exec is at
    built,      \* its labels so far
    todo,       \* the keys of ar.labels that buildLabels has still to range over
    ids,        \* the label sets Exec has seen and their hashes, in the order of the rows
    before      \* observer: the hashes of the first evaluation

vars == <<result, labels, pc, pass, metrics, n, built, todo, ids, before>>

Put(f, k, v) == [j \in DOMAIN f \cup {k} |-> IF j = k THEN v ELSE f[j]]

TypeOK ==
    /\ \A m \in DOMAIN result.rows : DOMAIN result.rows[m] = DOMAIN result.columns
    /\ DOMAIN labels \subseteq Keys
    /\ pc \in {"query", "rows", "merge", "done", "failed", "duplicate"}
    /\ pass \in {1, 2}
    /\ Len(metrics) \in {0, Len(result.rows)}
    /\ n \in 0..Len(metrics)
    /\ \A m \in DOMAIN metrics : DOMAIN metrics[m] \subseteq Keys
    /\ DOMAIN built \subseteq Keys
    /\ todo \subseteq DOMAIN labels
    /\ Len(ids) <= n
    /\ \A m \in DOMAIN ids : <<>> \notin {ids[m].labels[k] : k \in DOMAIN ids[m].labels}

Init ==
    /\ result \in Results /\ labels \in Labelings
    /\ pc = "query" /\ pass = 1
    /\ metrics = <<>> /\ n = 0
    /\ built = << >> /\ todo = {} /\ ids = <<>>
    /\ before = {}

\* Query: mapRows over the result, each row scanned where the driver
\* allocates it.
Query ==
    /\ pc = "query"
    /\ ~Unmappable(result)
    /\ \E address \in [DOMAIN result.rows -> Addresses] :
          metrics' = [m \in DOMAIN result.rows |->
                         MetricLabels(result.columns, result.rows[m], address[m])]
    /\ pc' = "rows" /\ n' = 0
    /\ UNCHANGED <<result, labels, pass, built, todo, ids, before>>

QueryFails ==
    /\ pc = "query"
    /\ Unmappable(result)
    /\ pc' = "failed"
    /\ UNCHANGED <<result, labels, pass, metrics, n, built, todo, ids, before>>

\* The next row: buildLabels begins with the labels of the row.
NextRow ==
    /\ pc = "rows" /\ n < Len(metrics)
    /\ n' = n + 1
    /\ built' = metrics[n + 1] /\ todo' = DOMAIN labels
    /\ pc' = "merge"
    /\ UNCHANGED <<result, labels, pass, metrics, ids, before>>

\* Mutant: an equal original label counts as a conflict.
Merge_AlwaysExports(f, k) ==
    IF labels[k] = <<>> THEN f
    ELSE IF k \in DOMAIN f THEN Put(Put(f, exported(k), f[k]), k, labels[k])
    ELSE Put(f, k, labels[k])

\* Mutant: an empty configured label is set.
Merge_Empty(f, k) ==
    IF k \in DOMAIN f /\ f[k] # labels[k] THEN Put(Put(f, exported(k), f[k]), k, labels[k])
    ELSE Put(f, k, labels[k])

\* One configured label: it takes precedence, and a different original label
\* is kept under its exported name; an empty one is skipped.
Merge(f, k) ==
    IF labels[k] = <<>> THEN f
    ELSE IF k \in DOMAIN f /\ f[k] # labels[k]
    THEN Put(Put(f, exported(k), f[k]), k, labels[k])
    ELSE Put(f, k, labels[k])

\* The range over ar.labels, a map: in any order.
MergeLabel(k) ==
    /\ pc = "merge" /\ k \in todo
    /\ todo' = todo \ {k}
    /\ built' = Merge(built, k)
    /\ UNCHANGED <<result, labels, pc, pass, metrics, n, ids, before>>

\* Mutant: nothing separates a label from the next.
hashLabels_NoEnd(f) ==
    FlattenSeq([m \in DOMAIN byteOrder |->
        IF byteOrder[m] \in DOMAIN f THEN byteOrder[m] \o f[byteOrder[m]] ELSE <<>>])

\* hashLabels: what it hashes, each label's key and value followed by "\xff",
\* in the order of the keys.  The hash function itself is taken to be injective.
hashLabels(f) ==
    FlattenSeq([m \in DOMAIN byteOrder |->
        IF byteOrder[m] \in DOMAIN f
        THEN byteOrder[m] \o f[byteOrder[m]] \o <<"ff">>
        ELSE <<>>])

\* The row is built: its instance is entered, or it is a duplicate.
Enter ==
    /\ pc = "merge" /\ todo = {}
    /\ LET all == Put(built, alertname, alert)
           id  == hashLabels(all)
       IN  /\ ids' = Append(ids, [labels |-> all, hash |-> id])
           /\ pc' = IF \E m \in DOMAIN ids : ids[m].hash = id THEN "duplicate" ELSE "rows"
    /\ UNCHANGED <<result, labels, pass, metrics, n, built, todo, before>>

Hashes == {ids[m].hash : m \in DOMAIN ids}

Done ==
    /\ pc = "rows" /\ n = Len(metrics)
    /\ pc' = "done"
    /\ UNCHANGED <<result, labels, pass, metrics, n, built, todo, ids, before>>

\* The next evaluation, of the same result.
Again ==
    /\ pc = "done" /\ pass = 1
    /\ pc' = "query" /\ pass' = 2
    /\ before' = Hashes
    /\ metrics' = <<>> /\ n' = 0 /\ built' = << >> /\ ids' = <<>>
    /\ UNCHANGED <<result, labels, todo>>

Next ==
    \/ Query \/ QueryFails
    \/ NextRow \/ (\E k \in todo : MergeLabel(k)) \/ Enter
    \/ Done \/ Again

Spec == Init /\ [][Next]_vars

-------------------------------------------------------------------------------
(***************************************************************************)
(* Properties.                                                             *)
(***************************************************************************)

Configured == {k \in DOMAIN labels : labels[k] # <<>>}

\* The keys that two configured labels may set, when one of them is the
\* exported name of the other: the order of the map decides about them.
Contested ==
    LET named == {j \in Configured : exported(j) \in Configured}
    IN  {exported(j) : j \in named} \cup {exported(exported(j)) : j \in named}

Uncontested(f) == [k \in DOMAIN f \ Contested |-> f[k]]

\* What the comment on buildLabels promises of a row (rule.go:400-401).
Documented(row) ==
    LET conflicts == {k \in Configured \cap DOMAIN row : row[k] # labels[k]}
        keys      == DOMAIN row \cup Configured \cup {exported(k) : k \in conflicts} \cup {alertname}
    IN  [k \in keys |->
            CASE k = alertname -> alert
              [] k # alertname /\ k \in Configured -> labels[k]
              [] k \notin Configured \cup {alertname} /\ (\E j \in conflicts : k = exported(j)) ->
                    row[CHOOSE j \in conflicts : k = exported(j)]
              [] OTHER -> row[k]]

\* Whatever order the map of configured labels is ranged over in, an instance
\* has the labels the comment promises, but for the keys about which two
\* configured labels disagree (rule.go:400-421).
LabelsAsDocumented ==
    \A m \in DOMAIN ids : Uncontested(ids[m].labels) = Uncontested(Documented(metrics[m]))

\* Every text that can become the value of a label.
Values ==
    LET cells(res) == {res.rows[m][c] : m \in DOMAIN res.rows, c \in DOMAIN res.columns} \ {NULL}
        own(l)     == {l[k] : k \in DOMAIN l}
    IN  Addresses \cup {alert, nil}
        \cup (UNION {own(l) : l \in Labelings}) \cup (UNION {cells(res) : res \in Results})

\* No text contains the separator, as no valid UTF-8 contains the byte 0xff.
SeparatorFree == \A t \in Values \cup Keys : "ff" \notin ToSet(t)

\* An evaluation fails for a duplicate only if two of its rows have the same
\* labels, or if a label of one reads the same, key and value together, as a
\* label of another name of the other: hashLabels writes no separator between
\* a key and its value (rule.go:491-504).
DuplicatesAreReal ==
    pc = "duplicate" =>
        \E m \in 1..Len(ids) - 1 :
            LET f == ids[m].labels
                g == ids[Len(ids)].labels
            IN  f = g \/ \E k \in DOMAIN f, j \in DOMAIN g : k # j /\ k \o f[k] = j \o g[j]

\* A row that persists is the same instance in the next evaluation, else it
\* would never fire: true unless two configured labels contest a key, or a row
\* has a value in a nullable column whose Go value is neither a string nor
\* prints itself (clickhouse.go:246-258, rule.go:407).
SameRowsSameInstances ==
    /\ Contested = {}
    /\ \A m \in DOMAIN result.rows, c \in DOMAIN result.columns :
          result.columns[c].scan.pointer /\ result.rows[m][c] # NULL =>
              result.columns[c].scan.of \in {"string", "stringer"}
    => /\ pass = 2 => pc # "duplicate"
       /\ pass = 2 /\ pc = "done" => Hashes = before
==============================================================================
