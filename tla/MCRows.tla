-------------------------------- MODULE MCRows --------------------------------
(***************************************************************************)
(* A small instance of Rows for TLC.                                       *)
(***************************************************************************)
EXTENDS Rows

Col(name, type, pointer, of) ==
    [name |-> name, type |-> type, scan |-> [pointer |-> pointer, of |-> of]]

String(name)  == Col(name, <<"String">>, FALSE, "string")

Float64(name) == Col(name, <<"Float64">>, FALSE, "number")

\* Names and values of which some read the same when concatenated.
B == <<"b">>

BC == <<"b", "c">>

C == <<"c">>

NamesInOrder ==
    <<alertname, B, BC, C, exported(alertname), exported(B), exported(BC),
      exported(C), exported(exported(B)), <<"n">>, <<"value">>>>

Cells == {<<>>, <<"x">>, <<"c", "x">>, <<"x", "c">>}

RowsOf(width) == [1..width -> Cells]

\* Two rows of two label columns, and a value.
Headers ==
    { <<String(B), Col(k, <<"LowCardinality(", "String)">>, FALSE, "string"),
        Col(<<"n">>, <<"UInt", "64">>, FALSE, "number")>> :
      k \in {B, BC, C, exported(B), alertname} }

\* One row of a column with or without a value, and other columns in any place.
Typed ==
    { <<first, second, third>> :
      first \in {String(B), Col(B, <<"Nullable(", "String)">>, TRUE, "string"),
                 Col(B, <<"LowCardinality(", "Nullable(Int64))">>, TRUE, "number"),
                 Col(B, <<"Nullable(", "Bool)">>, TRUE, "other"),
                 Col(B, <<"Nullable(", "DateTime)">>, TRUE, "stringer")},
      second \in {Float64(C), Col(C, <<"DateTime">>, FALSE, "stringer"),
                  Col(C, <<"Nullable(", "UInt64)">>, TRUE, "number"),
                  Col(C, <<"Decimal", "(9, 2)">>, FALSE, "stringer")},
      third \in {Float64(<<"value">>), Float64(<<"n">>),
                 Col(<<"n">>, <<"Int", "128">>, TRUE, "stringer"),
                 Col(<<"value">>, <<"DateTime64", "(3)">>, FALSE, "stringer")} }

OneRow(h) ==
    { << <<x, <<"1">>, <<"2">>>> >> : x \in {<<"x">>} \cup (IF h[1].scan.pointer THEN {NULL} ELSE {}) }

AllResults ==
    { [columns |-> h, rows |-> <<Append(r, <<"1">>), Append(s, <<"1">>)>>] :
      h \in Headers, r \in RowsOf(2), s \in RowsOf(2) }
    \cup { [columns |-> h, rows |-> <<>>] : h \in Typed }
    \cup UNION { { [columns |-> h, rows |-> rs] : rs \in OneRow(h) } : h \in Typed }

\* The rule's own labels, two of which may conflict with one another.
AllLabelings ==
    { [k \in {} |-> <<>>], [k \in {B} |-> <<"x">>], [k \in {B} |-> <<>>],
      [k \in {B, BC} |-> IF k = B THEN <<"x">> ELSE <<"x", "c">>],
      [k \in {B, C} |-> IF k = B THEN <<"x">> ELSE <<"y">>],
      [k \in {B, alertname} |-> <<"y">>],
      [k \in {B, exported(B)} |-> <<"y">>] }

TheAlert == <<"Alert">>

TwoAddresses == { <<"0xc1">>, <<"0xc2">> }

\* The hypothesis under which DuplicatesAreReal is proved.
ASSUME NoSeparators == SeparatorFree
==============================================================================
