---------------------------- MODULE AlertInstance ----------------------------
(***************************************************************************)
(* The life of the alert instances of one rule, as the operators           *)
(* AlertingRule.Exec applies to its map of instances (rule/rule.go).       *)
(*                                                                         *)
(* The map ar.alerts is a function over the instance identities; an        *)
(* identity with no entry is mapped to NoAlert.  A time.Time is a natural  *)
(* number and the zero time.Time is Zero: every real time is above it.     *)
(* Of the fields of the Go struct the model keeps those a decision of      *)
(* Exec, of the notifier or of the state store depends on.                 *)
(***************************************************************************)
EXTENDS Integers, FiniteSets

CONSTANTS
    ResendDelay,        \* rule.ResendDelay, set from -rule.resendDelay
    resolvedRetention   \* how long a resolved instance stays in memory

ASSUME DelaysAssumption ==
    /\ ResendDelay \in Nat
    /\ resolvedRetention \in Nat

Zero == 0

AlertState == {"absent", "inactive", "pending", "firing"}

Alert == [ state           : AlertState,
           activeAt        : Nat,
           firedAt         : Nat,
           resolvedAt      : Nat,
           lastSent        : Nat,
           keepFiringSince : Nat ]

NoAlert == [ state           |-> "absent",
             activeAt        |-> Zero,
             firedAt         |-> Zero,
             resolvedAt      |-> Zero,
             lastSent        |-> Zero,
             keepFiringSince |-> Zero ]

Active(a) == a.state \in {"pending", "firing"}

(***************************************************************************)
(* What Exec does to one instance.                                         *)
(***************************************************************************)

\* Mutant: a resolved instance is never deleted.
Purged_Never(a, ts) == a

\* A resolved instance past its retention is deleted.
Purged(a, ts) ==
    IF a.state = "inactive" /\ ts - a.resolvedAt > resolvedRetention
    THEN NoAlert
    ELSE a

\* Mutant: a match does not end the time an instance is kept firing.
Matched_StillKept(a, ts) ==
    IF Active(a) THEN a
    ELSE [a EXCEPT !.state = "pending", !.activeAt = ts, !.resolvedAt = Zero]

\* Mutant: a re-activated instance keeps the start of its earlier episode.
Matched_OldStart(a, ts) ==
    IF a.state = "absent"
    THEN [a EXCEPT !.state = "pending", !.activeAt = ts]
    ELSE IF Active(a) THEN [a EXCEPT !.keepFiringSince = Zero]
    ELSE [a EXCEPT !.state = "pending", !.resolvedAt = Zero, !.keepFiringSince = Zero]

\* Mutant: a match of an instance being kept firing restarts its episode.
Matched_NewStart(a, ts) ==
    IF Active(a) /\ a.keepFiringSince = Zero THEN a
    ELSE IF Active(a) THEN [a EXCEPT !.activeAt = ts, !.keepFiringSince = Zero]
    ELSE [a EXCEPT !.state = "pending", !.activeAt = ts, !.resolvedAt = Zero]

\* A row of the query's result: a new or resolved instance becomes pending
\* from ts, any other keeps its state, and none is being kept firing.
Matched(a, ts) ==
    IF Active(a)
    THEN [a EXCEPT !.keepFiringSince = Zero]
    ELSE [a EXCEPT !.state = "pending", !.activeAt = ts,
                   !.resolvedAt = Zero, !.keepFiringSince = Zero]

KeptSince(a, ts) == IF a.keepFiringSince = Zero THEN ts ELSE a.keepFiringSince

Resolved(a, ts) == [a EXCEPT !.state = "inactive", !.resolvedAt = ts]

\* Mutant: a pending instance outlives an evaluation that does not return it.
Unmatched_PendingStays(a, ts, keepFire) ==
    IF a.state # "firing" THEN a
    ELSE LET k == [a EXCEPT !.keepFiringSince = KeptSince(a, ts)]
         IN  IF ts - k.keepFiringSince < keepFire THEN k ELSE Resolved(a, ts)

\* An instance no row named: a pending one is deleted, a firing one is kept
\* firing for keepFire and then resolved, a resolved one is left alone.
Unmatched(a, ts, keepFire) ==
    CASE a.state = "pending" -> NoAlert
      [] a.state = "firing" /\ keepFire = 0 -> Resolved(a, ts)
      [] a.state = "firing" /\ keepFire > 0 ->
            LET k == [a EXCEPT !.keepFiringSince = KeptSince(a, ts)]
            IN  IF ts - k.keepFiringSince < keepFire THEN k ELSE Resolved(k, ts)
      [] OTHER -> a

\* Mutant: the wait is off by one.
Advanced_Late(a, ts, forDur) ==
    IF a.state = "pending" /\ ts - a.activeAt > forDur
    THEN [a EXCEPT !.state = "firing", !.firedAt = ts]
    ELSE a

\* An instance a row named fires once it has been pending for forDur.
Advanced(a, ts, forDur) ==
    IF a.state = "pending" /\ ts - a.activeAt >= forDur
    THEN [a EXCEPT !.state = "firing", !.firedAt = ts]
    ELSE a

\* Mutant: an instance that fires again waits for the resend delay too.
MustSend_Delayed(a, ts) ==
    \/ a.state = "firing" /\ (a.lastSent = Zero \/ ts - a.lastSent >= ResendDelay)
    \/ a.state = "inactive" /\ a.resolvedAt # Zero

\* alertsToSend: a firing instance waits for the resend delay unless it was
\* never sent or its last send is not after its firing; a resolved one never
\* waits.
MustSend(a, ts) ==
    \/ /\ a.state = "firing"
       /\ \/ a.lastSent = Zero
          \/ a.lastSent <= a.firedAt
          \/ ts - a.lastSent >= ResendDelay
    \/ a.state = "inactive" /\ a.resolvedAt # Zero

(***************************************************************************)
(* The same over the whole map.                                            *)
(***************************************************************************)

Purge(as, ts) == [i \in DOMAIN as |-> Purged(as[i], ts)]

\* The loop over the result's rows.
Upsert(as, rows, ts) ==
    [i \in DOMAIN as |-> IF i \in rows THEN Matched(as[i], ts) ELSE as[i]]

\* The loop over the map once every row has been entered.
Advance(as, rows, ts, forDur, keepFire) ==
    [i \in DOMAIN as |-> IF i \in rows THEN Advanced(as[i], ts, forDur)
                                       ELSE Unmatched(as[i], ts, keepFire)]

\* Mutant: instances kept firing without a match are not counted.
NumActive_RowsOnly(as, rows) == Cardinality(rows)

\* numActive: the instances a row named, and those kept firing.
NumActive(as, rows) ==
    Cardinality({i \in DOMAIN as : i \in rows \/ as[i].state = "firing"})

alertsToSend(as, ts) == {i \in DOMAIN as : MustSend(as[i], ts)}

MarkSent(as, ts) ==
    [i \in DOMAIN as |-> IF MustSend(as[i], ts) THEN [as[i] EXCEPT !.lastSent = ts]
                                                ELSE as[i]]
==============================================================================
