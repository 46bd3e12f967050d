---------------------------- MODULE AlertLifecycle ----------------------------
(***************************************************************************)
(* What a rule promises the receivers of its notifications, per instance:  *)
(* the state machine drawn in the package comment of rule/rule.go, with    *)
(* what the receivers were last told.  An episode starts when the          *)
(* expression matches, keeps its start while it lasts, is announced in the *)
(* step it fires and, unless the rule abandons its instances because they  *)
(* exceed the limit, is reported resolved in the step it ends.             *)
(***************************************************************************)
CONSTANTS Instance, Times

VARIABLES
    phase,      \* inactive, pending or firing
    start,      \* when the current episode began
    told        \* the last word the receivers got about the instance

vars == <<phase, start, told>>

Phases == {"inactive", "pending", "firing"}
Words  == {"nothing", "firing", "resolved", "abandoned"}

\* The new values of one instance.
Becomes(i, p, w) == phase'[i] = p /\ told'[i] = w

SameEpisode(i) == start'[i] = start[i]

Begin(i) ==
    /\ phase[i] = "inactive"
    /\ start'[i] \in Times
    /\ \/ Becomes(i, "pending", told[i])
       \/ Becomes(i, "firing", "firing")

Fire(i) ==
    /\ phase[i] = "pending"
    /\ SameEpisode(i)
    /\ Becomes(i, "firing", "firing")

Subside(i) == phase[i] = "pending" /\ Becomes(i, "inactive", told[i])

Resolve(i) == phase[i] = "firing" /\ Becomes(i, "inactive", "resolved")

Stay(i) ==
    /\ Becomes(i, phase[i], told[i])
    /\ phase[i] # "inactive" => SameEpisode(i)

AbandonAll ==
    \A i \in Instance :
        Becomes(i, "inactive", IF phase[i] = "firing" THEN "abandoned" ELSE told[i])

Init ==
    /\ phase \in [Instance -> Phases]
    /\ start \in [Instance -> Times]
    /\ told = [i \in Instance |-> IF phase[i] = "firing" THEN "firing" ELSE "nothing"]

Next ==
    /\ phase' \in [Instance -> Phases]
    /\ told' \in [Instance -> Words]
    /\ start' \in [Instance -> Times]
    /\ \/ \A i \in Instance : Begin(i) \/ Fire(i) \/ Subside(i) \/ Resolve(i) \/ Stay(i)
       \/ AbandonAll

Spec == Init /\ [][Next]_vars
==============================================================================
