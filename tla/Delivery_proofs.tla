---------------------------- MODULE Delivery_proofs ----------------------------
(***************************************************************************)
(* Theorems about Delivery, for every interval, delay and number of        *)
(* receivers, and however long it runs.                                    *)
(***************************************************************************)
EXTENDS Delivery, TLAPS

\* The clocks of an evaluation.
ClocksAgree == Epoch <= clock /\ Epoch <= due /\ ended <= clock

\* An instance resolved no later than it stopped firing, and before now.
ResolvedAgrees == alert.state = "inactive" => alert.resolvedAt <= ended

\* What a receiver took does not outlast what the instance was then.
EndsAgree ==
    \A r \in Receiver :
        /\ shown[r].endsAt <= (IF alert.state = "firing" THEN clock ELSE ended) + 4 * interval
        /\ shown[r].status = "resolved" => shown[r].endsAt <= clock

Inv == TypeOK /\ ClocksAgree /\ ResolvedAgrees /\ EndsAgree

\* The clocks at an evaluation.
LEMMA TickTimes ==
    ASSUME Inv, Tick
    PROVE  /\ evalTS \in Nat /\ evalTS <= clock'
           /\ clock' \in Nat /\ due' \in Nat /\ clock' <= due'
           /\ clock <= clock' /\ Epoch <= clock' /\ Epoch <= due'
<1>1. /\ clock = due /\ due \in Nat /\ Epoch <= due
      /\ clock' \in due..(due + MaxExec)
      /\ due' = (IF due = Epoch THEN clock' ELSE due) + interval
  BY DEF Inv, TypeOK, ClocksAgree, Tick
<1>2. clock' \in Nat /\ due <= clock' /\ clock' <= due + MaxExec
  BY <1>1, DeliveryAssumption
<1>3. due' \in Nat /\ clock' <= due'
  <2>1. interval \in Nat /\ MaxExec \in Nat /\ MaxExec < interval
    BY DeliveryAssumption
  <2>2. due' = clock' + interval \/ due' = due + interval
    BY <1>1
  <2>3. CASE due' = clock' + interval
    <3>1. ASSUME NEW c \in Nat, NEW i \in Nat PROVE c + i \in Nat /\ c <= c + i
      OBVIOUS
    <3> QED BY <1>2, <2>1, <2>3, <3>1
  <2>4. CASE due' = due + interval
    <3>1. ASSUME NEW c \in Nat, NEW d \in Nat, NEW i \in Nat, NEW m \in Nat,
                 c <= d + m, m < i
          PROVE  d + i \in Nat /\ c <= d + i
      BY <3>1
    <3> QED BY <1>1, <1>2, <2>1, <2>4, <3>1
  <2> QED BY <2>2, <2>3, <2>4
<1>4. evalTS \in Nat /\ evalTS <= due
  BY <1>1, DeliveryAssumption DEF evalTS
<1>5. Epoch \in Nat /\ evalTS \in Nat
  BY <1>4, DeliveryAssumption
<1> QED BY <1>1, <1>2, <1>3, <1>4, <1>5

\* What an evaluation makes of the instance, at time ts.
LEMMA EvaluatedAlert ==
    ASSUME NEW a \in Alert, NEW ts \in Nat, NEW b,
           \/ b = a
           \/ b = NoAlert
           \/ b = Purged(a, ts)
           \/ b = Matched(Purged(a, ts), ts)
           \/ b = Advanced(Matched(Purged(a, ts), ts), ts, forDur)
           \/ b = Unmatched(Purged(a, ts), ts, keepFire)
    PROVE  /\ b \in Alert
           /\ b.state = "inactive" =>
                 \/ a.state = "inactive" /\ b.resolvedAt = a.resolvedAt
                 \/ a.state = "firing" /\ b.resolvedAt = ts
<1> USE DeliveryAssumption
<1>1. NoAlert \in Alert /\ NoAlert.state = "absent"
  BY DEF NoAlert, Alert, AlertState, Zero
<1>2. Purged(a, ts) \in {a, NoAlert}
  BY DEF Purged
<1>3. ASSUME NEW p \in {a, NoAlert}
      PROVE  /\ Matched(p, ts) \in Alert /\ Matched(p, ts).state \in {"pending", "firing"}
             /\ Advanced(Matched(p, ts), ts, forDur) \in Alert
             /\ Advanced(Matched(p, ts), ts, forDur).state \in {"pending", "firing"}
  <2>1. p \in Alert
    BY <1>1
  <2>2. Matched(p, ts) \in Alert /\ Matched(p, ts).state \in {"pending", "firing"}
    BY <2>1 DEF Matched, Active, Alert, AlertState, Zero
  <2> QED BY <2>2 DEF Advanced, Alert, AlertState
<1>4. ASSUME NEW p \in {a, NoAlert}
      PROVE  /\ Unmatched(p, ts, keepFire) \in Alert
             /\ Unmatched(p, ts, keepFire).state = "inactive" =>
                   \/ p.state = "inactive" /\ Unmatched(p, ts, keepFire).resolvedAt = p.resolvedAt
                   \/ p.state = "firing" /\ Unmatched(p, ts, keepFire).resolvedAt = ts
  <2>1. p \in Alert
    BY <1>1
  <2>2. CASE p.state = "pending"
    BY <1>1, <2>2 DEF Unmatched
  <2>3. CASE p.state = "firing" /\ keepFire = 0
    <3>1. Unmatched(p, ts, keepFire) = Resolved(p, ts)
      BY <2>3 DEF Unmatched
    <3>2. Resolved(p, ts) \in Alert /\ Resolved(p, ts).resolvedAt = ts
      BY <2>1 DEF Resolved, Alert, AlertState
    <3> QED BY <2>3, <3>1, <3>2
  <2>4. CASE p.state = "firing" /\ keepFire > 0
    <3> DEFINE k == [p EXCEPT !.keepFiringSince = KeptSince(p, ts)]
    <3>1. k \in Alert /\ k.state = "firing"
      BY <2>1, <2>4 DEF KeptSince, Alert, AlertState
    <3>2. Resolved(k, ts) \in Alert /\ Resolved(k, ts).resolvedAt = ts
      BY <3>1 DEF Resolved, Alert, AlertState
    <3>3. Unmatched(p, ts, keepFire) \in {k, Resolved(k, ts)}
      BY <2>4 DEF Unmatched
    <3> QED BY <2>4, <3>1, <3>2, <3>3
  <2>5. CASE p.state \notin {"pending", "firing"}
    BY <2>1, <2>5 DEF Unmatched
  <2> QED BY <2>2, <2>3, <2>4, <2>5
<1> QED BY <1>1, <1>2, <1>3, <1>4
-------------------------------------------------------------------------------
\* What an evaluation leaves in the map, and when it stopped firing.
Moved ==
    /\ alert' \in Alert
    /\ alert'.state = "inactive" =>
          \/ alert.state = "inactive" /\ alert'.resolvedAt = alert.resolvedAt
          \/ alert.state = "firing" /\ alert'.resolvedAt = evalTS
    /\ ended' = IF alert.state = "firing" /\ alert'.state # "firing" THEN clock' ELSE ended

LEMMA MovedAgrees ==
    ASSUME Inv, Tick, Moved
    PROVE  /\ alert' \in Alert /\ ended' \in Nat
           /\ ClocksAgree' /\ ResolvedAgrees'
           /\ (IF alert.state = "firing" THEN clock ELSE ended)
                 <= (IF alert'.state = "firing" THEN clock' ELSE ended')
           /\ alert'.state = "inactive" => alert'.resolvedAt <= clock'
<1>1. /\ clock \in Nat /\ ended \in Nat /\ alert \in Alert
      /\ Epoch <= clock /\ Epoch <= due /\ ended <= clock
      /\ alert.state = "inactive" => alert.resolvedAt <= ended
  BY DEF Inv, TypeOK, ClocksAgree, ResolvedAgrees
<1>2. alert.resolvedAt \in Nat /\ alert'.resolvedAt \in Nat
  BY <1>1 DEF Moved, Alert
<1>3. ended' \in Nat /\ ended' <= clock' /\ ended <= ended'
  BY <1>1, TickTimes DEF Moved
<1>4. alert'.state = "inactive" => alert'.resolvedAt <= ended'
  BY <1>1, <1>2, <1>3, TickTimes DEF Moved
<1> QED BY <1>1, <1>2, <1>3, <1>4, TickTimes DEF Moved, ClocksAgree, ResolvedAgrees

\* The receivers that take nothing.
LEMMA NotTaken ==
    ASSUME Inv, Tick, Moved, NEW r \in Receiver, shown'[r] = shown[r]
    PROVE  /\ shown'[r].endsAt <= (IF alert'.state = "firing" THEN clock' ELSE ended') + 4 * interval
           /\ shown'[r].status = "resolved" => shown'[r].endsAt <= clock'
<1>1. shown[r].endsAt \in Nat
  BY DEF Inv, TypeOK, Payload
<1>2. /\ shown[r].endsAt <= (IF alert.state = "firing" THEN clock ELSE ended) + 4 * interval
      /\ shown[r].status = "resolved" => shown[r].endsAt <= clock
  BY DEF Inv, EndsAgree
<1>3. clock \in Nat /\ ended \in Nat /\ ended' \in Nat /\ clock' \in Nat /\ interval \in Nat
  BY TickTimes, MovedAgrees, DeliveryAssumption DEF Inv, TypeOK
<1> QED BY <1>1, <1>2, <1>3, TickTimes, MovedAgrees

\* A receiver that takes what an evaluation sends.
LEMMA Taken ==
    ASSUME Inv, Tick, Moved, NEW r \in Receiver, alert'.state \in {"firing", "inactive"},
           shown'[r] = buildPayload(alert', clock')
    PROVE  /\ shown'[r] \in Payload
           /\ shown'[r].endsAt <= (IF alert'.state = "firing" THEN clock' ELSE ended') + 4 * interval
           /\ shown'[r].status = "resolved" => shown'[r].endsAt <= clock'
<1>1. /\ clock' \in Nat /\ ended' \in Nat /\ interval \in Nat
      /\ alert'.activeAt \in Nat /\ alert'.resolvedAt \in Nat
  BY TickTimes, MovedAgrees, DeliveryAssumption DEF Moved, Alert
<1>2. CASE alert'.state = "firing"
  <2> DEFINE e == clock' + 4 * interval
  <2>1. e \in Nat
    <3>1. ASSUME NEW c \in Nat, NEW i \in Nat PROVE c + 4 * i \in Nat
      OBVIOUS
    <3> QED BY <1>1, <3>1
  <2>2. shown'[r] = [status |-> "firing", startsAt |-> alert'.activeAt, endsAt |-> e]
    BY <1>2 DEF buildPayload
  <2>3. (IF alert'.state = "firing" THEN clock' ELSE ended') + 4 * interval = e
    BY <1>2
  <2> HIDE DEF e
  <2> QED BY <1>1, <2>1, <2>2, <2>3 DEF Payload
<1>3. CASE alert'.state = "inactive"
  <2>1. alert'.resolvedAt <= ended' /\ alert'.resolvedAt <= clock'
    BY <1>3, MovedAgrees DEF ResolvedAgrees
  <2> QED BY <1>1, <1>3, <2>1 DEF buildPayload, Payload
<1> QED BY <1>2, <1>3

\* An evaluation that sends nothing.
LEMMA SilentStep ==
    ASSUME Inv, Tick, Moved, UNCHANGED shown,
           missed' \in [Receiver -> Nat], lost' \in [Receiver -> Nat]
    PROVE  Inv'
<1>1. ASSUME NEW r \in Receiver PROVE shown'[r] = shown[r]
  OBVIOUS
<1>2. EndsAgree'
  BY <1>1, NotTaken DEF EndsAgree
<1>3. TypeOK'
  BY TickTimes, MovedAgrees DEF Inv, TypeOK
<1> QED BY <1>2, <1>3, MovedAgrees DEF Inv

\* Every action but Wait is a tick after which the receivers agree.
LEMMA Step ==
    ASSUME Inv, [Next]_vars
    PROVE  Inv'
<1>1. alert \in Alert /\ missed \in [Receiver -> Nat] /\ lost \in [Receiver -> Nat]
  BY DEF Inv, TypeOK
<1>2. SendNothing => missed' \in [Receiver -> Nat] /\ lost' \in [Receiver -> Nat]
  BY <1>1 DEF SendNothing
<1>3. Tick => evalTS \in Nat
  BY TickTimes
<1>4. CASE UNCHANGED vars
  BY <1>4 DEF vars, Inv, TypeOK, ClocksAgree, ResolvedAgrees, EndsAgree
<1>5. CASE Wait
  <2>1. /\ clock \in Nat /\ due \in Nat /\ clock' \in Nat /\ clock <= clock' /\ clock' <= due'
        /\ ended \in Nat /\ interval \in Nat /\ Epoch \in Nat
    BY <1>5, DeliveryAssumption DEF Wait, Inv, TypeOK
  <2>2. TypeOK' /\ ClocksAgree' /\ ResolvedAgrees'
    BY <1>5, <2>1 DEF Wait, Inv, TypeOK, ClocksAgree, ResolvedAgrees
  <2>3. ASSUME NEW r \in Receiver
        PROVE  /\ shown[r].endsAt <= (IF alert.state = "firing" THEN clock' ELSE ended) + 4 * interval
               /\ shown[r].status = "resolved" => shown[r].endsAt <= clock'
    <3>1. shown[r].endsAt \in Nat
      BY DEF Inv, TypeOK, Payload
    <3> QED BY <2>1, <3>1 DEF Inv, EndsAgree
  <2>4. EndsAgree'
    BY <1>5, <2>3 DEF Wait, EndsAgree
  <2> QED BY <2>2, <2>4 DEF Inv
<1>6. CASE EvaluateFailed
  <2>1. Moved
    BY <1>1, <1>6 DEF EvaluateFailed, Ended, Moved
  <2> QED BY <1>2, <1>6, <2>1, SilentStep DEF EvaluateFailed, SendNothing
<1>7. CASE EvaluateDuplicate
  <2>1. Moved
    BY <1>1, <1>3, <1>7, EvaluatedAlert DEF EvaluateDuplicate, Ended, Moved
  <2> QED BY <1>2, <1>7, <2>1, SilentStep DEF EvaluateDuplicate, SendNothing
<1>8. CASE EvaluateOverLimit
  <2>1. Moved
    BY <1>1, <1>3, <1>8, EvaluatedAlert DEF EvaluateOverLimit, Ended, Moved
  <2> QED BY <1>2, <1>8, <2>1, SilentStep DEF EvaluateOverLimit, SendNothing
<1>9. ASSUME NEW matched \in BOOLEAN, NEW reached \in SUBSET Receiver,
             EvaluateCompleted(matched, reached)
      PROVE  Inv'
  <2> DEFINE a == Evaluated(matched)
  <2>1. Tick /\ evalTS \in Nat
    BY <1>3, <1>9 DEF EvaluateCompleted
  <2>2. /\ a \in Alert
        /\ a.state = "inactive" =>
              \/ alert.state = "inactive" /\ a.resolvedAt = alert.resolvedAt
              \/ alert.state = "firing" /\ a.resolvedAt = evalTS
    <3>1. \/ a = Advanced(Matched(Purged(alert, evalTS), evalTS), evalTS, forDur)
          \/ a = Unmatched(Purged(alert, evalTS), evalTS, keepFire)
      BY DEF Evaluated
    <3> HIDE DEF a
    <3> QED BY <1>1, <2>1, <3>1, EvaluatedAlert
  <2> HIDE DEF a
  <2>3. CASE ~MustSend(a, evalTS)
    <3>1. alert' = a /\ Ended /\ UNCHANGED <<shown, missed, lost>>
      BY <1>9, <2>3 DEF EvaluateCompleted, a
    <3>2. Moved
      BY <2>2, <3>1 DEF Moved, Ended
    <3> QED BY <1>1, <2>1, <3>1, <3>2, SilentStep
  <2>4. CASE MustSend(a, evalTS)
    <3>1. alert' = [a EXCEPT !.lastSent = evalTS] /\ Ended /\ Send(a, reached)
      BY <1>9, <2>4 DEF EvaluateCompleted, a
    <3>2. /\ alert' \in Alert /\ alert'.state = a.state
          /\ alert'.resolvedAt = a.resolvedAt /\ alert'.activeAt = a.activeAt
      BY <2>1, <2>2, <3>1 DEF Alert
    <3>3. Moved
      BY <2>2, <3>1, <3>2 DEF Moved, Ended
    <3>4. a.state = "firing" \/ a.state = "inactive"
      BY <2>4 DEF MustSend
    <3>5. buildPayload(a, clock') = buildPayload(alert', clock')
      BY <3>2 DEF buildPayload
    <3>6. ASSUME NEW r \in Receiver
          PROVE  /\ shown'[r] \in Payload
                 /\ shown'[r].endsAt
                      <= (IF alert'.state = "firing" THEN clock' ELSE ended') + 4 * interval
                 /\ shown'[r].status = "resolved" => shown'[r].endsAt <= clock'
      <4>1. CASE r \in reached
        <5>1. shown'[r] = buildPayload(alert', clock')
          BY <3>1, <3>5, <4>1 DEF Send
        <5>2. alert'.state \in {"firing", "inactive"}
          BY <3>2, <3>4
        <5> QED BY <2>1, <3>3, <5>1, <5>2, Taken
      <4>2. CASE r \notin reached
        <5>1. shown'[r] = shown[r] /\ shown[r] \in Payload
          BY <3>1, <4>2 DEF Send, Inv, TypeOK
        <5> QED BY <2>1, <3>3, <5>1, NotTaken
      <4> QED BY <4>1, <4>2
    <3>7. EndsAgree'
      BY <3>6 DEF EndsAgree
    <3>8. /\ shown' \in [Receiver -> Payload]
          /\ missed' \in [Receiver -> Nat] /\ lost' \in [Receiver -> Nat]
      BY <1>1, <3>1, <3>6 DEF Send
    <3>9. TypeOK'
      BY <2>1, <3>3, <3>8, TickTimes, MovedAgrees DEF TypeOK
    <3> QED BY <2>1, <3>3, <3>7, <3>9, MovedAgrees DEF Inv
  <2> QED BY <2>3, <2>4
<1> QED BY <1>4, <1>5, <1>6, <1>7, <1>8, <1>9 DEF Next

\* The instance, its receivers and both clocks agree in every reachable state.
THEOREM DeliveryAgrees == Spec => []Inv
<1>1. Init => Inv
  BY DeliveryAssumption DEF Init, Inv, TypeOK, ClocksAgree, ResolvedAgrees, EndsAgree,
     NoAlert, Alert, AlertState, Payload, Zero
<1> QED BY <1>1, Step, PTL DEF Spec

\* The variables of a group's loop and its receivers keep their types.
THEOREM TypeCorrect == Spec => []TypeOK
<1>1. Inv => TypeOK
  BY DEF Inv
<1> QED BY <1>1, DeliveryAgrees, PTL

\* Whatever mix of evaluations fails and sends is lost, no receiver shows an
\* alert for four intervals after it stopped firing (alertmanager.go:204-210).
THEOREM AlwaysEndsWithTheRule == Spec => []EndsWithTheRule
<1>1. Inv => EndsWithTheRule
  <2> SUFFICES ASSUME Inv, NEW r \in Receiver, Shows(r), alert.state # "firing"
               PROVE  clock < ended + 4 * interval
    BY DEF EndsWithTheRule
  <2>1. shown[r].endsAt \in Nat /\ clock \in Nat /\ ended \in Nat /\ interval \in Nat
    BY DeliveryAssumption DEF Inv, TypeOK, Payload
  <2> QED BY <2>1 DEF Inv, EndsAgree, Shows
<1> QED BY <1>1, DeliveryAgrees, PTL

\* A resolution that arrives ends the alert at once, for every eval_delay.
THEOREM ResolutionsEnd == Spec => []ResolutionEnds
<1>1. Inv => ResolutionEnds
  BY DEF Inv, EndsAgree, ResolutionEnds
<1> QED BY <1>1, DeliveryAgrees, PTL
-------------------------------------------------------------------------------
(***************************************************************************)
(* How long a firing alert may go unsent.                                  *)
(***************************************************************************)

\* The rounds between two sends cover the resend delay.
LEMMA RoundsCover ==
    /\ Rounds \in Nat \ {0}
    /\ interval \in Nat \ {0}
    /\ ResendDelay \in Nat
    /\ ResendDelay <= Rounds * interval
<1>1. ASSUME NEW d \in Nat, NEW i \in Nat \ {0}
      PROVE  /\ (d + i - 1) \div i \in Nat
             /\ d <= ((d + i - 1) \div i) * i
             /\ d > 0 => (d + i - 1) \div i >= 1
  <2> DEFINE q == (d + i - 1) \div i
             m == (d + i - 1) % i
  <2>1. d + i - 1 = i * q + m /\ m \in 0..(i - 1) /\ q \in Int
    OBVIOUS
  <2> QED BY <2>1
<1>2. interval \in Nat \ {0} /\ ResendDelay \in Nat
  BY DeliveryAssumption, DelaysAssumption
<1>3. CASE ResendDelay = 0
  BY <1>2, <1>3 DEF Rounds
<1>4. CASE ResendDelay # 0
  <2>1. Rounds = (ResendDelay + interval - 1) \div interval
    BY <1>4 DEF Rounds
  <2> QED BY <1>1, <1>2, <1>4, <2>1
<1> QED BY <1>3, <1>4

\* d is the next tick, on the grid of the last attempt to send the firing
\* instance, which was made for the evaluation time sent; ends is the end of
\* what a receiver took, since when l attempts did not reach it and m
\* evaluations failed.
Pace(d, sent, ends, l, m) ==
    \E g \in Nat, q \in Nat \ {0} :
        /\ d = g + q * interval
        /\ sent + evalDelay <= g
        /\ g + 4 * interval <= ends + (Rounds * l + m) * interval
        /\ d + 4 * interval <= ends + (Rounds * (1 + l) + m) * interval

LEMMA Grows ==
    ASSUME NEW r \in Nat \ {0}, NEW l \in Nat, NEW m \in Nat, NEW i \in Nat \ {0}
    PROVE  /\ (r * l + m) * i \in Nat
           /\ (r * (1 + l) + m) * i \in Nat
           /\ (r * (1 + l) + m) * i = (r * l + m) * i + r * i
           /\ r * i \in Nat /\ i <= r * i
           /\ (r * l + (m + 1)) * i = (r * l + m) * i + i
           /\ (r * (1 + l) + (m + 1)) * i = (r * (1 + l) + m) * i + i
OBVIOUS

\* An evaluation that fails.
LEMMA PaceMissed ==
    ASSUME NEW d \in Nat, NEW sent \in Nat, NEW ends \in Nat, NEW l \in Nat, NEW m \in Nat,
           Pace(d, sent, ends, l, m)
    PROVE  Pace(d + interval, sent, ends, l, m + 1)
<1>1. PICK g \in Nat, q \in Nat \ {0} :
        /\ d = g + q * interval
        /\ sent + evalDelay <= g
        /\ g + 4 * interval <= ends + (Rounds * l + m) * interval
        /\ d + 4 * interval <= ends + (Rounds * (1 + l) + m) * interval
  BY DEF Pace
<1> DEFINE x == (Rounds * l + m) * interval
           y == (Rounds * (1 + l) + m) * interval
           x1 == (Rounds * l + (m + 1)) * interval
           y1 == (Rounds * (1 + l) + (m + 1)) * interval
<1>2. x \in Nat /\ y \in Nat /\ x1 = x + interval /\ y1 = y + interval /\ interval \in Nat
  BY RoundsCover, Grows
<1>3. q + 1 \in Nat \ {0} /\ d + interval = g + (q + 1) * interval
  <2>1. (q + 1) * interval = q * interval + interval /\ q * interval \in Nat
    BY <1>2
  <2> QED BY <1>1, <1>2, <2>1
<1>4. g + 4 * interval <= ends + x /\ d + 4 * interval <= ends + y
  BY <1>1
<1> HIDE DEF x, y, x1, y1
<1>5. g + 4 * interval <= ends + x1 /\ (d + interval) + 4 * interval <= ends + y1
  BY <1>2, <1>4
<1> QED BY <1>1, <1>3, <1>5 DEF Pace, x1, y1

\* An attempt that does not reach the receiver, for the evaluation time ts.
LEMMA PaceLost ==
    ASSUME NEW d \in Nat, NEW sent \in Nat, NEW ends \in Nat, NEW l \in Nat, NEW m \in Nat,
           Pace(d, sent, ends, l, m), NEW ts \in Nat, ts + evalDelay <= d
    PROVE  Pace(d + interval, ts, ends, l + 1, m)
<1> DEFINE y == (Rounds * (1 + l) + m) * interval
           x1 == (Rounds * (l + 1) + m) * interval
           y1 == (Rounds * (1 + (l + 1)) + m) * interval
<1>1. d + 4 * interval <= ends + y
  BY DEF Pace
<1>2. /\ y \in Nat /\ x1 = y /\ y1 = x1 + Rounds * interval
      /\ Rounds * interval \in Nat /\ interval <= Rounds * interval /\ interval \in Nat
  <2>1. l + 1 \in Nat /\ l + 1 = 1 + l
    OBVIOUS
  <2> QED BY <2>1, RoundsCover, Grows
<1> HIDE DEF x1, y, y1
<1>3. d + 4 * interval <= ends + x1 /\ (d + interval) + 4 * interval <= ends + y1
  BY <1>1, <1>2
<1>4. d + interval = d + 1 * interval
  BY <1>2
<1> QED BY <1>3, <1>4 DEF Pace, x1, y1

\* An attempt held back by the resend delay.
LEMMA PaceHeld ==
    ASSUME NEW d \in Nat, NEW sent \in Nat, NEW ends \in Nat, NEW l \in Nat, NEW m \in Nat,
           Pace(d, sent, ends, l, m), d < sent + evalDelay + ResendDelay
    PROVE  Pace(d + interval, sent, ends, l, m)
<1>1. PICK g \in Nat, q \in Nat \ {0} :
        /\ d = g + q * interval
        /\ sent + evalDelay <= g
        /\ g + 4 * interval <= ends + (Rounds * l + m) * interval
  BY DEF Pace
<1> DEFINE x == (Rounds * l + m) * interval
           y == (Rounds * (1 + l) + m) * interval
           n == Rounds * interval
<1>2. /\ x \in Nat /\ y \in Nat /\ y = x + n /\ n \in Nat /\ ResendDelay <= n
      /\ interval \in Nat \ {0} /\ ResendDelay \in Nat /\ evalDelay \in Nat /\ Rounds \in Nat
  BY RoundsCover, Grows, DeliveryAssumption
<1>3. q * interval \in Nat /\ (q + 1) * interval = q * interval + interval
  BY <1>2
<1>4. q * interval < Rounds * interval
  BY <1>1, <1>2, <1>3
<1>5. (q + 1) * interval <= n
  <2>1. ASSUME NEW j \in Nat, NEW k \in Nat, NEW i \in Nat \ {0}, j * i < k * i
        PROVE  (j + 1) * i <= k * i
    <3>1. ASSUME k <= j PROVE FALSE
      <4>1. (j - k) * i >= 0
        BY <3>1
      <4>2. j * i - k * i = (j - k) * i
        OBVIOUS
      <4>3. j * i \in Nat /\ k * i \in Nat
        OBVIOUS
      <4> QED BY <2>1, <4>1, <4>2, <4>3
    <3>2. k - (j + 1) >= 0
      BY <3>1
    <3>3. (k - (j + 1)) * i >= 0
      BY <3>2
    <3>4. k * i - (j + 1) * i = (k - (j + 1)) * i
      OBVIOUS
    <3>5. k * i \in Nat /\ (j + 1) * i \in Nat
      OBVIOUS
    <3> QED BY <3>3, <3>4, <3>5
  <2> QED BY <1>2, <1>4, <2>1
<1>6. q + 1 \in Nat \ {0} /\ d + interval = g + (q + 1) * interval
  BY <1>1, <1>2, <1>3
<1>7. g + 4 * interval <= ends + x
  BY <1>1
<1> HIDE DEF x, y, n
<1>8. (d + interval) + 4 * interval <= ends + y
  BY <1>2, <1>3, <1>5, <1>6, <1>7
<1> QED BY <1>1, <1>6, <1>7, <1>8 DEF Pace, x, y

\* An attempt that reaches the receiver at time c.
LEMMA PaceTaken ==
    ASSUME NEW g \in Nat, NEW ts \in Nat, NEW c \in Nat, ts + evalDelay <= g, g <= c
    PROVE  Pace(g + interval, ts, c + 4 * interval, 0, 0)
<1>1. /\ interval \in Nat /\ Rounds * interval \in Nat /\ interval <= Rounds * interval
      /\ (Rounds * 0 + 0) * interval = 0 /\ (Rounds * (1 + 0) + 0) * interval = Rounds * interval
  BY RoundsCover, Grows
<1>2. /\ g + interval = g + 1 * interval
      /\ g + 4 * interval <= (c + 4 * interval) + (Rounds * 0 + 0) * interval
      /\ (g + interval) + 4 * interval
            <= (c + 4 * interval) + (Rounds * (1 + 0) + 0) * interval
  BY <1>1
<1> QED BY <1>2 DEF Pace
-------------------------------------------------------------------------------
\* What a receiver shows is of an earlier evaluation than the next, no pending
\* instance is what it took, and a firing one that is was sent at the pace.
PaceAgrees ==
    /\ alert.activeAt + evalDelay < due
    /\ due = Epoch => \A r \in Receiver : shown[r].status = "none"
    /\ \A r \in Receiver :
          /\ shown[r].status = "firing" => shown[r].startsAt + evalDelay < due
          /\ shown[r].status = "firing" /\ alert.state = "pending" =>
                shown[r].startsAt # alert.activeAt
          /\ Took(r) => Pace(due, alert.lastSent, shown[r].endsAt, lost[r], missed[r])

\* What an evaluation makes of the start of an instance.
Restarted ==
    /\ alert'.activeAt \in {alert.activeAt, evalTS, Zero}
    /\ alert'.state = "pending" =>
          \/ alert'.activeAt = evalTS
          \/ alert.state = "pending" /\ alert'.activeAt = alert.activeAt
    /\ alert'.state = "firing" =>
          \/ alert'.activeAt = evalTS
          \/ alert.state \in {"pending", "firing"} /\ alert'.activeAt = alert.activeAt

\* The next tick is later than what any receiver shows.
LEMMA NextTick ==
    ASSUME Inv, PaceAgrees, Tick
    PROVE  /\ due \in Nat /\ due' \in Nat /\ clock' \in Nat /\ evalTS \in Nat
           /\ evalTS + evalDelay = due /\ due < due' /\ due <= clock' /\ due' # Epoch
           /\ due # Epoch => due' = due + interval
           /\ due = Epoch => due' = clock' + interval
<1>1. /\ due \in Nat /\ Epoch <= due /\ clock' \in due..(due + MaxExec)
      /\ due' = (IF due = Epoch THEN clock' ELSE due) + interval
  BY DEF Inv, TypeOK, ClocksAgree, Tick
<1>2. /\ interval \in Nat \ {0} /\ MaxExec \in Nat /\ evalDelay \in Nat /\ Epoch \in Nat
      /\ evalDelay < Epoch
  BY DeliveryAssumption
<1>3. clock' \in Nat /\ due <= clock'
  BY <1>1, <1>2
<1>4. evalTS \in Nat /\ evalTS + evalDelay = due
  BY <1>1, <1>2 DEF evalTS
<1>5. due' \in Nat /\ due < due' /\ due' # Epoch
  <2>1. ASSUME NEW d \in Nat, NEW c \in Nat, NEW i \in Nat \ {0}, NEW e \in Nat, d <= c, e <= d
        PROVE  /\ c + i \in Nat /\ d < c + i /\ c + i # e
               /\ d + i \in Nat /\ d < d + i /\ d + i # e
    BY <2>1
  <2>2. due' = clock' + interval \/ due' = due + interval
    BY <1>1
  <2> QED BY <1>1, <1>2, <1>3, <2>1, <2>2
<1>6. (due # Epoch => due' = due + interval) /\ (due = Epoch => due' = clock' + interval)
  BY <1>1
<1> QED BY <1>1, <1>3, <1>4, <1>5, <1>6

\* The starts stay apart.
LEMMA StartsApart ==
    ASSUME Inv, PaceAgrees, Tick, Restarted
    PROVE  /\ alert'.activeAt + evalDelay < due'
           /\ \A r \in Receiver :
                 shown'[r] = shown[r] /\ shown[r].status = "firing" =>
                    /\ shown[r].startsAt + evalDelay < due'
                    /\ alert'.state = "pending" => shown[r].startsAt # alert'.activeAt
                    /\ Took(r)' => Took(r) /\ alert'.activeAt = alert.activeAt
<1>1. /\ alert.activeAt \in Nat /\ evalDelay \in Nat /\ Epoch \in Nat /\ evalDelay < Epoch
      /\ Epoch <= due
  BY DeliveryAssumption DEF Inv, TypeOK, ClocksAgree, Alert
<1>2. alert.activeAt + evalDelay < due
  BY DEF PaceAgrees
<1>3. alert'.activeAt + evalDelay < due'
  BY <1>1, <1>2, NextTick DEF Restarted, Zero
<1>4. ASSUME NEW r \in Receiver, shown'[r] = shown[r], shown[r].status = "firing"
      PROVE  /\ shown[r].startsAt + evalDelay < due'
             /\ alert'.state = "pending" => shown[r].startsAt # alert'.activeAt
             /\ Took(r)' => Took(r) /\ alert'.activeAt = alert.activeAt
  <2>1. shown[r].startsAt \in Nat
    BY DEF Inv, TypeOK, Payload
  <2>2. /\ shown[r].startsAt + evalDelay < due
        /\ alert.state = "pending" => shown[r].startsAt # alert.activeAt
    BY <1>4 DEF PaceAgrees
  <2>3. shown[r].startsAt # evalTS
    BY <1>1, <2>1, <2>2, NextTick
  <2>4. shown[r].startsAt + evalDelay < due'
    BY <1>1, <2>1, <2>2, NextTick
  <2> QED BY <1>4, <2>2, <2>3, <2>4 DEF Restarted, Took
<1> QED BY <1>3, <1>4

\* What the operators on the instance do to its start, and to the last send of
\* one that goes on firing.
LEMMA RestartedAlert ==
    ASSUME NEW a \in Alert, NEW ts \in Nat, NEW b,
           \/ b = a
           \/ b = NoAlert
           \/ b = Purged(a, ts)
           \/ b = Matched(Purged(a, ts), ts)
           \/ b = Advanced(Matched(Purged(a, ts), ts), ts, forDur)
           \/ b = Unmatched(Purged(a, ts), ts, keepFire)
    PROVE  /\ b.activeAt \in {a.activeAt, ts, Zero}
           /\ b.state = "pending" =>
                 b.activeAt = ts \/ (a.state = "pending" /\ b.activeAt = a.activeAt)
           /\ b.state = "firing" =>
                 \/ b.activeAt = ts
                 \/ a.state \in {"pending", "firing"} /\ b.activeAt = a.activeAt
           /\ b.state = "firing" /\ a.state = "firing" => b.lastSent = a.lastSent
<1>1. /\ NoAlert \in Alert /\ NoAlert.state = "absent" /\ NoAlert.activeAt = Zero
      /\ a.state \in AlertState
  BY DEF NoAlert, Alert, AlertState, Zero
<1>2. Purged(a, ts) \in {a, NoAlert}
  BY DEF Purged
<1>3. Purged(a, ts) = a \/ (Purged(a, ts) = NoAlert /\ a.state = "inactive")
  BY DEF Purged
<1>4. ASSUME NEW p \in Alert
      PROVE  LET n == Matched(p, ts)
             IN  /\ n \in Alert
                 /\ Active(p) => n.state = p.state /\ n.activeAt = p.activeAt
                                 /\ n.lastSent = p.lastSent
                 /\ ~Active(p) => n.state = "pending" /\ n.activeAt = ts
  BY DEF Matched, Active, Alert, AlertState, Zero
<1>5. ASSUME NEW p \in Alert
      PROVE  LET n == Advanced(p, ts, forDur)
             IN  /\ n.activeAt = p.activeAt /\ n.lastSent = p.lastSent
                 /\ n.state = p.state \/ (p.state = "pending" /\ n.state = "firing")
  BY DEF Advanced, Alert, AlertState
<1>6. ASSUME NEW p \in Alert
      PROVE  LET n == Unmatched(p, ts, keepFire)
             IN  /\ n.activeAt \in {p.activeAt, Zero} /\ n.state # "pending"
                 /\ n.state = "firing" =>
                       p.state = "firing" /\ n.activeAt = p.activeAt /\ n.lastSent = p.lastSent
  <2>1. CASE p.state = "firing" /\ keepFire > 0
    <3> DEFINE k == [p EXCEPT !.keepFiringSince = KeptSince(p, ts)]
    <3>1. k.state = "firing" /\ k.activeAt = p.activeAt /\ k.lastSent = p.lastSent
      BY <2>1 DEF Alert
    <3>2. /\ Resolved(k, ts).activeAt = p.activeAt
          /\ Resolved(k, ts).state = "inactive"
      BY DEF Resolved, Alert
    <3>3. Unmatched(p, ts, keepFire) \in {k, Resolved(k, ts)}
      BY <2>1 DEF Unmatched
    <3> QED BY <2>1, <3>1, <3>2, <3>3
  <2>2. CASE p.state = "firing" /\ keepFire = 0
    <3>1. Unmatched(p, ts, keepFire) = Resolved(p, ts)
      BY <2>2 DEF Unmatched
    <3>2. /\ Resolved(p, ts).activeAt = p.activeAt
          /\ Resolved(p, ts).state = "inactive"
      BY DEF Resolved, Alert
    <3> QED BY <3>1, <3>2
  <2>3. CASE p.state = "pending"
    BY <1>1, <2>3 DEF Unmatched
  <2>4. CASE p.state \notin {"pending", "firing"}
    BY <2>4 DEF Unmatched
  <2> QED BY <2>1, <2>2, <2>3, <2>4, DeliveryAssumption
<1> DEFINE p == Purged(a, ts)
<1>7. p \in Alert
  BY <1>1, <1>2
<1> HIDE DEF p
<1>8. CASE b = a \/ b = NoAlert
  BY <1>1, <1>8
<1>9. CASE b = p
  BY <1>1, <1>3, <1>9 DEF p
<1>10. p = a \/ (p = NoAlert /\ a.state = "inactive")
  BY <1>3 DEF p
<1> DEFINE n == Matched(p, ts)
<1>11. CASE b = n \/ b = Advanced(n, ts, forDur)
  <2>1. /\ n \in Alert
        /\ Active(p) => n.state = p.state /\ n.activeAt = p.activeAt /\ n.lastSent = p.lastSent
        /\ ~Active(p) => n.state = "pending" /\ n.activeAt = ts
    BY <1>4, <1>7
  <2> HIDE DEF n
  <2>2. /\ b.activeAt = n.activeAt /\ b.lastSent = n.lastSent
        /\ b.state = n.state \/ (n.state = "pending" /\ b.state = "firing")
    BY <1>5, <1>11, <2>1
  <2>3. CASE Active(p)
    <3>1. p = a /\ a.state \in {"pending", "firing"}
      BY <1>1, <1>10, <2>3 DEF Active
    <3> QED BY <2>1, <2>2, <2>3, <3>1
  <2>4. CASE ~Active(p)
    <3>1. a.state # "firing"
      BY <1>10, <2>4 DEF Active
    <3>2. b.activeAt = ts
      BY <2>1, <2>2, <2>4
    <3> QED BY <3>1, <3>2
  <2> QED BY <2>3, <2>4
<1> HIDE DEF n
<1>12. CASE b = Unmatched(p, ts, keepFire)
  BY <1>1, <1>6, <1>7, <1>10, <1>12
<1> QED BY <1>8, <1>9, <1>11, <1>12 DEF p, n

\* A receiver that takes nothing keeps the pace.
LEMMA PaceKept ==
    ASSUME Inv, PaceAgrees, Tick, Restarted, NEW r \in Receiver,
           shown'[r] = shown[r], Took(r)',
           \/ /\ alert.state = "firing" => alert'.lastSent = alert.lastSent
              /\ missed'[r] = missed[r] + 1 /\ lost'[r] = lost[r]
           \/ /\ alert'.lastSent = evalTS
              /\ missed'[r] = missed[r] /\ lost'[r] = lost[r] + 1
           \/ /\ alert.state = "firing" => alert'.lastSent = alert.lastSent
              /\ missed'[r] = missed[r] /\ lost'[r] = lost[r]
              /\ evalTS - alert'.lastSent < ResendDelay
    PROVE  Pace(due', alert'.lastSent, shown'[r].endsAt, lost'[r], missed'[r])
<1>1. shown[r].status = "firing"
  BY DEF Took
<1>2. Took(r)
  BY <1>1, StartsApart
<1>3. /\ Pace(due, alert.lastSent, shown[r].endsAt, lost[r], missed[r])
      /\ alert.state = "firing"
  BY <1>2 DEF PaceAgrees, Took
<1>4. due # Epoch
  BY <1>1 DEF PaceAgrees
<1>5. /\ due \in Nat /\ evalTS \in Nat /\ evalTS + evalDelay = due /\ due' = due + interval
  BY <1>4, NextTick
<1>6. /\ alert.lastSent \in Nat /\ shown[r].endsAt \in Nat /\ lost[r] \in Nat
      /\ missed[r] \in Nat /\ evalDelay \in Nat /\ ResendDelay \in Nat
  BY DeliveryAssumption, DelaysAssumption DEF Inv, TypeOK, Alert, Payload
<1> DEFINE s == alert.lastSent
           e == shown[r].endsAt
           l == lost[r]
           m == missed[r]
<1>7. ASSUME alert'.lastSent = s, missed'[r] = m + 1, lost'[r] = l
      PROVE  Pace(due', alert'.lastSent, shown'[r].endsAt, lost'[r], missed'[r])
  <2>1. Pace(due + interval, s, e, l, m + 1)
    BY <1>3, <1>5, <1>6, PaceMissed
  <2> QED BY <1>5, <1>7, <2>1
<1>8. ASSUME alert'.lastSent = evalTS, missed'[r] = m, lost'[r] = l + 1
      PROVE  Pace(due', alert'.lastSent, shown'[r].endsAt, lost'[r], missed'[r])
  <2>1. evalTS + evalDelay <= due
    BY <1>5
  <2>2. Pace(due + interval, evalTS, e, l + 1, m)
    BY <1>3, <1>5, <1>6, <2>1, PaceLost
  <2> QED BY <1>5, <1>8, <2>2
<1>9. ASSUME alert'.lastSent = s, missed'[r] = m, lost'[r] = l,
             evalTS - alert'.lastSent < ResendDelay
      PROVE  Pace(due', alert'.lastSent, shown'[r].endsAt, lost'[r], missed'[r])
  <2>1. evalTS - s < ResendDelay
    BY <1>9
  <2>2. due < s + evalDelay + ResendDelay
    BY <1>5, <1>6, <2>1
  <2>3. Pace(due + interval, s, e, l, m)
    BY <1>3, <1>5, <1>6, <2>2, PaceHeld
  <2> QED BY <1>5, <1>9, <2>3
<1> QED BY <1>3, <1>7, <1>8, <1>9

\* A receiver that takes what is sent starts a pace.
LEMMA PaceStarts ==
    ASSUME Inv, PaceAgrees, Tick, NEW r \in Receiver,
           alert'.lastSent = evalTS, shown'[r].endsAt = clock' + 4 * interval,
           missed'[r] = 0, lost'[r] = 0
    PROVE  Pace(due', alert'.lastSent, shown'[r].endsAt, lost'[r], missed'[r])
<1>1. /\ due \in Nat /\ clock' \in Nat /\ evalTS \in Nat
      /\ evalTS + evalDelay = due /\ due <= clock'
      /\ due' = due + interval \/ due' = clock' + interval
  BY NextTick
<1>2. PICK g \in {due, clock'} : due' = g + interval
  BY <1>1
<1>3. g \in Nat /\ evalTS + evalDelay <= g /\ g <= clock'
  BY <1>1, <1>2
<1>4. Pace(g + interval, evalTS, clock' + 4 * interval, 0, 0)
  BY <1>1, <1>3, PaceTaken
<1> QED BY <1>2, <1>4

\* Every evaluation keeps the receivers at the pace.
LEMMA PaceStep ==
    ASSUME Inv, PaceAgrees, [Next]_vars
    PROVE  PaceAgrees'
<1>1. /\ alert \in Alert /\ missed \in [Receiver -> Nat] /\ lost \in [Receiver -> Nat]
      /\ shown \in [Receiver -> Payload]
  BY DEF Inv, TypeOK
<1>2. Tick => evalTS \in Nat /\ due' # Epoch
  BY NextTick
<1>3. ASSUME UNCHANGED <<due, alert, shown, missed, lost>>
      PROVE  PaceAgrees'
  BY <1>3 DEF PaceAgrees, Took
<1>4. ASSUME Tick, Restarted, UNCHANGED shown,
             \A r \in Receiver : Took(r)' =>
                Pace(due', alert'.lastSent, shown'[r].endsAt, lost'[r], missed'[r])
      PROVE  PaceAgrees'
  <2>1. \A r \in Receiver : shown'[r] = shown[r]
    BY <1>4
  <2> QED BY <1>2, <1>4, <2>1, StartsApart DEF PaceAgrees
<1>5. ASSUME Tick, Restarted, SendNothing,
             alert.state = "firing" /\ alert'.state = "firing" => alert'.lastSent = alert.lastSent
      PROVE  PaceAgrees'
  <2>1. ASSUME NEW r \in Receiver
        PROVE  /\ shown'[r] = shown[r]
               /\ missed'[r] = missed[r] + 1 /\ lost'[r] = lost[r]
    BY <1>1, <1>5 DEF SendNothing
  <2>2. ASSUME NEW r \in Receiver, Took(r)'
        PROVE  Pace(due', alert'.lastSent, shown'[r].endsAt, lost'[r], missed'[r])
    <3>1. alert.state = "firing" => alert'.lastSent = alert.lastSent
      BY <1>5, <2>2 DEF Took
    <3> QED BY <1>5, <2>1, <2>2, <3>1, PaceKept
  <2> QED BY <1>4, <1>5, <2>2 DEF SendNothing
<1>6. CASE EvaluateFailed
  <2>1. Tick /\ alert' = alert /\ SendNothing
    BY <1>6 DEF EvaluateFailed
  <2>2. Restarted
    BY <1>1, <1>2, <2>1, RestartedAlert DEF Restarted
  <2> QED BY <1>5, <2>1, <2>2
<1>7. CASE EvaluateDuplicate
  <2>1. /\ Tick /\ SendNothing
        /\ alert' = Purged(alert, evalTS) \/ alert' = Matched(Purged(alert, evalTS), evalTS)
    BY <1>7 DEF EvaluateDuplicate
  <2>2. /\ Restarted
        /\ alert.state = "firing" /\ alert'.state = "firing" => alert'.lastSent = alert.lastSent
    BY <1>1, <1>2, <2>1, RestartedAlert DEF Restarted
  <2> QED BY <1>5, <2>1, <2>2
<1>8. CASE EvaluateOverLimit
  <2>1. Tick /\ alert' = NoAlert /\ SendNothing
    BY <1>8 DEF EvaluateOverLimit
  <2>2. /\ Restarted
        /\ alert.state = "firing" /\ alert'.state = "firing" => alert'.lastSent = alert.lastSent
    BY <1>1, <1>2, <2>1, RestartedAlert DEF Restarted
  <2> QED BY <1>5, <2>1, <2>2
<1>9. ASSUME NEW matched \in BOOLEAN, NEW reached \in SUBSET Receiver,
             EvaluateCompleted(matched, reached)
      PROVE  PaceAgrees'
  <2> DEFINE a == Evaluated(matched)
  <2>1. Tick /\ evalTS \in Nat
    BY <1>2, <1>9 DEF EvaluateCompleted
  <2>2. \/ a = Advanced(Matched(Purged(alert, evalTS), evalTS), evalTS, forDur)
        \/ a = Unmatched(Purged(alert, evalTS), evalTS, keepFire)
    BY DEF Evaluated
  <2>3. CASE ~MustSend(a, evalTS)
    <3>1. alert' = a /\ UNCHANGED <<shown, missed, lost>>
      BY <1>9, <2>3 DEF EvaluateCompleted
    <3> HIDE DEF a
    <3>2. a \in Alert
      BY <1>1, <2>1, <2>2, EvaluatedAlert
    <3>3. /\ Restarted
          /\ alert.state = "firing" /\ alert'.state = "firing" => alert'.lastSent = alert.lastSent
      BY <1>1, <2>1, <2>2, <3>1, RestartedAlert DEF Restarted
    <3>4. ASSUME NEW r \in Receiver, Took(r)'
          PROVE  Pace(due', alert'.lastSent, shown'[r].endsAt, lost'[r], missed'[r])
      <4>1. alert'.state = "firing"
        BY <3>4 DEF Took
      <4>2. evalTS - alert'.lastSent < ResendDelay
        <5>1. ~(evalTS - a.lastSent >= ResendDelay)
          BY <2>3, <3>1, <4>1 DEF MustSend
        <5>2. a.lastSent \in Nat /\ ResendDelay \in Nat
          BY <3>2, DelaysAssumption DEF Alert
        <5> QED BY <2>1, <3>1, <5>1, <5>2
      <4>3. shown'[r] = shown[r] /\ missed'[r] = missed[r] /\ lost'[r] = lost[r]
        BY <3>1
      <4> QED BY <2>1, <3>3, <3>4, <4>1, <4>2, <4>3, PaceKept
    <3> QED BY <1>4, <2>1, <3>1, <3>3, <3>4
  <2>4. CASE MustSend(a, evalTS)
    <3>1. alert' = [a EXCEPT !.lastSent = evalTS] /\ Send(a, reached)
      BY <1>9, <2>4 DEF EvaluateCompleted
    <3>2. a.state \in {"firing", "inactive"}
      BY <2>4 DEF MustSend
    <3> HIDE DEF a
    <3>3. a \in Alert
      BY <1>1, <2>1, <2>2, EvaluatedAlert
    <3>4. /\ alert'.state = a.state /\ alert'.activeAt = a.activeAt /\ alert'.lastSent = evalTS
      BY <2>1, <3>1, <3>3 DEF Alert
    <3>5. Restarted
      BY <1>1, <2>1, <2>2, <3>4, RestartedAlert DEF Restarted
    <3>6. ASSUME NEW r \in Receiver, r \notin reached
          PROVE  shown'[r] = shown[r] /\ missed'[r] = missed[r] /\ lost'[r] = lost[r] + 1
      BY <3>1, <3>6 DEF Send
    <3>7. ASSUME NEW r \in Receiver, r \in reached
          PROVE  /\ shown'[r] = buildPayload(a, clock')
                 /\ missed'[r] = 0 /\ lost'[r] = 0
      BY <3>1, <3>7 DEF Send
    <3>8. ASSUME NEW r \in Receiver
          PROVE  /\ shown'[r].status = "firing" => shown'[r].startsAt + evalDelay < due'
                 /\ Took(r)' => Pace(due', alert'.lastSent, shown'[r].endsAt, lost'[r], missed'[r])
      <4>1. CASE r \notin reached
        <5>1. shown'[r] = shown[r]
          BY <3>6, <4>1
        <5>2. Took(r)' => Pace(due', alert'.lastSent, shown'[r].endsAt, lost'[r], missed'[r])
          BY <2>1, <3>4, <3>5, <3>6, <4>1, PaceKept
        <5> QED BY <2>1, <3>5, <5>1, <5>2, StartsApart
      <4>2. CASE r \in reached
        <5>1. shown'[r].startsAt = alert'.activeAt
          BY <3>4, <3>7, <4>2 DEF buildPayload
        <5>2. shown'[r].startsAt + evalDelay < due'
          BY <2>1, <3>5, <5>1, StartsApart
        <5>3. Took(r)' => shown'[r].endsAt = clock' + 4 * interval
          <6>1. Took(r)' => a.state = "firing"
            BY <3>4 DEF Took
          <6> QED BY <3>7, <4>2, <6>1 DEF buildPayload
        <5>4. Took(r)' => Pace(due', alert'.lastSent, shown'[r].endsAt, lost'[r], missed'[r])
          BY <2>1, <3>4, <3>7, <4>2, <5>3, PaceStarts
        <5> QED BY <5>2, <5>4
      <4> QED BY <4>1, <4>2
    <3>9. alert'.state # "pending"
      BY <3>2, <3>4
    <3>10. alert'.activeAt + evalDelay < due' /\ due' # Epoch
      BY <1>2, <2>1, <3>5, StartsApart
    <3> QED BY <3>8, <3>9, <3>10 DEF PaceAgrees
  <2> QED BY <2>3, <2>4
<1> QED BY <1>3, <1>6, <1>7, <1>8, <1>9 DEF Next, Wait, vars

\* A firing instance that a receiver took stays firing there through three
\* evaluations without a send, for every interval and resend delay: each send
\* is due Rounds evaluations after the one before (alertmanager.go:204-210,
\* rule.go:381-386).
THEOREM AlwaysStaysFiring == Spec => []StaysFiring
<1>1. Init => PaceAgrees
  BY DeliveryAssumption DEF Init, PaceAgrees, Took, NoAlert, Zero
<1>2. Inv /\ PaceAgrees => StaysFiring
  <2> SUFFICES ASSUME Inv, PaceAgrees, NEW r \in Receiver, Took(r),
                      Rounds * (1 + lost[r]) + missed[r] <= 3
               PROVE  shown[r].endsAt > clock
    BY DEF StaysFiring, Shows
  <2>1. PICK g \in Nat : due + 4 * interval
           <= shown[r].endsAt + (Rounds * (1 + lost[r]) + missed[r]) * interval
    BY DEF PaceAgrees, Pace
  <2>2. /\ interval \in Nat \ {0} /\ Rounds \in Nat
        /\ lost[r] \in Nat /\ missed[r] \in Nat /\ shown[r].endsAt \in Nat
        /\ clock \in Nat /\ due \in Nat /\ clock <= due
    BY RoundsCover DEF Inv, TypeOK, Payload
  <2>3. ASSUME NEW w \in Nat, w <= 3, NEW i \in Nat PROVE w * i <= 3 * i /\ w * i \in Nat
    <3>1. (3 - w) * i >= 0
      BY <2>3
    <3>2. (3 - w) * i = 3 * i - w * i /\ w * i \in Nat /\ 3 * i \in Nat
      OBVIOUS
    <3> QED BY <3>1, <3>2
  <2>4. Rounds * (1 + lost[r]) + missed[r] \in Nat
    BY <2>2
  <2> DEFINE wi == (Rounds * (1 + lost[r]) + missed[r]) * interval
  <2>5. wi <= 3 * interval /\ wi \in Nat
    BY <2>2, <2>3, <2>4
  <2>6. due + 4 * interval <= shown[r].endsAt + wi
    BY <2>1
  <2> HIDE DEF wi
  <2> QED BY <2>2, <2>5, <2>6
<1>3. Inv /\ PaceAgrees /\ [Next]_vars => PaceAgrees'
  BY PaceStep
<1> QED BY <1>1, <1>2, <1>3, DeliveryAgrees, PTL DEF Spec
==============================================================================
