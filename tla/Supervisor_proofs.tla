--------------------------- MODULE Supervisor_proofs ---------------------------
(***************************************************************************)
(* Theorems about Supervisor, for every set of groups and contents.        *)
(***************************************************************************)
EXTENDS Supervisor, TLAPS

\* Past Parse the content of the reload is a good one.
SnapAgrees == pc \in {"remove", "close", "retire", "update", "offer"} => snap \notin Rejected

Inv == TypeOK /\ SnapAgrees

\* What a content gives its groups are checksums.
LEMMA ContentChecksums ==
    ASSUME NEW c \in Content
    PROVE  groups[c] \in [Group -> Checksums]
<1>1. groups[c] \in [Group -> {groups[c][g] : g \in Group}]
  BY SupervisorAssumption
<1>2. \A g \in Group : groups[c][g] \in Checksums
  BY DEF Checksums
<1> QED BY <1>1, <1>2

\* Every step keeps the types (main.go:226-371, group.go:246-261).
LEMMA TypeStep ==
    ASSUME Inv, [Next]_vars
    PROVE  Inv'
<1> USE SupervisorAssumption DEF Inv, TypeOK, SnapAgrees
<1>1. CASE UNCHANGED vars
  BY <1>1 DEF vars, files_vars, trigger_vars, main_vars, group_vars, observers
<1>2. CASE World
  <2>1. ASSUME NEW c \in Content, Edit(c)
        PROVE  Inv'
    BY <2>1 DEF Edit, trigger_vars, main_vars, group_vars, observers
  <2>2. CASE CheckTick
    BY <2>2 DEF CheckTick, files_vars, main_vars, group_vars, observers
  <2>4. CASE PostReload
    BY <2>4 DEF PostReload, files_vars, main_vars, group_vars, observers
  <2>3. ASSUME NEW s \in {"hup", "term"}, Signal(s)
        PROVE  Inv'
    BY <2>3 DEF Signal, files_vars, main_vars, group_vars, observers
  <2> QED BY <1>2, <2>1, <2>2, <2>3, <2>4 DEF World
<1>3. CASE TakeTick \/ TakeRequest \/ TakeHup \/ TakeTerm
  BY <1>3 DEF TakeTick, TakeRequest, TakeHup, TakeTerm, Reloading, Goto, MainPCs,
              files_vars, trigger_vars, main_vars, group_vars, observers
<1>4. CASE Read
  BY <1>4 DEF Read, ReadSnapshot, ReadFailed, ParseFailed, Parse, Moves, Goto, MainPCs,
              files_vars, trigger_vars, main_vars, group_vars, observers
<1>5. ASSUME NEW g \in Group, RemoveGroup(g) \/ KeepGroup(g) \/ UpdateGroup(g)
      PROVE  Inv'
  BY <1>5 DEF RemoveGroup, KeepGroup, UpdateGroup, Goto, MainPCs,
              files_vars, trigger_vars, main_vars, group_vars, observers
<1>6. ASSUME NEW g \in Group, StartGroup(g)
      PROVE  Inv'
  <2>1. groups[snap][g] \in Checksums
    BY ContentChecksums
  <2> QED BY <1>6, <2>1 DEF StartGroup, GroupPCs, files_vars, trigger_vars
<1>7. CASE UpdateWith
  <2>1. groups[snap][cur] \in Checksums
    BY ContentChecksums
  <2> QED BY <1>7, <2>1 DEF UpdateWith, Goto, MainPCs, GroupPCs, files_vars, trigger_vars
<1>8. CASE Closed \/ Retire \/ NoneToRemove \/ ReloadDone
  BY <1>8 DEF Closed, Retire, NoneToRemove, ReloadDone, Moves, Goto, MainPCs, Named,
              files_vars, trigger_vars, main_vars, group_vars, observers
<1>9. CASE Shutdown
  BY <1>9 DEF Shutdown, StopGroup, StopClosed, StopDone, Persist, Moves, Goto, MainPCs,
              files_vars, trigger_vars, main_vars, group_vars, observers
<1>10. ASSUME NEW g \in Group, GroupStep(g)
       PROVE  Inv'
  <2>1. gpc' \in [Group -> GroupPCs]
    BY <1>10 DEF GroupStep, GroupTick, EvalDone, updateWith, GroupExit, GroupGoto, GroupPCs
  <2>2. checksum' \in [Group -> Checksums]
    BY <1>10 DEF GroupStep, GroupTick, EvalDone, updateWith, GroupExit
  <2>3. UNCHANGED <<files_vars, trigger_vars, main_vars, received, observers>>
    BY <1>10 DEF GroupStep, GroupTick, EvalDone, updateWith, GroupExit, GroupGoto
  <2> QED BY <2>1, <2>2, <2>3 DEF files_vars, trigger_vars, main_vars, observers
<1> QED BY <1>1, <1>2, <1>3, <1>4, <1>5, <1>6, <1>7, <1>8, <1>9, <1>10 DEF Next, reloadGroups

\* chalert starts with the groups of a good content.
LEMMA TypeInit == Init => Inv
<1> SUFFICES ASSUME Init PROVE Inv
  OBVIOUS
<1>1. checksum \in [Group -> Checksums] /\ received \in [Group -> Checksums]
  BY ContentChecksums DEF Init
<1>2. gpc \in [Group -> GroupPCs]
  BY DEF Init, GroupPCs
<1>3. existing \subseteq Group
  BY DEF Init, Named
<1>4. 0 \in 0..MaxEdits
  BY SupervisorAssumption
<1>5. TypeOK
  BY <1>1, <1>2, <1>3, <1>4 DEF Init, TypeOK, MainPCs
<1>6. SnapAgrees
  BY DEF Init, SnapAgrees
<1> QED BY <1>5, <1>6 DEF Inv

\* The supervisor's variables keep their types.
THEOREM TypeCorrect == Spec => []Inv
BY TypeInit, TypeStep, PTL DEF Spec

-------------------------------------------------------------------------------
\* A request is followed by a read of the files made after it, or still waits
\* (main.go:303-310).
LEMMA ServedStep ==
    ASSUME Inv, RequestsAreServed, [Next]_vars
    PROVE  RequestsAreServed'
<1> USE DEF Inv, TypeOK, RequestsAreServed
<1>1. CASE UNCHANGED vars
  BY <1>1 DEF vars, files_vars, trigger_vars, main_vars, group_vars, observers
<1>2. CASE World
  BY <1>2 DEF World, Edit, CheckTick, PostReload, Signal,
              files_vars, trigger_vars, main_vars, group_vars, observers
<1>3. CASE TakeTick \/ TakeRequest \/ TakeHup \/ TakeTerm
  BY <1>3 DEF TakeTick, TakeRequest, TakeHup, TakeTerm, Reloading, Goto, observers
<1>4. CASE Read
  BY <1>4 DEF Read, ReadSnapshot, ReadFailed, ParseFailed, Parse, Moves, Goto,
              trigger_vars
<1>5. CASE reloadGroups
  BY <1>5 DEF reloadGroups, RemoveGroup, KeepGroup, UpdateGroup, StartGroup, UpdateWith,
              Closed, Retire, NoneToRemove, ReloadDone, Moves, Goto, trigger_vars, observers
<1>6. CASE Shutdown
  BY <1>6 DEF Shutdown, StopGroup, StopClosed, StopDone, Persist, Moves, Goto,
              trigger_vars, observers
<1>7. ASSUME NEW g \in Group, GroupStep(g)
      PROVE  RequestsAreServed'
  BY <1>7 DEF GroupStep, GroupTick, EvalDone, updateWith, GroupExit, GroupGoto,
              trigger_vars, main_vars, observers
<1> QED BY <1>1, <1>2, <1>3, <1>4, <1>5, <1>6, <1>7 DEF Next

\* No reload request is lost, whichever trigger reads the files for it.
THEOREM RequestsAreAlwaysServed == Spec => []RequestsAreServed
<1>1. Init => RequestsAreServed
  BY DEF Init, RequestsAreServed
<1>2. Inv /\ RequestsAreServed /\ [Next]_vars => RequestsAreServed'
  BY ServedStep
<1> QED BY <1>1, <1>2, TypeCorrect, PTL DEF Spec

-------------------------------------------------------------------------------
\* What closes a group: it is in ruleGroups with its doneCh closed only while
\* main waits for it, or finished.
StopAgrees ==
    /\ \A g \in Group \ existing : gpc[g] \in {"none", "finished"}
    /\ \A g \in existing \cap done :
          gpc[g] = "finished" \/ (pc \in {"close", "stopClose"} /\ g = cur)
    /\ pc = "retire" => gpc[cur] = "finished"
    /\ pc \in {"persist", "returned"} => existing \subseteq done

\* Every step keeps it: main waits in Close for each group it closes
\* (main.go:388-397, 340-357; group.go:474-478).
LEMMA StopStep ==
    ASSUME Inv, StopAgrees, [Next]_vars
    PROVE  StopAgrees'
<1> USE DEF Inv, TypeOK, StopAgrees
<1>1. CASE UNCHANGED vars
  BY <1>1 DEF vars, files_vars, trigger_vars, main_vars, group_vars, observers
<1>2. CASE World
  BY <1>2 DEF World, Edit, CheckTick, PostReload, Signal, main_vars, group_vars, observers
<1>3. CASE TakeTick \/ TakeRequest \/ TakeHup \/ TakeTerm
  BY <1>3 DEF TakeTick, TakeRequest, TakeHup, TakeTerm, Reloading, Goto, group_vars
<1>4. CASE Read
  BY <1>4 DEF Read, ReadSnapshot, ReadFailed, ParseFailed, Parse, Moves, Goto, group_vars
<1>5. ASSUME NEW g \in Group, RemoveGroup(g) \/ KeepGroup(g) \/ UpdateGroup(g)
      PROVE  StopAgrees'
  BY <1>5 DEF RemoveGroup, KeepGroup, UpdateGroup, Goto, group_vars
<1>6. ASSUME NEW g \in Group, StartGroup(g)
      PROVE  StopAgrees'
  BY <1>6 DEF StartGroup
<1>7. CASE UpdateWith
  BY <1>7 DEF UpdateWith, Goto
<1>8. CASE Closed \/ Retire \/ NoneToRemove \/ ReloadDone
  BY <1>8 DEF Closed, Retire, NoneToRemove, ReloadDone, Moves, Goto, group_vars
<1>9. CASE Shutdown
  BY <1>9 DEF Shutdown, StopGroup, StopClosed, StopDone, Persist, Moves, Goto, group_vars
<1>10. ASSUME NEW g \in Group, GroupStep(g)
       PROVE  StopAgrees'
  BY <1>10 DEF GroupStep, GroupTick, EvalDone, updateWith, GroupExit, GroupGoto, main_vars
<1> QED BY <1>1, <1>2, <1>3, <1>4, <1>5, <1>6, <1>7, <1>8, <1>9, <1>10 DEF Next, reloadGroups

\* No group evaluates any more when its instances are retired, and none does
\* when the state is persisted (group.go:431-433, main.go:339-357).
THEOREM AlwaysStoppedBeforehand == Spec => []StoppedBeforehand
<1>1. Init => StopAgrees
  BY DEF Init, StopAgrees, Named
<1>2. Inv /\ StopAgrees /\ [Next]_vars => StopAgrees'
  BY StopStep
<1>3. Inv /\ StopAgrees => StoppedBeforehand
  BY DEF Inv, TypeOK, StopAgrees, StoppedBeforehand
<1> QED BY <1>1, <1>2, <1>3, TypeCorrect, PTL DEF Spec

-------------------------------------------------------------------------------
(***************************************************************************)
(* Which groups run, and with which rules.                                 *)
(***************************************************************************)

Running == {"evaluating", "select", "received"}

\* ruleGroups against what was loaded last and what is being loaded; a group
\* whose doneCh is open runs.
GroupsAgree ==
    /\ cancelled <=> pc \in {"stop", "stopClose", "persist", "returned"}
    /\ pc \in {"select", "read", "parse"} => existing = Named(lastFP)
    /\ pc \in {"remove", "close", "retire"} =>
          /\ existing \subseteq Named(lastFP)
          /\ Named(lastFP) \cap Named(snap) \subseteq existing
    /\ pc \in {"close", "retire"} => cur \notin Named(snap)
    /\ pc \in {"update", "offer"} =>
          /\ existing \cup todo = Named(snap)
          /\ existing \cap todo \subseteq Named(lastFP)
    /\ pc = "offer" => cur \in existing \cap Named(lastFP) /\ cur \notin todo
    /\ \A g \in existing \ done : ~cancelled => gpc[g] \in Running
    /\ \A g \in existing \cap done : cancelled \/ (pc \in {"close", "retire"} /\ g = cur)

\* The steps of a reload and of the groups keep it (main.go:376-418,
\* group.go:246-261).
LEMMA GroupsStep ==
    ASSUME Inv, GroupsAgree, [Next]_vars
    PROVE  GroupsAgree'
<1> USE DEF Inv, TypeOK, GroupsAgree
<1>1. CASE UNCHANGED vars
  BY <1>1 DEF vars, files_vars, trigger_vars, main_vars, group_vars, observers
<1>2. CASE World
  BY <1>2 DEF World, Edit, CheckTick, PostReload, Signal, main_vars, group_vars, observers
<1>3. CASE TakeTick \/ TakeRequest \/ TakeHup \/ TakeTerm
  BY <1>3 DEF TakeTick, TakeRequest, TakeHup, TakeTerm, Reloading, Goto, group_vars
<1>4. CASE Read
  BY <1>4 DEF Read, ReadSnapshot, ReadFailed, ParseFailed, Parse, Moves, Goto, group_vars
<1>5. ASSUME NEW g \in Group, RemoveGroup(g) \/ KeepGroup(g) \/ UpdateGroup(g)
      PROVE  GroupsAgree'
  BY <1>5 DEF RemoveGroup, KeepGroup, UpdateGroup, Goto, group_vars
<1>6. ASSUME NEW g \in Group, StartGroup(g)
      PROVE  GroupsAgree'
  BY <1>6 DEF StartGroup, Running
<1>7. CASE UpdateWith
  BY <1>7 DEF UpdateWith, Goto, Running
<1>8. CASE Closed \/ NoneToRemove
  BY <1>8 DEF Closed, NoneToRemove, Moves, Goto, group_vars
<1>9. CASE Retire
  BY <1>9 DEF Retire, Goto, group_vars
<1>10. CASE ReloadDone
  BY <1>10 DEF ReloadDone, Moves, Goto, group_vars
<1>11. CASE Shutdown
  BY <1>11 DEF Shutdown, StopGroup, StopClosed, StopDone, Persist, Moves, Goto, group_vars
<1>12. ASSUME NEW g \in Group, GroupStep(g)
       PROVE  GroupsAgree'
  BY <1>12 DEF GroupStep, GroupTick, EvalDone, updateWith, GroupExit, GroupGoto, main_vars, Running
<1> QED BY <1>1, <1>2, <1>3, <1>4, <1>5, <1>6, <1>7, <1>8, <1>9, <1>10, <1>11, <1>12
        DEF Next, reloadGroups

LEMMA GroupsInit == Init => GroupsAgree
BY DEF Init, GroupsAgree, Named, Running

\* Between reloads exactly the groups of the last successful reload are there,
\* and each of them runs (main.go:376-418).
THEOREM LoadedGroupsRun ==
    Spec => [](pc = "select" => existing = Named(lastFP) /\ \A g \in existing : gpc[g] \in Running)
<1>1. Inv /\ GroupsAgree =>
         (pc = "select" => existing = Named(lastFP) /\ \A g \in existing : gpc[g] \in Running)
  BY DEF GroupsAgree
<1>2. Inv /\ GroupsAgree /\ [Next]_vars => GroupsAgree'
  BY GroupsStep
<1> QED BY <1>1, <1>2, GroupsInit, TypeCorrect, PTL DEF Spec

\* A registered group has been started.
Started == \A g \in existing : gpc[g] # "none"

LEMMA StartedStep ==
    ASSUME Inv, Started, [Next]_vars
    PROVE  Started'
<1> USE DEF Inv, TypeOK, Started
<1>1. CASE UNCHANGED vars
  BY <1>1 DEF vars, main_vars, group_vars, observers
<1>2. CASE World
  BY <1>2 DEF World, Edit, CheckTick, PostReload, Signal, main_vars, group_vars, observers
<1>3. CASE TakeTick \/ TakeRequest \/ TakeHup \/ TakeTerm
  BY <1>3 DEF TakeTick, TakeRequest, TakeHup, TakeTerm, Reloading, group_vars
<1>4. CASE Read
  BY <1>4 DEF Read, ReadSnapshot, ReadFailed, ParseFailed, Parse, Moves, group_vars
<1>5. CASE reloadGroups
  BY <1>5 DEF reloadGroups, RemoveGroup, KeepGroup, UpdateGroup, StartGroup, Closed, Retire,
              NoneToRemove, UpdateWith, ReloadDone, Moves, group_vars
<1>6. CASE Shutdown
  BY <1>6 DEF Shutdown, StopGroup, StopClosed, StopDone, Persist, Moves, group_vars
<1>7. ASSUME NEW g \in Group, GroupStep(g)
      PROVE  Started'
  BY <1>7 DEF GroupStep, GroupTick, EvalDone, updateWith, GroupExit, GroupGoto, main_vars
<1> QED BY <1>1, <1>2, <1>3, <1>4, <1>5, <1>6, <1>7 DEF Next

\* The main goroutine waits only for a group that will answer: one it offers
\* an update runs and was not told to leave, and one it closes was told to and
\* has left or still runs, so that a step of the group is left to it.
Answered ==
    /\ pc = "offer" => gpc[cur] \in Running /\ cur \notin done /\ ~cancelled
    /\ pc \in {"close", "stopClose"} =>
          cur \in done /\ gpc[cur] \in Running \cup {"finished"}

\* The group that is being closed stays the one that was told to leave.
ClosingAgrees == pc \in {"close", "stopClose"} => cur \in existing \cap done

\* No reload and no shutdown waits for a group that is gone or was never
\* started: an update is not offered to a loop that has left its select for
\* good, and Close finds a loop that closes finishedCh (group.go:246-261,
\* 475-483, main.go:339-418).
THEOREM WaitsAreAnswered == Spec => []Answered
<1>1. Init => Started /\ ClosingAgrees
  BY DEF Init, Started, Named, ClosingAgrees
<1>2. Inv /\ Started /\ [Next]_vars => Started'
  BY StartedStep
<1>3. ASSUME Inv, ClosingAgrees, [Next]_vars
      PROVE  ClosingAgrees'
  <2> USE DEF Inv, TypeOK, ClosingAgrees
  <2>1. CASE UNCHANGED main_vars
    BY <1>3, <2>1 DEF main_vars
  <2>2. CASE TakeTick \/ TakeRequest \/ TakeHup \/ TakeTerm
    BY <2>2 DEF TakeTick, TakeRequest, TakeHup, TakeTerm, Reloading, Goto
  <2>3. CASE Read
    BY <2>3 DEF Read, ReadSnapshot, ReadFailed, ParseFailed, Parse, Moves, Goto
  <2>4. CASE reloadGroups
    BY <2>4 DEF reloadGroups, RemoveGroup, KeepGroup, UpdateGroup, StartGroup, Closed, Retire,
                NoneToRemove, UpdateWith, ReloadDone, Moves, Goto
  <2>5. CASE Shutdown
    BY <2>5 DEF Shutdown, StopGroup, StopClosed, StopDone, Persist, Moves, Goto
  <2>6. CASE UNCHANGED vars \/ World \/ \E g \in Group : GroupStep(g)
    BY <2>1, <2>6 DEF vars, World, Edit, CheckTick, PostReload, Signal,
                      GroupStep, GroupTick, EvalDone, updateWith, GroupExit, GroupGoto
  <2> QED BY <1>3, <2>2, <2>3, <2>4, <2>5, <2>6 DEF Next
<1>4. Inv /\ GroupsAgree /\ Started /\ ClosingAgrees => Answered
  BY DEF Inv, TypeOK, GroupsAgree, Started, ClosingAgrees, Answered, Running, GroupPCs
<1>5. Inv /\ GroupsAgree /\ [Next]_vars => GroupsAgree'
  BY GroupsStep
<1> QED BY <1>1, <1>2, <1>3, <1>4, <1>5, GroupsInit, TypeCorrect, PTL DEF Spec

\* The content whose rules the reload has given g, or leaves it with so far.
Given(g) ==
    IF pc \in {"update", "offer"} /\ g \notin todo /\ ~(pc = "offer" /\ g = cur)
    THEN snap
    ELSE lastFP

\* A group that runs has, or will have, what it was given, but for those whose
\* comparison raced with their taking over.
RulesAgree ==
    \A g \in existing \ (done \cup raced) : ~cancelled => Coming(g) = groups[Given(g)][g]

\* No step leaves another group with other rules (main.go:399-406,
\* group.go:246-261).
LEMMA RulesStep ==
    ASSUME Inv, GroupsAgree, RulesAgree, [Next]_vars
    PROVE  RulesAgree'
<1>1. /\ files \in Content /\ snap \in Content /\ lastFP \in Content \ Rejected
      /\ todo \subseteq Group /\ existing \subseteq Group /\ cur \in Group
      /\ gpc \in [Group -> GroupPCs] /\ checksum \in [Group -> Checksums]
      /\ received \in [Group -> Checksums]
  BY DEF Inv, TypeOK
<1>2. CASE UNCHANGED vars
  BY <1>2 DEF vars, files_vars, trigger_vars, main_vars, group_vars, observers, RulesAgree, Given, Coming
<1>3. CASE World
  <2>1. UNCHANGED <<main_vars, group_vars, raced>>
    BY <1>3 DEF World, Edit, CheckTick, PostReload, Signal, observers
  <2> QED BY <2>1 DEF main_vars, group_vars, RulesAgree, Given, Coming
<1>4. CASE TakeTick \/ TakeRequest \/ TakeHup \/ TakeTerm
  BY <1>4 DEF TakeTick, TakeRequest, TakeHup, TakeTerm, Reloading, Goto, group_vars, observers,
              RulesAgree, Given, Coming
<1>5. CASE Read
  <2>1. /\ pc \in {"read", "parse"} /\ pc' \in {"select", "parse", "remove"}
        /\ UNCHANGED <<group_vars, existing, done, cancelled, lastFP, todo, cur, raced>>
    BY <1>5 DEF Read, ReadSnapshot, ReadFailed, ParseFailed, Parse, Moves, Goto
  <2> QED BY <2>1 DEF group_vars, RulesAgree, Given, Coming
<1>6. ASSUME NEW g \in Group, RemoveGroup(g) \/ UpdateGroup(g)
      PROVE  RulesAgree'
  BY <1>6 DEF RemoveGroup, UpdateGroup, Goto, group_vars, observers, RulesAgree, Given, Coming
<1>7. ASSUME NEW g \in Group, KeepGroup(g)
      PROVE  RulesAgree'
  <2>1. /\ pc = "update" /\ g \in todo \cap existing /\ checksum[g] = groups[snap][g]
        /\ todo' = todo \ {g}
        /\ raced' = IF Racing(g) THEN raced \cup {g} ELSE raced \ {g}
        /\ UNCHANGED <<snap, lastFP, cur, pc, existing, done, cancelled, group_vars>>
    BY <1>7 DEF KeepGroup
  <2>2. ASSUME g \notin raced'
        PROVE  Coming(g)' = groups[snap][g] /\ Given(g)' = snap
    BY <2>1, <2>2 DEF Racing, Coming, Given, group_vars
  <2>3. ASSUME NEW h \in existing \ (done \cup raced'), h # g
        PROVE  h \notin raced /\ Coming(h)' = Coming(h) /\ Given(h)' = Given(h)
    BY <2>1, <2>3 DEF Coming, Given, group_vars
  <2> QED BY <2>1, <2>2, <2>3 DEF RulesAgree
<1>8. ASSUME NEW g \in Group, StartGroup(g)
      PROVE  RulesAgree'
  <2>1. /\ pc = "update" /\ g \in todo \ existing /\ raced' = raced \ {g}
        /\ todo' = todo \ {g} /\ existing' = existing \cup {g} /\ done' = done \ {g}
        /\ gpc' = [gpc EXCEPT ![g] = "evaluating"]
        /\ checksum' = [checksum EXCEPT ![g] = groups[snap][g]]
        /\ received' = [received EXCEPT ![g] = groups[snap][g]]
        /\ UNCHANGED <<pc, snap, cur, lastFP, cancelled>>
    BY <1>8 DEF StartGroup
  <2>2. Given(g)' = snap /\ Coming(g)' = groups[snap][g]
    BY <1>1, <2>1 DEF Given, Coming
  <2>3. ASSUME NEW h \in existing' \ (done' \cup raced'), h # g
        PROVE  /\ h \in existing \ (done \cup raced)
               /\ Coming(h)' = Coming(h) /\ Given(h)' = Given(h)
    BY <1>1, <2>1, <2>3 DEF Given, Coming
  <2> QED BY <2>1, <2>2, <2>3 DEF RulesAgree
<1>9. CASE UpdateWith
  <2>1. /\ pc = "offer" /\ pc' = "update" /\ gpc[cur] = "select" /\ raced' = raced \ {cur}
        /\ gpc' = [gpc EXCEPT ![cur] = "received"]
        /\ received' = [received EXCEPT ![cur] = groups[snap][cur]]
        /\ UNCHANGED <<checksum, snap, lastFP, todo, cur, existing, done, cancelled>>
    BY <1>9 DEF UpdateWith, Goto
  <2>2. cur \notin todo
    BY <2>1 DEF GroupsAgree
  <2>3. Given(cur)' = snap /\ Coming(cur)' = groups[snap][cur]
    BY <1>1, <2>1, <2>2 DEF Given, Coming
  <2>4. ASSUME NEW h \in existing \ (done \cup raced'), h # cur
        PROVE  h \notin raced /\ Coming(h)' = Coming(h) /\ Given(h)' = Given(h)
    BY <1>1, <2>1, <2>4 DEF Given, Coming
  <2> QED BY <1>1, <2>1, <2>3, <2>4 DEF RulesAgree
<1>10. CASE Closed \/ Retire
  BY <1>10 DEF Closed, Retire, Moves, Goto, group_vars, observers, RulesAgree, Given, Coming
<1>11. CASE NoneToRemove
  <2>1. /\ pc = "remove" /\ pc' = "update" /\ todo' = Named(snap) /\ existing \subseteq Named(snap)
        /\ UNCHANGED <<snap, cur, lastFP, existing, done, cancelled, group_vars, raced>>
    BY <1>11 DEF NoneToRemove, Goto, observers
  <2> QED BY <2>1 DEF group_vars, RulesAgree, Given, Coming
<1>12. CASE ReloadDone
  BY <1>12 DEF ReloadDone, Moves, Goto, group_vars, RulesAgree, Given, Coming
<1>13. CASE Shutdown
  BY <1>13 DEF Shutdown, StopGroup, StopClosed, StopDone, Persist, Moves, Goto,
               group_vars, observers, RulesAgree, Given, Coming, GroupsAgree
<1>14. ASSUME NEW g \in Group, GroupStep(g)
       PROVE  RulesAgree'
  <2>1. UNCHANGED <<received, main_vars, raced>>
    BY <1>14 DEF GroupStep, GroupTick, EvalDone, updateWith, GroupExit, GroupGoto, observers
  <2>2. CASE updateWith(g)
    <3>1. /\ gpc[g] = "received" /\ gpc' = [gpc EXCEPT ![g] = "select"]
          /\ checksum' = [checksum EXCEPT ![g] = received[g]]
      BY <2>2 DEF updateWith, GroupGoto
    <3> QED BY <1>1, <2>1, <3>1 DEF main_vars, RulesAgree, Coming, Given
  <2>3. CASE GroupTick(g) \/ EvalDone(g) \/ GroupExit(g)
    BY <1>1, <2>1, <2>3 DEF GroupTick, EvalDone, GroupExit, GroupGoto, main_vars, RulesAgree,
                            Coming, Given
  <2> QED BY <1>14, <2>2, <2>3 DEF GroupStep
<1> QED BY <1>2, <1>3, <1>4, <1>5, <1>6, <1>7, <1>8, <1>9, <1>10, <1>11, <1>12, <1>13, <1>14
        DEF Next, reloadGroups

\* Between reloads exactly the groups of the last successful reload run, each
\* with the rules it gave them or about to take them over, whatever is edited
\* and reverted: excepted are only the groups that reload compared while they
\* had received an update and not taken it over (main.go:399-406,
\* group.go:252-255).
THEOREM RunsAlwaysWhatIsLoaded == Spec => []RunsWhatIsLoaded
<1>1. Init => RulesAgree
  BY DEF Init, RulesAgree, Given, Coming, Named
<1>2. Inv /\ GroupsAgree /\ RulesAgree => RunsWhatIsLoaded
  BY DEF GroupsAgree, RulesAgree, RunsWhatIsLoaded, Running, Given
<1>3. Inv /\ GroupsAgree /\ [Next]_vars => GroupsAgree'
  BY GroupsStep
<1>4. Inv /\ GroupsAgree /\ RulesAgree /\ [Next]_vars => RulesAgree'
  BY RulesStep
<1> QED BY <1>1, <1>2, <1>3, <1>4, GroupsInit, TypeCorrect, PTL DEF Spec

\* The variables of the main goroutine and the group loops keep their types.
THEOREM TypesKept == Spec => []TypeOK
<1>1. Inv => TypeOK
  BY DEF Inv
<1> QED BY <1>1, TypeCorrect, PTL
==============================================================================
