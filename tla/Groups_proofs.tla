----------------------------- MODULE Groups_proofs -----------------------------
(***************************************************************************)
(* Theorems about Groups: for every set of contents, every hash of queries *)
(* and any number of edits and restarts.                                   *)
(***************************************************************************)
EXTENDS Groups, FiniteSetTheorems, WellFoundedInduction, TLAPS

\* The variables that the properties of instances read.
AlertsTyped ==
    /\ files \in Contents /\ loaded \in Contents
    /\ DOMAIN groups \subseteq IDs /\ DOMAIN received \subseteq DOMAIN groups
    /\ pc = "down" => DOMAIN groups = {}
    /\ pc = "offer" => cur \in DOMAIN groups
    /\ alerts \in [IDs -> [Instance -> MemStates]]
    /\ state \in [Instance -> Enum] /\ history \in [Instance -> Row]

\* A group holds instances of the rules it runs, and of no others.
HeldByRules ==
    \A g \in IDs, i \in Instance :
        alerts[g][i] # "none" => g \in DOMAIN groups /\ RuleOf(i) \in RuleIDs(groups[g])

\* Nothing writes the state between a shutdown and a start.
HeldIsSaved ==
    pc = "down" => \A i \in Instance, s \in Enum : held[i] = {s} => state[i] = s

\* The groups of a content have declared IDs.
LEMMA RegistryDeclared ==
    ASSUME NEW c \in Contents
    PROVE  DOMAIN Registry(c) \subseteq IDs
BY DEF Registry, IDs, Declared

\* What retiring instances does to their rows.
LEMMA ResolveTyped ==
    ASSUME AlertsTyped, NEW is \in SUBSET Instance, Resolve(is)
    PROVE  /\ history' \in [Instance -> Row] /\ state' \in [Instance -> Enum]
           /\ \A i \in Instance : history'[i] = "firing" => i \notin is /\ history[i] = "firing"
BY DEF AlertsTyped, Resolve, Enum, Row

\* An evaluation that leaves an instance's row firing leaves it firing.
LEMMA EvaluatedFiring ==
    ASSUME NEW s \in MemStates, NEW matchable \in BOOLEAN, NEW p \in Evaluated(s, matchable)
    PROVE  /\ p[2] = "firing" => p[1] = "firing"
           /\ p[2] = "none" /\ s = "firing" => p[1] = "firing"
BY DEF Evaluated, Failed, Completed, Unmatched, MemStates

\* What an evaluation does to the instances and to their rows.
LEMMA EvalDoes ==
    ASSUME AlertsTyped, HeldByRules, NEW g \in IDs, Eval(g)
    PROVE  /\ g \in DOMAIN groups /\ groups' = groups
           /\ alerts' \in [IDs -> [Instance -> MemStates]] /\ history' \in [Instance -> Row]
           /\ \A h \in IDs, i \in Instance :
                 h # g \/ RuleOf(i) \notin RuleIDs(groups[g]) => alerts'[h][i] = alerts[h][i]
           /\ \A i \in Instance :
                 \/ history'[i] = "firing" /\ alerts'[g][i] = "firing"
                 \/ history'[i] = history[i]
                    /\ (alerts[g][i] = "firing" => alerts'[g][i] = "firing")
                 \/ history'[i] = "inactive"
<1> DEFINE D == Matchable(g) \cup {i \in Instance : alerts[g][i] # "none"}
<1>1. PICK f \in [D -> MemStates \X Row] :
        /\ \A i \in DOMAIN f : f[i] \in Evaluated(alerts[g][i], i \in Matchable(g))
        /\ alerts' = [alerts EXCEPT ![g] =
              [i \in Instance |-> IF i \in DOMAIN f THEN f[i][1] ELSE @[i]]]
        /\ history' = [i \in Instance |->
              IF i \in DOMAIN f /\ f[i][2] # "none" THEN f[i][2] ELSE history[i]]
  BY DEF Eval
<1>2. g \in DOMAIN groups /\ groups' = groups
  BY DEF Eval
<1>3. \A i \in D : f[i][1] \in MemStates /\ f[i][2] \in Row
  BY <1>1
<1>4. \A i \in Instance \cap D : RuleOf(i) \in RuleIDs(groups[g])
  BY <1>2 DEF HeldByRules, Matchable, RuleOf, RuleIDs
<1> HIDE DEF D
<1>5. alerts' \in [IDs -> [Instance -> MemStates]] /\ history' \in [Instance -> Row]
  BY <1>1, <1>3 DEF AlertsTyped
<1>6. \A h \in IDs, i \in Instance :
         h # g \/ RuleOf(i) \notin RuleIDs(groups[g]) => alerts'[h][i] = alerts[h][i]
  BY <1>1, <1>4 DEF AlertsTyped
<1>7. ASSUME NEW i \in Instance
      PROVE  \/ history'[i] = "firing" /\ alerts'[g][i] = "firing"
             \/ history'[i] = history[i]
                /\ (alerts[g][i] = "firing" => alerts'[g][i] = "firing")
             \/ history'[i] = "inactive"
  <2>1. CASE i \notin D
    BY <1>1, <2>1 DEF AlertsTyped
  <2>2. CASE i \in D
    <3>1. alerts[g][i] \in MemStates /\ (i \in Matchable(g)) \in BOOLEAN
      BY DEF AlertsTyped
    <3>2. f[i] \in Evaluated(alerts[g][i], i \in Matchable(g))
      BY <1>1, <2>2
    <3>3. /\ f[i][2] = "firing" => f[i][1] = "firing"
          /\ f[i][2] = "none" /\ alerts[g][i] = "firing" => f[i][1] = "firing"
      BY <3>1, <3>2, EvaluatedFiring
    <3>4. /\ alerts'[g][i] = f[i][1]
          /\ history'[i] = IF f[i][2] # "none" THEN f[i][2] ELSE history[i]
      BY <1>1, <2>2 DEF AlertsTyped
    <3> QED BY <1>3, <2>2, <3>3, <3>4 DEF Row
  <2> QED BY <2>1, <2>2
<1> QED BY <1>2, <1>5, <1>6, <1>7

\* Types, step by step.
LEMMA TypedStep ==
    ASSUME AlertsTyped, HeldByRules, [Next]_vars
    PROVE  AlertsTyped'
<1> USE DEF AlertsTyped
<1>1. CASE UNCHANGED vars
  BY <1>1 DEF vars, file_vars, main_vars, instance_vars
<1>2. ASSUME NEW c \in Contents, Edit(c) PROVE AlertsTyped'
  BY <1>2 DEF Edit, main_vars, instance_vars
<1>3. CASE Start
  <2>1. Unclaimed(groups') \in SUBSET Instance
    BY DEF Unclaimed, LoadActive
  <2>2. history' \in [Instance -> Row] /\ state' \in [Instance -> Enum]
    BY <1>3, <2>1, ResolveTyped DEF Start
  <2>3. \A g \in IDs : Restored(groups', g) \in [Instance -> MemStates]
    BY DEF Restored, LoadActive, MemStates
  <2>4. alerts' \in [IDs -> [Instance -> MemStates]]
    BY <1>3, <2>3 DEF Start
  <2> QED BY <1>3, <2>2, <2>4, RegistryDeclared DEF Start, file_vars
<1>4. CASE Shutdown
  BY <1>4 DEF Shutdown, file_vars, Nothing, MemStates
<1>5. ASSUME NEW g \in IDs, Eval(g) PROVE AlertsTyped'
  BY <1>5, EvalDoes DEF Eval, file_vars, main_vars
<1>6. CASE Reload
  BY <1>6 DEF Reload, file_vars, instance_vars
<1>7. CASE reloadGroups
  <2>1. ASSUME NEW g \in IDs, RemoveGroup(g) PROVE AlertsTyped'
    <3>1. FiringOf(g, RuleIDs(groups[g])) \in SUBSET Instance
      BY DEF FiringOf
    <3>2. history' \in [Instance -> Row] /\ state' \in [Instance -> Enum]
      BY <2>1, <3>1, ResolveTyped DEF RemoveGroup
    <3> QED BY <2>1, <3>2 DEF RemoveGroup, file_vars, main_vars, Nothing, MemStates
  <2>2. ASSUME NEW g \in IDs, KeepGroup(g) PROVE AlertsTyped'
    BY <2>2 DEF KeepGroup, TakeUp, file_vars, instance_vars
  <2>3. ASSUME NEW g \in IDs, UpdateGroup(g) PROVE AlertsTyped'
    BY <2>3 DEF UpdateGroup, TakeUp, file_vars, instance_vars
  <2>4. ASSUME NEW g \in IDs, StartGroup(g) PROVE AlertsTyped'
    BY <2>4 DEF StartGroup, TakeUp, file_vars, instance_vars
  <2>5. CASE UpdateWith
    BY <2>5 DEF UpdateWith, file_vars, instance_vars
  <2>6. CASE NoneToRemove \/ ReloadDone
    BY <2>6 DEF NoneToRemove, ReloadDone, file_vars, instance_vars
  <2> QED BY <1>7, <2>1, <2>2, <2>3, <2>4, <2>5, <2>6 DEF reloadGroups
<1>8. ASSUME NEW g \in IDs, TakeOver(g) PROVE AlertsTyped'
  <2> DEFINE dropped == RuleIDs(groups[g]) \ RuleIDs(received[g])
  <2>1. FiringOf(g, dropped) \in SUBSET Instance
    BY DEF FiringOf
  <2>2. history' \in [Instance -> Row] /\ state' \in [Instance -> Enum]
    BY <1>8, <2>1, ResolveTyped DEF TakeOver, updateWith
  <2>3. alerts' \in [IDs -> [Instance -> MemStates]]
    BY <1>8 DEF TakeOver, updateWith, MemStates
  <2>4. DOMAIN groups' = DOMAIN groups
    BY <1>8 DEF TakeOver, updateWith
  <2> QED BY <1>8, <2>2, <2>3, <2>4 DEF TakeOver, file_vars, main_vars
<1> QED BY <1>1, <1>2, <1>3, <1>4, <1>5, <1>6, <1>7, <1>8 DEF Next
\* An updated group has the rules of the new one, by ID.
LEMMA UpdatedIDs ==
    ASSUME NEW g \in DOMAIN groups, NEW ng, updateWith(g, ng)
    PROVE  /\ DOMAIN groups' = DOMAIN groups
           /\ RuleIDs(groups'[g]) = RuleIDs(ng)
           /\ \A h \in DOMAIN groups : h # g => groups'[h] = groups[h]
<1> DEFINE newRules == [id \in RuleIDs(ng) |-> CHOOSE r \in ng.rules : r.id = id]
<1>1. groups' = [groups EXCEPT ![g] = [rules    |-> {newRules[id] : id \in RuleIDs(ng)},
                                       checksum |-> ng.checksum]]
  BY DEF updateWith
<1>2. \A id \in RuleIDs(ng) : newRules[id].id = id
  BY DEF RuleIDs
<1>3. RuleIDs(groups'[g]) = RuleIDs(ng)
  <2>1. groups'[g].rules = {newRules[id] : id \in RuleIDs(ng)}
    BY <1>1
  <2> HIDE DEF newRules
  <2>2. RuleIDs(groups'[g]) = {r.id : r \in groups'[g].rules}
    BY DEF RuleIDs
  <2>3. \A id \in RuleIDs(ng) : id \in RuleIDs(groups'[g])
    BY <1>2, <2>1, <2>2
  <2>4. \A id \in RuleIDs(groups'[g]) : id \in RuleIDs(ng)
    BY <1>2, <2>1, <2>2
  <2> QED BY <2>3, <2>4
<1> QED BY <1>1, <1>3

\* A step of a reload leaves an instance of a rule that stays as it is.
LEMMA UpdatedAlerts ==
    ASSUME AlertsTyped, NEW g \in DOMAIN groups, NEW ng, updateWith(g, ng)
    PROVE  \A h \in IDs, i \in Instance :
              alerts'[h][i] = IF h = g /\ RuleOf(i) \in RuleIDs(groups[g]) \ RuleIDs(ng)
                              THEN "none" ELSE alerts[h][i]
BY DEF AlertsTyped, updateWith

\* No instance is in a group that does not run its rule.
LEMMA HeldStep ==
    ASSUME AlertsTyped, HeldByRules, [Next]_vars
    PROVE  HeldByRules'
<1> USE DEF HeldByRules, AlertsTyped
<1>1. CASE UNCHANGED vars
  BY <1>1 DEF vars, instance_vars
<1>2. ASSUME NEW c \in Contents, Edit(c) PROVE HeldByRules'
  BY <1>2 DEF Edit, instance_vars
<1>3. CASE Start
  BY <1>3 DEF Start, Restored
<1>4. CASE Shutdown
  BY <1>4 DEF Shutdown, Nothing
<1>5. ASSUME NEW g \in IDs, Eval(g) PROVE HeldByRules'
  BY <1>5, EvalDoes
<1>6. CASE Reload
  BY <1>6 DEF Reload, instance_vars
<1>7. CASE reloadGroups
  <2>1. ASSUME NEW g \in IDs, RemoveGroup(g) PROVE HeldByRules'
    BY <2>1 DEF RemoveGroup, Nothing
  <2>2. ASSUME NEW g \in IDs, KeepGroup(g) \/ UpdateGroup(g) PROVE HeldByRules'
    BY <2>2 DEF KeepGroup, UpdateGroup, TakeUp, instance_vars
  <2>3. ASSUME NEW g \in IDs, StartGroup(g) PROVE HeldByRules'
    BY <2>3 DEF StartGroup, TakeUp, instance_vars
  <2>4. CASE NoneToRemove \/ UpdateWith \/ ReloadDone
    BY <2>4 DEF NoneToRemove, UpdateWith, ReloadDone, instance_vars
  <2> QED BY <1>7, <2>1, <2>2, <2>3, <2>4 DEF reloadGroups
<1>8. ASSUME NEW g \in IDs, TakeOver(g) PROVE HeldByRules'
  BY <1>8, UpdatedIDs, UpdatedAlerts DEF TakeOver
<1> QED BY <1>1, <1>2, <1>3, <1>4, <1>5, <1>6, <1>7, <1>8 DEF Next

\* There are finitely many states an instance can be saved in.
LEMMA StatesFinite == IsFiniteSet(Enum)
<1>1. IsFiniteSet({"none"}) /\ IsFiniteSet({"inactive"})
  BY FS_Singleton
<1>2. IsFiniteSet({"pending"}) /\ IsFiniteSet({"firing"})
  BY FS_Singleton
<1>3. Enum = ({"none"} \cup {"inactive"}) \cup ({"pending"} \cup {"firing"})
  BY DEF Enum
<1> QED BY <1>1, <1>2, <1>3, FS_Union

LEMMA HoldingTyped ==
    ASSUME AlertsTyped, NEW i \in Instance
    PROVE  Holding(i) \subseteq Enum
<1>1. \A g \in DOMAIN groups : alerts[g][i] \in MemStates
  BY DEF AlertsTyped
<1> QED BY <1>1 DEF Holding, MemStates, Enum

\* Of the states that groups hold an instance in there are no two, or it is
\* ambiguous.
LEMMA HoldingOne ==
    ASSUME AlertsTyped, NEW i \in Instance, NEW s \in Holding(i), Cardinality(Holding(i)) <= 1
    PROVE  Holding(i) = {s}
<1>1. Holding(i) \subseteq Enum
  BY HoldingTyped
<1>3. IsFiniteSet(Holding(i))
  BY <1>1, StatesFinite, FS_Subset
<1>4. SUFFICES ASSUME NEW t \in Holding(i), t # s PROVE FALSE
  OBVIOUS
<1>5. IsFiniteSet(Holding(i) \ {s}) /\ Cardinality(Holding(i) \ {s}) = Cardinality(Holding(i)) - 1
  BY <1>3, FS_RemoveElement
<1>6. Cardinality(Holding(i)) \in Nat /\ Cardinality(Holding(i) \ {s}) \in Nat
  BY <1>3, <1>5, FS_CardinalityType
<1>7. Cardinality(Holding(i) \ {s}) = 0
  BY <1>5, <1>6
<1>8. Holding(i) \ {s} = {}
  BY <1>5, <1>7, FS_EmptySet
<1> QED BY <1>4, <1>8
-------------------------------------------------------------------------------
\* Every step hands an instance whose history says firing to a group that
\* holds it, to the saved state, or resolves it.
LEMMA FiringStep ==
    ASSUME AlertsTyped, HeldByRules, NoFiringIsOrphaned, [Next]_vars
    PROVE  NoFiringIsOrphaned'
<1> USE DEF AlertsTyped
<1> SUFFICES ASSUME NEW i \in Instance, history'[i] = "firing", i \notin ambiguous'
             PROVE  IF pc' = "down" THEN state'[i] = "firing"
                    ELSE \E g \in DOMAIN groups' : alerts'[g][i] = "firing"
  BY DEF NoFiringIsOrphaned
<1>1. CASE UNCHANGED vars
  BY <1>1 DEF vars, main_vars, instance_vars, saved_vars, NoFiringIsOrphaned
<1>2. ASSUME NEW c \in Contents, Edit(c)
      PROVE  IF pc' = "down" THEN state'[i] = "firing"
             ELSE \E g \in DOMAIN groups' : alerts'[g][i] = "firing"
  BY <1>2 DEF Edit, main_vars, instance_vars, saved_vars, NoFiringIsOrphaned
<1>3. CASE Start
  <2>1. Unclaimed(groups') \in SUBSET Instance
    BY DEF Unclaimed, LoadActive
  <2>2. i \notin Unclaimed(groups') /\ history[i] = "firing"
    BY <1>3, <2>1, ResolveTyped DEF Start
  <2>3. state[i] = "firing"
    BY <1>3, <2>2 DEF Start, NoFiringIsOrphaned
  <2>4. PICK g \in DOMAIN groups' : RuleOf(i) \in RuleIDs(groups'[g])
    BY <2>2, <2>3 DEF Unclaimed, LoadActive, Claimed
  <2>5. g \in IDs
    BY <1>3, <2>4, RegistryDeclared DEF Start
  <2> QED BY <1>3, <2>3, <2>4, <2>5 DEF Start, Restored, LoadActive
<1>4. CASE Shutdown
  <2>1. PICK g \in DOMAIN groups : alerts[g][i] = "firing"
    BY <1>4 DEF Shutdown, NoFiringIsOrphaned
  <2>2. "firing" \in Holding(i)
    BY <2>1 DEF Holding
  <2>3. ~(Cardinality(Holding(i)) > 1)
    BY <1>4 DEF Shutdown
  <2>4. Cardinality(Holding(i)) \in Nat
    BY HoldingTyped, StatesFinite, FS_Subset, FS_CardinalityType
  <2>5. Holding(i) = {"firing"}
    BY <2>2, <2>3, <2>4, HoldingOne
  <2> QED BY <1>4, <2>5 DEF Shutdown
<1>5. ASSUME NEW g \in IDs, Eval(g)
      PROVE  pc' # "down" /\ \E h \in DOMAIN groups' : alerts'[h][i] = "firing"
  <2>1. groups' = groups /\ pc # "down" /\ pc' = pc /\ ambiguous' = ambiguous
    BY <1>5 DEF Eval, main_vars, saved_vars
  <2>2. g \in DOMAIN groups
    BY <1>5, EvalDoes
  <2>3. CASE alerts'[g][i] = "firing"
    BY <2>1, <2>2, <2>3
  <2>4. CASE alerts'[g][i] # "firing"
    <3>1. history[i] = "firing" /\ alerts[g][i] # "firing"
      BY <1>5, <2>4, EvalDoes
    <3>2. PICK h \in DOMAIN groups : alerts[h][i] = "firing"
      BY <2>1, <3>1 DEF NoFiringIsOrphaned
    <3>3. h # g /\ h \in IDs
      BY <3>1, <3>2
    <3>4. alerts'[h][i] = "firing"
      BY <1>5, <3>2, <3>3, EvalDoes
    <3> QED BY <2>1, <3>2, <3>4
  <2> QED BY <2>3, <2>4
<1>6. CASE Reload
  BY <1>6 DEF Reload, instance_vars, saved_vars, NoFiringIsOrphaned
<1> DEFINE Kept == pc' # "down" /\ \E g \in DOMAIN groups' : alerts'[g][i] = "firing"
<1>7. ASSUME reloadGroups PROVE Kept
  <2>1. ASSUME NEW g \in IDs, RemoveGroup(g) PROVE Kept
    <3>1. FiringOf(g, RuleIDs(groups[g])) \in SUBSET Instance
      BY DEF FiringOf
    <3>2. i \notin FiringOf(g, RuleIDs(groups[g])) /\ history[i] = "firing"
      BY <2>1, <3>1, ResolveTyped DEF RemoveGroup
    <3>3. PICK h \in DOMAIN groups : alerts[h][i] = "firing"
      BY <2>1, <3>2 DEF RemoveGroup, saved_vars, NoFiringIsOrphaned
    <3>4. h # g
      BY <3>2, <3>3 DEF FiringOf, HeldByRules
    <3> QED BY <2>1, <3>3, <3>4 DEF RemoveGroup, main_vars
  <2>2. ASSUME NEW g \in IDs, KeepGroup(g) \/ UpdateGroup(g) PROVE Kept
    BY <2>2 DEF KeepGroup, UpdateGroup, TakeUp, instance_vars, saved_vars, NoFiringIsOrphaned
  <2>3. ASSUME NEW g \in IDs, StartGroup(g) PROVE Kept
    BY <2>3 DEF StartGroup, TakeUp, instance_vars, saved_vars, NoFiringIsOrphaned
  <2>4. CASE NoneToRemove \/ UpdateWith \/ ReloadDone
    BY <2>4 DEF NoneToRemove, UpdateWith, ReloadDone, instance_vars, saved_vars, NoFiringIsOrphaned
  <2> QED BY <1>7, <2>1, <2>2, <2>3, <2>4 DEF reloadGroups
<1>8. ASSUME NEW g \in IDs, TakeOver(g) PROVE Kept
  <2> DEFINE ng == received[g]
             dropped == RuleIDs(groups[g]) \ RuleIDs(ng)
  <2>1. g \in DOMAIN groups /\ pc # "down" /\ pc' = pc /\ ambiguous' = ambiguous
    BY <1>8 DEF TakeOver, main_vars, saved_vars
  <2>2. FiringOf(g, dropped) \in SUBSET Instance
    BY DEF FiringOf
  <2>3. i \notin FiringOf(g, dropped) /\ history[i] = "firing"
    BY <1>8, <2>2, ResolveTyped DEF TakeOver, updateWith
  <2>4. PICK h \in DOMAIN groups : alerts[h][i] = "firing"
    BY <2>1, <2>3 DEF NoFiringIsOrphaned
  <2>5. ~(h = g /\ RuleOf(i) \in dropped)
    BY <2>3, <2>4 DEF FiringOf
  <2>6. alerts'[h][i] = "firing" /\ DOMAIN groups' = DOMAIN groups
    BY <1>8, <2>1, <2>4, <2>5, UpdatedAlerts, UpdatedIDs DEF TakeOver
  <2> QED BY <2>1, <2>4, <2>6
<1> QED BY <1>1, <1>2, <1>3, <1>4, <1>5, <1>6, <1>7, <1>8 DEF Next

\* Between a shutdown and a start the state is what the shutdown saved.
LEMMA SavedStep ==
    ASSUME AlertsTyped, HeldIsSaved, [Next]_vars
    PROVE  HeldIsSaved'
<1> USE DEF HeldIsSaved, AlertsTyped
<1>1. CASE UNCHANGED vars
  BY <1>1 DEF vars, main_vars, instance_vars, saved_vars
<1>2. CASE Shutdown
  <2>1. ASSUME NEW i \in Instance, NEW s \in Enum, held'[i] = {s} PROVE state'[i] = s
    BY <1>2, <2>1 DEF Shutdown
  <2> QED BY <2>1
<1>3. ASSUME NEW c \in Contents, Edit(c) PROVE HeldIsSaved'
  BY <1>3 DEF Edit, main_vars, instance_vars, saved_vars
<1>4. CASE Start
  BY <1>4 DEF Start
<1>5. ASSUME NEW g \in IDs, Eval(g) \/ TakeOver(g) PROVE HeldIsSaved'
  <2>1. g \in DOMAIN groups /\ pc' = pc
    BY <1>5 DEF Eval, TakeOver, main_vars
  <2> QED BY <2>1
<1>6. CASE Reload
  BY <1>6 DEF Reload
<1>7. CASE reloadGroups
  BY <1>7 DEF reloadGroups, RemoveGroup, KeepGroup, UpdateGroup, UpdateWith, StartGroup, TakeUp,
         NoneToRemove, ReloadDone, main_vars
<1> QED BY <1>1, <1>2, <1>3, <1>4, <1>5, <1>6, <1>7 DEF Next

\* In every reachable state groups hold what their rules hold.
THEOREM HeldCorrect == Spec => [](AlertsTyped /\ HeldByRules)
<1>1. Init => AlertsTyped /\ HeldByRules
  BY DEF Init, AlertsTyped, HeldByRules, Nothing, MemStates, Enum, Row
<1>2. AlertsTyped /\ HeldByRules /\ [Next]_vars => AlertsTyped' /\ HeldByRules'
  BY TypedStep, HeldStep
<1> QED BY <1>1, <1>2, PTL DEF Spec

\* Whatever moves, is renamed, split, relabelled or removed, in a reload or
\* between two processes: no instance's history says firing without a group
\* that holds it or a saved row that does, unless a shutdown saved rows of two
\* states of it (retire.go:12-26, group.go:454-457, main.go:414-424).
THEOREM NeverOrphaned == Spec => []NoFiringIsOrphaned
<1>1. Init => NoFiringIsOrphaned
  BY DEF Init, NoFiringIsOrphaned, Nothing
<1>2. AlertsTyped /\ HeldByRules /\ NoFiringIsOrphaned /\ [Next]_vars => NoFiringIsOrphaned'
  BY FiringStep
<1> QED BY <1>1, <1>2, HeldCorrect, PTL DEF Spec

\* A restart takes up what was pending or firing at the shutdown in every group
\* that has the rule by then, however the groups were rearranged
\* (main.go:240-244).
THEOREM RestartKeeps == Spec => RestartKeepsHeld
<1>1. Init => HeldIsSaved
  BY DEF Init, HeldIsSaved
<1>2. AlertsTyped /\ HeldIsSaved /\ [Next]_vars => HeldIsSaved'
  BY SavedStep
<1>3. ASSUME AlertsTyped, HeldIsSaved, Start, NEW i \in Instance,
             NEW s \in {"pending", "firing"}, held[i] = {s},
             NEW g \in DOMAIN groups', RuleOf(i) \in RuleIDs(groups'[g])
      PROVE  alerts'[g][i] = s
  <2>1. g \in IDs
    BY <1>3, RegistryDeclared DEF Start, AlertsTyped
  <2>2. state[i] = s
    BY <1>3 DEF Start, HeldIsSaved, Enum
  <2> QED BY <1>3, <2>1, <2>2 DEF Start, Restored, LoadActive
<1>4. AlertsTyped /\ HeldIsSaved /\ [Next]_vars =>
        [ Start => \A i \in Instance, s \in {"pending", "firing"} : held[i] = {s} =>
            \A g \in DOMAIN groups' :
                RuleOf(i) \in RuleIDs(groups'[g]) => alerts'[g][i] = s ]_vars
  BY <1>3
<1> QED BY <1>1, <1>2, <1>4, HeldCorrect, PTL DEF Spec, RestartKeepsHeld
-------------------------------------------------------------------------------
(***************************************************************************)
(* The registry of a content, and the groups that run.                     *)
(***************************************************************************)

\* Some position is the last.
LEMMA LastOf ==
    ASSUME NEW N \in Nat, NEW T \in SUBSET (1..N), T # {}
    PROVE  \E m \in T : \A n \in T : n <= m
<1> DEFINE R == OpToRel(<, Nat)
           U == {N - n : n \in T}
<1>1. IsWellFoundedOn(R, Nat)
  BY NatLessThanWellFounded
<1>2. U \subseteq Nat /\ U # {}
  <2>1. \A n \in T : N - n \in Nat
    OBVIOUS
  <2> QED BY <2>1
<1> HIDE DEF R
<1>3. \E x \in U : \A y \in U : ~ (<<y, x>> \in R)
  <2> HIDE DEF U
  <2> QED BY <1>1, <1>2, WFMin
<1>4. PICK m \in T : \A n \in T : ~ (<<N - n, N - m>> \in R)
  BY <1>3
<1>5. ASSUME NEW n \in T PROVE n <= m
  <2>1. N - n \in Nat /\ N - m \in Nat
    OBVIOUS
  <2>2. N - n < N - m => <<N - n, N - m>> \in R
    BY <2>1 DEF R, OpToRel
  <2> QED BY <1>4, <2>1, <2>2
<1> QED BY <1>5

\* Position n of a content is the last with its group ID.
IsLast(c, n) ==
    /\ n \in DOMAIN c
    /\ \A m \in DOMAIN c : GroupID(c[m]) = GroupID(c[n]) => m <= n

\* Of groups with one ID the last one is registered.
LEMMA RegisteredLast ==
    ASSUME NEW c \in Contents, NEW n, IsLast(c, n)
    PROVE  Registry(c)[GroupID(c[n])] = NewGroup(c[n])
<1> DEFINE id == GroupID(c[n])
           Last(k) == /\ GroupID(c[k]) = id
                      /\ \A m \in DOMAIN c : GroupID(c[m]) = id => m <= k
<1>1. DOMAIN c \subseteq Int
  BY GroupsAssumption
<1>2. \A k \in DOMAIN c : Last(k) => k = n
  BY <1>1 DEF IsLast
<1>3. n \in DOMAIN c /\ Last(n)
  BY DEF IsLast
<1>4. (CHOOSE k \in DOMAIN c : Last(k)) = n
  BY <1>2, <1>3
<1>5. Registry(c)[id] = NewGroup(c[CHOOSE k \in DOMAIN c : Last(k)])
  BY <1>3 DEF Registry
<1> QED BY <1>4, <1>5

\* Every registered group is one of the content.
LEMMA RegisteredIsDeclared ==
    ASSUME NEW c \in Contents, NEW g \in DOMAIN Registry(c)
    PROVE  \E n : IsLast(c, n) /\ GroupID(c[n]) = g
<1> DEFINE T == {n \in DOMAIN c : GroupID(c[n]) = g}
<1>1. T # {}
  BY DEF Registry
<1>2. Len(c) \in Nat /\ T \in SUBSET (1..Len(c))
  BY GroupsAssumption
<1> HIDE DEF T
<1>3. PICK m \in T : \A n \in T : n <= m
  BY <1>1, <1>2, LastOf
<1> QED BY <1>3 DEF T, IsLast

\* A registered group was built from a declared one, whose rules an accepted
\* content tells apart by their IDs.
LEMMA RegisteredGroup ==
    ASSUME NEW c \in Contents, NEW g \in DOMAIN Registry(c)
    PROVE  /\ \E d \in Declared : Registry(c)[g] = NewGroup(d)
           /\ Accepted(c) => \A r, s \in Registry(c)[g].rules : r.id = s.id => r = s
<1>1. PICK n : IsLast(c, n) /\ GroupID(c[n]) = g
  BY RegisteredIsDeclared
<1>2. Registry(c)[g] = NewGroup(c[n])
  BY <1>1, RegisteredLast
<1>3. n \in DOMAIN c /\ c[n] \in Declared
  BY <1>1 DEF IsLast, Declared
<1>4. ASSUME Accepted(c), NEW r \in NewRules(c[n]), NEW s \in NewRules(c[n]), r.id = s.id
      PROVE  r = s
  <2>1. \A k, m \in DOMAIN c[n].rules :
           hashRuleWithExprHash(c[n].rules[k]) = hashRuleWithExprHash(c[n].rules[m]) => k = m
    BY <1>3, <1>4 DEF Accepted, Normalizes, Unique
  <2> QED BY <1>4, <2>1 DEF NewRules
<1>5. Registry(c)[g].rules = NewRules(c[n])
  BY <1>2 DEF NewGroup
<1> QED BY <1>2, <1>3, <1>4, <1>5
\* The observers and counters, and the groups as they were built.
TypedRest ==
    /\ edits \in 0..MaxEdits /\ runs \in 0..MaxRuns
    /\ pc \in {"down", "select", "remove", "update", "offer"}
    /\ todo \subseteq IDs
    /\ held \in [Instance -> SUBSET Enum]
    /\ ambiguous \subseteq Instance /\ raced \subseteq DOMAIN groups

Built ==
    /\ \A g \in DOMAIN groups : \E d \in Declared : groups[g] = NewGroup(d)
    /\ \A g \in DOMAIN received : \E d \in Declared : received[g] = NewGroup(d)

\* The rules of a group have one ID each.
OneEach(ng) == \A r, s \in ng.rules : r.id = s.id => r = s

\* What a group will run.
Coming(g) == IF g \in DOMAIN received THEN received[g] ELSE groups[g]

\* How far a reload has brought the groups to what it loaded.
GroupsAgree ==
    /\ pc # "down" => Accepted(loaded)
    /\ \A g \in DOMAIN received : OneEach(received[g])
    /\ pc = "select" => DOMAIN groups = DOMAIN Registry(loaded)
    /\ pc = "select" => \A g \in DOMAIN groups \ raced : Coming(g) = Registry(loaded)[g]
    /\ pc \in {"update", "offer"} =>
          /\ DOMAIN groups \subseteq DOMAIN Registry(loaded)
          /\ todo \subseteq DOMAIN Registry(loaded)
          /\ \A g \in DOMAIN Registry(loaded) \ todo :
                /\ g \in DOMAIN groups
                /\ (pc = "offer" /\ g = cur) \/ g \in raced \/ Coming(g) = Registry(loaded)[g]

\* An unchanged checksum is an unchanged group.
LEMMA ChecksumTells ==
    ASSUME NEW d, NEW e, NewGroup(d).checksum = NewGroup(e).checksum
    PROVE  NewGroup(d) = NewGroup(e)
<1>1. d.labels = e.labels /\ d.rules = e.rules /\ Checksum(d) = Checksum(e)
  BY DEF NewGroup, Checksum
<1>2. NewRules(d) = NewRules(e)
  BY <1>1 DEF NewRules
<1> QED BY <1>1, <1>2 DEF NewGroup

\* An updated group is the new one.
LEMMA UpdatedGroup ==
    ASSUME NEW g \in DOMAIN groups, NEW d, updateWith(g, NewGroup(d)),
           \A r, s \in NewGroup(d).rules : r.id = s.id => r = s
    PROVE  /\ DOMAIN groups' = DOMAIN groups
           /\ \A h \in DOMAIN groups : groups'[h] = IF h = g THEN NewGroup(d) ELSE groups[h]
<1> DEFINE ng == NewGroup(d)
           newRules == [id \in RuleIDs(ng) |-> CHOOSE r \in ng.rules : r.id = id]
           rules == {newRules[id] : id \in RuleIDs(ng)}
<1>1. groups' = [groups EXCEPT ![g] = [rules |-> rules, checksum |-> ng.checksum]]
  BY DEF updateWith
<1>2. \A r \in ng.rules : r.id \in RuleIDs(ng) /\ newRules[r.id] = r
  BY DEF RuleIDs
<1>3. \A id \in RuleIDs(ng) : newRules[id] \in ng.rules
  BY DEF RuleIDs
<1>4. rules = ng.rules
  <2> HIDE DEF newRules
  <2> QED BY <1>2, <1>3
<1>5. [rules |-> ng.rules, checksum |-> ng.checksum] = ng
  BY DEF NewGroup
<1> QED BY <1>1, <1>4, <1>5

\* Bounds, control and observers, step by step.
LEMMA RestStep ==
    ASSUME AlertsTyped, TypedRest, [Next]_vars
    PROVE  TypedRest'
<1> USE GroupsAssumption DEF TypedRest, AlertsTyped
<1>1. CASE UNCHANGED vars
  BY <1>1 DEF vars, file_vars, main_vars, saved_vars
<1>2. ASSUME NEW c \in Contents, Edit(c) PROVE TypedRest'
  BY <1>2 DEF Edit, main_vars, saved_vars
<1>3. CASE Start
  BY <1>3 DEF Start, file_vars
<1>4. CASE Shutdown
  <2>1. \A i \in Instance : Holding(i) \subseteq Enum
    BY HoldingTyped
  <2> QED BY <1>4, <2>1 DEF Shutdown, file_vars
<1>5. ASSUME NEW g \in IDs, Eval(g) PROVE TypedRest'
  BY <1>5 DEF Eval, file_vars, main_vars, saved_vars
<1>6. CASE Reload
  BY <1>6 DEF Reload, file_vars, saved_vars
<1>7. CASE reloadGroups
  <2>1. DOMAIN Registry(loaded) \subseteq IDs
    BY RegistryDeclared
  <2>2. ASSUME NEW g \in IDs, RemoveGroup(g) PROVE TypedRest'
    BY <2>2 DEF RemoveGroup, file_vars, main_vars, saved_vars
  <2>3. ASSUME NEW g \in IDs, KeepGroup(g) PROVE TypedRest'
    BY <2>3 DEF KeepGroup, TakeUp, file_vars, saved_vars
  <2>4. ASSUME NEW g \in IDs, UpdateGroup(g) PROVE TypedRest'
    BY <2>4 DEF UpdateGroup, TakeUp, file_vars, saved_vars
  <2>5. ASSUME NEW g \in IDs, StartGroup(g) PROVE TypedRest'
    BY <2>5 DEF StartGroup, TakeUp, file_vars, saved_vars
  <2>6. CASE NoneToRemove \/ UpdateWith \/ ReloadDone
    BY <2>1, <2>6 DEF NoneToRemove, UpdateWith, ReloadDone, file_vars, saved_vars
  <2> QED BY <1>7, <2>2, <2>3, <2>4, <2>5, <2>6 DEF reloadGroups
<1>8. ASSUME NEW g \in IDs, TakeOver(g) PROVE TypedRest'
  <2>1. DOMAIN groups' = DOMAIN groups
    BY <1>8 DEF TakeOver, updateWith
  <2> QED BY <1>8, <2>1 DEF TakeOver, file_vars, main_vars, saved_vars
<1> QED BY <1>1, <1>2, <1>3, <1>4, <1>5, <1>6, <1>7, <1>8 DEF Next

\* A group takes over what it received, whole.
LEMMA TakenOver ==
    ASSUME AlertsTyped, Built, GroupsAgree, NEW g \in IDs, TakeOver(g)
    PROVE  /\ DOMAIN groups' = DOMAIN groups
           /\ \A h \in DOMAIN groups :
                 groups'[h] = IF h = g THEN received[g] ELSE groups[h]
           /\ DOMAIN received' = DOMAIN received \ {g}
           /\ \A h \in DOMAIN received' : received'[h] = received[h]
<1>1. g \in DOMAIN received /\ g \in DOMAIN groups
  BY DEF TakeOver, AlertsTyped
<1>2. PICK d \in Declared : received[g] = NewGroup(d)
  BY <1>1 DEF Built
<1>3. \A r, s \in NewGroup(d).rules : r.id = s.id => r = s
  BY <1>1, <1>2 DEF GroupsAgree, OneEach
<1>4. /\ DOMAIN groups' = DOMAIN groups
      /\ \A h \in DOMAIN groups : groups'[h] = IF h = g THEN NewGroup(d) ELSE groups[h]
  BY <1>1, <1>2, <1>3, UpdatedGroup DEF TakeOver
<1> QED BY <1>2, <1>4 DEF TakeOver

\* Every group stays one that was declared, and a reload brings each to what
\* it loaded.
LEMMA AgreeStep ==
    ASSUME AlertsTyped, Built, GroupsAgree, [Next]_vars
    PROVE  Built' /\ GroupsAgree'
<1> USE DEF AlertsTyped, Built, GroupsAgree, OneEach, Coming
<1>1. CASE UNCHANGED vars
  BY <1>1 DEF vars, main_vars
<1>2. ASSUME NEW c \in Contents, Edit(c) PROVE Built' /\ GroupsAgree'
  BY <1>2 DEF Edit, main_vars
<1>3. CASE Start
  BY <1>3, RegisteredGroup DEF Start
<1>4. CASE Shutdown
  BY <1>4 DEF Shutdown
<1>5. ASSUME NEW g \in IDs, Eval(g) PROVE Built' /\ GroupsAgree'
  BY <1>5 DEF Eval, main_vars
<1>6. CASE Reload
  BY <1>6 DEF Reload
<1>7. CASE reloadGroups
  <2>1. ASSUME NEW g \in IDs, RemoveGroup(g) PROVE Built' /\ GroupsAgree'
    BY <2>1 DEF RemoveGroup, main_vars
  <2>2. ASSUME NEW g \in IDs, KeepGroup(g) PROVE Built' /\ GroupsAgree'
    <3>1. groups[g] = Registry(loaded)[g]
      <4>1. PICK d \in Declared : groups[g] = NewGroup(d)
        BY <2>2 DEF KeepGroup
      <4>2. PICK e \in Declared : Registry(loaded)[g] = NewGroup(e)
        BY <2>2, RegisteredGroup DEF KeepGroup, TakeUp
      <4> QED BY <2>2, <4>1, <4>2, ChecksumTells DEF KeepGroup
    <3>2. g \in raced' \/ Coming(g) = Registry(loaded)[g]
      BY <2>2, <3>1 DEF KeepGroup, Racing
    <3> QED BY <2>2, <3>2 DEF KeepGroup, TakeUp
  <2>3. ASSUME NEW g \in IDs, UpdateGroup(g) PROVE Built' /\ GroupsAgree'
    BY <2>3 DEF UpdateGroup, TakeUp
  <2>4. ASSUME NEW g \in IDs, StartGroup(g) PROVE Built' /\ GroupsAgree'
    <3>1. g \notin DOMAIN received
      BY <2>4 DEF StartGroup
    <3> QED BY <2>4, <3>1, RegisteredGroup DEF StartGroup, TakeUp
  <2>5. CASE UpdateWith
    <3>1. cur \in DOMAIN Registry(loaded) /\ Accepted(loaded)
      BY <2>5 DEF UpdateWith
    <3>2. /\ \E d \in Declared : Registry(loaded)[cur] = NewGroup(d)
          /\ OneEach(Registry(loaded)[cur])
      BY <3>1, RegisteredGroup
    <3> QED BY <2>5, <3>1, <3>2 DEF UpdateWith
  <2>6. CASE NoneToRemove
    BY <2>6 DEF NoneToRemove
  <2>7. CASE ReloadDone
    BY <2>7 DEF ReloadDone
  <2> QED BY <1>7, <2>1, <2>2, <2>3, <2>4, <2>5, <2>6, <2>7 DEF reloadGroups
<1>8. ASSUME NEW g \in IDs, TakeOver(g) PROVE Built' /\ GroupsAgree'
  <2>1. /\ DOMAIN groups' = DOMAIN groups
        /\ \A h \in DOMAIN groups : groups'[h] = IF h = g THEN received[g] ELSE groups[h]
        /\ DOMAIN received' = DOMAIN received \ {g}
        /\ \A h \in DOMAIN received' : received'[h] = received[h]
    BY <1>8, TakenOver
  <2>2. \A h \in DOMAIN groups : Coming(h)' = Coming(h)
    BY <1>8, <2>1 DEF TakeOver
  <2>3. main_vars' = main_vars /\ raced' = raced /\ g \in DOMAIN received
    BY <1>8 DEF TakeOver
  <2> QED BY <2>1, <2>2, <2>3 DEF main_vars
<1> QED BY <1>1, <1>2, <1>3, <1>4, <1>5, <1>6, <1>7, <1>8 DEF Next

\* The groups that run are declared, and between reloads they are, or are about
\* to be, those of the loaded content, but for those that a reload raced with.
THEOREM GroupsCorrect == Spec => [](AlertsTyped /\ TypedRest /\ Built /\ GroupsAgree)
<1>1. Init => TypedRest /\ Built /\ GroupsAgree
  BY GroupsAssumption DEF Init, TypedRest, Built, GroupsAgree
<1>2. AlertsTyped /\ TypedRest /\ Built /\ GroupsAgree /\ [Next]_vars
        => TypedRest' /\ Built' /\ GroupsAgree'
  BY RestStep, AgreeStep
<1> QED BY <1>1, <1>2, HeldCorrect, PTL DEF Spec

\* The variables of groups, tables and rule files keep their types.
THEOREM TypesKept == Spec => []TypeOK
<1>1. AlertsTyped /\ TypedRest /\ Built => TypeOK
  BY DEF AlertsTyped, TypedRest, Built, TypeOK
<1> QED BY <1>1, GroupsCorrect, PTL

\* Between reloads the groups run, or are about to take over, what the loaded
\* content declares, but for those that a reload raced with: a checksum that is
\* equal hides no change, and IDs that are equal no rule.
THEOREM AlwaysRunsAsDeclared == Spec => []RunsAsDeclared
<1>1. AlertsTyped /\ GroupsAgree => RunsAsDeclared
  <2> SUFFICES ASSUME AlertsTyped, GroupsAgree, pc = "select"
               PROVE  RunsAsDeclared
    BY DEF RunsAsDeclared
  <2>1. DOMAIN groups = {GroupID(loaded[n]) : n \in DOMAIN loaded}
    BY DEF GroupsAgree, Registry
  <2>2. ASSUME NEW n \in DOMAIN loaded, GroupID(loaded[n]) \notin raced,
               \A m \in DOMAIN loaded : m > n => GroupID(loaded[m]) # GroupID(loaded[n])
        PROVE  Coming(GroupID(loaded[n])).rules = NewRules(loaded[n])
    <3>1. DOMAIN loaded \subseteq Int
      BY GroupsAssumption DEF AlertsTyped
    <3>2. IsLast(loaded, n)
      BY <2>2, <3>1 DEF IsLast
    <3>3. Registry(loaded)[GroupID(loaded[n])] = NewGroup(loaded[n])
      BY <3>2, RegisteredLast DEF AlertsTyped
    <3> QED BY <2>1, <2>2, <3>3 DEF GroupsAgree, NewGroup
  <2> QED BY <2>1, <2>2 DEF RunsAsDeclared, Coming
<1> QED BY <1>1, GroupsCorrect, PTL

\* A live update costs a rule that stays none of its instances: its identity
\* covers neither the text of its query nor anything of its group.
THEOREM StayingRulesKeepAlerts == Spec => RulesThatStayKeepAlerts
<1>1. ASSUME AlertsTyped, Built, GroupsAgree, NEW g \in IDs, TakeOver(g),
             NEW r \in groups[g].rules, NEW s \in groups'[g].rules, SameRule(r.rule, s.rule),
             NEW i \in Instance, RuleOf(i) = r.id
      PROVE  alerts'[g][i] = alerts[g][i]
  <2>1. g \in DOMAIN received /\ g \in DOMAIN groups /\ groups'[g] = received[g]
    BY <1>1, TakenOver DEF TakeOver, AlertsTyped
  <2>2. ASSUME NEW d, NEW q \in NewGroup(d).rules
        PROVE  q.id = hashRuleWithExprHash(q.rule) /\ q.rule.kind = "alerting"
    BY DEF NewGroup, NewRules
  <2>3. /\ r.id = hashRuleWithExprHash(r.rule) /\ r.rule.kind = "alerting"
        /\ s.id = hashRuleWithExprHash(s.rule) /\ s.rule.kind = "alerting"
    <3>1. PICK d \in Declared : groups[g] = NewGroup(d)
      BY <1>1, <2>1 DEF Built
    <3>2. PICK e \in Declared : received[g] = NewGroup(e)
      BY <1>1, <2>1 DEF Built
    <3> QED BY <1>1, <2>1, <2>2, <3>1, <3>2
  <2>4. r.id = s.id
    BY <1>1, <2>3 DEF SameRule, hashRuleWithExprHash
  <2>5. r.id \in RuleIDs(received[g])
    BY <2>1, <2>4 DEF RuleIDs
  <2> QED BY <1>1, <2>1, <2>5, UpdatedAlerts DEF TakeOver
<1>2. AlertsTyped /\ Built /\ GroupsAgree /\ [Next]_vars =>
        [ \A g \in IDs : TakeOver(g) =>
            \A r \in groups[g].rules, s \in groups'[g].rules : SameRule(r.rule, s.rule) =>
                \A i \in Instance : RuleOf(i) = r.id => alerts'[g][i] = alerts[g][i] ]_vars
  BY <1>1
<1> QED BY <1>2, GroupsCorrect, PTL DEF Spec, RulesThatStayKeepAlerts
==============================================================================
