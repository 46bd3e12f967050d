-------------------------------- MODULE Groups --------------------------------
(***************************************************************************)
(* Which rules run in which groups, and what a change of the rule files    *)
(* does to their instances: parsing, validation and identity of rules      *)
(* (config/config.go), NewGroup, updateWith and Unclaimed (rule/group.go), *)
(* the registry of groups at the start and in reloadGroups                 *)
(* (cmd/chalert/main.go).                                                  *)
(*                                                                         *)
(* Writes of the store succeed here and no rule exceeds its limit: failed  *)
(* writes, crashes, limits and retirements that wait are Recovery's and    *)
(* Retirements'.  A rule's query returns one row at most, so the rule's    *)
(* labels name its instance.                                               *)
(***************************************************************************)
EXTENDS Integers, Sequences, FiniteSets, ExecOutcomes

CONSTANTS
    Contents,       \* what the rule files can contain: sequences of groups
    normalizeExpr,  \* each query with its white space collapsed
    queryHash,      \* ClickHouse's normalizedQueryHashKeepNames of each query
    external,       \* -external.label: a set of <<key, value>>
    default,        \* -evaluationInterval, as a string
    MaxEdits,       \* bound: edits of the rule files
    MaxRuns         \* bound: starts of the process

ASSUME GroupsAssumption ==
    /\ \A c \in Contents : Len(c) \in Nat /\ DOMAIN c = 1..Len(c)
    /\ MaxEdits \in Nat /\ MaxRuns \in Nat

-------------------------------------------------------------------------------
(***************************************************************************)
(* Rules and groups of a content.  A label set is a set of <<key, value>>. *)
(***************************************************************************)

\* Mutant: the ID covers the text of the query, as it does before
\* normalization.
hashRuleWithExprHash_Text(r) == <<r.expr, r.kind, r.name, r.labels>>

\* The hashes of rules and labels are taken to be injective, those of
\* queries as the constants say.
HashRule(r) == <<normalizeExpr[r.expr], r.kind, r.name, r.labels>>

hashRuleWithExprHash(r) == <<queryHash[r.expr], r.kind, r.name, r.labels>>

\* Rule.Validate: alert or record is set, and not both.
ValidRule(r) == r.kind \in {"alerting", "recording"}

Unique(Hash(_), rules) ==
    \A m, n \in DOMAIN rules : Hash(rules[m]) = Hash(rules[n]) => m = n

\* Group.Validate.
ValidGroup(g) ==
    /\ g.name # <<>>
    /\ \A n \in DOMAIN g.rules : ValidRule(g.rules[n])
    /\ Unique(HashRule, g.rules)

\* parse: a group's name is unique in its file.
Parses(content) ==
    /\ \A n \in DOMAIN content : ValidGroup(content[n])
    /\ \A m, n \in DOMAIN content :
          content[m].file = content[n].file /\ content[m].name = content[n].name => m = n

\* Mutant: uniqueness is not checked again after the normalization.
Normalizes_Unchecked(content) == TRUE

\* NormalizeRuleIDs: the IDs of a group's rules are still unique.
Normalizes(content) ==
    \A n \in DOMAIN content : Unique(hashRuleWithExprHash, content[n].rules)

Accepted(content) == Parses(content) /\ Normalizes(content)

\* Labels of low that high does not set, and those of high.
Merged(low, high) == high \cup {l \in low : \A h \in high : h[1] # l[1]}

\* The hash of file, separator, name and interval: name and interval are
\* written one after the other.
GroupID(g) ==
    <<g.file, g.name \o (IF g.interval = <<>> THEN default ELSE g.interval)>>

\* NewGroup: recording rules are skipped; group and external labels complete
\* a rule's own after its ID was computed.
NewRules(g) ==
    { [ id     |-> hashRuleWithExprHash(g.rules[n]),
        rule   |-> g.rules[n],
        labels |-> Merged(Merged(external, g.labels), g.rules[n].labels) ] :
      n \in {k \in DOMAIN g.rules : g.rules[k].kind = "alerting"} }

\* Mutant: the checksum covers the rules and not the group's own fields.
Checksum_RulesOnly(g) == g.rules

\* The checksum of what the file says of a group, its file left out.
Checksum(g) == <<g.name, g.interval, g.labels, g.rules>>

NewGroup(g) == [rules |-> NewRules(g), checksum |-> Checksum(g)]

\* Of groups with one ID the last one is registered.
Registry(content) ==
    [ id \in {GroupID(content[n]) : n \in DOMAIN content} |->
        LET last == CHOOSE n \in DOMAIN content :
                       /\ GroupID(content[n]) = id
                       /\ \A m \in DOMAIN content : GroupID(content[m]) = id => m <= n
        IN  NewGroup(content[last]) ]

-------------------------------------------------------------------------------
Declared == UNION {{c[n] : n \in DOMAIN c} : c \in Contents}

IDs == {GroupID(g) : g \in Declared}

\* An instance: the ID of its rule and the rule's labels when it matched.
Instance == UNION {{<<r.id, r.labels>> : r \in NewRules(g)} : g \in Declared}

RuleOf(i) == i[1]

VARIABLES
    files,      \* the content of the rule files
    edits,      \* how often they were edited
    runs,       \* how often the process was started
    pc,         \* down, select, or the phase of reloadGroups
    loaded,     \* the content loaded last, or being loaded
    todo,       \* the groups of newRegistry not yet updated or started
    cur,        \* the group that is offered an update
    groups,     \* ruleGroups: each running group's rules and checksum
    received,   \* the update that a group has received and not taken over yet
    alerts,     \* the instances of each group
    state,      \* alert_state FINAL
    history,    \* the latest row of alert_history
    held,       \* observer: the states in which a shutdown saved each instance
    ambiguous,  \* observer: instances saved in two states at once
    raced       \* observer: groups compared while about to take over other rules

file_vars == <<files, edits>>
main_vars == <<runs, pc, loaded, todo, cur>>
instance_vars == <<alerts, state, history>>
saved_vars == <<held, ambiguous>>
vars == <<file_vars, main_vars, groups, received, instance_vars, saved_vars, raced>>

Enum == {"none", "inactive", "pending", "firing"}

Row == {"none", "inactive", "firing"}

Nothing == [i \in Instance |-> "none"]

RuleIDs(g) == {r.id : r \in g.rules}

TypeOK ==
    /\ files \in Contents /\ edits \in 0..MaxEdits /\ runs \in 0..MaxRuns
    /\ pc \in {"down", "select", "remove", "update", "offer"}
    /\ loaded \in Contents
    /\ todo \subseteq IDs
    /\ pc = "offer" => cur \in DOMAIN groups
    /\ DOMAIN groups \subseteq IDs /\ DOMAIN received \subseteq DOMAIN groups
    /\ \A g \in DOMAIN groups : groups[g] \in {NewGroup(d) : d \in Declared}
    /\ \A g \in DOMAIN received : received[g] \in {NewGroup(d) : d \in Declared}
    /\ alerts \in [IDs -> [Instance -> MemStates]]
    /\ state \in [Instance -> Enum] /\ history \in [Instance -> Row]
    /\ held \in [Instance -> SUBSET Enum]
    /\ ambiguous \subseteq Instance /\ raced \subseteq DOMAIN groups

Init ==
    /\ files \in {c \in Contents : Accepted(c)} /\ edits = 0 /\ runs = 0
    /\ pc = "down" /\ loaded = files /\ todo = {} /\ cur = "none"
    /\ groups = << >> /\ received = << >>
    /\ alerts = [g \in IDs |-> Nothing]
    /\ state = Nothing /\ history = Nothing
    /\ held = [i \in Instance |-> {}] /\ ambiguous = {} /\ raced = {}

\* The rule files are edited, whether chalert runs or not.
Edit(c) ==
    /\ edits < MaxEdits /\ c # files
    /\ files' = c /\ edits' = edits + 1
    /\ UNCHANGED <<main_vars, groups, received, instance_vars, saved_vars, raced>>

-------------------------------------------------------------------------------
\* What becomes of history and state when is are retired: those that fire
\* have their resolved rows written and are saved inactive.
Resolve(is) ==
    /\ history' = [i \in Instance |-> IF i \in is THEN "inactive" ELSE history[i]]
    /\ state' = [i \in Instance |-> IF i \in is THEN "inactive" ELSE state[i]]

FiringOf(g, rules) == {i \in Instance : RuleOf(i) \in rules /\ alerts[g][i] = "firing"}

LoadActive == {i \in Instance : state[i] \in {"pending", "firing"}}

\* The instances that a rule of a registered group restores.
Claimed(gs) == {i \in Instance : \E g \in DOMAIN gs : RuleOf(i) \in RuleIDs(gs[g])}

\* Mutant: a rule takes only the instances that bear the labels it has now.
Restored_SameLabels(gs, g) ==
    [i \in Instance |->
        IF g \in DOMAIN gs /\ (\E r \in gs[g].rules : i = <<r.id, r.labels>>) /\ i \in LoadActive
        THEN state[i] ELSE "none"]

\* RestoreState: a rule takes the loaded instances that bear its ID.
Restored(gs, g) ==
    [i \in Instance |->
        IF g \in DOMAIN gs /\ RuleOf(i) \in RuleIDs(gs[g]) /\ i \in LoadActive
        THEN state[i] ELSE "none"]

\* Unclaimed: the firing ones among the loaded that no rule restores.
Unclaimed(gs) == {i \in LoadActive \ Claimed(gs) : state[i] = "firing"}

\* The process starts: a content that is rejected ends it.
Start ==
    /\ pc = "down" /\ runs < MaxRuns
    /\ Accepted(files)
    /\ runs' = runs + 1 /\ pc' = "select" /\ loaded' = files
    /\ groups' = Registry(files)
    /\ alerts' = [g \in IDs |-> Restored(groups', g)]
    /\ Resolve(Unclaimed(groups'))
    /\ held' = [i \in Instance |-> {}]
    /\ UNCHANGED <<file_vars, todo, cur, received, ambiguous, raced>>

-------------------------------------------------------------------------------
\* The instances that a row can be, with the labels the rules have now.
Matchable(g) == {<<r.id, r.labels>> : r \in groups[g].rules}

\* An evaluation of a group: Exec of its rules, over their rows and their
\* instances, then RecordHistory.  A group that has received an update takes
\* it over first.
Eval(g) ==
    /\ pc # "down" /\ g \in DOMAIN groups \ DOMAIN received
    /\ \E f \in [Matchable(g) \cup {i \in Instance : alerts[g][i] # "none"} -> MemStates \X Row] :
          /\ \A i \in DOMAIN f : f[i] \in Evaluated(alerts[g][i], i \in Matchable(g))
          /\ alerts' = [alerts EXCEPT ![g] =
                [i \in Instance |-> IF i \in DOMAIN f THEN f[i][1] ELSE @[i]]]
          /\ history' = [i \in Instance |->
                IF i \in DOMAIN f /\ f[i][2] # "none" THEN f[i][2] ELSE history[i]]
    /\ UNCHANGED <<file_vars, main_vars, groups, received, state, saved_vars, raced>>

-------------------------------------------------------------------------------
(***************************************************************************)
(* A reload.                                                               *)
(***************************************************************************)

\* A rejected content changes nothing.
Reload ==
    /\ pc = "select" /\ files # loaded
    /\ Accepted(files)
    /\ pc' = "remove" /\ loaded' = files
    /\ UNCHANGED <<file_vars, runs, todo, cur, groups, received, instance_vars, saved_vars, raced>>

\* Mutant: a removed group is closed and not retired.
RemoveGroup_NoRetire(g) ==
    /\ pc = "remove" /\ g \in DOMAIN groups \ (DOMAIN Registry(loaded) \cup DOMAIN received)
    /\ groups' = [h \in DOMAIN groups \ {g} |-> groups[h]]
    /\ alerts' = [alerts EXCEPT ![g] = Nothing]
    /\ raced' = raced \ {g}
    /\ UNCHANGED <<file_vars, main_vars, received, state, history, saved_vars>>

\* Close and Retire of a group that newRegistry does not hold.  Close waits
\* for a received update to be taken over.
RemoveGroup(g) ==
    /\ pc = "remove" /\ g \in DOMAIN groups \ (DOMAIN Registry(loaded) \cup DOMAIN received)
    /\ groups' = [h \in DOMAIN groups \ {g} |-> groups[h]]
    /\ alerts' = [alerts EXCEPT ![g] = Nothing]
    /\ Resolve(FiringOf(g, RuleIDs(groups[g])))
    /\ raced' = raced \ {g}
    /\ UNCHANGED <<file_vars, main_vars, received, saved_vars>>

NoneToRemove ==
    /\ pc = "remove" /\ DOMAIN groups \subseteq DOMAIN Registry(loaded)
    /\ pc' = "update" /\ todo' = DOMAIN Registry(loaded)
    /\ UNCHANGED <<file_vars, runs, loaded, cur, groups, received, instance_vars, saved_vars, raced>>

TakeUp(g) ==
    /\ pc = "update" /\ g \in todo
    /\ todo' = todo \ {g}
    /\ UNCHANGED <<file_vars, runs, loaded, received, instance_vars, saved_vars>>

\* The group is about to take over other rules than those of the reload.
Racing(g) == g \in DOMAIN received /\ received[g] # Registry(loaded)[g]

\* The checksum compared is that of the rules the group runs, whatever update
\* it has received and not taken over yet.
KeepGroup(g) ==
    /\ TakeUp(g) /\ g \in DOMAIN groups
    /\ groups[g].checksum = Registry(loaded)[g].checksum
    /\ raced' = IF Racing(g) THEN raced \cup {g} ELSE raced \ {g}
    /\ UNCHANGED <<pc, cur, groups>>

UpdateGroup(g) ==
    /\ TakeUp(g) /\ g \in DOMAIN groups
    /\ groups[g].checksum # Registry(loaded)[g].checksum
    /\ pc' = "offer" /\ cur' = g
    /\ UNCHANGED <<groups, raced>>

\* UpdateWith: the send on updateCh meets the receive in the group's select,
\* where it is once it has taken over what it received before.
UpdateWith ==
    /\ pc = "offer" /\ cur \notin DOMAIN received
    /\ received' = [g \in DOMAIN received \cup {cur} |->
                       IF g = cur THEN Registry(loaded)[g] ELSE received[g]]
    /\ pc' = "update" /\ raced' = raced \ {cur}
    /\ UNCHANGED <<file_vars, runs, loaded, todo, cur, groups, instance_vars, saved_vars>>

\* A group that was not there starts without instances.
StartGroup(g) ==
    /\ TakeUp(g) /\ g \notin DOMAIN groups
    /\ groups' = [h \in DOMAIN groups \cup {g} |->
                     IF h = g THEN Registry(loaded)[g] ELSE groups[h]]
    /\ UNCHANGED <<pc, cur, raced>>

ReloadDone ==
    /\ pc = "update" /\ todo = {}
    /\ pc' = "select"
    /\ UNCHANGED <<file_vars, runs, loaded, todo, cur, groups, received, instance_vars>>
    /\ UNCHANGED <<saved_vars, raced>>

-------------------------------------------------------------------------------
\* Rules whose ID stays keep their instances and take everything else from
\* ng; the others are dropped and retired.
updateWith(g, ng) ==
    LET newRules == [id \in RuleIDs(ng) |-> CHOOSE r \in ng.rules : r.id = id]
        dropped  == RuleIDs(groups[g]) \ RuleIDs(ng)
    IN  /\ groups' = [groups EXCEPT ![g] = [rules    |-> {newRules[id] : id \in RuleIDs(ng)},
                                            checksum |-> ng.checksum]]
        /\ alerts' = [alerts EXCEPT ![g] =
              [i \in Instance |-> IF RuleOf(i) \in dropped THEN "none" ELSE @[i]]]
        /\ Resolve(FiringOf(g, dropped))

\* The group's own step: updateWith under its lock, then retireRules.
TakeOver(g) ==
    /\ g \in DOMAIN received
    /\ updateWith(g, received[g])
    /\ received' = [h \in DOMAIN received \ {g} |-> received[h]]
    /\ UNCHANGED <<file_vars, main_vars, saved_vars, raced>>

-------------------------------------------------------------------------------
\* The states in which the running groups hold an instance, as Save writes
\* them.
Holding(i) ==
    {IF alerts[g][i] = "resolved" THEN "inactive" ELSE alerts[g][i] : g \in DOMAIN groups}
    \ {"none"}

\* The shutdown, once every group is closed, and persistAllState: every
\* group's instances in one batch.  Of rows with one key, all saved at the
\* same time, any may be the one that FINAL keeps.
Shutdown ==
    /\ pc = "select" /\ DOMAIN received = {}
    /\ state' \in [Instance -> Enum]
    /\ \A i \in Instance : state'[i] \in IF Holding(i) = {} THEN {state[i]} ELSE Holding(i)
    /\ held' = [i \in Instance |-> Holding(i)]
    /\ ambiguous' = ambiguous \cup {i \in Instance : Cardinality(Holding(i)) > 1}
    /\ pc' = "down" /\ groups' = << >> /\ alerts' = [g \in IDs |-> Nothing] /\ raced' = {}
    /\ UNCHANGED <<file_vars, runs, loaded, todo, cur, received, history>>

reloadGroups ==
    \/ \E g \in IDs : RemoveGroup(g) \/ KeepGroup(g) \/ UpdateGroup(g) \/ StartGroup(g)
    \/ NoneToRemove \/ UpdateWith \/ ReloadDone

Next ==
    \/ \E c \in Contents : Edit(c)
    \/ Start \/ Shutdown
    \/ \E g \in IDs : Eval(g) \/ TakeOver(g)
    \/ Reload \/ reloadGroups

Spec == Init /\ [][Next]_vars

-------------------------------------------------------------------------------
(***************************************************************************)
(* Properties.                                                             *)
(***************************************************************************)

\* Between reloads every group of the loaded content runs, or is about to take
\* over, the rules and labels the content gives it, one rule to an ID, unless a
\* group of the same ID takes its place (main.go:382-411).  It needs the
\* checksum to tell contents of a group apart, and IDs that are unique after
\* normalization.  The exception are groups that a reload compared between the
\* receipt of other rules and their taking over, which run those from then on
\* (main.go:400, group.go:252-255).
RunsAsDeclared ==
    pc = "select" =>
        /\ DOMAIN groups = {GroupID(loaded[n]) : n \in DOMAIN loaded}
        /\ \A n \in DOMAIN loaded : LET g == GroupID(loaded[n]) IN
              \/ g \in raced
              \/ \E m \in DOMAIN loaded : m > n /\ GroupID(loaded[m]) = g
              \/ IF g \in DOMAIN received THEN received[g].rules = NewRules(loaded[n])
                                          ELSE groups[g].rules = NewRules(loaded[n])

\* What a rule's identity is to consist of: its query but for white space and
\* comments, its name and its own labels.
SameRule(r, s) ==
    queryHash[r.expr] = queryHash[s.expr] /\ r.name = s.name /\ r.labels = s.labels

\* A live update costs a rule that stays none of its instances, whatever else
\* changes: the text of its query, the group's labels, its settings or the
\* rules around it (config.go:161-165, group.go:386-415).
RulesThatStayKeepAlerts ==
    [][ \A g \in IDs : TakeOver(g) =>
          \A r \in groups[g].rules, s \in groups'[g].rules : SameRule(r.rule, s.rule) =>
              \A i \in Instance : RuleOf(i) = r.id => alerts'[g][i] = alerts[g][i]
      ]_vars

\* Whatever moves, is renamed, gets another interval or other labels, runs
\* twice or vanishes, in a reload or while chalert is down: an instance whose
\* history says firing is held firing by a group, or saved firing while down.
\* The exception are instances that two groups held in different states at a
\* shutdown, of which one row may replace the other (retire.go:12-26,
\* group.go:454-457, main.go:414-424).
NoFiringIsOrphaned ==
    \A i \in Instance : history[i] = "firing" =>
        \/ i \in ambiguous
        \/ IF pc = "down" THEN state[i] = "firing"
           ELSE \E g \in DOMAIN groups : alerts[g][i] = "firing"

\* A start takes up what was pending or firing at the shutdown, as it was, in
\* every group that has its rule now, whatever became of its group meanwhile
\* (main.go:240-244), unless two groups held it in different states.
RestartKeepsHeld ==
    [][ Start => \A i \in Instance, s \in {"pending", "firing"} : held[i] = {s} =>
            \A g \in DOMAIN groups' :
                RuleOf(i) \in RuleIDs(groups'[g]) => alerts'[g][i] = s
      ]_vars
==============================================================================
