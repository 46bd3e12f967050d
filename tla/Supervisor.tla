------------------------------ MODULE Supervisor ------------------------------
(***************************************************************************)
(* The main goroutine of cmd/chalert/main.go once chalert has started, and *)
(* the loops of the groups it supervises (Group.Start, Close and           *)
(* UpdateWith in rule/group.go): reloads triggered by the periodic check,  *)
(* by POST /-/reload and by SIGHUP, and the shutdown on SIGTERM.           *)
(*                                                                         *)
(* The rule files are outside: they are edited at any time, and each of    *)
(* their contents is rejected by a reload or names groups with checksums.  *)
(***************************************************************************)
EXTENDS Integers, FiniteSets

CONSTANTS
    Group,      \* the identities of groups: file, name and interval
    Content,    \* what the rule files can contain, numbered
    groups,     \* the checksum each content gives each group
    absent,     \* the checksum of a group a content does not name
    Rejected,   \* the contents that do not parse or do not normalize
    Triggers,   \* which of AllTriggers there are; tick: -rule.configCheckInterval is set
    MaxEdits    \* bound: edits of the rule files

AllTriggers == {"tick", "request", "hup", "term"}

ASSUME SupervisorAssumption ==
    /\ Content \subseteq Nat /\ Rejected \subseteq Content
    /\ \A c \in Content : groups[c] \in [Group -> {groups[c][g] : g \in Group}]
    /\ Triggers \subseteq AllTriggers
    /\ MaxEdits \in Nat

VARIABLES
    files,      \* the content of the rule files
    edits,      \* how often they were edited
    tick,       \* a tick waits in configCheckCh
    request,    \* a request waits in reloadRequests
    sig,        \* the signal waiting in sigCh, or none
    pc,         \* where the main goroutine is
    force,      \* the reload in progress is forced
    snap,       \* its snapshot
    todo,       \* reloadGroups: the groups not yet updated or started
    cur,        \* the group being closed or updated
    lastFP,     \* the content of the last successful reload
    existing,   \* ruleGroups
    gpc,        \* where each group's goroutine is
    done,       \* the groups whose doneCh is closed
    cancelled,  \* ctx is cancelled
    checksum,   \* the checksum, and so the rules, each group runs with
    received,   \* the update each group has received last, or was started with
    awaited,    \* observer: a reload was requested and the files not read since
    raced       \* observer: the groups the latest comparison saw before they had
                \* taken over the update they had received

files_vars == <<files, edits>>
trigger_vars == <<tick, request, sig>>
main_vars == <<pc, force, snap, todo, cur, lastFP, existing, done, cancelled>>
group_vars == <<gpc, checksum, received>>
observers == <<awaited, raced>>
vars == <<files_vars, trigger_vars, main_vars, group_vars, observers>>

Named(c) == {g \in Group : groups[c][g] # absent}

Checksums == {groups[c][g] : c \in Content, g \in Group} \cup {absent}

MainPCs == {"select", "read", "parse", "remove", "close", "retire", "update", "offer",
            "stop", "stopClose", "persist", "returned"}

GroupPCs == {"none", "evaluating", "select", "received", "finished"}

TypeOK ==
    /\ files \in Content /\ edits \in 0..MaxEdits
    /\ tick \in BOOLEAN /\ request \in BOOLEAN /\ sig \in {"none", "hup", "term"}
    /\ pc \in MainPCs /\ force \in BOOLEAN
    /\ snap \in Content /\ lastFP \in Content \ Rejected
    /\ todo \subseteq Group /\ cur \in Group /\ existing \subseteq Group
    /\ gpc \in [Group -> GroupPCs]
    /\ done \subseteq Group /\ cancelled \in BOOLEAN
    /\ checksum \in [Group -> Checksums] /\ received \in [Group -> Checksums]
    /\ awaited \in BOOLEAN /\ raced \subseteq Group

\* chalert has started with the groups of the files' content.
Init ==
    /\ files \in Content \ Rejected /\ edits = 0
    /\ tick = FALSE /\ request = FALSE /\ sig = "none"
    /\ pc = "select" /\ force = FALSE
    /\ snap = files /\ lastFP = files
    /\ todo = {} /\ cur \in Group /\ existing = Named(files)
    /\ gpc = [g \in Group |-> IF g \in Named(files) THEN "evaluating" ELSE "none"]
    /\ done = {} /\ cancelled = FALSE
    /\ checksum = groups[files] /\ received = groups[files]
    /\ awaited = FALSE /\ raced = {}

-------------------------------------------------------------------------------
(***************************************************************************)
(* The world: edits, requests, ticks and signals.                          *)
(***************************************************************************)

Edit(c) ==
    /\ edits < MaxEdits
    /\ c # files
    /\ files' = c /\ edits' = edits + 1
    /\ UNCHANGED <<trigger_vars, main_vars, group_vars, observers>>

CheckTick ==
    /\ "tick" \in Triggers
    /\ tick' = TRUE
    /\ UNCHANGED <<files_vars, request, sig, main_vars, group_vars, observers>>

\* The reload function: a request that finds one waiting joins it.
PostReload ==
    /\ "request" \in Triggers
    /\ pc # "returned"
    /\ request' = TRUE /\ awaited' = TRUE
    /\ UNCHANGED <<files_vars, tick, sig, main_vars, group_vars, raced>>

\* signal.Notify: a signal that finds sigCh full is dropped.
Signal(s) ==
    /\ s \in Triggers
    /\ sig' = IF sig = "none" THEN s ELSE sig
    /\ UNCHANGED <<files_vars, tick, request, main_vars, group_vars, observers>>

-------------------------------------------------------------------------------
(***************************************************************************)
(* The main goroutine: its select, and reload.                             *)
(***************************************************************************)

Goto(from, to) == pc = from /\ pc' = to

Reloading(forced) ==
    /\ Goto("select", "read")
    /\ force' = forced
    /\ UNCHANGED <<files_vars, group_vars, observers>>
    /\ UNCHANGED <<snap, todo, cur, lastFP, existing, done, cancelled>>

TakeTick == tick /\ tick' = FALSE /\ Reloading(FALSE) /\ UNCHANGED <<request, sig>>

TakeRequest == request /\ request' = FALSE /\ Reloading(TRUE) /\ UNCHANGED <<tick, sig>>

TakeHup == sig = "hup" /\ sig' = "none" /\ Reloading(TRUE) /\ UNCHANGED <<tick, request>>

\* The step of main that only moves on; past the fingerprint comparison force
\* is not read again.
Moves(from, to) ==
    /\ Goto(from, to)
    /\ force' = FALSE
    /\ UNCHANGED <<files_vars, trigger_vars, group_vars, raced>>
    /\ UNCHANGED <<todo, cur, existing, done, cancelled>>

\* ReadSnapshot; an unforced reload of unchanged content is over.
ReadSnapshot ==
    /\ \/ Moves("read", "select") /\ ~force /\ files = lastFP
       \/ Moves("read", "parse") /\ (force \/ files # lastFP)
    /\ snap' = files /\ awaited' = FALSE
    /\ UNCHANGED lastFP

ReadFailed ==
    /\ Moves("read", "select")
    /\ awaited' = FALSE
    /\ UNCHANGED <<snap, lastFP>>

\* Mutant: the fingerprint is remembered before the content is known good.
ParseFailed_Remembered ==
    /\ Moves("parse", "select")
    /\ lastFP' = snap
    /\ UNCHANGED <<snap, awaited>>

\* The content is rejected, or ClickHouse does not hash its queries; the snapshot
\* is given up.
ParseFailed == Moves("parse", "select") /\ snap' = lastFP /\ UNCHANGED <<lastFP, awaited>>

Parse ==
    /\ snap \notin Rejected
    /\ Moves("parse", "remove")
    /\ UNCHANGED <<snap, lastFP, awaited>>

-------------------------------------------------------------------------------
(***************************************************************************)
(* reloadGroups: groups the content does not name are closed and retired,  *)
(* then the others are updated or started.                                 *)
(***************************************************************************)

\* Close: doneCh is closed, then finishedCh awaited.
RemoveGroup(g) ==
    /\ Goto("remove", "close")
    /\ g \in existing \ Named(snap)
    /\ cur' = g /\ done' = done \cup {g}
    /\ UNCHANGED <<files_vars, trigger_vars, group_vars, observers>>
    /\ UNCHANGED <<force, snap, todo, lastFP, existing, cancelled>>

Closed ==
    /\ gpc[cur] = "finished"
    /\ Moves("close", "retire")
    /\ UNCHANGED <<snap, lastFP, awaited>>

Retire ==
    /\ Goto("retire", "remove")
    /\ existing' = existing \ {cur}
    /\ UNCHANGED <<files_vars, trigger_vars, group_vars, observers>>
    /\ UNCHANGED <<force, snap, todo, cur, lastFP, done, cancelled>>

NoneToRemove ==
    /\ Goto("remove", "update")
    /\ existing \subseteq Named(snap)
    /\ todo' = Named(snap)
    /\ UNCHANGED <<files_vars, trigger_vars, group_vars, observers>>
    /\ UNCHANGED <<force, snap, cur, lastFP, existing, done, cancelled>>

\* The group is about to take over other rules than those of the reload.
Racing(g) == gpc[g] = "received" /\ received[g] # groups[snap][g]

\* Mutant: a group keeps running with what it has, whatever its checksum.
KeepGroup_Any(g) ==
    /\ pc = "update" /\ g \in todo \cap existing
    /\ todo' = todo \ {g}
    /\ raced' = IF Racing(g) THEN raced \cup {g} ELSE raced \ {g}
    /\ UNCHANGED <<files_vars, trigger_vars, group_vars>>
    /\ UNCHANGED <<pc, force, snap, cur, lastFP, existing, done, cancelled, awaited>>

\* The checksum is that of the rules the group has taken over, whatever update
\* it has received and not applied yet.
KeepGroup(g) ==
    /\ pc = "update" /\ g \in todo \cap existing
    /\ checksum[g] = groups[snap][g]
    /\ todo' = todo \ {g}
    /\ raced' = IF Racing(g) THEN raced \cup {g} ELSE raced \ {g}
    /\ UNCHANGED <<files_vars, trigger_vars, group_vars>>
    /\ UNCHANGED <<pc, force, snap, cur, lastFP, existing, done, cancelled, awaited>>

UpdateGroup(g) ==
    /\ Goto("update", "offer") /\ g \in todo \cap existing
    /\ checksum[g] # groups[snap][g]
    /\ todo' = todo \ {g} /\ cur' = g
    /\ UNCHANGED <<files_vars, trigger_vars, group_vars, observers>>
    /\ UNCHANGED <<force, snap, lastFP, existing, done, cancelled>>

\* UpdateWith: the send on updateCh meets the receive in the group's select.
UpdateWith ==
    /\ Goto("offer", "update")
    /\ gpc[cur] = "select"
    /\ gpc' = [gpc EXCEPT ![cur] = "received"]
    /\ received' = [received EXCEPT ![cur] = groups[snap][cur]]
    /\ raced' = raced \ {cur}
    /\ UNCHANGED <<files_vars, trigger_vars, checksum>>
    /\ UNCHANGED <<force, snap, todo, cur, lastFP, existing, done, cancelled, awaited>>

StartGroup(g) ==
    /\ pc = "update" /\ g \in todo \ existing
    /\ todo' = todo \ {g} /\ existing' = existing \cup {g} /\ done' = done \ {g}
    /\ gpc' = [gpc EXCEPT ![g] = "evaluating"]
    /\ checksum' = [checksum EXCEPT ![g] = groups[snap][g]]
    /\ received' = [received EXCEPT ![g] = groups[snap][g]]
    /\ raced' = raced \ {g}
    /\ UNCHANGED <<files_vars, trigger_vars>>
    /\ UNCHANGED <<pc, force, snap, cur, lastFP, cancelled, awaited>>

\* Mutant: a request that came during the reload counts as served by it.
ReloadDone_Drains ==
    /\ todo = {}
    /\ Goto("update", "select")
    /\ lastFP' = snap /\ request' = FALSE
    /\ UNCHANGED <<files_vars, tick, sig, group_vars, observers>>
    /\ UNCHANGED <<force, snap, todo, cur, existing, done, cancelled>>

ReloadDone ==
    /\ todo = {}
    /\ Moves("update", "select")
    /\ lastFP' = snap
    /\ UNCHANGED <<snap, awaited>>

-------------------------------------------------------------------------------
(***************************************************************************)
(* Shutdown: ctx is cancelled, the groups are closed one after the other,  *)
(* then the state is persisted.                                            *)
(***************************************************************************)

TakeTerm ==
    /\ sig = "term" /\ sig' = "none"
    /\ Goto("select", "stop")
    /\ cancelled' = TRUE
    /\ UNCHANGED <<files_vars, tick, request, group_vars, observers>>
    /\ UNCHANGED <<force, snap, todo, cur, lastFP, existing, done>>

StopGroup(g) ==
    /\ Goto("stop", "stopClose")
    /\ g \in existing \ done
    /\ cur' = g /\ done' = done \cup {g}
    /\ UNCHANGED <<files_vars, trigger_vars, group_vars, observers>>
    /\ UNCHANGED <<force, snap, todo, lastFP, existing, cancelled>>

\* Mutant: the shutdown does not wait for the group it closes.
StopClosed_NoWait == Moves("stopClose", "stop") /\ UNCHANGED <<snap, lastFP, awaited>>

StopClosed ==
    /\ gpc[cur] = "finished"
    /\ Moves("stopClose", "stop")
    /\ UNCHANGED <<snap, lastFP, awaited>>

\* Every group is closed: the wait for them ends at once.
StopDone ==
    /\ existing \subseteq done
    /\ Moves("stop", "persist")
    /\ UNCHANGED <<snap, lastFP, awaited>>

\* persistAllState; main returns.
Persist == Moves("persist", "returned") /\ UNCHANGED <<snap, lastFP, awaited>>

-------------------------------------------------------------------------------
(***************************************************************************)
(* The loop of a group.                                                    *)
(***************************************************************************)

GroupGoto(g, from, to) ==
    /\ gpc[g] = from /\ gpc' = [gpc EXCEPT ![g] = to]
    /\ UNCHANGED <<files_vars, trigger_vars, main_vars, received, observers>>

GroupTick(g) == GroupGoto(g, "select", "evaluating") /\ UNCHANGED checksum

EvalDone(g) == GroupGoto(g, "evaluating", "select") /\ UNCHANGED checksum

\* The update is applied under the group's own lock, after the receive.
updateWith(g) ==
    /\ GroupGoto(g, "received", "select")
    /\ checksum' = [checksum EXCEPT ![g] = received[g]]

\* Mutant: the loop leaves when ctx is cancelled and not when it is closed.
GroupExit_OnlyCancelled(g) ==
    /\ cancelled
    /\ GroupGoto(g, "select", "finished")
    /\ UNCHANGED checksum

GroupExit(g) ==
    /\ g \in done \/ cancelled
    /\ GroupGoto(g, "select", "finished")
    /\ UNCHANGED checksum

-------------------------------------------------------------------------------
World ==
    \/ \E c \in Content : Edit(c)
    \/ CheckTick \/ PostReload
    \/ \E s \in {"hup", "term"} : Signal(s)

Read == ReadSnapshot \/ ReadFailed \/ ParseFailed \/ Parse

reloadGroups ==
    \/ \E g \in Group : RemoveGroup(g) \/ KeepGroup(g) \/ UpdateGroup(g) \/ StartGroup(g)
    \/ Closed \/ Retire \/ NoneToRemove \/ UpdateWith \/ ReloadDone

Shutdown == (\E g \in Group : StopGroup(g)) \/ StopClosed \/ StopDone \/ Persist

GroupStep(g) == GroupTick(g) \/ EvalDone(g) \/ updateWith(g) \/ GroupExit(g)

Next ==
    \/ World
    \/ TakeTick \/ TakeRequest \/ TakeHup \/ TakeTerm
    \/ Read \/ reloadGroups \/ Shutdown
    \/ \E g \in Group : GroupStep(g)

Spec == Init /\ [][Next]_vars

\* The main goroutine runs on; a select takes each channel that stays ready
\* sooner or later; reads and ClickHouse do not fail for good; the ticker of
\* the periodic check goes on.
MainFairness ==
    /\ WF_vars(Read) /\ WF_vars(reloadGroups) /\ WF_vars(Shutdown)
    /\ SF_vars(UpdateWith)
    /\ SF_vars(TakeTick) /\ SF_vars(TakeTerm)
    /\ SF_vars(ReadSnapshot) /\ SF_vars(Parse)
    /\ WF_vars(CheckTick)

\* A group's loop applies what it received and leaves when it is told to.
LoopFairness == \A g \in Group : WF_vars(updateWith(g)) /\ SF_vars(GroupExit(g))

\* An evaluation ends: its query is bounded by max_execution_time, its sends
\* by the client's timeout.
EvalFairness == \A g \in Group : WF_vars(EvalDone(g))

HangSpec == Spec /\ MainFairness /\ LoopFairness

FairSpec == HangSpec /\ EvalFairness

-------------------------------------------------------------------------------
(***************************************************************************)
(* Properties.                                                             *)
(***************************************************************************)

\* A reload request is never lost: one that joins a waiting request, or comes
\* while a reload is in progress, is followed by a read of the files made after
\* it (main.go:303-310).
RequestsAreServed == awaited => request \/ pc = "read"

\* What g runs with once it has taken over what it received.
Coming(g) == IF gpc[g] = "received" THEN received[g] ELSE checksum[g]

\* Between reloads exactly the groups of the last successful reload run, each
\* with the rules that reload gave it or about to take them over. Excepted are
\* only the groups whose checksum that reload compared between the receipt of
\* an update and its taking over (main.go:400, group.go:252-255).
RunsWhatIsLoaded ==
    pc = "select" =>
        /\ existing = Named(lastFP)
        /\ \A g \in existing : gpc[g] \in {"evaluating", "select", "received"}
        /\ \A g \in existing \ raced : Coming(g) = groups[lastFP][g]

\* Nothing evaluates a group any more when its instances are retired or its
\* state is persisted (group.go:431-433, main.go:339-357).
StoppedBeforehand ==
    /\ pc = "retire" => gpc[cur] = "finished"
    /\ pc \in {"persist", "returned"} => \A g \in Group : gpc[g] \in {"none", "finished"}

\* SIGTERM ends the process, also when it comes during a reload that waits for
\* the groups it removes (main.go:336-371).
ShutdownHappens == sig = "term" ~> pc = "returned"

\* What these groups run with is what the files say.
Loaded(gs) == existing = Named(files) /\ \A g \in gs \cap existing : checksum[g] = groups[files][g]

\* With periodic checks, content that stays runs in the end, however reloads
\* failed before and whatever was edited and reverted while they ran, but for
\* the groups RunsWhatIsLoaded excepts (main.go:265-300).
LatestContentLoads == <>[](files \in Rejected \/ Loaded(Group \ raced) \/ cancelled)

(***************************************************************************)
(* What comments and documents say and the code does not do.               *)
(***************************************************************************)

\* main.go:344: "Wait for groups with a timeout to prevent hanging during
\* rolling restarts." The timeout covers the wait for the groups and not their
\* Close before it, which waits for each evaluation in progress.
ShutdownDoesNotHang == cancelled ~> (pc = "returned")

\* README.md:164: "This is how Kubernetes ConfigMap updates apply automatically:
\* the kubelet syncs the mounted volume, and the next check picks it up." A
\* group that has received an update and not taken it over is compared by its
\* old checksum: an edit that is reverted meanwhile leaves it with the edit.
ChecksPickEditsUp == <>[](files \in Rejected \/ Loaded(Group) \/ cancelled)
==============================================================================
