------------------------- MODULE WorktreeWriteLane -------------------------
(***************************************************************************)
(* One exclusive lane for one replacement of one file in a temporary Git   *)
(* worktree: its acquisition and removal (crates/workspace/src/worktree.rs),*)
(* the descriptor-confined replacement (crates/workspace/src/              *)
(* worktree_edit.rs) and the journaled lane around them                    *)
(* (apps/daemon/src/worktree_write_lane.rs).  The lane's mutex is held     *)
(* through each call, so calls do not interleave; what interleaves is      *)
(* another program that edits the worktree or the source repository        *)
(* between any two system calls, failing system calls and journal writes,  *)
(* the drop of the lane and the death of the daemon.                       *)
(***************************************************************************)
EXTENDS Naturals, Sequences

CONSTANTS MaxEdits,       \* bound: edits by another program
          MaxFaults       \* bound: failing system calls, Git commands and journal writes

ASSUME BoundsAssumption == MaxEdits \in Nat /\ MaxFaults \in Nat

Contents == {"base", "post", "foreign"}   \* the grant's preimage, its postimage, anything else

VARIABLES source,   \* the source repository: its HEAD and whether it is pristine
          disk,     \* the worktree's directory and Git registration
          tree,     \* the TemporaryGitWorktree value
          lane,     \* the WorktreeWriteLane value and where its running call stands
          journal,  \* the retained record kinds
          edits,    \* edits made so far by another program
          faults    \* failures so far

vars == <<source, disk, tree, lane, journal, edits, faults>>

Phases == {"none", "Ready", "EffectInFlight", "Written", "ReconciliationRequired",
           "CleanupInFlight", "Released"}
Records == {"FileReplacePrepared", "FileReplaceOutcomeUnknown", "FileReplaceObserved",
            "GitDiffObserved", "WorktreeCleanupPrepared", "WorktreeCleanupObserved"}
Steps == {"head_before", "add", "canonicalize", "open_root", "head_after", "acquired_pristine",
          "idle", "pristine", "prepare", "journal_prepared", "reobserve", "temporary",
          "last_look", "rename", "verify", "unlink", "journal_unknown", "journal_observed",
          "diff", "untracked", "journal_diff", "check_file", "check_diff", "check_untracked",
          "journal_cleanup", "remove", "absent", "journal_removed", "failed", "dropped", "crashed"}

\* The type of the worktree's, the lane's and the journal's state.
TypeOK ==
    /\ source \in [head : 0..MaxEdits, clean : BOOLEAN]
    /\ disk \in [present : BOOLEAN, registered : BOOLEAN, content : Contents, node : 0..(MaxEdits + 1),
                 other : BOOLEAN, extra : BOOLEAN, temporary : BOOLEAN]
    /\ tree \in [cleanup : {"none", "Active", "GitRemoved", "Released"}, prepared : BOOLEAN,
                 poisoned : BOOLEAN, cleanup_on_drop : BOOLEAN]
    /\ lane \in [phase : Phases, pc : Steps, then : Steps, base : 0..MaxEdits, node : 0..(MaxEdits + 1),
                 renames : 0..1, diff : {{}, {"target"}, {"other"}, {"target", "other"}},
                 checked : 0..MaxEdits]
    /\ journal \in Seq(Records)
    /\ edits \in 0..MaxEdits
    /\ faults \in 0..MaxFaults

Init ==
    /\ source = [head |-> 0, clean |-> TRUE]
    /\ disk = [present |-> FALSE, registered |-> FALSE, content |-> "base", node |-> 0,
               other |-> FALSE, extra |-> FALSE, temporary |-> FALSE]
    /\ tree = [cleanup |-> "none", prepared |-> FALSE, poisoned |-> FALSE, cleanup_on_drop |-> TRUE]
    /\ lane = [phase |-> "none", pc |-> "head_before", then |-> "idle", base |-> 0, node |-> 0,
               renames |-> 0, diff |-> {}, checked |-> 0]
    /\ journal = <<>>
    /\ edits = 0
    /\ faults = 0

-----------------------------------------------------------------------------
(* Steps and their failures                                                *)

At(step) == lane.pc = step
Goto(step) == lane' = [lane EXCEPT !.pc = step]
Fault == faults < MaxFaults /\ faults' = faults + 1
NoFault == UNCHANGED faults
Retained(kind) == kind \in {journal[i] : i \in 1..Len(journal)}

\* A call that fails before its effect ends with the lane as it was.
Rejected == Goto("idle")

\* A failure once the effect has begun is terminal.
Reconcile == lane' = [lane EXCEPT !.pc = "idle", !.phase = "ReconciliationRequired"]

\* One journal write: retained and acknowledged, or refused and not retained.
Retain(kind, acknowledged, refused) ==
    \/ journal' = Append(journal, kind) /\ NoFault /\ acknowledged
    \/ UNCHANGED journal /\ Fault /\ refused

\* One system call or Git command that only observes: what it sees, or a failure.
Observe(seen, unseen) ==
    \/ NoFault /\ seen
    \/ Fault /\ unseen

Pristine == disk.content = "base" /\ ~disk.other /\ ~disk.extra /\ ~disk.temporary
Untracked == disk.extra \/ disk.temporary
TrackedDiff == (IF disk.content = "base" THEN {} ELSE {"target"}) \cup (IF disk.other THEN {"other"} ELSE {})
Gone == [disk EXCEPT !.present = FALSE, !.registered = FALSE]

-----------------------------------------------------------------------------
(* Acquisition: worktree.rs, create_clean_committed_head_with_git          *)

CleanHead == source.clean

ObserveHeadBefore ==
    /\ At("head_before")
    /\ Observe(IF CleanHead THEN lane' = [lane EXCEPT !.pc = "add", !.base = source.head]
                            ELSE Goto("failed"),
               Goto("failed"))
    /\ UNCHANGED <<source, disk, tree, journal, edits>>

\* Git may fail before or after it has registered the worktree and created its directory.
AddDetached ==
    /\ At("add")
    /\ \/ /\ NoFault /\ Goto("canonicalize")
          /\ disk' = [disk EXCEPT !.present = TRUE, !.registered = TRUE]
       \/ /\ Fault /\ Goto("failed")
          /\ \E here, listed \in BOOLEAN : disk' = [disk EXCEPT !.present = here, !.registered = listed]
    /\ UNCHANGED <<source, tree, journal, edits>>

\* rollback_created_worktree ignores its own failure.
Rollback ==
    /\ Goto("failed")
    /\ \/ disk' = Gone /\ faults' = faults + 1
       \/ UNCHANGED disk /\ faults + 1 < MaxFaults /\ faults' = faults + 2

Canonicalize ==
    /\ At("canonicalize")
    /\ \/ NoFault /\ Goto("open_root") /\ UNCHANGED disk
       \/ faults < MaxFaults /\ Rollback
    /\ UNCHANGED <<source, tree, journal, edits>>

OpenRoot ==
    /\ At("open_root")
    /\ \/ /\ NoFault /\ Goto("head_after") /\ UNCHANGED disk
          /\ tree' = [tree EXCEPT !.cleanup = "Active"]
       \/ faults < MaxFaults /\ Rollback /\ UNCHANGED tree
    /\ UNCHANGED <<source, journal, edits>>

ReleaseFailedAcquisition == lane' = [lane EXCEPT !.pc = "remove", !.then = "failed"]

ObserveHeadAfter ==
    /\ At("head_after")
    /\ Observe(IF CleanHead /\ source.head = lane.base THEN Goto("acquired_pristine")
                                                       ELSE ReleaseFailedAcquisition,
               ReleaseFailedAcquisition)
    /\ UNCHANGED <<source, disk, tree, journal, edits>>

\* WorktreeWriteLane::new takes the acquired worktree over.
ObserveAcquired ==
    /\ At("acquired_pristine")
    /\ Observe(IF Pristine THEN lane' = [lane EXCEPT !.pc = "idle", !.phase = "Ready"]
                           ELSE ReleaseFailedAcquisition,
               ReleaseFailedAcquisition)
    /\ UNCHANGED <<source, disk, tree, journal, edits>>

-----------------------------------------------------------------------------
(* The replacement: worktree_write_lane.rs, execute_once                   *)

\* A call on a lane that is not Ready, or without the sealed authority, changes nothing.
ExecuteOnce ==
    /\ At("idle") /\ lane.phase = "Ready"
    /\ Goto("pristine")
    /\ UNCHANGED <<source, disk, tree, journal, edits, faults>>

ObservePristine ==
    /\ At("pristine")
    /\ Observe(IF Pristine THEN Goto("prepare") ELSE Rejected, Rejected)
    /\ UNCHANGED <<source, disk, tree, journal, edits>>

PrepareReplace ==
    /\ At("prepare")
    /\ \/ /\ disk.content = "base" /\ ~tree.prepared /\ ~tree.poisoned /\ NoFault
          /\ tree' = [tree EXCEPT !.prepared = TRUE]
          /\ lane' = [lane EXCEPT !.pc = "journal_prepared", !.node = disk.node]
       \/ /\ disk.content # "base" \/ tree.prepared \/ tree.poisoned
          /\ NoFault /\ Rejected /\ UNCHANGED tree
       \/ Fault /\ Rejected /\ UNCHANGED tree
    /\ UNCHANGED <<source, disk, journal, edits>>

\* Mutant of JournalPrepared: the lane goes on when the journal refuses the preparation.
JournalPreparedIgnored ==
    /\ At("journal_prepared")
    /\ Retain("FileReplacePrepared", TRUE, TRUE)
    /\ lane' = [lane EXCEPT !.pc = "reobserve", !.phase = "EffectInFlight"]
    /\ tree' = [tree EXCEPT !.cleanup_on_drop = FALSE]
    /\ UNCHANGED <<source, disk, edits>>

\* The worktree outlives the lane once the preparation is retained; a refused one is
\* cancelled and leaves the lane Ready.
JournalPrepared ==
    /\ At("journal_prepared")
    /\ Retain("FileReplacePrepared",
              /\ lane' = [lane EXCEPT !.pc = "reobserve", !.phase = "EffectInFlight"]
              /\ tree' = [tree EXCEPT !.cleanup_on_drop = FALSE],
              /\ Rejected
              /\ tree' = [tree EXCEPT !.prepared = FALSE])
    /\ UNCHANGED <<source, disk, edits>>

Unchanged == disk.content = "base" /\ disk.node = lane.node

\* Before the temporary file exists a failure has not mutated anything.
AbandonReplace == Reconcile /\ tree' = [tree EXCEPT !.prepared = FALSE]

Reobserve ==
    /\ At("reobserve")
    /\ \/ NoFault /\ Unchanged /\ Goto("temporary") /\ UNCHANGED tree
       \/ NoFault /\ ~Unchanged /\ AbandonReplace
       \/ Fault /\ AbandonReplace
    /\ UNCHANGED <<source, disk, journal, edits>>

CreateTemporary ==
    /\ At("temporary")
    /\ \/ NoFault /\ Goto("last_look") /\ disk' = [disk EXCEPT !.temporary = TRUE] /\ UNCHANGED tree
       \/ Fault /\ AbandonReplace /\ UNCHANGED disk
    /\ UNCHANGED <<source, journal, edits>>

GiveUp == lane' = [lane EXCEPT !.pc = "unlink", !.then = "idle"]

\* Writing and verifying the temporary file, then one last look at the target.
LastLook ==
    /\ At("last_look")
    /\ Observe(IF Unchanged THEN lane' = [lane EXCEPT !.pc = "rename", !.checked = edits] ELSE GiveUp, GiveUp)
    /\ UNCHANGED <<source, disk, tree, journal, edits>>

\* The rename is atomic; when it reports an error it has happened or not.
Rename ==
    /\ At("rename")
    /\ \/ /\ NoFault
          /\ lane' = [lane EXCEPT !.pc = "verify", !.renames = @ + 1]
          /\ disk' = [disk EXCEPT !.content = "post", !.node = MaxEdits + 1, !.temporary = FALSE]
       \/ /\ Fault
          /\ \/ /\ lane' = [lane EXCEPT !.pc = "unlink", !.then = "journal_unknown", !.renames = @ + 1]
                /\ disk' = [disk EXCEPT !.content = "post", !.node = MaxEdits + 1, !.temporary = FALSE]
             \/ lane' = [lane EXCEPT !.pc = "unlink", !.then = "journal_unknown"] /\ UNCHANGED disk
    /\ UNCHANGED <<source, tree, journal, edits>>

Poison == tree' = [tree EXCEPT !.poisoned = TRUE]

\* The parent is synced and the postimage read back: any failure is an unknown outcome.
Verify ==
    /\ At("verify")
    /\ \/ /\ NoFault /\ disk.content = "post" /\ Goto("journal_observed")
          /\ tree' = [tree EXCEPT !.prepared = FALSE]
       \/ NoFault /\ disk.content # "post" /\ Goto("journal_unknown") /\ Poison
       \/ Fault /\ Goto("journal_unknown") /\ Poison
    /\ UNCHANGED <<source, disk, journal, edits>>

\* cleanup_temporary_before_rename: a temporary that cannot be removed, or is no longer
\* there, makes the outcome unknown.
UnlinkTemporary ==
    /\ At("unlink")
    /\ \/ /\ disk.temporary /\ NoFault
          /\ disk' = [disk EXCEPT !.temporary = FALSE]
          /\ IF lane.then = "journal_unknown" THEN Goto("journal_unknown") /\ Poison ELSE AbandonReplace
       \/ ~disk.temporary /\ NoFault /\ UNCHANGED disk /\ Goto("journal_unknown") /\ Poison
       \/ Fault /\ UNCHANGED disk /\ Goto("journal_unknown") /\ Poison
    /\ UNCHANGED <<source, journal, edits>>

\* The journal's answer is ignored: the lane is terminal either way.
JournalUnknown ==
    /\ At("journal_unknown")
    /\ Retain("FileReplaceOutcomeUnknown", Reconcile, Reconcile)
    /\ UNCHANGED <<source, disk, tree, edits>>

JournalObserved ==
    /\ At("journal_observed")
    /\ Retain("FileReplaceObserved", Goto("diff"), Reconcile)
    /\ UNCHANGED <<source, disk, tree, edits>>

\* An empty diff, or one with other paths than the grant's, is terminal.
ObserveDiff ==
    /\ At("diff")
    /\ Observe(IF TrackedDiff = {"target"} THEN lane' = [lane EXCEPT !.pc = "untracked", !.diff = TrackedDiff]
                                           ELSE Reconcile,
               Reconcile)
    /\ UNCHANGED <<source, disk, tree, journal, edits>>

ObserveUntracked ==
    /\ At("untracked")
    /\ Observe(IF Untracked THEN Reconcile ELSE Goto("journal_diff"), Reconcile)
    /\ UNCHANGED <<source, disk, tree, journal, edits>>

Check(then) == lane' = [lane EXCEPT !.pc = "check_file", !.then = then, !.checked = edits]

JournalDiff ==
    /\ At("journal_diff")
    /\ Retain("GitDiffObserved", Check("idle"), Reconcile)
    /\ UNCHANGED <<source, disk, tree, edits>>

-----------------------------------------------------------------------------
(* validate_retained_worktree_state: three observations, one after another *)

CheckFile ==
    /\ At("check_file")
    /\ Observe(IF disk.content = "post" THEN Goto("check_diff") ELSE Reconcile, Reconcile)
    /\ UNCHANGED <<source, disk, tree, journal, edits>>

CheckDiff ==
    /\ At("check_diff")
    /\ Observe(IF TrackedDiff = lane.diff /\ disk.content = "post" THEN Goto("check_untracked")
                                                                    ELSE Reconcile,
               Reconcile)
    /\ UNCHANGED <<source, disk, tree, journal, edits>>

\* What follows the check: the write is complete, or cleanup is prepared, or it begins.
Checked ==
    CASE lane.then = "idle"   -> lane' = [lane EXCEPT !.pc = "idle", !.phase = "Written"]
      [] lane.then = "journal_cleanup" -> Goto("journal_cleanup")
      [] lane.then = "remove" -> lane' = [lane EXCEPT !.pc = "remove", !.phase = "CleanupInFlight",
                                                      !.then = "journal_removed"]

\* Mutant of CheckUntracked: only the tracked state is compared.
CheckUntrackedIgnored ==
    /\ At("check_untracked")
    /\ Observe(Checked, Reconcile)
    /\ UNCHANGED <<source, disk, tree, journal, edits>>

CheckUntracked ==
    /\ At("check_untracked")
    /\ Observe(IF Untracked THEN Reconcile ELSE Checked, Reconcile)
    /\ UNCHANGED <<source, disk, tree, journal, edits>>

-----------------------------------------------------------------------------
(* release_after_candidate_published, and release itself                   *)

ReleaseAfterCandidatePublished ==
    /\ At("idle") /\ lane.phase = "Written"
    /\ Check("journal_cleanup")
    /\ UNCHANGED <<source, disk, tree, journal, edits, faults>>

\* A refused preparation leaves the lane Written, and the call may be made again.
JournalCleanup ==
    /\ At("journal_cleanup")
    /\ Retain("WorktreeCleanupPrepared", Check("remove"), Rejected)
    /\ UNCHANGED <<source, disk, tree, edits>>

\* A failed acquisition drops the worktree, and Drop releases it once more.
ReleaseFailed ==
    CASE lane.then = "journal_removed" -> Reconcile
      [] lane.then = "failed"  -> lane' = [lane EXCEPT !.pc = "remove", !.then = "dropped"]
      [] lane.then = "dropped" -> Goto("dropped")

\* What a Git command that fails, or is cut short, may leave of the worktree.
PartlyRemoved == {disk, [disk EXCEPT !.present = FALSE], Gone}

\* git worktree remove --force; Git does not remove what is not registered.
Remove ==
    /\ At("remove")
    /\ \/ /\ tree.cleanup = "Active" /\ disk.registered
          /\ \/ disk' = Gone /\ NoFault
             \/ disk' \in PartlyRemoved /\ Fault
          /\ tree' = [tree EXCEPT !.cleanup = "GitRemoved"] /\ Goto("absent")
       \/ /\ tree.cleanup = "Active"
          /\ \/ disk' \in PartlyRemoved /\ Fault
             \/ ~disk.registered /\ UNCHANGED disk /\ NoFault
          /\ UNCHANGED tree /\ ReleaseFailed
       \/ /\ tree.cleanup = "GitRemoved" /\ NoFault
          /\ Goto("absent") /\ UNCHANGED <<disk, tree>>
    /\ UNCHANGED <<source, journal, edits>>

\* Neither the path nor the registration may remain, whatever Git reported.
ObserveAbsent ==
    /\ At("absent")
    /\ \/ /\ ~disk.present /\ ~disk.registered /\ NoFault
          /\ tree' = [tree EXCEPT !.cleanup = "Released"] /\ Goto(lane.then)
       \/ (disk.present \/ disk.registered) /\ NoFault /\ ReleaseFailed /\ UNCHANGED tree
       \/ Fault /\ ReleaseFailed /\ UNCHANGED tree
    /\ UNCHANGED <<source, disk, journal, edits>>

JournalRemoved ==
    /\ At("journal_removed")
    /\ Retain("WorktreeCleanupObserved",
              lane' = [lane EXCEPT !.pc = "idle", !.phase = "Released"], Reconcile)
    /\ UNCHANGED <<source, disk, tree, edits>>

\* The owner drops the lane between two calls.
Drop ==
    /\ At("idle")
    /\ IF tree.cleanup_on_drop /\ tree.cleanup # "Released"
         THEN lane' = [lane EXCEPT !.pc = "remove", !.then = "dropped"]
         ELSE Goto("dropped")
    /\ UNCHANGED <<source, disk, tree, journal, edits, faults>>

-----------------------------------------------------------------------------
(* The world around the lane                                               *)

\* The daemon dies: nothing is dropped, and nothing of the lane is left.
Crash ==
    /\ lane.pc \notin {"failed", "dropped", "crashed"}
    /\ Goto("crashed")
    /\ UNCHANGED <<source, disk, tree, journal, edits, faults>>

EditWorktree ==
    /\ disk.present /\ edits < MaxEdits /\ edits' = edits + 1
    /\ \/ \E content \in Contents : disk' = [disk EXCEPT !.content = content, !.node = edits + 1]
       \/ disk' = [disk EXCEPT !.other = ~@]
       \/ disk' = [disk EXCEPT !.extra = ~@]
    /\ UNCHANGED <<source, tree, lane, journal, faults>>

EditSource ==
    /\ lane.pc \in {"head_before", "add", "canonicalize", "open_root", "head_after"}
    /\ edits < MaxEdits /\ edits' = edits + 1
    /\ source' \in {[source EXCEPT !.head = edits + 1], [source EXCEPT !.clean = ~@]}
    /\ UNCHANGED <<disk, tree, lane, journal, faults>>

CallStep ==
    \/ ObserveHeadBefore \/ AddDetached \/ Canonicalize \/ OpenRoot \/ ObserveHeadAfter
    \/ ObserveAcquired
    \/ ObservePristine \/ PrepareReplace \/ JournalPrepared \/ Reobserve
    \/ CreateTemporary \/ LastLook \/ Rename \/ Verify \/ UnlinkTemporary \/ JournalUnknown
    \/ JournalObserved \/ ObserveDiff \/ ObserveUntracked \/ JournalDiff
    \/ CheckFile \/ CheckDiff \/ CheckUntracked
    \/ JournalCleanup \/ Remove \/ ObserveAbsent \/ JournalRemoved

World == Crash \/ EditWorktree \/ EditSource

Next ==
    \/ CallStep \/ World
    \/ ExecuteOnce \/ ReleaseAfterCandidatePublished \/ Drop

Spec == Init /\ [][Next]_vars

-----------------------------------------------------------------------------
(* Properties                                                              *)

\* Whatever fails or interleaves, the target is renamed over at most once, and only after
\* the preparation of exactly this effect is in the journal; an acknowledged outcome in
\* the journal belongs to a rename that happened (execute_once's order of writes).
EffectIsJournaled ==
    /\ lane.renames > 0 => Retained("FileReplacePrepared")
    /\ Retained("FileReplaceObserved") => lane.renames = 1
    /\ lane.phase \in {"Ready", "none"} => lane.renames = 0

\* A write the lane reports is exactly the one granted: the diff it retained changes the
\* target and nothing else, and was journaled after the rename was observed.
WrittenIsExact ==
    lane.phase \in {"Written", "CleanupInFlight", "Released"} =>
        /\ lane.renames = 1 /\ lane.diff = {"target"}
        /\ Retained("FileReplaceObserved") /\ Retained("GitDiffObserved")

\* The only copy of a lane's write is never destroyed by an error path, a drop or a
\* crash: a renamed worktree loses its directory only once the cleanup of a published
\* candidate is in the journal (preserve_on_drop_for_reconciliation).
WriteSurvives ==
    [][lane.renames = 1 /\ disk.present /\ ~disk'.present => Retained("WorktreeCleanupPrepared")]_vars

\* The lane destroys nothing that it could have seen.  If the rename replaces another file
\* than the prepared one, or the removed directory differs from the retained diff, then
\* it was edited after the comparison right before it had begun (the last observe_file of
\* execute_utf8_file_replace, the second validate_retained_worktree_state).
DestroysOnlyLaterEdits ==
    [][/\ lane.renames = 0 /\ lane'.renames = 1 => Unchanged \/ edits > lane.checked
       /\ lane.renames = 1 /\ disk.present /\ ~disk'.present =>
              \/ disk.content = "post" /\ TrackedDiff = lane.diff /\ ~Untracked
              \/ edits > lane.checked]_vars

\* An acquisition that fails leaves a directory or a registration behind only if Git left
\* it there: when adding it, when rolling it back, when it reports a removal it has not
\* made (the release that follows only looks), or, once the worktree is owned, by failing
\* to remove it twice (the error path's release and Drop's).
FailedAcquisitionLeaksNothing ==
    /\ lane.phase = "none" /\ lane.pc \in {"failed", "dropped"}
    /\ disk.present \/ disk.registered
    => faults >= IF tree.cleanup = "Active" THEN 2 ELSE 1

\* A released lane has neither a directory nor a registration, and its journal tells the
\* whole story in order, however often the release was tried.
ReleasedIsGone ==
    lane.phase = "Released" =>
        /\ ~disk.present /\ ~disk.registered /\ tree.cleanup = "Released"
        /\ journal = <<"FileReplacePrepared", "FileReplaceObserved", "GitDiffObserved",
                       "WorktreeCleanupPrepared", "WorktreeCleanupObserved">>

\* What the lane reports is what it did: to the journal, to its owner and on the disk.
WriteLaneIsSound ==
    /\ TypeOK /\ EffectIsJournaled /\ WrittenIsExact
    /\ FailedAcquisitionLeaksNothing /\ ReleasedIsGone

\* Neither the lane's write nor another program's is destroyed unseen.
WriteLaneDestroysNothingUnseen == WriteSurvives /\ DestroysOnlyLaterEdits
=============================================================================

