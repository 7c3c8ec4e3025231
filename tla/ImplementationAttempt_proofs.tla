--------------------- MODULE ImplementationAttempt_proofs ---------------------
(***************************************************************************)
(* That a write lane reports what it did and destroys nothing unseen, for  *)
(* every number of edits by other programs and of failing system calls,    *)
(* Git commands and journal writes, wherever the daemon dies.              *)
(*                                                                         *)
(* That an implementation attempt's outcome, its candidate and what is     *)
(* left on disk agree, and that its budgets reach as far as they promise,  *)
(* for every budget, plan and number of edits and failures, wherever the   *)
(* attempt is dropped or the daemon dies.                                  *)
(*                                                                         *)
(* That the registry of candidate heads is a set of chains, for every set  *)
(* of controllers, tracks, candidates and selection ids and every largest  *)
(* generation: its records agree with its heads, its answers with its      *)
(* records, and it implements module SelectionChain.                       *)
(***************************************************************************)
EXTENDS ImplementationAttempt, CandidateHead, SequenceTheorems, FiniteSetTheorems, TLAPS

-----------------------------------------------------------------------------
(* The write lane.                                                        *)

(* The journals a lane can leave behind.                                   *)
Silent    == <<>>
Announced == <<"FileReplacePrepared">>
Uncertain == <<"FileReplacePrepared", "FileReplaceOutcomeUnknown">>
Replaced  == <<"FileReplacePrepared", "FileReplaceObserved">>
Diffed    == <<"FileReplacePrepared", "FileReplaceObserved", "GitDiffObserved">>
Releasing == <<"FileReplacePrepared", "FileReplaceObserved", "GitDiffObserved",
               "WorktreeCleanupPrepared">>
Closed    == <<"FileReplacePrepared", "FileReplaceObserved", "GitDiffObserved",
               "WorktreeCleanupPrepared", "WorktreeCleanupObserved">>
Stories   == {Silent, Announced, Uncertain, Replaced, Diffed, Releasing, Closed}

Kinds(story) == {story[i] : i \in 1..Len(story)}

Acquiring == {"head_before", "add", "canonicalize", "open_root", "head_after",
              "acquired_pristine"}
Checking  == {"check_file", "check_diff", "check_untracked"}
Removing  == {"remove", "absent"}
Absent    == ~disk.present /\ ~disk.registered

(* Where a call may stand in each phase of the lane, and where it goes.    *)
ControlOK ==
    /\ lane.phase = "none" => lane.pc \in Acquiring \cup Removing \cup {"failed", "dropped", "crashed"}
    /\ lane.phase = "Ready" =>
          lane.pc \in Removing \cup {"idle", "pristine", "prepare", "journal_prepared", "dropped", "crashed"}
    /\ lane.phase = "EffectInFlight" =>
          lane.pc \in Checking \cup {"reobserve", "temporary", "last_look", "rename", "verify",
                                     "unlink", "journal_unknown", "journal_observed", "diff",
                                     "untracked", "journal_diff", "crashed"}
    /\ lane.phase = "Written" => lane.pc \in Checking \cup {"idle", "journal_cleanup", "dropped", "crashed"}
    /\ lane.phase = "CleanupInFlight" => lane.pc \in Removing \cup {"journal_removed", "crashed"}
    /\ lane.phase \in {"Released", "ReconciliationRequired"} => lane.pc \in {"idle", "dropped", "crashed"}
    /\ lane.pc \in Removing =>
          lane.then \in CASE lane.phase = "none" -> {"failed", "dropped"}
                          [] lane.phase = "Ready" -> {"dropped"}
                          [] OTHER -> {"journal_removed"}
    /\ lane.pc \in Checking => lane.then \in IF lane.phase = "Written" THEN {"journal_cleanup", "remove"}
                                             ELSE {"idle"}
    /\ lane.phase \notin {"none", "Ready"} => ~tree.cleanup_on_drop

(* How far the journal and the rename are at each point.                   *)
StoryOK ==
    /\ journal \in Stories
    /\ lane.phase \in {"none", "Ready"} => journal = Silent /\ lane.renames = 0
    /\ lane.phase \notin {"none", "Ready"} => journal # Silent
    /\ journal \in {Replaced, Diffed, Releasing, Closed} => lane.renames = 1
    /\ lane.pc \in {"reobserve", "temporary", "last_look", "rename"} => journal = Announced /\ lane.renames = 0
    /\ lane.pc = "unlink" => journal = Announced
    /\ lane.pc = "journal_unknown" => journal = Announced
    /\ lane.pc \in {"verify", "journal_observed"} => journal = Announced /\ lane.renames = 1
    /\ lane.pc \in {"diff", "untracked", "journal_diff"} => journal = Replaced
    /\ lane.pc \in {"untracked", "journal_diff"} \cup Checking => lane.diff = {"target"}
    /\ lane.pc \in Checking =>
          journal = IF lane.phase = "Written" /\ lane.then = "remove" THEN Releasing ELSE Diffed
    /\ lane.pc = "journal_cleanup" => journal = Diffed
    /\ lane.phase = "Written" => journal \in {Diffed, Releasing} /\ lane.diff = {"target"}
    /\ lane.phase = "Written" /\ lane.pc = "idle" => journal = Diffed
    /\ lane.phase = "CleanupInFlight" => journal = Releasing /\ lane.diff = {"target"}
    /\ lane.phase = "Released" => journal = Closed /\ lane.diff = {"target"}

(* What is left of the worktree, and how many failures that took.          *)
DiskOK ==
    /\ lane.pc \in {"head_before", "add"} => Absent /\ tree.cleanup = "none"
    /\ lane.pc \in {"canonicalize", "open_root"} => tree.cleanup = "none"
    /\ lane.pc \in {"canonicalize", "open_root", "head_after", "acquired_pristine"} => disk.registered
    /\ lane.pc \in {"head_after", "acquired_pristine"} => tree.cleanup = "Active"
    /\ lane.pc = "failed" => Absent \/ faults >= 1
    /\ lane.pc = "failed" => tree.cleanup \in {"none", "Released"}
    /\ tree.cleanup = "Active" /\ disk.present => disk.registered
    /\ tree.cleanup = "GitRemoved" => Absent \/ faults >= 1
    /\ tree.cleanup = "Released" => Absent
    /\ lane.phase = "none" /\ lane.pc \in Removing /\ lane.then = "failed" /\ tree.cleanup = "Active" => disk.registered
    /\ lane.phase = "none" /\ lane.pc \in Removing /\ lane.then = "dropped" /\ tree.cleanup = "Active" =>
          Absent \/ faults >= 1
    /\ lane.phase = "none" /\ lane.pc = "dropped" =>
          /\ tree.cleanup \in {"Active", "GitRemoved", "Released"}
          /\ tree.cleanup = "Active" => Absent \/ faults >= 2
    /\ lane.pc \in Removing => tree.cleanup \in {"Active", "GitRemoved"}
    /\ lane.pc = "absent" => tree.cleanup = "GitRemoved"
    /\ lane.pc = "journal_removed" => tree.cleanup = "Released"
    /\ lane.phase = "Released" => tree.cleanup = "Released"
    /\ lane.phase \notin {"none", "Ready", "CleanupInFlight", "Released", "ReconciliationRequired"}
          => tree.cleanup = "Active"
    /\ lane.phase = "Ready" /\ lane.pc \notin Removing \cup {"dropped", "crashed"} =>
          tree.cleanup = "Active"

(* What the last comparison before an irreversible step has established.   *)
ComparisonOK ==
    /\ lane.checked <= edits
    /\ lane.pc = "rename" => Unchanged \/ edits > lane.checked
    /\ lane.pc \in {"check_diff", "check_untracked"} => disk.content = "post" \/ edits > lane.checked
    /\ lane.pc = "check_untracked" => TrackedDiff = lane.diff \/ edits > lane.checked
    /\ lane.pc = "remove" /\ lane.phase = "CleanupInFlight" =>
          \/ disk.content = "post" /\ TrackedDiff = lane.diff /\ ~Untracked
          \/ edits > lane.checked

WriteLaneInv == TypeOK /\ ControlOK /\ StoryOK /\ DiskOK /\ ComparisonOK
-----------------------------------------------------------------------------
(* A sequence is what one more element made of a shorter one.              *)
LEMMA AppendIs ==
    ASSUME NEW S, NEW s \in Seq(S), NEW t \in Seq(S), NEW x \in S, Len(t) = Len(s) + 1,
           \A i \in 1..Len(s) : t[i] = s[i], t[Len(s) + 1] = x
    PROVE  Append(s, x) = t
<1> DEFINE u == Append(s, x)
<1>1. /\ u \in Seq(S) /\ Len(u) = Len(s) + 1 /\ Len(s) \in Nat
      /\ \A i \in 1..Len(s) : u[i] = s[i]
      /\ u[Len(s) + 1] = x
  BY AppendProperties
<1> HIDE DEF u
<1>2. \A i \in 1..Len(u) : u[i] = t[i]
  BY <1>1
<1>3. u = t
  BY <1>1, <1>2, SeqEqual
<1> QED BY <1>3 DEF u

(* The journals are sequences of records.                                  *)
LEMMA StoriesAreJournals ==
    /\ Silent \in Seq(Records) /\ Announced \in Seq(Records) /\ Uncertain \in Seq(Records)
    /\ Replaced \in Seq(Records) /\ Diffed \in Seq(Records) /\ Releasing \in Seq(Records)
    /\ Closed \in Seq(Records)
BY DEF Records, Silent, Announced, Uncertain, Replaced, Diffed, Releasing, Closed

(* How the journals follow each other.                                     *)
LEMMA StoriesFollow ==
    /\ Append(Silent, "FileReplacePrepared") = Announced
    /\ Append(Announced, "FileReplaceOutcomeUnknown") = Uncertain
    /\ Append(Announced, "FileReplaceObserved") = Replaced
    /\ Append(Replaced, "GitDiffObserved") = Diffed
    /\ Append(Diffed, "WorktreeCleanupPrepared") = Releasing
    /\ Append(Releasing, "WorktreeCleanupObserved") = Closed
<1>1. Append(Silent, "FileReplacePrepared") = Announced
  BY DEF Silent, Announced
<1>2. Append(Announced, "FileReplaceOutcomeUnknown") = Uncertain
  <2>1. /\ Len(Uncertain) = Len(Announced) + 1
        /\ \A i \in 1..Len(Announced) : Uncertain[i] = Announced[i]
        /\ Uncertain[Len(Announced) + 1] = "FileReplaceOutcomeUnknown"
    BY DEF Announced, Uncertain
  <2>2. "FileReplaceOutcomeUnknown" \in Records
    BY DEF Records
  <2> QED BY <2>1, <2>2, StoriesAreJournals, AppendIs
<1>3. Append(Announced, "FileReplaceObserved") = Replaced
  <2>1. /\ Len(Replaced) = Len(Announced) + 1
        /\ \A i \in 1..Len(Announced) : Replaced[i] = Announced[i]
        /\ Replaced[Len(Announced) + 1] = "FileReplaceObserved"
    BY DEF Announced, Replaced
  <2>2. "FileReplaceObserved" \in Records
    BY DEF Records
  <2> QED BY <2>1, <2>2, StoriesAreJournals, AppendIs
<1>4. Append(Replaced, "GitDiffObserved") = Diffed
  <2>1. /\ Len(Diffed) = Len(Replaced) + 1
        /\ \A i \in 1..Len(Replaced) : Diffed[i] = Replaced[i]
        /\ Diffed[Len(Replaced) + 1] = "GitDiffObserved"
    BY DEF Replaced, Diffed
  <2>2. "GitDiffObserved" \in Records
    BY DEF Records
  <2> QED BY <2>1, <2>2, StoriesAreJournals, AppendIs
<1>5. Append(Diffed, "WorktreeCleanupPrepared") = Releasing
  <2>1. /\ Len(Releasing) = Len(Diffed) + 1
        /\ \A i \in 1..Len(Diffed) : Releasing[i] = Diffed[i]
        /\ Releasing[Len(Diffed) + 1] = "WorktreeCleanupPrepared"
    BY DEF Diffed, Releasing
  <2>2. "WorktreeCleanupPrepared" \in Records
    BY DEF Records
  <2> QED BY <2>1, <2>2, StoriesAreJournals, AppendIs
<1>6. Append(Releasing, "WorktreeCleanupObserved") = Closed
  <2>1. /\ Len(Closed) = Len(Releasing) + 1
        /\ \A i \in 1..Len(Releasing) : Closed[i] = Releasing[i]
        /\ Closed[Len(Releasing) + 1] = "WorktreeCleanupObserved"
    BY DEF Releasing, Closed
  <2>2. "WorktreeCleanupObserved" \in Records
    BY DEF Records
  <2> QED BY <2>1, <2>2, StoriesAreJournals, AppendIs
<1> QED BY <1>1, <1>2, <1>3, <1>4, <1>5, <1>6

(* No two journals are the same.                                           *)
LEMMA StoriesDiffer ==
    /\ Silent \notin {Announced, Uncertain, Replaced, Diffed, Releasing, Closed}
    /\ Announced \notin {Uncertain, Replaced, Diffed, Releasing, Closed}
    /\ Uncertain \notin {Replaced, Diffed, Releasing, Closed}
    /\ Replaced \notin {Diffed, Releasing, Closed}
    /\ Diffed \notin {Releasing, Closed}
    /\ Releasing # Closed
<1>1. /\ Len(Silent) = 0 /\ Len(Announced) = 1 /\ Len(Uncertain) = 2 /\ Len(Replaced) = 2
      /\ Len(Diffed) = 3 /\ Len(Releasing) = 4 /\ Len(Closed) = 5 /\ Uncertain # Replaced
  BY DEF Silent, Announced, Uncertain, Replaced, Diffed, Releasing, Closed
<1>2. 0 # 1 /\ 0 # 2 /\ 0 # 3 /\ 0 # 4 /\ 0 # 5 /\ 1 # 2 /\ 1 # 3 /\ 1 # 4 /\ 1 # 5 /\ 2 # 3 /\ 2 # 4 /\ 2 # 5
      /\ 3 # 4 /\ 3 # 5 /\ 4 # 5
  OBVIOUS
<1>3. Silent # Announced /\ Silent # Uncertain /\ Silent # Replaced /\ Silent # Diffed /\ Silent # Releasing /\ Silent # Closed
  BY <1>1, <1>2, Zenon
<1>4. Announced # Uncertain /\ Announced # Replaced /\ Announced # Diffed /\ Announced # Releasing /\ Announced # Closed
  BY <1>1, <1>2, Zenon
<1>5. Uncertain # Replaced /\ Uncertain # Diffed /\ Uncertain # Releasing /\ Uncertain # Closed
  BY <1>1, <1>2, Zenon
<1>6. Replaced # Diffed /\ Replaced # Releasing /\ Replaced # Closed
  BY <1>1, <1>2, Zenon
<1>7. Diffed # Releasing /\ Diffed # Closed
  BY <1>1, <1>2, Zenon
<1>8. Releasing # Closed
  BY <1>1, <1>2, Zenon
<1> QED BY <1>3, <1>4, <1>5, <1>6, <1>7, <1>8

(* What each journal holds.                                                *)
LEMMA StoriesTell ==
    /\ \A story \in Stories \ {Silent} : "FileReplacePrepared" \in Kinds(story)
    /\ \A story \in {Replaced, Diffed, Releasing, Closed} : "FileReplaceObserved" \in Kinds(story)
    /\ \A story \in {Silent, Announced, Uncertain} : "FileReplaceObserved" \notin Kinds(story)
    /\ \A story \in {Diffed, Releasing, Closed} : "GitDiffObserved" \in Kinds(story)
    /\ \A story \in {Releasing, Closed} : "WorktreeCleanupPrepared" \in Kinds(story)
<1>1. /\ Kinds(Silent) = {}
      /\ Kinds(Announced) = {"FileReplacePrepared"}
      /\ Kinds(Uncertain) = {"FileReplacePrepared", "FileReplaceOutcomeUnknown"}
      /\ Kinds(Replaced) = {"FileReplacePrepared", "FileReplaceObserved"}
  BY DEF Kinds, Silent, Announced, Uncertain, Replaced
<1>2. Kinds(Diffed) = {"FileReplacePrepared", "FileReplaceObserved", "GitDiffObserved"}
  BY DEF Kinds, Diffed
<1>3. Kinds(Releasing) = {"FileReplacePrepared", "FileReplaceObserved", "GitDiffObserved",
                          "WorktreeCleanupPrepared"}
  BY DEF Kinds, Releasing
<1>4. Kinds(Closed) = {"FileReplacePrepared", "FileReplaceObserved", "GitDiffObserved",
                       "WorktreeCleanupPrepared", "WorktreeCleanupObserved"}
  BY DEF Kinds, Closed
<1> QED BY <1>1, <1>2, <1>3, <1>4 DEF Stories

-----------------------------------------------------------------------------
(* The records of the type invariant.                                      *)
LaneRecords == [phase : Phases, pc : Steps, then : Steps, base : 0..MaxEdits,
                node : 0..(MaxEdits + 1), renames : 0..1,
                diff : {{}, {"target"}, {"other"}, {"target", "other"}}, checked : 0..MaxEdits]
DiskRecords == [present : BOOLEAN, registered : BOOLEAN, content : Contents,
                node : 0..(MaxEdits + 1), other : BOOLEAN, extra : BOOLEAN, temporary : BOOLEAN]
TreeRecords == [cleanup : {"none", "Active", "GitRemoved", "Released"}, prepared : BOOLEAN,
                poisoned : BOOLEAN, cleanup_on_drop : BOOLEAN]

LEMMA Types ==
    TypeOK <=> /\ source \in [head : 0..MaxEdits, clean : BOOLEAN] /\ disk \in DiskRecords
               /\ tree \in TreeRecords /\ lane \in LaneRecords /\ journal \in Seq(Records)
               /\ edits \in 0..MaxEdits /\ faults \in 0..MaxFaults
BY DEF TypeOK, DiskRecords, TreeRecords, LaneRecords

LEMMA TypesNext ==
    ASSUME source' \in [head : 0..MaxEdits, clean : BOOLEAN], disk' \in DiskRecords, tree' \in TreeRecords,
           lane' \in LaneRecords, journal' \in Seq(Records), edits' \in 0..MaxEdits, faults' \in 0..MaxFaults
    PROVE  TypeOK'
BY DEF TypeOK, DiskRecords, TreeRecords, LaneRecords

(* A failure is counted and stays within its bound.                        *)
Counted == faults' \in {faults, faults + 1} /\ faults' \in 0..MaxFaults

LEMMA FaultsCounted == ASSUME TypeOK, Fault \/ NoFault PROVE Counted
BY BoundsAssumption DEF Counted, Fault, NoFault, TypeOK

(* The source is looked at before anything is created.                     *)
LEMMA ObserveHeadBeforeKeeps == ASSUME WriteLaneInv, ObserveHeadBefore PROVE WriteLaneInv'
<1> USE DEF WriteLaneInv
<1>1. /\ lane.pc = "head_before" /\ UNCHANGED <<source, disk, tree, journal, edits>>
      /\ \/ lane' = [lane EXCEPT !.pc = "add", !.base = source.head]
         \/ lane' = [lane EXCEPT !.pc = "failed"]
      /\ Counted
  BY FaultsCounted DEF ObserveHeadBefore, At, Goto, Observe, Retain
<1>2. lane.phase \in {"none"} /\ lane \in LaneRecords /\ edits \in 0..MaxEdits /\ source.head \in 0..MaxEdits
  BY <1>1, Types DEF ControlOK, Acquiring, Checking, Removing, LaneRecords, Phases
<1>3. "add" \in Steps /\ "failed" \in Steps
  BY DEF Steps
<1>4. lane' \in LaneRecords
  BY <1>1, <1>2, <1>3 DEF LaneRecords
<1>5. /\ lane'.phase = lane.phase /\ lane'.then = lane.then /\ lane'.node = lane.node /\ lane'.renames = lane.renames /\ lane'.diff = lane.diff /\ lane'.checked = lane.checked
      /\ \/ lane'.pc = "add" /\ lane'.base = source.head
         \/ lane'.pc = "failed" /\ lane'.base = lane.base
  BY <1>1, <1>2 DEF LaneRecords
<1>6. TypeOK'
  BY <1>1, <1>4, Types, TypesNext DEF Counted
<1>7. ControlOK' /\ StoryOK'
  BY <1>1, <1>2, <1>5 DEF ControlOK, StoryOK, Acquiring, Checking, Removing
<1>8. DiskOK' /\ ComparisonOK'
  BY <1>1, <1>2, <1>5 DEF Counted, ControlOK, DiskOK, ComparisonOK, Acquiring, Checking, Removing,
         Absent, Unchanged, TrackedDiff, Untracked
<1> QED BY <1>6, <1>7, <1>8

(* The source is looked at again once the worktree is owned.               *)
LEMMA ObserveHeadAfterKeeps == ASSUME WriteLaneInv, ObserveHeadAfter PROVE WriteLaneInv'
<1> USE DEF WriteLaneInv
<1>1. /\ lane.pc = "head_after" /\ UNCHANGED <<source, disk, tree, journal, edits>>
      /\ \/ lane' = [lane EXCEPT !.pc = "acquired_pristine"]
         \/ lane' = [lane EXCEPT !.pc = "remove", !.then = "failed"]
      /\ Counted
  BY FaultsCounted DEF ObserveHeadAfter, At, Goto, Observe, Retain, ReleaseFailedAcquisition
<1>2. lane.phase \in {"none"} /\ lane \in LaneRecords /\ edits \in 0..MaxEdits /\ source.head \in 0..MaxEdits
  BY <1>1, Types DEF ControlOK, Acquiring, Checking, Removing, LaneRecords, Phases
<1>3. "acquired_pristine" \in Steps /\ "failed" \in Steps /\ "remove" \in Steps
  BY DEF Steps
<1>4. lane' \in LaneRecords
  BY <1>1, <1>2, <1>3 DEF LaneRecords
<1>5. /\ lane'.phase = lane.phase /\ lane'.base = lane.base /\ lane'.node = lane.node /\ lane'.renames = lane.renames /\ lane'.diff = lane.diff /\ lane'.checked = lane.checked
      /\ \/ lane'.pc = "acquired_pristine" /\ lane'.then = lane.then
         \/ lane'.pc = "remove" /\ lane'.then = "failed"
  BY <1>1, <1>2 DEF LaneRecords
<1>6. TypeOK'
  BY <1>1, <1>4, Types, TypesNext DEF Counted
<1>7. ControlOK' /\ StoryOK'
  BY <1>1, <1>2, <1>5 DEF ControlOK, StoryOK, Acquiring, Checking, Removing
<1>8. DiskOK' /\ ComparisonOK'
  BY <1>1, <1>2, <1>5 DEF Counted, ControlOK, DiskOK, ComparisonOK, Acquiring, Checking, Removing,
         Absent, Unchanged, TrackedDiff, Untracked
<1> QED BY <1>6, <1>7, <1>8

(* A pristine worktree is handed to the lane.                              *)
LEMMA ObserveAcquiredKeeps == ASSUME WriteLaneInv, ObserveAcquired PROVE WriteLaneInv'
<1> USE DEF WriteLaneInv
<1>1. /\ lane.pc = "acquired_pristine" /\ UNCHANGED <<source, disk, tree, journal, edits>>
      /\ \/ lane' = [lane EXCEPT !.pc = "idle", !.phase = "Ready"]
         \/ lane' = [lane EXCEPT !.pc = "remove", !.then = "failed"]
      /\ Counted
  BY FaultsCounted DEF ObserveAcquired, At, Goto, Observe, Retain, ReleaseFailedAcquisition
<1>2. lane.phase \in {"none"} /\ lane \in LaneRecords /\ edits \in 0..MaxEdits /\ source.head \in 0..MaxEdits
  BY <1>1, Types DEF ControlOK, Acquiring, Checking, Removing, LaneRecords, Phases
<1>3. "failed" \in Steps /\ "idle" \in Steps /\ "remove" \in Steps /\ "Ready" \in Phases
  BY DEF Steps, Phases
<1>4. lane' \in LaneRecords
  BY <1>1, <1>2, <1>3 DEF LaneRecords
<1>5. /\ lane'.base = lane.base /\ lane'.node = lane.node /\ lane'.renames = lane.renames /\ lane'.diff = lane.diff /\ lane'.checked = lane.checked
      /\ \/ lane'.phase = "Ready" /\ lane'.pc = "idle" /\ lane'.then = lane.then
         \/ lane'.phase = lane.phase /\ lane'.pc = "remove" /\ lane'.then = "failed"
  BY <1>1, <1>2 DEF LaneRecords
<1>6. TypeOK'
  BY <1>1, <1>4, Types, TypesNext DEF Counted
<1>7. ControlOK' /\ StoryOK'
  BY <1>1, <1>2, <1>5 DEF ControlOK, StoryOK, Acquiring, Checking, Removing
<1>8. DiskOK' /\ ComparisonOK'
  BY <1>1, <1>2, <1>5 DEF Counted, ControlOK, DiskOK, ComparisonOK, Acquiring, Checking, Removing,
         Absent, Unchanged, TrackedDiff, Untracked
<1> QED BY <1>6, <1>7, <1>8

(* A replacement begins on a ready lane.                                   *)
LEMMA ExecuteOnceKeeps == ASSUME WriteLaneInv, ExecuteOnce PROVE WriteLaneInv'
<1> USE DEF WriteLaneInv
<1>1. /\ lane.pc = "idle" /\ lane.phase = "Ready" /\ UNCHANGED <<source, disk, tree, journal, edits, faults>>
      /\ lane' = [lane EXCEPT !.pc = "pristine"]
      /\ Counted
  BY FaultsCounted DEF ExecuteOnce, At, Goto, Observe, Retain, NoFault
<1>2. lane.phase \in {"Ready"} /\ lane \in LaneRecords /\ edits \in 0..MaxEdits /\ source.head \in 0..MaxEdits
  BY <1>1, Types DEF ControlOK, Acquiring, Checking, Removing, LaneRecords, Phases
<1>3. "pristine" \in Steps
  BY DEF Steps
<1>4. lane' \in LaneRecords
  BY <1>1, <1>2, <1>3 DEF LaneRecords
<1>5. /\ lane'.phase = lane.phase /\ lane'.then = lane.then /\ lane'.base = lane.base /\ lane'.node = lane.node /\ lane'.renames = lane.renames /\ lane'.diff = lane.diff /\ lane'.checked = lane.checked
      /\ lane'.pc = "pristine"
  BY <1>1, <1>2 DEF LaneRecords
<1>6. TypeOK'
  BY <1>1, <1>4, Types, TypesNext DEF Counted
<1>7. ControlOK' /\ StoryOK'
  BY <1>1, <1>2, <1>5 DEF ControlOK, StoryOK, Acquiring, Checking, Removing
<1>8. DiskOK' /\ ComparisonOK'
  BY <1>1, <1>2, <1>5 DEF Counted, ControlOK, DiskOK, ComparisonOK, Acquiring, Checking, Removing,
         Absent, Unchanged, TrackedDiff, Untracked
<1> QED BY <1>6, <1>7, <1>8

(* Only a pristine worktree is written to.                                 *)
LEMMA ObservePristineKeeps == ASSUME WriteLaneInv, ObservePristine PROVE WriteLaneInv'
<1> USE DEF WriteLaneInv
<1>1. /\ lane.pc = "pristine" /\ UNCHANGED <<source, disk, tree, journal, edits>>
      /\ \/ lane' = [lane EXCEPT !.pc = "prepare"]
         \/ lane' = [lane EXCEPT !.pc = "idle"]
      /\ Counted
  BY FaultsCounted DEF ObservePristine, At, Goto, Observe, Retain, Rejected
<1>2. lane.phase \in {"Ready"} /\ lane \in LaneRecords /\ edits \in 0..MaxEdits /\ source.head \in 0..MaxEdits
  BY <1>1, Types DEF ControlOK, Acquiring, Checking, Removing, LaneRecords, Phases
<1>3. "idle" \in Steps /\ "prepare" \in Steps
  BY DEF Steps
<1>4. lane' \in LaneRecords
  BY <1>1, <1>2, <1>3 DEF LaneRecords
<1>5. /\ lane'.phase = lane.phase /\ lane'.then = lane.then /\ lane'.base = lane.base /\ lane'.node = lane.node /\ lane'.renames = lane.renames /\ lane'.diff = lane.diff /\ lane'.checked = lane.checked
      /\ \/ lane'.pc = "prepare"
         \/ lane'.pc = "idle"
  BY <1>1, <1>2 DEF LaneRecords
<1>6. TypeOK'
  BY <1>1, <1>4, Types, TypesNext DEF Counted
<1>7. ControlOK' /\ StoryOK'
  BY <1>1, <1>2, <1>5 DEF ControlOK, StoryOK, Acquiring, Checking, Removing
<1>8. DiskOK' /\ ComparisonOK'
  <2>1. DiskOK'
    BY <1>1, <1>2, <1>5 DEF Counted, DiskOK, Removing, Absent, TypeOK
  <2>2. ComparisonOK'
    BY <1>1, <1>2, <1>5 DEF ComparisonOK, Unchanged, TrackedDiff, Untracked
  <2> QED BY <2>1, <2>2
<1> QED BY <1>6, <1>7, <1>8

(* The target is compared with the preimage once more.                     *)
LEMMA LastLookKeeps == ASSUME WriteLaneInv, LastLook PROVE WriteLaneInv'
<1> USE DEF WriteLaneInv
<1>1. /\ lane.pc = "last_look" /\ UNCHANGED <<source, disk, tree, journal, edits>>
      /\ \/ Unchanged /\ lane' = [lane EXCEPT !.pc = "rename", !.checked = edits]
         \/ lane' = [lane EXCEPT !.pc = "unlink", !.then = "idle"]
      /\ Counted
  BY FaultsCounted DEF LastLook, At, Goto, Observe, Retain, GiveUp
<1>2. lane.phase \in {"EffectInFlight"} /\ lane \in LaneRecords /\ edits \in 0..MaxEdits /\ source.head \in 0..MaxEdits
  BY <1>1, Types DEF ControlOK, Acquiring, Checking, Removing, LaneRecords, Phases
<1>3. "idle" \in Steps /\ "rename" \in Steps /\ "unlink" \in Steps
  BY DEF Steps
<1>4. lane' \in LaneRecords
  BY <1>1, <1>2, <1>3 DEF LaneRecords
<1>5. /\ lane'.phase = lane.phase /\ lane'.base = lane.base /\ lane'.node = lane.node /\ lane'.renames = lane.renames /\ lane'.diff = lane.diff
      /\ \/ Unchanged /\ lane'.pc = "rename" /\ lane'.then = lane.then /\ lane'.checked = edits
         \/ lane'.pc = "unlink" /\ lane'.then = "idle" /\ lane'.checked = lane.checked
  BY <1>1, <1>2 DEF LaneRecords
<1>6. TypeOK'
  BY <1>1, <1>4, Types, TypesNext DEF Counted
<1>7. ControlOK' /\ StoryOK'
  BY <1>1, <1>2, <1>5 DEF ControlOK, StoryOK, Acquiring, Checking, Removing
<1>8. DiskOK' /\ ComparisonOK'
  BY <1>1, <1>2, <1>5 DEF Counted, ControlOK, DiskOK, ComparisonOK, Acquiring, Checking, Removing,
         Absent, Unchanged, TrackedDiff, Untracked
<1> QED BY <1>6, <1>7, <1>8

(* The diff names the target and nothing else, or the lane is terminal.    *)
LEMMA ObserveDiffKeeps == ASSUME WriteLaneInv, ObserveDiff PROVE WriteLaneInv'
<1> USE DEF WriteLaneInv
<1>1. /\ lane.pc = "diff" /\ UNCHANGED <<source, disk, tree, journal, edits>>
      /\ \/ lane' = [lane EXCEPT !.pc = "untracked", !.diff = {"target"}]
         \/ lane' = [lane EXCEPT !.pc = "idle", !.phase = "ReconciliationRequired"]
      /\ Counted
  BY FaultsCounted DEF ObserveDiff, At, Goto, Observe, Retain, Reconcile
<1>2. lane.phase \in {"EffectInFlight"} /\ lane \in LaneRecords /\ edits \in 0..MaxEdits /\ source.head \in 0..MaxEdits
  BY <1>1, Types DEF ControlOK, Acquiring, Checking, Removing, LaneRecords, Phases
<1>3. "idle" \in Steps /\ "untracked" \in Steps /\ "ReconciliationRequired" \in Phases
  BY DEF Steps, Phases
<1>4. lane' \in LaneRecords
  BY <1>1, <1>2, <1>3 DEF LaneRecords
<1>5. /\ lane'.then = lane.then /\ lane'.base = lane.base /\ lane'.node = lane.node /\ lane'.renames = lane.renames /\ lane'.checked = lane.checked
      /\ \/ lane'.phase = lane.phase /\ lane'.pc = "untracked" /\ lane'.diff = {"target"}
         \/ lane'.phase = "ReconciliationRequired" /\ lane'.pc = "idle" /\ lane'.diff = lane.diff
  BY <1>1, <1>2 DEF LaneRecords
<1>6. TypeOK'
  BY <1>1, <1>4, Types, TypesNext DEF Counted
<1>7. ControlOK' /\ StoryOK'
  BY <1>1, <1>2, <1>5 DEF ControlOK, StoryOK, Acquiring, Checking, Removing
<1>8. DiskOK' /\ ComparisonOK'
  BY <1>1, <1>2, <1>5 DEF Counted, ControlOK, DiskOK, ComparisonOK, Acquiring, Checking, Removing,
         Absent, Unchanged, TrackedDiff, Untracked
<1> QED BY <1>6, <1>7, <1>8

(* Nothing untracked may lie beside the target.                            *)
LEMMA ObserveUntrackedKeeps == ASSUME WriteLaneInv, ObserveUntracked PROVE WriteLaneInv'
<1> USE DEF WriteLaneInv
<1>1. /\ lane.pc = "untracked" /\ UNCHANGED <<source, disk, tree, journal, edits>>
      /\ \/ lane' = [lane EXCEPT !.pc = "journal_diff"]
         \/ lane' = [lane EXCEPT !.pc = "idle", !.phase = "ReconciliationRequired"]
      /\ Counted
  BY FaultsCounted DEF ObserveUntracked, At, Goto, Observe, Retain, Reconcile
<1>2. lane.phase \in {"EffectInFlight"} /\ lane \in LaneRecords /\ edits \in 0..MaxEdits /\ source.head \in 0..MaxEdits
  BY <1>1, Types DEF ControlOK, Acquiring, Checking, Removing, LaneRecords, Phases
<1>3. "idle" \in Steps /\ "journal_diff" \in Steps /\ "ReconciliationRequired" \in Phases
  BY DEF Steps, Phases
<1>4. lane' \in LaneRecords
  BY <1>1, <1>2, <1>3 DEF LaneRecords
<1>5. /\ lane'.then = lane.then /\ lane'.base = lane.base /\ lane'.node = lane.node /\ lane'.renames = lane.renames /\ lane'.diff = lane.diff /\ lane'.checked = lane.checked
      /\ \/ lane'.phase = lane.phase /\ lane'.pc = "journal_diff"
         \/ lane'.phase = "ReconciliationRequired" /\ lane'.pc = "idle"
  BY <1>1, <1>2 DEF LaneRecords
<1>6. TypeOK'
  BY <1>1, <1>4, Types, TypesNext DEF Counted
<1>7. ControlOK' /\ StoryOK'
  BY <1>1, <1>2, <1>5 DEF ControlOK, StoryOK, Acquiring, Checking, Removing
<1>8. DiskOK' /\ ComparisonOK'
  BY <1>1, <1>2, <1>5 DEF Counted, ControlOK, DiskOK, ComparisonOK, Acquiring, Checking, Removing,
         Absent, Unchanged, TrackedDiff, Untracked
<1> QED BY <1>6, <1>7, <1>8

(* The first comparison of a retained worktree.                            *)
LEMMA CheckFileKeeps == ASSUME WriteLaneInv, CheckFile PROVE WriteLaneInv'
<1> USE DEF WriteLaneInv
<1>1. /\ lane.pc = "check_file" /\ UNCHANGED <<source, disk, tree, journal, edits>>
      /\ \/ disk.content = "post" /\ lane' = [lane EXCEPT !.pc = "check_diff"]
         \/ lane' = [lane EXCEPT !.pc = "idle", !.phase = "ReconciliationRequired"]
      /\ Counted
  BY FaultsCounted DEF CheckFile, At, Goto, Observe, Retain, Reconcile
<1>2. lane.phase \in {"EffectInFlight", "Written"} /\ lane \in LaneRecords /\ edits \in 0..MaxEdits /\ source.head \in 0..MaxEdits
  BY <1>1, Types DEF ControlOK, Acquiring, Checking, Removing, LaneRecords, Phases
<1>3. "check_diff" \in Steps /\ "idle" \in Steps /\ "ReconciliationRequired" \in Phases
  BY DEF Steps, Phases
<1>4. lane' \in LaneRecords
  BY <1>1, <1>2, <1>3 DEF LaneRecords
<1>5. /\ lane'.then = lane.then /\ lane'.base = lane.base /\ lane'.node = lane.node /\ lane'.renames = lane.renames /\ lane'.diff = lane.diff /\ lane'.checked = lane.checked
      /\ \/ disk.content = "post" /\ lane'.phase = lane.phase /\ lane'.pc = "check_diff"
         \/ lane'.phase = "ReconciliationRequired" /\ lane'.pc = "idle"
  BY <1>1, <1>2 DEF LaneRecords
<1>6. TypeOK'
  BY <1>1, <1>4, Types, TypesNext DEF Counted
<1>7. ControlOK' /\ StoryOK'
  BY <1>1, <1>2, <1>5 DEF ControlOK, StoryOK, Acquiring, Checking, Removing
<1>8. DiskOK' /\ ComparisonOK'
  BY <1>1, <1>2, <1>5 DEF Counted, ControlOK, DiskOK, ComparisonOK, Acquiring, Checking, Removing,
         Absent, Unchanged, TrackedDiff, Untracked
<1> QED BY <1>6, <1>7, <1>8

(* The second comparison of a retained worktree.                           *)
LEMMA CheckDiffKeeps == ASSUME WriteLaneInv, CheckDiff PROVE WriteLaneInv'
<1> USE DEF WriteLaneInv
<1>1. /\ lane.pc = "check_diff" /\ UNCHANGED <<source, disk, tree, journal, edits>>
      /\ \/ disk.content = "post" /\ TrackedDiff = lane.diff /\ lane' = [lane EXCEPT !.pc = "check_untracked"]
         \/ lane' = [lane EXCEPT !.pc = "idle", !.phase = "ReconciliationRequired"]
      /\ Counted
  BY FaultsCounted DEF CheckDiff, At, Goto, Observe, Retain, Reconcile
<1>2. lane.phase \in {"EffectInFlight", "Written"} /\ lane \in LaneRecords /\ edits \in 0..MaxEdits /\ source.head \in 0..MaxEdits
  BY <1>1, Types DEF ControlOK, Acquiring, Checking, Removing, LaneRecords, Phases
<1>3. "check_untracked" \in Steps /\ "idle" \in Steps /\ "ReconciliationRequired" \in Phases
  BY DEF Steps, Phases
<1>4. lane' \in LaneRecords
  BY <1>1, <1>2, <1>3 DEF LaneRecords
<1>5. /\ lane'.then = lane.then /\ lane'.base = lane.base /\ lane'.node = lane.node /\ lane'.renames = lane.renames /\ lane'.diff = lane.diff /\ lane'.checked = lane.checked
      /\ \/ disk.content = "post" /\ TrackedDiff = lane.diff /\ lane'.phase = lane.phase /\ lane'.pc = "check_untracked"
         \/ lane'.phase = "ReconciliationRequired" /\ lane'.pc = "idle"
  BY <1>1, <1>2 DEF LaneRecords
<1>6. TypeOK'
  BY <1>1, <1>4, Types, TypesNext DEF Counted
<1>7. ControlOK' /\ StoryOK'
  BY <1>1, <1>2, <1>5 DEF ControlOK, StoryOK, Acquiring, Checking, Removing
<1>8. DiskOK' /\ ComparisonOK'
  BY <1>1, <1>2, <1>5 DEF Counted, ControlOK, DiskOK, ComparisonOK, Acquiring, Checking, Removing,
         Absent, Unchanged, TrackedDiff, Untracked
<1> QED BY <1>6, <1>7, <1>8

(* A release begins on a written lane.                                     *)
LEMMA ReleaseAfterCandidatePublishedKeeps == ASSUME WriteLaneInv, ReleaseAfterCandidatePublished PROVE WriteLaneInv'
<1> USE DEF WriteLaneInv
<1>1. /\ lane.pc = "idle" /\ lane.phase = "Written" /\ UNCHANGED <<source, disk, tree, journal, edits, faults>>
      /\ lane' = [lane EXCEPT !.pc = "check_file", !.then = "journal_cleanup", !.checked = edits]
      /\ Counted
  BY FaultsCounted DEF ReleaseAfterCandidatePublished, At, Goto, Observe, Retain, Check, NoFault
<1>2. lane.phase \in {"Written"} /\ lane \in LaneRecords /\ edits \in 0..MaxEdits /\ source.head \in 0..MaxEdits
  BY <1>1, Types DEF ControlOK, Acquiring, Checking, Removing, LaneRecords, Phases
<1>3. "check_file" \in Steps /\ "journal_cleanup" \in Steps
  BY DEF Steps
<1>4. lane' \in LaneRecords
  BY <1>1, <1>2, <1>3 DEF LaneRecords
<1>5. /\ lane'.phase = lane.phase /\ lane'.base = lane.base /\ lane'.node = lane.node /\ lane'.renames = lane.renames /\ lane'.diff = lane.diff
      /\ lane'.pc = "check_file" /\ lane'.then = "journal_cleanup" /\ lane'.checked = edits
  BY <1>1, <1>2 DEF LaneRecords
<1>6. TypeOK'
  BY <1>1, <1>4, Types, TypesNext DEF Counted
<1>7. ControlOK' /\ StoryOK'
  BY <1>1, <1>2, <1>5 DEF ControlOK, StoryOK, Acquiring, Checking, Removing
<1>8. DiskOK' /\ ComparisonOK'
  BY <1>1, <1>2, <1>5 DEF Counted, ControlOK, DiskOK, ComparisonOK, Acquiring, Checking, Removing,
         Absent, Unchanged, TrackedDiff, Untracked
<1> QED BY <1>6, <1>7, <1>8

(* The effect is prepared in memory on an untouched target.                *)
LEMMA PrepareReplaceKeeps == ASSUME WriteLaneInv, PrepareReplace PROVE WriteLaneInv'
<1> USE DEF WriteLaneInv
<1>1. /\ lane.pc = "prepare" /\ UNCHANGED <<source, disk, journal, edits>>
      /\ \/ /\ lane' = [lane EXCEPT !.pc = "journal_prepared", !.node = disk.node]
            /\ tree' = [tree EXCEPT !.prepared = TRUE]
         \/ lane' = [lane EXCEPT !.pc = "idle"] /\ tree' = tree
      /\ Counted
  BY FaultsCounted DEF PrepareReplace, At, Goto, Rejected
<1>2. /\ lane.phase \in {"Ready"} /\ lane \in LaneRecords /\ disk \in DiskRecords
      /\ tree \in TreeRecords
      /\ edits \in 0..MaxEdits /\ faults \in 0..MaxFaults
      /\ disk.node \in 0..(MaxEdits + 1)
  BY <1>1, Types, BoundsAssumption DEF ControlOK, StoryOK, Acquiring, Checking, Removing, LaneRecords, DiskRecords, Phases
<1>3. "idle" \in Steps /\ "journal_prepared" \in Steps
  BY DEF Steps
<1>4. lane' \in LaneRecords /\ tree' \in TreeRecords
  <2>1. lane' \in LaneRecords
    BY <1>1, <1>2, <1>3, BoundsAssumption DEF LaneRecords, Contents
  <2>2. tree' \in TreeRecords
    BY <1>1, <1>2, <1>3, BoundsAssumption DEF TreeRecords, Contents
  <2> QED BY <2>1, <2>2
<1>5. /\ lane'.phase = lane.phase /\ lane'.then = lane.then /\ lane'.base = lane.base
      /\ lane'.renames = lane.renames /\ lane'.diff = lane.diff /\ lane'.checked = lane.checked
      /\ tree'.cleanup = tree.cleanup /\ tree'.poisoned = tree.poisoned
      /\ tree'.cleanup_on_drop = tree.cleanup_on_drop
      /\ \/ lane'.pc = "journal_prepared" /\ lane'.node = disk.node /\ tree'.prepared = TRUE
         \/ lane'.pc = "idle" /\ lane'.node = lane.node /\ tree'.prepared = tree.prepared
  BY <1>1, <1>2 DEF LaneRecords, TreeRecords
<1>6. TypeOK'
  BY <1>1, <1>4, Types, TypesNext DEF Counted
<1>7. ControlOK'
  BY <1>1, <1>2, <1>5 DEF ControlOK, Acquiring, Checking, Removing
<1>8. StoryOK'
  BY <1>1, <1>2, <1>5 DEF StoryOK, ControlOK, Acquiring, Checking, Removing
<1>9. DiskOK'
  BY <1>1, <1>2, <1>5 DEF Counted, DiskOK, ControlOK, Acquiring, Checking, Removing, Absent
<1>10. ComparisonOK'
  BY <1>1, <1>2, <1>5 DEF ComparisonOK, Unchanged, TrackedDiff, Untracked
<1> QED BY <1>6, <1>7, <1>8, <1>9, <1>10

(* The preparation is journaled, or the effect does not begin.             *)
LEMMA JournalPreparedKeeps == ASSUME WriteLaneInv, JournalPrepared PROVE WriteLaneInv'
<1> USE DEF WriteLaneInv
<1>1. /\ lane.pc = "journal_prepared" /\ UNCHANGED <<source, disk, edits>>
      /\ \/ /\ lane' = [lane EXCEPT !.pc = "reobserve", !.phase = "EffectInFlight"]
            /\ tree' = [tree EXCEPT !.cleanup_on_drop = FALSE]
            /\ journal' = Append(journal, "FileReplacePrepared")
         \/ /\ lane' = [lane EXCEPT !.pc = "idle"] /\ tree' = [tree EXCEPT !.prepared = FALSE]
            /\ journal' = journal
      /\ Counted
  BY FaultsCounted DEF JournalPrepared, At, Goto, Retain, Rejected
<1>2. /\ lane.phase \in {"Ready"} /\ lane \in LaneRecords /\ disk \in DiskRecords
      /\ tree \in TreeRecords
      /\ edits \in 0..MaxEdits /\ faults \in 0..MaxFaults
      /\ journal = Silent
  BY <1>1, Types, BoundsAssumption DEF ControlOK, StoryOK, Acquiring, Checking, Removing, LaneRecords, DiskRecords, Phases
<1>3. "idle" \in Steps /\ "reobserve" \in Steps /\ "EffectInFlight" \in Phases
  BY DEF Steps, Phases
<1>4. lane' \in LaneRecords /\ tree' \in TreeRecords
  <2>1. lane' \in LaneRecords
    BY <1>1, <1>2, <1>3, BoundsAssumption DEF LaneRecords, Contents
  <2>2. tree' \in TreeRecords
    BY <1>1, <1>2, <1>3, BoundsAssumption DEF TreeRecords, Contents
  <2> QED BY <2>1, <2>2
<1>5. /\ lane'.then = lane.then /\ lane'.base = lane.base /\ lane'.node = lane.node
      /\ lane'.renames = lane.renames /\ lane'.diff = lane.diff /\ lane'.checked = lane.checked
      /\ tree'.cleanup = tree.cleanup /\ tree'.poisoned = tree.poisoned
      /\ \/ /\ lane'.phase = "EffectInFlight" /\ lane'.pc = "reobserve"
            /\ tree'.prepared = tree.prepared /\ tree'.cleanup_on_drop = FALSE
            /\ journal' = Announced
         \/ /\ lane'.phase = lane.phase /\ lane'.pc = "idle" /\ tree'.prepared = FALSE
            /\ tree'.cleanup_on_drop = tree.cleanup_on_drop /\ journal' = journal
  <2>1. CASE /\ lane' = [lane EXCEPT !.pc = "reobserve", !.phase = "EffectInFlight"]
             /\ tree' = [tree EXCEPT !.cleanup_on_drop = FALSE]
             /\ journal' = Append(journal, "FileReplacePrepared")
    <3>1. journal' = Announced
      BY <1>2, <2>1, StoriesFollow
    <3> QED BY <1>2, <2>1, <3>1 DEF LaneRecords, TreeRecords
  <2>2. CASE /\ lane' = [lane EXCEPT !.pc = "idle"] /\ tree' = [tree EXCEPT !.prepared = FALSE]
             /\ journal' = journal
    BY <1>2, <2>2 DEF LaneRecords, TreeRecords
  <2> QED BY <1>1, <2>1, <2>2
<1>6. TypeOK'
  <2>1. journal' \in Seq(Records)
    BY <1>1, <1>5, StoriesAreJournals DEF TypeOK
  <2> QED BY <1>1, <1>4, <2>1, Types, TypesNext DEF Counted
<1>7. ControlOK'
  BY <1>1, <1>2, <1>5 DEF ControlOK, Acquiring, Checking, Removing
<1>8. StoryOK'
  BY <1>1, <1>2, <1>5, StoriesDiffer DEF StoryOK, ControlOK, Acquiring, Checking, Removing, Stories
<1>9. DiskOK'
  BY <1>1, <1>2, <1>5 DEF Counted, DiskOK, ControlOK, Acquiring, Checking, Removing, Absent
<1>10. ComparisonOK'
  BY <1>1, <1>2, <1>5 DEF ComparisonOK, Unchanged, TrackedDiff, Untracked
<1> QED BY <1>6, <1>7, <1>8, <1>9, <1>10

(* The target is observed again before a temporary file is created.        *)
LEMMA ReobserveKeeps == ASSUME WriteLaneInv, Reobserve PROVE WriteLaneInv'
<1> USE DEF WriteLaneInv
<1>1. /\ lane.pc = "reobserve" /\ UNCHANGED <<source, disk, journal, edits>>
      /\ \/ lane' = [lane EXCEPT !.pc = "temporary"] /\ tree' = tree
         \/ /\ lane' = [lane EXCEPT !.pc = "idle", !.phase = "ReconciliationRequired"]
            /\ tree' = [tree EXCEPT !.prepared = FALSE]
      /\ Counted
  BY FaultsCounted DEF Reobserve, At, Goto, AbandonReplace, Reconcile
<1>2. /\ lane.phase \in {"EffectInFlight"} /\ lane \in LaneRecords /\ disk \in DiskRecords
      /\ tree \in TreeRecords
      /\ edits \in 0..MaxEdits /\ faults \in 0..MaxFaults
  BY <1>1, Types, BoundsAssumption DEF ControlOK, StoryOK, Acquiring, Checking, Removing, LaneRecords, DiskRecords, Phases
<1>3. "idle" \in Steps /\ "temporary" \in Steps /\ "ReconciliationRequired" \in Phases
  BY DEF Steps, Phases
<1>4. lane' \in LaneRecords /\ tree' \in TreeRecords
  <2>1. lane' \in LaneRecords
    BY <1>1, <1>2, <1>3, BoundsAssumption DEF LaneRecords, Contents
  <2>2. tree' \in TreeRecords
    BY <1>1, <1>2, <1>3, BoundsAssumption DEF TreeRecords, Contents
  <2> QED BY <2>1, <2>2
<1>5. /\ lane'.then = lane.then /\ lane'.base = lane.base /\ lane'.node = lane.node
      /\ lane'.renames = lane.renames /\ lane'.diff = lane.diff /\ lane'.checked = lane.checked
      /\ tree'.cleanup = tree.cleanup /\ tree'.poisoned = tree.poisoned
      /\ tree'.cleanup_on_drop = tree.cleanup_on_drop
      /\ \/ /\ lane'.phase = lane.phase /\ lane'.pc = "temporary"
            /\ tree'.prepared = tree.prepared
         \/ /\ lane'.phase = "ReconciliationRequired" /\ lane'.pc = "idle"
            /\ tree'.prepared = FALSE
  <2>1. CASE lane' = [lane EXCEPT !.pc = "temporary"] /\ tree' = tree
    BY <1>2, <2>1 DEF LaneRecords
  <2>2. CASE /\ lane' = [lane EXCEPT !.pc = "idle", !.phase = "ReconciliationRequired"]
             /\ tree' = [tree EXCEPT !.prepared = FALSE]
    BY <1>2, <2>2 DEF LaneRecords, TreeRecords
  <2> QED BY <1>1, <2>1, <2>2
<1>6. TypeOK'
  BY <1>1, <1>4, Types, TypesNext DEF Counted
<1>7. ControlOK'
  BY <1>1, <1>2, <1>5 DEF ControlOK, Acquiring, Checking, Removing
<1>8. StoryOK'
  BY <1>1, <1>2, <1>5 DEF StoryOK, ControlOK, Acquiring, Checking, Removing
<1>9. DiskOK'
  BY <1>1, <1>2, <1>5 DEF Counted, DiskOK, ControlOK, Acquiring, Checking, Removing, Absent
<1>10. ComparisonOK'
  BY <1>1, <1>2, <1>5 DEF ComparisonOK, Unchanged, TrackedDiff, Untracked
<1> QED BY <1>6, <1>7, <1>8, <1>9, <1>10

(* The temporary file is created.                                          *)
LEMMA CreateTemporaryKeeps == ASSUME WriteLaneInv, CreateTemporary PROVE WriteLaneInv'
<1> USE DEF WriteLaneInv
<1>1. /\ lane.pc = "temporary" /\ UNCHANGED <<source, journal, edits>>
      /\ \/ /\ lane' = [lane EXCEPT !.pc = "last_look"]
            /\ disk' = [disk EXCEPT !.temporary = TRUE] /\ tree' = tree
         \/ /\ lane' = [lane EXCEPT !.pc = "idle", !.phase = "ReconciliationRequired"]
            /\ disk' = disk /\ tree' = [tree EXCEPT !.prepared = FALSE]
      /\ Counted
  BY FaultsCounted DEF CreateTemporary, At, Goto, AbandonReplace, Reconcile
<1>2. /\ lane.phase \in {"EffectInFlight"} /\ lane \in LaneRecords /\ disk \in DiskRecords
      /\ tree \in TreeRecords
      /\ edits \in 0..MaxEdits /\ faults \in 0..MaxFaults
  BY <1>1, Types, BoundsAssumption DEF ControlOK, StoryOK, Acquiring, Checking, Removing, LaneRecords, DiskRecords, Phases
<1>3. "idle" \in Steps /\ "last_look" \in Steps /\ "ReconciliationRequired" \in Phases
  BY DEF Steps, Phases
<1>4. lane' \in LaneRecords /\ disk' \in DiskRecords /\ tree' \in TreeRecords
  <2>1. lane' \in LaneRecords
    BY <1>1, <1>2, <1>3, BoundsAssumption DEF LaneRecords, Contents
  <2>2. disk' \in DiskRecords
    BY <1>1, <1>2, <1>3, BoundsAssumption DEF DiskRecords, Contents
  <2>3. tree' \in TreeRecords
    BY <1>1, <1>2, <1>3, BoundsAssumption DEF TreeRecords, Contents
  <2> QED BY <2>1, <2>2, <2>3
<1>5. /\ lane'.then = lane.then /\ lane'.base = lane.base /\ lane'.node = lane.node
      /\ lane'.renames = lane.renames /\ lane'.diff = lane.diff /\ lane'.checked = lane.checked
      /\ disk'.present = disk.present /\ disk'.registered = disk.registered
      /\ disk'.content = disk.content /\ disk'.node = disk.node /\ disk'.other = disk.other
      /\ disk'.extra = disk.extra /\ tree'.cleanup = tree.cleanup
      /\ tree'.poisoned = tree.poisoned /\ tree'.cleanup_on_drop = tree.cleanup_on_drop
      /\ \/ /\ lane'.phase = lane.phase /\ lane'.pc = "last_look" /\ disk'.temporary = TRUE
            /\ tree'.prepared = tree.prepared
         \/ /\ lane'.phase = "ReconciliationRequired" /\ lane'.pc = "idle"
            /\ disk'.temporary = disk.temporary /\ tree'.prepared = FALSE
  BY <1>1, <1>2 DEF LaneRecords, DiskRecords, TreeRecords
<1>6. TypeOK'
  BY <1>1, <1>4, Types, TypesNext DEF Counted
<1>7. ControlOK'
  BY <1>1, <1>2, <1>5 DEF ControlOK, Acquiring, Checking, Removing
<1>8. StoryOK'
  BY <1>1, <1>2, <1>5 DEF StoryOK, ControlOK, Acquiring, Checking, Removing
<1>9. DiskOK'
  BY <1>1, <1>2, <1>5 DEF Counted, DiskOK, ControlOK, Acquiring, Checking, Removing, Absent
<1>10. ComparisonOK'
  BY <1>1, <1>2, <1>5 DEF ComparisonOK, Unchanged, TrackedDiff, Untracked
<1> QED BY <1>6, <1>7, <1>8, <1>9, <1>10

(* The rename happens once; an error may hide it.                          *)
LEMMA RenameKeeps == ASSUME WriteLaneInv, Rename PROVE WriteLaneInv'
<1> USE DEF WriteLaneInv
<1> DEFINE fresh == MaxEdits + 1
           Moved == disk' = [disk EXCEPT !.content = "post", !.node = fresh, !.temporary = FALSE]
<1>1. /\ lane.renames = 0 /\ lane.phase = "EffectInFlight" /\ lane \in LaneRecords /\ disk \in DiskRecords
      /\ tree \in TreeRecords /\ edits \in 0..MaxEdits /\ faults \in 0..MaxFaults
  BY Types DEF Rename, At, ControlOK, StoryOK, Acquiring, Checking, Removing, LaneRecords, Phases
<1>2. 0 + 1 = 1 /\ fresh \in 0..(MaxEdits + 1)
  BY BoundsAssumption
<1>3. /\ lane.pc = "rename" /\ UNCHANGED <<source, tree, journal, edits>>
      /\ \/ lane' = [lane EXCEPT !.pc = "verify", !.renames = 1] /\ Moved
         \/ lane' = [lane EXCEPT !.pc = "unlink", !.then = "journal_unknown", !.renames = 1] /\ Moved
         \/ lane' = [lane EXCEPT !.pc = "unlink", !.then = "journal_unknown"] /\ disk' = disk
      /\ Counted
  BY <1>1, <1>2, FaultsCounted DEF Rename, At
<1> HIDE DEF fresh
<1>4. "verify" \in Steps /\ "unlink" \in Steps /\ "journal_unknown" \in Steps /\ "post" \in Contents /\ 1 \in 0..1
  BY DEF Steps, Contents
<1>5. lane' \in LaneRecords /\ disk' \in DiskRecords
  <2>1. lane' \in LaneRecords
    <3>1. CASE lane' = [lane EXCEPT !.pc = "verify", !.renames = 1]
      BY <1>1, <1>4, <3>1 DEF LaneRecords
    <3>2. CASE lane' = [lane EXCEPT !.pc = "unlink", !.then = "journal_unknown", !.renames = 1]
      BY <1>1, <1>4, <3>2 DEF LaneRecords
    <3>3. CASE lane' = [lane EXCEPT !.pc = "unlink", !.then = "journal_unknown"]
      BY <1>1, <1>4, <3>3 DEF LaneRecords
    <3> QED BY <1>3, <3>1, <3>2, <3>3
  <2>2. disk' \in DiskRecords
    BY <1>1, <1>2, <1>3, <1>4 DEF DiskRecords
  <2> QED BY <2>1, <2>2
<1>6. /\ lane'.phase = lane.phase /\ lane'.base = lane.base /\ lane'.node = lane.node /\ lane'.diff = lane.diff
      /\ lane'.checked = lane.checked /\ disk'.present = disk.present /\ disk'.registered = disk.registered
      /\ \/ lane'.pc = "verify" /\ lane'.renames = 1
         \/ lane'.pc = "unlink" /\ lane'.then = "journal_unknown"
  <2>1. disk'.present = disk.present /\ disk'.registered = disk.registered
    BY <1>1, <1>3 DEF DiskRecords
  <2>2. CASE lane' = [lane EXCEPT !.pc = "verify", !.renames = 1]
    BY <1>1, <2>1, <2>2 DEF LaneRecords
  <2>3. CASE lane' = [lane EXCEPT !.pc = "unlink", !.then = "journal_unknown", !.renames = 1]
    BY <1>1, <2>1, <2>3 DEF LaneRecords
  <2>4. CASE lane' = [lane EXCEPT !.pc = "unlink", !.then = "journal_unknown"]
    BY <1>1, <2>1, <2>4 DEF LaneRecords
  <2> QED BY <1>3, <2>2, <2>3, <2>4
<1>7. TypeOK'
  BY <1>3, <1>5, Types, TypesNext DEF Counted
<1>8. lane'.renames \in {0, 1}
  BY <1>5 DEF LaneRecords
<1>9. ControlOK' /\ StoryOK'
  <2>1. ControlOK'
    BY <1>1, <1>3, <1>6 DEF ControlOK, Acquiring, Checking, Removing
  <2>2. journal = Announced /\ journal \in Stories
    BY <1>3 DEF StoryOK
  <2>3. StoryOK'
    BY <1>1, <1>3, <1>6, <2>2, StoriesDiffer DEF StoryOK, ControlOK, Acquiring, Checking, Removing
  <2> QED BY <2>1, <2>3
<1>10. DiskOK'
  BY <1>1, <1>3, <1>6 DEF Counted, DiskOK, ControlOK, Acquiring, Checking, Removing, Absent
<1>11. ComparisonOK'
  BY <1>1, <1>3, <1>6 DEF ComparisonOK
<1> QED BY <1>7, <1>9, <1>10, <1>11

(* The postimage is read back, or the outcome is unknown.                  *)
LEMMA VerifyKeeps == ASSUME WriteLaneInv, Verify PROVE WriteLaneInv'
<1> USE DEF WriteLaneInv
<1>1. /\ lane.pc = "verify" /\ UNCHANGED <<source, disk, journal, edits>>
      /\ \/ /\ lane' = [lane EXCEPT !.pc = "journal_observed"]
            /\ tree' = [tree EXCEPT !.prepared = FALSE]
         \/ /\ lane' = [lane EXCEPT !.pc = "journal_unknown"]
            /\ tree' = [tree EXCEPT !.poisoned = TRUE]
      /\ Counted
  BY FaultsCounted DEF Verify, At, Goto, Poison
<1>2. /\ lane.phase \in {"EffectInFlight"} /\ lane \in LaneRecords /\ disk \in DiskRecords
      /\ tree \in TreeRecords
      /\ edits \in 0..MaxEdits /\ faults \in 0..MaxFaults
  BY <1>1, Types, BoundsAssumption DEF ControlOK, StoryOK, Acquiring, Checking, Removing, LaneRecords, DiskRecords, Phases
<1>3. "journal_observed" \in Steps /\ "journal_unknown" \in Steps
  BY DEF Steps
<1>4. lane' \in LaneRecords /\ tree' \in TreeRecords
  <2>1. lane' \in LaneRecords
    BY <1>1, <1>2, <1>3, BoundsAssumption DEF LaneRecords, Contents
  <2>2. tree' \in TreeRecords
    BY <1>1, <1>2, <1>3, BoundsAssumption DEF TreeRecords, Contents
  <2> QED BY <2>1, <2>2
<1>5. /\ lane'.phase = lane.phase /\ lane'.then = lane.then /\ lane'.base = lane.base
      /\ lane'.node = lane.node /\ lane'.renames = lane.renames /\ lane'.diff = lane.diff
      /\ lane'.checked = lane.checked /\ tree'.cleanup = tree.cleanup
      /\ tree'.cleanup_on_drop = tree.cleanup_on_drop
      /\ \/ /\ lane'.pc = "journal_observed" /\ tree'.prepared = FALSE
            /\ tree'.poisoned = tree.poisoned
         \/ /\ lane'.pc = "journal_unknown" /\ tree'.prepared = tree.prepared
            /\ tree'.poisoned = TRUE
  BY <1>1, <1>2 DEF LaneRecords, TreeRecords
<1>6. TypeOK'
  BY <1>1, <1>4, Types, TypesNext DEF Counted
<1>7. ControlOK'
  BY <1>1, <1>2, <1>5 DEF ControlOK, Acquiring, Checking, Removing
<1>8. StoryOK'
  BY <1>1, <1>2, <1>5 DEF StoryOK, ControlOK, Acquiring, Checking, Removing
<1>9. DiskOK'
  BY <1>1, <1>2, <1>5 DEF Counted, DiskOK, ControlOK, Acquiring, Checking, Removing, Absent
<1>10. ComparisonOK'
  BY <1>1, <1>2, <1>5 DEF ComparisonOK, Unchanged, TrackedDiff, Untracked
<1> QED BY <1>6, <1>7, <1>8, <1>9, <1>10

(* A temporary file that was not renamed is removed.                       *)
LEMMA UnlinkTemporaryKeeps == ASSUME WriteLaneInv, UnlinkTemporary PROVE WriteLaneInv'
<1> USE DEF WriteLaneInv
<1>1. /\ lane.pc = "unlink" /\ UNCHANGED <<source, journal, edits>>
      /\ \/ /\ lane' = [lane EXCEPT !.pc = "journal_unknown"]
            /\ disk' = [disk EXCEPT !.temporary = FALSE]
            /\ tree' = [tree EXCEPT !.poisoned = TRUE]
         \/ /\ lane' = [lane EXCEPT !.pc = "idle", !.phase = "ReconciliationRequired"]
            /\ disk' = [disk EXCEPT !.temporary = FALSE]
            /\ tree' = [tree EXCEPT !.prepared = FALSE]
         \/ /\ lane' = [lane EXCEPT !.pc = "journal_unknown"] /\ disk' = disk
            /\ tree' = [tree EXCEPT !.poisoned = TRUE]
      /\ Counted
  BY FaultsCounted DEF UnlinkTemporary, At, Goto, Poison, AbandonReplace, Reconcile
<1>2. /\ lane.phase \in {"EffectInFlight"} /\ lane \in LaneRecords /\ disk \in DiskRecords
      /\ tree \in TreeRecords
      /\ edits \in 0..MaxEdits /\ faults \in 0..MaxFaults
  BY <1>1, Types, BoundsAssumption DEF ControlOK, StoryOK, Acquiring, Checking, Removing, LaneRecords, DiskRecords, Phases
<1>3. "idle" \in Steps /\ "journal_unknown" \in Steps /\ "ReconciliationRequired" \in Phases
  BY DEF Steps, Phases
<1>4. lane' \in LaneRecords /\ disk' \in DiskRecords /\ tree' \in TreeRecords
  <2>1. lane' \in LaneRecords
    BY <1>1, <1>2, <1>3, BoundsAssumption DEF LaneRecords, Contents
  <2>2. disk' \in DiskRecords
    BY <1>1, <1>2, <1>3, BoundsAssumption DEF DiskRecords, Contents
  <2>3. tree' \in TreeRecords
    BY <1>1, <1>2, <1>3, BoundsAssumption DEF TreeRecords, Contents
  <2> QED BY <2>1, <2>2, <2>3
<1>5. /\ lane'.then = lane.then /\ lane'.base = lane.base /\ lane'.node = lane.node
      /\ lane'.renames = lane.renames /\ lane'.diff = lane.diff /\ lane'.checked = lane.checked
      /\ disk'.present = disk.present /\ disk'.registered = disk.registered
      /\ disk'.content = disk.content /\ disk'.node = disk.node /\ disk'.other = disk.other
      /\ disk'.extra = disk.extra /\ tree'.cleanup = tree.cleanup
      /\ tree'.cleanup_on_drop = tree.cleanup_on_drop
      /\ \/ /\ lane'.phase = lane.phase /\ lane'.pc = "journal_unknown"
            /\ disk'.temporary = FALSE /\ tree'.prepared = tree.prepared
            /\ tree'.poisoned = TRUE
         \/ /\ lane'.phase = "ReconciliationRequired" /\ lane'.pc = "idle"
            /\ disk'.temporary = FALSE /\ tree'.prepared = FALSE
            /\ tree'.poisoned = tree.poisoned
         \/ /\ lane'.phase = lane.phase /\ lane'.pc = "journal_unknown"
            /\ disk'.temporary = disk.temporary /\ tree'.prepared = tree.prepared
            /\ tree'.poisoned = TRUE
  <2>1. CASE /\ lane' = [lane EXCEPT !.pc = "journal_unknown"]
             /\ disk' = [disk EXCEPT !.temporary = FALSE]
             /\ tree' = [tree EXCEPT !.poisoned = TRUE]
    BY <1>2, <2>1 DEF LaneRecords, DiskRecords, TreeRecords
  <2>2. CASE /\ lane' = [lane EXCEPT !.pc = "idle", !.phase = "ReconciliationRequired"]
             /\ disk' = [disk EXCEPT !.temporary = FALSE]
             /\ tree' = [tree EXCEPT !.prepared = FALSE]
    BY <1>2, <2>2 DEF LaneRecords, DiskRecords, TreeRecords
  <2>3. CASE /\ lane' = [lane EXCEPT !.pc = "journal_unknown"] /\ disk' = disk
             /\ tree' = [tree EXCEPT !.poisoned = TRUE]
    BY <1>2, <2>3 DEF LaneRecords, DiskRecords, TreeRecords
  <2> QED BY <1>1, <2>1, <2>2, <2>3
<1>6. TypeOK'
  BY <1>1, <1>4, Types, TypesNext DEF Counted
<1>7. ControlOK'
  BY <1>1, <1>2, <1>5 DEF ControlOK, Acquiring, Checking, Removing
<1>8. StoryOK'
  BY <1>1, <1>2, <1>5 DEF StoryOK, ControlOK, Acquiring, Checking, Removing
<1>9. DiskOK'
  BY <1>1, <1>2, <1>5 DEF Counted, DiskOK, ControlOK, Acquiring, Checking, Removing, Absent
<1>10. ComparisonOK'
  BY <1>1, <1>2, <1>5 DEF ComparisonOK, Unchanged, TrackedDiff, Untracked
<1> QED BY <1>6, <1>7, <1>8, <1>9, <1>10

(* An unknown outcome is journaled if the journal takes it.                *)
LEMMA JournalUnknownKeeps == ASSUME WriteLaneInv, JournalUnknown PROVE WriteLaneInv'
<1> USE DEF WriteLaneInv
<1>1. /\ lane.pc = "journal_unknown" /\ UNCHANGED <<source, disk, tree, edits>>
      /\ \/ /\ lane' = [lane EXCEPT !.pc = "idle", !.phase = "ReconciliationRequired"]
            /\ journal' = Append(journal, "FileReplaceOutcomeUnknown")
         \/ /\ lane' = [lane EXCEPT !.pc = "idle", !.phase = "ReconciliationRequired"]
            /\ journal' = journal
      /\ Counted
  BY FaultsCounted DEF JournalUnknown, At, Goto, Retain, Reconcile
<1>2. /\ lane.phase \in {"EffectInFlight"} /\ lane \in LaneRecords /\ disk \in DiskRecords
      /\ tree \in TreeRecords
      /\ edits \in 0..MaxEdits /\ faults \in 0..MaxFaults
      /\ journal = Announced
  BY <1>1, Types, BoundsAssumption DEF ControlOK, StoryOK, Acquiring, Checking, Removing, LaneRecords, DiskRecords, Phases
<1>3. "idle" \in Steps /\ "ReconciliationRequired" \in Phases
  BY DEF Steps, Phases
<1>4. lane' \in LaneRecords
  BY <1>1, <1>2, <1>3, BoundsAssumption DEF LaneRecords, Contents
<1>5. /\ lane'.then = lane.then /\ lane'.base = lane.base /\ lane'.node = lane.node
      /\ lane'.renames = lane.renames /\ lane'.diff = lane.diff /\ lane'.checked = lane.checked
      /\ \/ /\ lane'.phase = "ReconciliationRequired" /\ lane'.pc = "idle"
            /\ journal' = Uncertain
         \/ lane'.phase = "ReconciliationRequired" /\ lane'.pc = "idle" /\ journal' = journal
  BY <1>1, <1>2, StoriesFollow DEF LaneRecords
<1>6. TypeOK'
  <2>1. journal' \in Seq(Records)
    BY <1>1, <1>5, StoriesAreJournals DEF TypeOK
  <2> QED BY <1>1, <1>4, <2>1, Types, TypesNext DEF Counted
<1>7. ControlOK'
  BY <1>1, <1>2, <1>5 DEF ControlOK, Acquiring, Checking, Removing
<1>8. StoryOK'
  BY <1>1, <1>2, <1>5, StoriesDiffer DEF StoryOK, ControlOK, Acquiring, Checking, Removing, Stories
<1>9. DiskOK'
  BY <1>1, <1>2, <1>5 DEF Counted, DiskOK, ControlOK, Acquiring, Checking, Removing, Absent
<1>10. ComparisonOK'
  BY <1>1, <1>2, <1>5 DEF ComparisonOK, Unchanged, TrackedDiff, Untracked
<1> QED BY <1>6, <1>7, <1>8, <1>9, <1>10

(* The observed replacement is journaled.                                  *)
LEMMA JournalObservedKeeps == ASSUME WriteLaneInv, JournalObserved PROVE WriteLaneInv'
<1> USE DEF WriteLaneInv
<1>1. /\ lane.pc = "journal_observed" /\ UNCHANGED <<source, disk, tree, edits>>
      /\ \/ /\ lane' = [lane EXCEPT !.pc = "diff"]
            /\ journal' = Append(journal, "FileReplaceObserved")
         \/ /\ lane' = [lane EXCEPT !.pc = "idle", !.phase = "ReconciliationRequired"]
            /\ journal' = journal
      /\ Counted
  BY FaultsCounted DEF JournalObserved, At, Goto, Retain, Reconcile
<1>2. /\ lane.phase \in {"EffectInFlight"} /\ lane \in LaneRecords /\ disk \in DiskRecords
      /\ tree \in TreeRecords
      /\ edits \in 0..MaxEdits /\ faults \in 0..MaxFaults
      /\ journal = Announced
  BY <1>1, Types, BoundsAssumption DEF ControlOK, StoryOK, Acquiring, Checking, Removing, LaneRecords, DiskRecords, Phases
<1>3. "diff" \in Steps /\ "idle" \in Steps /\ "ReconciliationRequired" \in Phases
  BY DEF Steps, Phases
<1>4. lane' \in LaneRecords
  BY <1>1, <1>2, <1>3, BoundsAssumption DEF LaneRecords, Contents
<1>5. /\ lane'.then = lane.then /\ lane'.base = lane.base /\ lane'.node = lane.node
      /\ lane'.renames = lane.renames /\ lane'.diff = lane.diff /\ lane'.checked = lane.checked
      /\ \/ lane'.phase = lane.phase /\ lane'.pc = "diff" /\ journal' = Replaced
         \/ lane'.phase = "ReconciliationRequired" /\ lane'.pc = "idle" /\ journal' = journal
  BY <1>1, <1>2, StoriesFollow DEF LaneRecords
<1>6. TypeOK'
  <2>1. journal' \in Seq(Records)
    BY <1>1, <1>5, StoriesAreJournals DEF TypeOK
  <2> QED BY <1>1, <1>4, <2>1, Types, TypesNext DEF Counted
<1>7. ControlOK'
  BY <1>1, <1>2, <1>5 DEF ControlOK, Acquiring, Checking, Removing
<1>8. StoryOK'
  BY <1>1, <1>2, <1>5, StoriesDiffer DEF StoryOK, ControlOK, Acquiring, Checking, Removing, Stories
<1>9. DiskOK'
  BY <1>1, <1>2, <1>5 DEF Counted, DiskOK, ControlOK, Acquiring, Checking, Removing, Absent
<1>10. ComparisonOK'
  BY <1>1, <1>2, <1>5 DEF ComparisonOK, Unchanged, TrackedDiff, Untracked
<1> QED BY <1>6, <1>7, <1>8, <1>9, <1>10

(* The observed diff is journaled.                                         *)
LEMMA JournalDiffKeeps == ASSUME WriteLaneInv, JournalDiff PROVE WriteLaneInv'
<1> USE DEF WriteLaneInv
<1>1. /\ lane.pc = "journal_diff" /\ UNCHANGED <<source, disk, tree, edits>>
      /\ \/ /\ lane' = [lane EXCEPT !.pc = "check_file", !.then = "idle", !.checked = edits]
            /\ journal' = Append(journal, "GitDiffObserved")
         \/ /\ lane' = [lane EXCEPT !.pc = "idle", !.phase = "ReconciliationRequired"]
            /\ journal' = journal
      /\ Counted
  BY FaultsCounted DEF JournalDiff, At, Goto, Retain, Reconcile, Check
<1>2. /\ lane.phase \in {"EffectInFlight"} /\ lane \in LaneRecords /\ disk \in DiskRecords
      /\ tree \in TreeRecords
      /\ edits \in 0..MaxEdits /\ faults \in 0..MaxFaults
      /\ journal = Replaced
  BY <1>1, Types, BoundsAssumption DEF ControlOK, StoryOK, Acquiring, Checking, Removing, LaneRecords, DiskRecords, Phases
<1>3. "check_file" \in Steps /\ "idle" \in Steps /\ "ReconciliationRequired" \in Phases
  BY DEF Steps, Phases
<1>4. lane' \in LaneRecords
  BY <1>1, <1>2, <1>3, BoundsAssumption DEF LaneRecords, Contents
<1>5. /\ lane'.base = lane.base /\ lane'.node = lane.node /\ lane'.renames = lane.renames
      /\ lane'.diff = lane.diff
      /\ \/ /\ lane'.phase = lane.phase /\ lane'.pc = "check_file" /\ lane'.then = "idle"
            /\ lane'.checked = edits /\ journal' = Diffed
         \/ /\ lane'.phase = "ReconciliationRequired" /\ lane'.pc = "idle"
            /\ lane'.then = lane.then /\ lane'.checked = lane.checked /\ journal' = journal
  BY <1>1, <1>2, StoriesFollow DEF LaneRecords
<1>6. TypeOK'
  <2>1. journal' \in Seq(Records)
    BY <1>1, <1>5, StoriesAreJournals DEF TypeOK
  <2> QED BY <1>1, <1>4, <2>1, Types, TypesNext DEF Counted
<1>7. ControlOK'
  BY <1>1, <1>2, <1>5 DEF ControlOK, Acquiring, Checking, Removing
<1>8. StoryOK'
  BY <1>1, <1>2, <1>5, StoriesDiffer DEF StoryOK, ControlOK, Acquiring, Checking, Removing, Stories
<1>9. DiskOK'
  BY <1>1, <1>2, <1>5 DEF Counted, DiskOK, ControlOK, Acquiring, Checking, Removing, Absent
<1>10. ComparisonOK'
  BY <1>1, <1>2, <1>5 DEF ComparisonOK, Unchanged, TrackedDiff, Untracked
<1> QED BY <1>6, <1>7, <1>8, <1>9, <1>10

(* The cleanup is journaled, or the lane stays written.                    *)
LEMMA JournalCleanupKeeps == ASSUME WriteLaneInv, JournalCleanup PROVE WriteLaneInv'
<1> USE DEF WriteLaneInv
<1>1. /\ lane.pc = "journal_cleanup" /\ UNCHANGED <<source, disk, tree, edits>>
      /\ \/ /\ lane' = [lane EXCEPT !.pc = "check_file", !.then = "remove", !.checked = edits]
            /\ journal' = Append(journal, "WorktreeCleanupPrepared")
         \/ lane' = [lane EXCEPT !.pc = "idle"] /\ journal' = journal
      /\ Counted
  BY FaultsCounted DEF JournalCleanup, At, Goto, Retain, Rejected, Check
<1>2. /\ lane.phase \in {"Written"} /\ lane \in LaneRecords /\ disk \in DiskRecords
      /\ tree \in TreeRecords
      /\ edits \in 0..MaxEdits /\ faults \in 0..MaxFaults
      /\ journal = Diffed
  BY <1>1, Types, BoundsAssumption DEF ControlOK, StoryOK, Acquiring, Checking, Removing, LaneRecords, DiskRecords, Phases
<1>3. "check_file" \in Steps /\ "idle" \in Steps /\ "remove" \in Steps
  BY DEF Steps
<1>4. lane' \in LaneRecords
  BY <1>1, <1>2, <1>3, BoundsAssumption DEF LaneRecords, Contents
<1>5. /\ lane'.phase = lane.phase /\ lane'.base = lane.base /\ lane'.node = lane.node
      /\ lane'.renames = lane.renames /\ lane'.diff = lane.diff
      /\ \/ /\ lane'.pc = "check_file" /\ lane'.then = "remove" /\ lane'.checked = edits
            /\ journal' = Releasing
         \/ /\ lane'.pc = "idle" /\ lane'.then = lane.then /\ lane'.checked = lane.checked
            /\ journal' = journal
  BY <1>1, <1>2, StoriesFollow DEF LaneRecords
<1>6. TypeOK'
  <2>1. journal' \in Seq(Records)
    BY <1>1, <1>5, StoriesAreJournals DEF TypeOK
  <2> QED BY <1>1, <1>4, <2>1, Types, TypesNext DEF Counted
<1>7. ControlOK'
  BY <1>1, <1>2, <1>5 DEF ControlOK, Acquiring, Checking, Removing
<1>8. StoryOK'
  BY <1>1, <1>2, <1>5, StoriesDiffer DEF StoryOK, ControlOK, Acquiring, Checking, Removing, Stories
<1>9. DiskOK'
  BY <1>1, <1>2, <1>5 DEF Counted, DiskOK, ControlOK, Acquiring, Checking, Removing, Absent
<1>10. ComparisonOK'
  BY <1>1, <1>2, <1>5 DEF ComparisonOK, Unchanged, TrackedDiff, Untracked
<1> QED BY <1>6, <1>7, <1>8, <1>9, <1>10

(* The observed removal is journaled.                                      *)
LEMMA JournalRemovedKeeps == ASSUME WriteLaneInv, JournalRemoved PROVE WriteLaneInv'
<1> USE DEF WriteLaneInv
<1>1. /\ lane.pc = "journal_removed" /\ UNCHANGED <<source, disk, tree, edits>>
      /\ \/ /\ lane' = [lane EXCEPT !.pc = "idle", !.phase = "Released"]
            /\ journal' = Append(journal, "WorktreeCleanupObserved")
         \/ /\ lane' = [lane EXCEPT !.pc = "idle", !.phase = "ReconciliationRequired"]
            /\ journal' = journal
      /\ Counted
  BY FaultsCounted DEF JournalRemoved, At, Goto, Retain, Reconcile
<1>2. /\ lane.phase \in {"CleanupInFlight"} /\ lane \in LaneRecords /\ disk \in DiskRecords
      /\ tree \in TreeRecords
      /\ edits \in 0..MaxEdits /\ faults \in 0..MaxFaults
      /\ journal = Releasing
  BY <1>1, Types, BoundsAssumption DEF ControlOK, StoryOK, Acquiring, Checking, Removing, LaneRecords, DiskRecords, Phases
<1>3. "idle" \in Steps /\ "ReconciliationRequired" \in Phases /\ "Released" \in Phases
  BY DEF Steps, Phases
<1>4. lane' \in LaneRecords
  BY <1>1, <1>2, <1>3, BoundsAssumption DEF LaneRecords, Contents
<1>5. /\ lane'.then = lane.then /\ lane'.base = lane.base /\ lane'.node = lane.node
      /\ lane'.renames = lane.renames /\ lane'.diff = lane.diff /\ lane'.checked = lane.checked
      /\ \/ lane'.phase = "Released" /\ lane'.pc = "idle" /\ journal' = Closed
         \/ lane'.phase = "ReconciliationRequired" /\ lane'.pc = "idle" /\ journal' = journal
  BY <1>1, <1>2, StoriesFollow DEF LaneRecords
<1>6. TypeOK'
  <2>1. journal' \in Seq(Records)
    BY <1>1, <1>5, StoriesAreJournals DEF TypeOK
  <2> QED BY <1>1, <1>4, <2>1, Types, TypesNext DEF Counted
<1>7. ControlOK'
  BY <1>1, <1>2, <1>5 DEF ControlOK, Acquiring, Checking, Removing
<1>8. StoryOK'
  BY <1>1, <1>2, <1>5, StoriesDiffer DEF StoryOK, ControlOK, Acquiring, Checking, Removing, Stories
<1>9. DiskOK'
  BY <1>1, <1>2, <1>5 DEF Counted, DiskOK, ControlOK, Acquiring, Checking, Removing, Absent
<1>10. ComparisonOK'
  BY <1>1, <1>2, <1>5 DEF ComparisonOK, Unchanged, TrackedDiff, Untracked
<1> QED BY <1>6, <1>7, <1>8, <1>9, <1>10

(* Git adds the worktree, or fails before or after it did.                 *)
LEMMA AddDetachedKeeps == ASSUME WriteLaneInv, AddDetached PROVE WriteLaneInv'
<1> USE DEF WriteLaneInv
<1>1. /\ lane.pc = "add" /\ UNCHANGED <<source, tree, journal, edits>>
      /\ \E here, listed \in BOOLEAN : disk' = [disk EXCEPT !.present = here, !.registered = listed]
      /\ \/ /\ lane' = [lane EXCEPT !.pc = "canonicalize"] /\ disk' = [disk EXCEPT !.present = TRUE, !.registered = TRUE]
            /\ faults' = faults
         \/ lane' = [lane EXCEPT !.pc = "failed"] /\ faults' = faults + 1
      /\ Counted
  BY FaultsCounted DEF AddDetached, At, Goto, Fault, NoFault
<1>2. /\ lane.phase = "none" /\ lane \in LaneRecords /\ disk \in DiskRecords
      /\ edits \in 0..MaxEdits /\ faults \in 0..MaxFaults
  BY <1>1, Types DEF ControlOK, Acquiring, Checking, Removing, LaneRecords, Phases
<1>3. "canonicalize" \in Steps /\ "failed" \in Steps
  BY DEF Steps
<1>4. lane' \in LaneRecords /\ disk' \in DiskRecords
  <2>1. lane' \in LaneRecords
    BY <1>1, <1>2, <1>3 DEF LaneRecords
  <2>2. disk' \in DiskRecords
    BY <1>1, <1>2 DEF DiskRecords
  <2> QED BY <2>1, <2>2
<1>5. /\ lane'.phase = lane.phase /\ lane'.then = lane.then /\ lane'.renames = lane.renames
      /\ lane'.diff = lane.diff /\ lane'.checked = lane.checked
      /\ \/ lane'.pc = "canonicalize" /\ disk'.registered
         \/ lane'.pc = "failed" /\ faults' = faults + 1
  <2>1. CASE lane' = [lane EXCEPT !.pc = "canonicalize"] /\ disk' = [disk EXCEPT !.present = TRUE, !.registered = TRUE]
    <3>1. disk'.registered
      BY <2>1, <1>2 DEF DiskRecords
    <3> QED BY <2>1, <3>1, <1>2 DEF LaneRecords
  <2>2. CASE lane' = [lane EXCEPT !.pc = "failed"] /\ faults' = faults + 1
    BY <2>2, <1>2 DEF LaneRecords
  <2> QED BY <1>1, <2>1, <2>2
<1>6. TypeOK'
  BY <1>1, <1>4, Types, TypesNext DEF Counted
<1>7. ControlOK' /\ StoryOK'
  BY <1>1, <1>2, <1>5 DEF ControlOK, StoryOK, Acquiring, Checking, Removing
<1>8. DiskOK'
  BY <1>1, <1>2, <1>5 DEF DiskOK, Removing, Absent
<1>9. ComparisonOK'
  BY <1>1, <1>2, <1>5 DEF ComparisonOK
<1> QED BY <1>6, <1>7, <1>8, <1>9

(* A rollback removes the worktree, or fails a second time.                *)
LEMMA RollbackKeeps ==
    ASSUME WriteLaneInv, lane.pc \in {"canonicalize", "open_root"}, faults < MaxFaults, Rollback,
           UNCHANGED <<source, tree, journal, edits>>
    PROVE  WriteLaneInv'
<1> USE DEF WriteLaneInv
<1>1. lane' = [lane EXCEPT !.pc = "failed"] /\ (disk' = Gone \/ disk' = disk)
  BY DEF Rollback, Goto
<1>2. /\ lane.phase = "none" /\ lane \in LaneRecords /\ disk \in DiskRecords
      /\ edits \in 0..MaxEdits /\ faults \in 0..MaxFaults
  BY Types DEF ControlOK, Acquiring, Checking, Removing, LaneRecords, Phases
<1>3. faults' \in 0..MaxFaults /\ faults' >= 1
  BY <1>2, BoundsAssumption DEF Rollback
<1>4. "failed" \in Steps
  BY DEF Steps
<1>5. lane' \in LaneRecords /\ disk' \in DiskRecords
  <2>1. lane' \in LaneRecords
    BY <1>1, <1>2, <1>4 DEF LaneRecords
  <2>2. disk' \in DiskRecords
    BY <1>1, <1>2 DEF DiskRecords, Gone
  <2> QED BY <2>1, <2>2
<1>6. /\ lane'.phase = lane.phase /\ lane'.then = lane.then /\ lane'.renames = lane.renames
      /\ lane'.diff = lane.diff /\ lane'.checked = lane.checked /\ lane'.pc = "failed"
  BY <1>1, <1>2 DEF LaneRecords
<1>7. TypeOK'
  BY <1>3, <1>5, Types, TypesNext
<1>8. ControlOK' /\ StoryOK'
  BY <1>2, <1>6 DEF ControlOK, StoryOK, Acquiring, Checking, Removing
<1>9. DiskOK'
  BY <1>2, <1>3, <1>6 DEF DiskOK, Removing, Absent
<1>10. ComparisonOK'
  BY <1>2, <1>6 DEF ComparisonOK
<1> QED BY <1>7, <1>8, <1>9, <1>10

(* The worktree's path is resolved.                                        *)
LEMMA CanonicalizeKeeps == ASSUME WriteLaneInv, Canonicalize PROVE WriteLaneInv'
<1> USE DEF WriteLaneInv
<1>1. CASE faults < MaxFaults /\ Rollback
  BY <1>1, RollbackKeeps DEF Canonicalize, At
<1>2. CASE NoFault /\ Goto("open_root") /\ UNCHANGED disk
  <2>1. /\ lane.pc = "canonicalize" /\ UNCHANGED <<source, disk, tree, journal, edits, faults>>
        /\ lane' = [lane EXCEPT !.pc = "open_root"]
    BY <1>2 DEF Canonicalize, At, Goto, NoFault
  <2>2. lane.phase = "none" /\ lane \in LaneRecords
    BY <2>1, Types DEF ControlOK, Acquiring, Checking, Removing, LaneRecords, Phases
  <2>3. "open_root" \in Steps
    BY DEF Steps
  <2>4. lane' \in LaneRecords
    BY <2>1, <2>2, <2>3 DEF LaneRecords
  <2>5. /\ lane'.phase = lane.phase /\ lane'.then = lane.then /\ lane'.renames = lane.renames
        /\ lane'.diff = lane.diff /\ lane'.checked = lane.checked /\ lane'.pc = "open_root"
    BY <2>1, <2>2 DEF LaneRecords
  <2>6. TypeOK'
    BY <2>1, <2>4, Types, TypesNext
  <2>7. ControlOK' /\ StoryOK'
    BY <2>1, <2>2, <2>5 DEF ControlOK, StoryOK, Acquiring, Checking, Removing
  <2>8. DiskOK' /\ ComparisonOK'
    BY <2>1, <2>2, <2>5 DEF DiskOK, ComparisonOK, Removing, Absent
  <2> QED BY <2>6, <2>7, <2>8
<1> QED BY <1>1, <1>2 DEF Canonicalize

(* The root is opened, and the worktree owned.                             *)
LEMMA OpenRootKeeps == ASSUME WriteLaneInv, OpenRoot PROVE WriteLaneInv'
<1> USE DEF WriteLaneInv
<1>1. CASE faults < MaxFaults /\ Rollback /\ UNCHANGED tree
  BY <1>1, RollbackKeeps DEF OpenRoot, At
<1>2. CASE NoFault /\ Goto("head_after") /\ UNCHANGED disk /\ tree' = [tree EXCEPT !.cleanup = "Active"]
  <2>1. /\ lane.pc = "open_root" /\ UNCHANGED <<source, disk, journal, edits, faults>>
        /\ lane' = [lane EXCEPT !.pc = "head_after"] /\ tree' = [tree EXCEPT !.cleanup = "Active"]
    BY <1>2 DEF OpenRoot, At, Goto, NoFault
  <2>2. lane.phase = "none" /\ lane \in LaneRecords /\ tree \in TreeRecords
    BY <2>1, Types DEF ControlOK, Acquiring, Checking, Removing, LaneRecords, Phases
  <2>3. "head_after" \in Steps
    BY DEF Steps
  <2>4. lane' \in LaneRecords /\ tree' \in TreeRecords
    BY <2>1, <2>2, <2>3 DEF LaneRecords, TreeRecords
  <2>5. /\ lane'.phase = lane.phase /\ lane'.then = lane.then /\ lane'.renames = lane.renames
        /\ lane'.diff = lane.diff /\ lane'.checked = lane.checked /\ lane'.pc = "head_after"
        /\ tree'.cleanup = "Active"
    BY <2>1, <2>2 DEF LaneRecords, TreeRecords
  <2>6. TypeOK'
    BY <2>1, <2>4, Types, TypesNext
  <2>7. ControlOK' /\ StoryOK'
    BY <2>1, <2>2, <2>5 DEF ControlOK, StoryOK, Acquiring, Checking, Removing
  <2>8. DiskOK' /\ ComparisonOK'
    BY <2>1, <2>2, <2>5 DEF DiskOK, ComparisonOK, Removing, Absent
  <2> QED BY <2>6, <2>7, <2>8
<1> QED BY <1>1, <1>2 DEF OpenRoot

(* Where the comparison of a retained worktree leads.                      *)
LEMMA CheckUntrackedKeeps == ASSUME WriteLaneInv, CheckUntracked PROVE WriteLaneInv'
<1> USE DEF WriteLaneInv
<1>1. lane.pc = "check_untracked" /\ UNCHANGED <<source, disk, tree, journal, edits>> /\ Counted
  BY FaultsCounted DEF CheckUntracked, At, Observe
<1>2. /\ lane \in LaneRecords /\ edits \in 0..MaxEdits /\ faults \in 0..MaxFaults
      /\ \/ lane.phase = "EffectInFlight" /\ lane.then = "idle"
         \/ lane.phase = "Written" /\ lane.then \in {"journal_cleanup", "remove"}
  BY <1>1, Types DEF ControlOK, Acquiring, Checking, Removing, LaneRecords, Phases
<1>3. \/ lane' = [lane EXCEPT !.pc = "idle", !.phase = "ReconciliationRequired"]
      \/ lane.then = "idle" /\ lane' = [lane EXCEPT !.pc = "idle", !.phase = "Written"]
      \/ lane.then = "journal_cleanup" /\ lane' = [lane EXCEPT !.pc = "journal_cleanup"]
      \/ /\ lane.then = "remove" /\ ~Untracked
         /\ lane' = [lane EXCEPT !.pc = "remove", !.phase = "CleanupInFlight", !.then = "journal_removed"]
  BY <1>2 DEF CheckUntracked, Observe, Checked, Reconcile, Goto
<1>4. /\ "idle" \in Steps /\ "journal_cleanup" \in Steps /\ "remove" \in Steps /\ "journal_removed" \in Steps
      /\ "ReconciliationRequired" \in Phases /\ "Written" \in Phases /\ "CleanupInFlight" \in Phases
  BY DEF Steps, Phases
<1>5. lane' \in LaneRecords
  BY <1>2, <1>3, <1>4 DEF LaneRecords
<1>6. /\ lane'.renames = lane.renames /\ lane'.diff = lane.diff /\ lane'.checked = lane.checked
      /\ \/ lane'.pc = "idle" /\ lane'.phase = "ReconciliationRequired"
         \/ lane.then = "idle" /\ lane'.pc = "idle" /\ lane'.phase = "Written"
         \/ /\ lane.then = "journal_cleanup" /\ lane'.pc = "journal_cleanup"
            /\ lane'.phase = lane.phase
         \/ /\ lane.then = "remove" /\ ~Untracked /\ lane'.pc = "remove"
            /\ lane'.phase = "CleanupInFlight" /\ lane'.then = "journal_removed"
  BY <1>2, <1>3 DEF LaneRecords
<1>7. TypeOK'
  BY <1>1, <1>5, Types, TypesNext DEF Counted
<1>8. ControlOK'
  BY <1>1, <1>2, <1>6 DEF ControlOK, Acquiring, Checking, Removing
<1>9. StoryOK'
  BY <1>1, <1>2, <1>6, StoriesDiffer DEF StoryOK, Checking
<1>10. DiskOK'
  BY <1>1, <1>2, <1>6 DEF DiskOK, Removing, Counted, Absent
<1>11. ComparisonOK'
  BY <1>1, <1>2, <1>6 DEF ComparisonOK, TrackedDiff, Untracked
<1> QED BY <1>7, <1>8, <1>9, <1>10, <1>11

(* The daemon dies.                                                        *)
LEMMA CrashKeeps == ASSUME WriteLaneInv, Crash PROVE WriteLaneInv'
<1> USE DEF WriteLaneInv
<1>1. /\ UNCHANGED <<source, disk, tree, journal, edits, faults>>
      /\ lane' = [lane EXCEPT !.pc = "crashed"]
  BY DEF Crash, Goto
<1>2. lane \in LaneRecords /\ lane.phase \in Phases
  BY Types DEF LaneRecords
<1>3. "crashed" \in Steps
  BY DEF Steps
<1>4. lane' \in LaneRecords
  BY <1>1, <1>2, <1>3 DEF LaneRecords
<1>5. /\ lane'.phase = lane.phase /\ lane'.then = lane.then /\ lane'.renames = lane.renames
      /\ lane'.diff = lane.diff /\ lane'.checked = lane.checked /\ lane'.pc = "crashed"
  BY <1>1, <1>2 DEF LaneRecords
<1>6. TypeOK'
  BY <1>1, <1>4, Types, TypesNext
<1>7. ControlOK' /\ StoryOK'
  BY <1>1, <1>2, <1>5 DEF ControlOK, StoryOK, Acquiring, Checking, Removing
<1>8. DiskOK' /\ ComparisonOK'
  BY <1>1, <1>2, <1>5 DEF DiskOK, ComparisonOK, Removing, Absent, Phases
<1> QED BY <1>6, <1>7, <1>8

(* The owner drops the lane.                                               *)
LEMMA DropKeeps == ASSUME WriteLaneInv, Drop PROVE WriteLaneInv'
<1> USE DEF WriteLaneInv
<1>1. /\ lane.pc = "idle" /\ UNCHANGED <<source, disk, tree, journal, edits, faults>>
      /\ \/ /\ tree.cleanup_on_drop /\ tree.cleanup # "Released"
            /\ lane' = [lane EXCEPT !.pc = "remove", !.then = "dropped"]
         \/ lane' = [lane EXCEPT !.pc = "dropped"]
  BY DEF Drop, At, Goto
<1>2. lane \in LaneRecords /\ lane.phase \in {"Ready", "Written", "Released", "ReconciliationRequired"}
  BY <1>1, Types DEF ControlOK, Acquiring, Checking, Removing, LaneRecords, Phases
<1>3. "remove" \in Steps /\ "dropped" \in Steps
  BY DEF Steps
<1>4. lane' \in LaneRecords
  BY <1>1, <1>2, <1>3 DEF LaneRecords
<1>5. /\ lane'.phase = lane.phase /\ lane'.renames = lane.renames
      /\ lane'.diff = lane.diff /\ lane'.checked = lane.checked
      /\ \/ lane.phase = "Ready" /\ lane'.pc = "remove" /\ lane'.then = "dropped"
         \/ lane'.pc = "dropped"
  BY <1>1, <1>2 DEF LaneRecords, ControlOK
<1>6. TypeOK'
  BY <1>1, <1>4, Types, TypesNext
<1>7. ControlOK' /\ StoryOK'
  BY <1>1, <1>2, <1>5 DEF ControlOK, StoryOK, Acquiring, Checking, Removing
<1>8. DiskOK' /\ ComparisonOK'
  BY <1>1, <1>2, <1>5 DEF DiskOK, ComparisonOK, Removing, Absent
<1> QED BY <1>6, <1>7, <1>8

(* Another program edits the worktree.                                     *)
LEMMA EditWorktreeKeeps == ASSUME WriteLaneInv, EditWorktree PROVE WriteLaneInv'
<1> USE DEF WriteLaneInv
<1>1. /\ UNCHANGED <<source, tree, lane, journal, faults>> /\ edits < MaxEdits /\ edits' = edits + 1
      /\ disk \in DiskRecords /\ edits \in 0..MaxEdits /\ lane \in LaneRecords
  BY Types DEF EditWorktree
<1>2. edits' \in 0..MaxEdits /\ edits' \in 0..(MaxEdits + 1) /\ lane.checked \in Nat /\ edits' > lane.checked
  BY <1>1, BoundsAssumption DEF ComparisonOK, LaneRecords
<1>3. \/ \E content \in Contents : disk' = [disk EXCEPT !.content = content, !.node = edits']
      \/ disk' = [disk EXCEPT !.other = ~@]
      \/ disk' = [disk EXCEPT !.extra = ~@]
  BY DEF EditWorktree
<1>4. disk' \in DiskRecords /\ disk'.present = disk.present /\ disk'.registered = disk.registered
  <2>1. CASE \E content \in Contents : disk' = [disk EXCEPT !.content = content, !.node = edits']
    BY <1>1, <1>2, <2>1 DEF DiskRecords
  <2>2. CASE disk' = [disk EXCEPT !.other = ~@]
    BY <1>1, <2>2 DEF DiskRecords
  <2>3. CASE disk' = [disk EXCEPT !.extra = ~@]
    BY <1>1, <2>3 DEF DiskRecords
  <2> QED BY <1>3, <2>1, <2>2, <2>3
<1>5. TypeOK'
  BY <1>1, <1>2, <1>4, Types, TypesNext
<1>6. ControlOK' /\ StoryOK'
  BY <1>1 DEF ControlOK, StoryOK
<1>7. DiskOK'
  BY <1>1, <1>4 DEF DiskOK, Absent
<1>8. ComparisonOK'
  BY <1>1, <1>2 DEF ComparisonOK
<1> QED BY <1>5, <1>6, <1>7, <1>8

(* Another program moves or dirties the source repository.                 *)
LEMMA EditSourceKeeps == ASSUME WriteLaneInv, EditSource PROVE WriteLaneInv'
<1> USE DEF WriteLaneInv
<1>1. /\ UNCHANGED <<disk, tree, lane, journal, faults>> /\ edits < MaxEdits /\ edits' = edits + 1
      /\ edits \in 0..MaxEdits /\ lane \in LaneRecords /\ source \in [head : 0..MaxEdits, clean : BOOLEAN]
  BY Types DEF EditSource
<1>2. edits' \in 0..MaxEdits /\ lane.checked \in Nat /\ edits' > lane.checked
  BY <1>1, BoundsAssumption DEF ComparisonOK, LaneRecords
<1>3. source' = [source EXCEPT !.head = edits'] \/ source' = [source EXCEPT !.clean = ~@]
  BY <1>1 DEF EditSource
<1>4. source' \in [head : 0..MaxEdits, clean : BOOLEAN]
  BY <1>1, <1>2, <1>3
<1>5. TypeOK'
  BY <1>1, <1>2, <1>4, Types, TypesNext
<1>6. ControlOK' /\ StoryOK' /\ DiskOK'
  BY <1>1 DEF ControlOK, StoryOK, DiskOK, Absent
<1>7. ComparisonOK'
  BY <1>1, <1>2 DEF ComparisonOK
<1> QED BY <1>5, <1>6, <1>7

(* A release that fails leads back to its caller.                          *)
LEMMA ReleaseFailedLeads ==
    ASSUME WriteLaneInv, lane.pc \in Removing, ReleaseFailed
    PROVE  /\ lane' \in LaneRecords /\ lane'.renames = lane.renames /\ lane'.diff = lane.diff
           /\ lane'.checked = lane.checked
           /\ \/ /\ lane.phase = "CleanupInFlight" /\ lane.then = "journal_removed"
                 /\ lane'.pc = "idle" /\ lane'.phase = "ReconciliationRequired"
              \/ /\ lane.phase = "none" /\ lane.then = "failed"
                 /\ lane'.pc = "remove" /\ lane'.then = "dropped" /\ lane'.phase = "none"
              \/ /\ lane.phase \in {"none", "Ready"} /\ lane.then = "dropped"
                 /\ lane'.pc = "dropped" /\ lane'.phase = lane.phase
<1> USE DEF WriteLaneInv
<1>1. /\ lane \in LaneRecords
      /\ \/ lane.phase = "none" /\ lane.then \in {"failed", "dropped"}
         \/ lane.phase = "Ready" /\ lane.then = "dropped"
         \/ lane.phase = "CleanupInFlight" /\ lane.then = "journal_removed"
  BY Types DEF ControlOK, Acquiring, Checking, Removing, LaneRecords, Phases
<1>2. \/ /\ lane.phase = "CleanupInFlight" /\ lane.then = "journal_removed"
         /\ lane' = [lane EXCEPT !.pc = "idle", !.phase = "ReconciliationRequired"]
      \/ /\ lane.phase = "none" /\ lane.then = "failed"
         /\ lane' = [lane EXCEPT !.pc = "remove", !.then = "dropped"]
      \/ /\ lane.phase \in {"none", "Ready"} /\ lane.then = "dropped"
         /\ lane' = [lane EXCEPT !.pc = "dropped"]
  BY <1>1 DEF ReleaseFailed, Reconcile, Goto
<1>3. /\ "idle" \in Steps /\ "remove" \in Steps /\ "dropped" \in Steps
      /\ "ReconciliationRequired" \in Phases
  BY DEF Steps, Phases
<1>4. lane' \in LaneRecords
  BY <1>1, <1>2, <1>3 DEF LaneRecords
<1> QED BY <1>1, <1>2, <1>4 DEF LaneRecords

(* What a removal leaves of the worktree.                                  *)
Shrunk == /\ disk' \in DiskRecords
          /\ disk'.present => disk.present
          /\ disk'.present => (disk.registered => disk'.registered)
          /\ disk'.registered => disk.registered

LEMMA RemovalShrinks ==
    ASSUME disk \in DiskRecords, disk' \in PartlyRemoved
    PROVE  Shrunk /\ (disk' = Gone => ~disk'.present /\ ~disk'.registered)
<1>1. disk' = disk \/ disk' = [disk EXCEPT !.present = FALSE]
      \/ disk' = [disk EXCEPT !.present = FALSE, !.registered = FALSE]
  BY DEF PartlyRemoved, Gone
<1>2. disk' \in DiskRecords
  BY <1>1 DEF DiskRecords
<1>3. /\ disk'.present => disk.present
      /\ disk'.present => (disk.registered => disk'.registered)
      /\ disk'.registered => disk.registered
  BY <1>1 DEF DiskRecords
<1>4. disk' = Gone => ~disk'.present /\ ~disk'.registered
  BY DEF DiskRecords, Gone
<1> QED BY <1>2, <1>3, <1>4 DEF Shrunk

(* Git is told to remove the worktree.                                     *)
LEMMA RemoveKeeps == ASSUME WriteLaneInv, Remove PROVE WriteLaneInv'
<1> USE DEF WriteLaneInv
<1>1. /\ lane.pc = "remove" /\ lane \in LaneRecords /\ disk \in DiskRecords /\ tree \in TreeRecords
      /\ lane.phase \in {"none", "Ready", "CleanupInFlight"} /\ UNCHANGED <<source, journal, edits>>
      /\ edits \in 0..MaxEdits /\ faults \in 0..MaxFaults
      /\ lane.pc \in Removing
  BY Types DEF Remove, At, ControlOK, Acquiring, Checking, Removing, LaneRecords, Phases
<1>2. Counted
  BY FaultsCounted DEF Remove
<1>3. disk' \in PartlyRemoved
  BY DEF Remove, PartlyRemoved
<1>4. Shrunk /\ (disk' = Gone => ~disk'.present /\ ~disk'.registered)
  BY <1>1, <1>3, RemovalShrinks
<1>5. "absent" \in Steps
  BY DEF Steps
<1>6. CASE /\ tree.cleanup = "Active" /\ disk.registered
           /\ (disk' = Gone /\ NoFault) \/ (disk' \in PartlyRemoved /\ Fault)
           /\ tree' = [tree EXCEPT !.cleanup = "GitRemoved"] /\ Goto("absent")
  <2>1. lane' \in LaneRecords /\ tree' \in TreeRecords
    BY <1>1, <1>5, <1>6 DEF Goto, LaneRecords, TreeRecords
  <2>2. /\ lane'.pc = "absent" /\ lane'.then = lane.then /\ lane'.phase = lane.phase /\ lane'.renames = lane.renames
        /\ lane'.diff = lane.diff /\ lane'.checked = lane.checked
        /\ tree'.cleanup = "GitRemoved" /\ tree'.cleanup_on_drop = tree.cleanup_on_drop
    BY <1>1, <1>6 DEF Goto, LaneRecords, TreeRecords
  <2>3. (~disk'.present /\ ~disk'.registered) \/ faults' >= 1
    BY <1>1, <1>4, <1>6 DEF Fault
  <2>4. TypeOK'
    BY <1>1, <1>2, <1>4, <2>1, Types, TypesNext DEF Counted, Shrunk
  <2>5. ControlOK' /\ StoryOK'
    BY <1>1, <2>2 DEF ControlOK, StoryOK, Acquiring, Checking, Removing
  <2>6. DiskOK' /\ ComparisonOK'
    BY <1>1, <2>2, <2>3 DEF DiskOK, ComparisonOK, Removing, Absent
  <2> QED BY <2>4, <2>5, <2>6
<1>7. CASE /\ tree.cleanup = "Active"
           /\ (disk' \in PartlyRemoved /\ Fault) \/ (~disk.registered /\ UNCHANGED disk /\ NoFault)
           /\ UNCHANGED tree /\ ReleaseFailed
  <2>1. /\ lane' \in LaneRecords /\ lane'.renames = lane.renames /\ lane'.diff = lane.diff
        /\ lane'.checked = lane.checked
        /\ \/ /\ lane.phase = "CleanupInFlight" /\ lane.then = "journal_removed"
              /\ lane'.pc = "idle" /\ lane'.phase = "ReconciliationRequired"
           \/ /\ lane.phase = "none" /\ lane.then = "failed"
              /\ lane'.pc = "remove" /\ lane'.then = "dropped" /\ lane'.phase = "none"
           \/ /\ lane.phase \in {"none", "Ready"} /\ lane.then = "dropped"
              /\ lane'.pc = "dropped" /\ lane'.phase = lane.phase
    BY <1>1, <1>7, ReleaseFailedLeads
  <2>2. faults' = faults + 1 \/ (~disk.registered /\ disk' = disk)
    BY <1>7 DEF Fault
  <2>3. TypeOK'
    BY <1>1, <1>2, <1>4, <1>7, <2>1, Types, TypesNext DEF Counted, Shrunk
  <2>4. ControlOK' /\ StoryOK'
    BY <1>1, <1>7, <2>1 DEF ControlOK, StoryOK, Acquiring, Checking, Removing
  <2>5. DiskOK'
    BY <1>1, <1>4, <1>7, <2>1, <2>2 DEF DiskOK, Shrunk, Removing, Absent
  <2>6. ComparisonOK'
    BY <1>1, <2>1 DEF ComparisonOK
  <2> QED BY <2>3, <2>4, <2>5, <2>6
<1>8. CASE tree.cleanup = "GitRemoved" /\ NoFault /\ Goto("absent") /\ UNCHANGED <<disk, tree>>
  <2>1. lane' \in LaneRecords
    BY <1>1, <1>5, <1>8 DEF Goto, LaneRecords
  <2>2. /\ lane'.pc = "absent" /\ lane'.then = lane.then /\ lane'.phase = lane.phase /\ lane'.renames = lane.renames
        /\ lane'.diff = lane.diff /\ lane'.checked = lane.checked
    BY <1>1, <1>8 DEF Goto, LaneRecords
  <2>3. TypeOK'
    BY <1>1, <1>8, <2>1, Types, TypesNext DEF NoFault
  <2>4. ControlOK' /\ StoryOK'
    BY <1>1, <1>8, <2>2 DEF ControlOK, StoryOK, Acquiring, Checking, Removing
  <2>5. DiskOK' /\ ComparisonOK'
    BY <1>1, <1>8, <2>2 DEF NoFault, DiskOK, ComparisonOK, Removing, Absent
  <2> QED BY <2>3, <2>4, <2>5
<1> QED BY <1>6, <1>7, <1>8, Zenon DEF Remove

(* The worktree's absence is observed, or the release has failed.          *)
LEMMA ObserveAbsentKeeps == ASSUME WriteLaneInv, ObserveAbsent PROVE WriteLaneInv'
<1> USE DEF WriteLaneInv
<1>1. /\ lane.pc = "absent" /\ lane \in LaneRecords /\ disk \in DiskRecords /\ tree \in TreeRecords
      /\ tree.cleanup = "GitRemoved" /\ UNCHANGED <<source, disk, journal, edits>>
      /\ edits \in 0..MaxEdits /\ faults \in 0..MaxFaults
      /\ lane.pc \in Removing
      /\ \/ lane.phase = "none" /\ lane.then \in {"failed", "dropped"}
         \/ lane.phase = "Ready" /\ lane.then = "dropped"
         \/ lane.phase = "CleanupInFlight" /\ lane.then = "journal_removed"
  BY Types DEF ObserveAbsent, At, ControlOK, DiskOK, Acquiring, Checking, Removing, LaneRecords, Phases
<1>2. Counted
  BY FaultsCounted DEF ObserveAbsent
<1>3. CASE /\ ~disk.present /\ ~disk.registered /\ NoFault
           /\ tree' = [tree EXCEPT !.cleanup = "Released"] /\ Goto(lane.then)
  <2>1. lane' \in LaneRecords /\ tree' \in TreeRecords
    BY <1>1, <1>3 DEF Goto, LaneRecords, TreeRecords
  <2>2. /\ lane'.pc = lane.then /\ lane'.phase = lane.phase /\ lane'.renames = lane.renames
        /\ lane'.diff = lane.diff /\ lane'.checked = lane.checked
        /\ tree'.cleanup = "Released" /\ tree'.cleanup_on_drop = tree.cleanup_on_drop
    BY <1>1, <1>3 DEF Goto, LaneRecords, TreeRecords
  <2>3. TypeOK'
    BY <1>1, <1>3, <2>1, Types, TypesNext DEF NoFault
  <2>4. ControlOK' /\ StoryOK'
    BY <1>1, <2>2 DEF ControlOK, StoryOK, Acquiring, Checking, Removing
  <2>5. DiskOK' /\ ComparisonOK'
    BY <1>1, <1>3, <2>2 DEF DiskOK, ComparisonOK, Removing, Absent
  <2> QED BY <2>3, <2>4, <2>5
<1>4. CASE ReleaseFailed /\ UNCHANGED tree
  <2>1. /\ lane' \in LaneRecords /\ lane'.renames = lane.renames /\ lane'.diff = lane.diff
        /\ lane'.checked = lane.checked
        /\ \/ /\ lane.phase = "CleanupInFlight" /\ lane.then = "journal_removed"
              /\ lane'.pc = "idle" /\ lane'.phase = "ReconciliationRequired"
           \/ /\ lane.phase = "none" /\ lane.then = "failed"
              /\ lane'.pc = "remove" /\ lane'.then = "dropped" /\ lane'.phase = "none"
           \/ /\ lane.phase \in {"none", "Ready"} /\ lane.then = "dropped"
              /\ lane'.pc = "dropped" /\ lane'.phase = lane.phase
    BY <1>1, <1>4, ReleaseFailedLeads
  <2>2. TypeOK'
    BY <1>1, <1>2, <1>4, <2>1, Types, TypesNext DEF Counted
  <2>3. ControlOK' /\ StoryOK'
    BY <1>1, <1>4, <2>1 DEF ControlOK, StoryOK, Acquiring, Checking, Removing
  <2>4. DiskOK'
    BY <1>1, <1>2, <1>4, <2>1 DEF Counted, DiskOK, Removing, Absent
  <2>5. ComparisonOK'
    BY <1>1, <2>1 DEF ComparisonOK
  <2> QED BY <2>2, <2>3, <2>4, <2>5
<1> QED BY <1>3, <1>4 DEF ObserveAbsent
-----------------------------------------------------------------------------
(* The invariant holds of a lane that has not begun.                       *)
LEMMA InitInv == Init => WriteLaneInv
<1> SUFFICES ASSUME Init PROVE WriteLaneInv
  OBVIOUS
<1>1. /\ lane.pc = "head_before" /\ lane.then = "idle" /\ lane.phase = "none" /\ lane.renames = 0
      /\ lane.diff = {} /\ lane.checked = 0 /\ edits = 0 /\ faults = 0 /\ journal = Silent
      /\ tree.cleanup = "none" /\ ~disk.present /\ ~disk.registered
  BY DEF Init, Silent
<1>2. TypeOK
  <2>1. "head_before" \in Steps /\ "idle" \in Steps /\ "none" \in Phases /\ "base" \in Contents
    BY DEF Steps, Phases, Contents
  <2>2. 0 \in 0..MaxEdits /\ 0 \in 0..(MaxEdits + 1) /\ 0 \in 0..MaxFaults
    BY BoundsAssumption
  <2>3. lane \in LaneRecords
    BY <2>1, <2>2 DEF Init, LaneRecords
  <2>4. disk \in DiskRecords
    BY <2>1, <2>2 DEF Init, DiskRecords
  <2>5. tree \in TreeRecords /\ source \in [head : 0..MaxEdits, clean : BOOLEAN]
    BY <2>1, <2>2 DEF Init, TreeRecords
  <2>6. journal \in Seq(Records)
    BY <1>1, StoriesAreJournals
  <2> QED BY <1>1, <2>2, <2>3, <2>4, <2>5, <2>6, Types
<1>3. ControlOK /\ StoryOK
  BY <1>1, StoriesDiffer DEF ControlOK, StoryOK, Stories, Acquiring, Checking, Removing
<1>4. DiskOK /\ ComparisonOK
  BY <1>1 DEF DiskOK, ComparisonOK, Removing, Absent
<1> QED BY <1>2, <1>3, <1>4 DEF WriteLaneInv

(* Every step keeps the invariant.                                         *)
LEMMA StepKeeps == WriteLaneInv /\ [Next]_vars => WriteLaneInv'
<1> SUFFICES ASSUME WriteLaneInv, [Next]_vars PROVE WriteLaneInv'
  OBVIOUS
<1>1. CASE CallStep
  BY <1>1, ObserveHeadBeforeKeeps, AddDetachedKeeps, CanonicalizeKeeps, OpenRootKeeps, ObserveHeadAfterKeeps,
     ObserveAcquiredKeeps, ObservePristineKeeps, PrepareReplaceKeeps, JournalPreparedKeeps, ReobserveKeeps,
     CreateTemporaryKeeps, LastLookKeeps, RenameKeeps, VerifyKeeps, UnlinkTemporaryKeeps, JournalUnknownKeeps,
     JournalObservedKeeps, ObserveDiffKeeps, ObserveUntrackedKeeps, JournalDiffKeeps, CheckFileKeeps,
     CheckDiffKeeps, CheckUntrackedKeeps, JournalCleanupKeeps, RemoveKeeps, ObserveAbsentKeeps,
     JournalRemovedKeeps, Zenon DEF CallStep
<1>2. CASE World
  BY <1>2, CrashKeeps, EditWorktreeKeeps, EditSourceKeeps DEF World
<1>3. CASE ExecuteOnce \/ ReleaseAfterCandidatePublished \/ Drop
  BY <1>3, ExecuteOnceKeeps, ReleaseAfterCandidatePublishedKeeps, DropKeeps
<1>4. CASE UNCHANGED vars
  BY <1>4 DEF vars, WriteLaneInv, TypeOK, ControlOK, StoryOK, DiskOK, ComparisonOK, Absent, Unchanged,
              TrackedDiff, Untracked
<1> QED BY <1>1, <1>2, <1>3, <1>4 DEF Next

(* The invariant is what the lane promises.                                *)
LEMMA InvSuffices == WriteLaneInv => WriteLaneIsSound
<1> SUFFICES ASSUME WriteLaneInv PROVE WriteLaneIsSound
  OBVIOUS
<1> USE DEF WriteLaneInv
<1>1. /\ lane \in LaneRecords /\ lane.renames \in 0..1 /\ lane.phase \in Phases /\ journal \in Stories
      /\ faults \in 0..MaxFaults
  BY Types DEF LaneRecords, StoryOK
<1>2. \A kind : Retained(kind) <=> kind \in Kinds(journal)
  BY DEF Retained, Kinds
<1>3. EffectIsJournaled
  <2>1. journal # Silent => Retained("FileReplacePrepared")
    BY <1>1, <1>2, StoriesTell
  <2>2. Retained("FileReplaceObserved") => journal \in {Replaced, Diffed, Releasing, Closed}
    BY <1>1, <1>2, StoriesTell DEF Stories
  <2> QED BY <1>1, <2>1, <2>2 DEF EffectIsJournaled, StoryOK
<1>4. WrittenIsExact
  <2>1. lane.phase \in {"Written", "CleanupInFlight", "Released"} =>
            journal \in {Diffed, Releasing, Closed} /\ lane.renames = 1 /\ lane.diff = {"target"}
    BY DEF StoryOK
  <2>2. journal \in {Diffed, Releasing, Closed} => Retained("FileReplaceObserved") /\ Retained("GitDiffObserved")
    BY <1>2, StoriesTell
  <2> QED BY <2>1, <2>2 DEF WrittenIsExact
<1>5. FailedAcquisitionLeaksNothing
  BY <1>1 DEF FailedAcquisitionLeaksNothing, DiskOK, Absent
<1>6. ReleasedIsGone
  BY DEF ReleasedIsGone, DiskOK, StoryOK, Absent, Closed
<1> QED BY <1>3, <1>4, <1>5, <1>6 DEF WriteLaneIsSound

(* A lane's journal, its report and its worktree agree with what it did,   *)
(* however often system calls, Git and the journal fail and wherever the   *)
(* daemon dies (execute_once and release_after_candidate_published).       *)
THEOREM WriteLaneSound == Spec => []WriteLaneIsSound
<1>1. Spec => []WriteLaneInv
  BY InitInv, StepKeeps, PTL DEF Spec
<1> QED BY <1>1, InvSuffices, PTL

(* A step that neither renames nor loses the directory of a renamed write. *)
Harmless == lane'.renames = lane.renames /\ (lane.renames = 1 /\ disk.present => disk'.present)

LEMMA HarmlessSteps ==
    ASSUME WriteLaneInv, [Next]_vars, ~Rename, ~Remove PROVE Harmless
<1> USE DEF WriteLaneInv
<1>1. lane \in LaneRecords /\ disk \in DiskRecords
  BY Types
<1>2. CASE AddDetached \/ Canonicalize \/ OpenRoot
  <2>1. lane.renames = 0
    BY <1>1, <1>2 DEF AddDetached, Canonicalize, OpenRoot, At, StoryOK, ControlOK, Acquiring, Checking, Removing, LaneRecords, Phases
  <2>2. \E step : lane' = [lane EXCEPT !.pc = step]
    BY <1>2 DEF AddDetached, Canonicalize, OpenRoot, Rollback, Goto
  <2>3. lane'.renames = lane.renames
    BY <1>1, <2>2 DEF LaneRecords
  <2> QED BY <2>1, <2>3 DEF Harmless
<1>3. CASE UNCHANGED disk
  <2>1. CASE ObserveHeadBefore \/ ObserveHeadAfter \/ ObserveAcquired \/ ExecuteOnce \/ ObservePristine \/ PrepareReplace
    <3>1. lane'.renames = lane.renames
      BY <1>1, <2>1 DEF ObserveHeadBefore, ObserveHeadAfter, ObserveAcquired, ExecuteOnce, ObservePristine,
         PrepareReplace, Observe, Goto, ReleaseFailedAcquisition, Rejected, LaneRecords
    <3> QED BY <1>3, <3>1 DEF Harmless
  <2>2. CASE JournalPrepared \/ Reobserve \/ CreateTemporary \/ LastLook \/ Verify \/ UnlinkTemporary
    <3>1. lane'.renames = lane.renames
      BY <1>1, <2>2 DEF JournalPrepared, Reobserve, CreateTemporary, LastLook, Verify, UnlinkTemporary,
         Observe, Retain, Goto, Rejected, AbandonReplace, Reconcile, GiveUp, LaneRecords
    <3> QED BY <1>3, <3>1 DEF Harmless
  <2>3. CASE JournalUnknown \/ JournalObserved \/ ObserveDiff \/ ObserveUntracked \/ JournalDiff \/ CheckFile \/ CheckDiff
    <3>1. lane'.renames = lane.renames
      BY <1>1, <2>3 DEF JournalUnknown, JournalObserved, ObserveDiff, ObserveUntracked, JournalDiff, CheckFile,
         CheckDiff, Observe, Retain, Goto, Reconcile, Check, LaneRecords
    <3> QED BY <1>3, <3>1 DEF Harmless
  <2>4. CASE ReleaseAfterCandidatePublished \/ JournalCleanup \/ JournalRemoved \/ Drop \/ Crash
    <3>1. lane'.renames = lane.renames
      BY <1>1, <2>4 DEF ReleaseAfterCandidatePublished, JournalCleanup, JournalRemoved, Drop, Crash,
         Retain, Goto, Rejected, Reconcile, Check, LaneRecords
    <3> QED BY <1>3, <3>1 DEF Harmless
  <2>5. CASE CheckUntracked
    <3>1. lane.then \in {"idle", "journal_cleanup", "remove"}
      BY <2>5 DEF CheckUntracked, At, ControlOK, Checking
    <3>2. lane'.renames = lane.renames
      BY <1>1, <2>5, <3>1 DEF CheckUntracked, Observe, Checked, Goto, Reconcile, LaneRecords
    <3> QED BY <1>3, <3>2 DEF Harmless
  <2>6. CASE ObserveAbsent
    <3>1. lane.pc \in Removing
      BY <2>6 DEF ObserveAbsent, At, Removing
    <3>2. ReleaseFailed \/ Goto(lane.then)
      BY <2>6 DEF ObserveAbsent
    <3>3. lane'.renames = lane.renames
      BY <1>1, <3>1, <3>2, ReleaseFailedLeads DEF Goto, LaneRecords
    <3> QED BY <1>3, <3>3 DEF Harmless
  <2>7. CASE EditWorktree \/ EditSource \/ UNCHANGED vars
    BY <1>3, <2>7 DEF EditWorktree, EditSource, vars, Harmless
  <2> QED BY <1>2, <2>1, <2>2, <2>3, <2>4, <2>5, <2>6, <2>7, Zenon DEF Next, CallStep, World
<1>4. CASE CreateTemporary \/ UnlinkTemporary
  <2>1. lane'.renames = lane.renames
    BY <1>1, <1>4 DEF CreateTemporary, UnlinkTemporary, Goto, AbandonReplace, Reconcile, LaneRecords
  <2>2. disk.present => disk'.present
    BY <1>1, <1>4 DEF CreateTemporary, UnlinkTemporary, DiskRecords
  <2> QED BY <2>1, <2>2 DEF Harmless
<1>5. CASE EditWorktree
  <2>1. disk.present => disk'.present
    BY <1>1, <1>5 DEF EditWorktree, DiskRecords
  <2> QED BY <1>5, <2>1 DEF EditWorktree, Harmless
<1>6. \/ AddDetached \/ Canonicalize \/ OpenRoot \/ UNCHANGED disk
      \/ CreateTemporary \/ UnlinkTemporary \/ EditWorktree
  BY DEF Next, CallStep, World, vars, ObserveHeadBefore, ObserveHeadAfter, ObserveAcquired, ExecuteOnce, ObservePristine,
         PrepareReplace, JournalPrepared, Reobserve, LastLook, Verify, JournalUnknown, JournalObserved,
         ObserveDiff, ObserveUntracked, JournalDiff, CheckFile, CheckDiff, CheckUntracked,
         ReleaseAfterCandidatePublished, JournalCleanup, JournalRemoved, Drop, Crash, ObserveAbsent, EditSource
<1> QED BY <1>2, <1>3, <1>4, <1>5, <1>6

(* What may be lost in one step.                                           *)
LostOnlyWithCleanup == lane.renames = 1 /\ disk.present /\ ~disk'.present => Retained("WorktreeCleanupPrepared")
LostOnlyAfterLook ==
    /\ lane.renames = 0 /\ lane'.renames = 1 => Unchanged \/ edits > lane.checked
    /\ lane.renames = 1 /\ disk.present /\ ~disk'.present =>
          \/ disk.content = "post" /\ TrackedDiff = lane.diff /\ ~Untracked
          \/ edits > lane.checked

LEMMA StepDestroysNothingUnseen ==
    WriteLaneInv /\ [Next]_vars => LostOnlyWithCleanup /\ LostOnlyAfterLook
<1> SUFFICES ASSUME WriteLaneInv, [Next]_vars PROVE LostOnlyWithCleanup /\ LostOnlyAfterLook
  OBVIOUS
<1> USE DEF WriteLaneInv
<1>1. lane \in LaneRecords /\ disk \in DiskRecords
  BY Types
<1>2. CASE ~Rename /\ ~Remove
  <2>1. Harmless
    BY <1>2, HarmlessSteps
  <2> QED BY <2>1 DEF Harmless, LostOnlyWithCleanup, LostOnlyAfterLook
<1>3. CASE Rename
  <2>1. lane.renames = 0 /\ (Unchanged \/ edits > lane.checked)
    BY <1>3 DEF Rename, At, StoryOK, ComparisonOK
  <2> QED BY <2>1 DEF LostOnlyWithCleanup, LostOnlyAfterLook
<1>4. CASE Remove
  <2>1. lane.pc = "remove" /\ lane.phase \in {"none", "Ready", "CleanupInFlight"}
    BY <1>1, <1>4 DEF Remove, At, ControlOK, Acquiring, Checking, Removing, LaneRecords, Phases
  <2>2. lane.renames = 1 => lane.phase = "CleanupInFlight" /\ journal = Releasing
    BY <2>1 DEF StoryOK
  <2>3. journal = Releasing => Retained("WorktreeCleanupPrepared")
    BY StoriesTell DEF Retained, Kinds
  <2>4. lane'.renames = lane.renames
    <3>1. Goto("absent") \/ ReleaseFailed
      BY <1>4 DEF Remove
    <3>2. CASE Goto("absent")
      BY <1>1, <3>2 DEF Goto, LaneRecords
    <3>3. CASE ReleaseFailed
      BY <2>1, <3>3, ReleaseFailedLeads DEF Removing
    <3> QED BY <3>1, <3>2, <3>3
  <2>5. lane.renames = 1 =>
          \/ disk.content = "post" /\ TrackedDiff = lane.diff /\ ~Untracked
          \/ edits > lane.checked
    BY <2>1, <2>2 DEF ComparisonOK
  <2> QED BY <2>2, <2>3, <2>4, <2>5 DEF LostOnlyWithCleanup, LostOnlyAfterLook
<1> QED BY <1>2, <1>3, <1>4

(* The lane's write is never lost, and what the lane overwrites or removes *)
(* is what it compared, or was edited after that comparison had begun.     *)
THEOREM NothingDestroyedUnseen == Spec => WriteLaneDestroysNothingUnseen
<1>1. Spec => []WriteLaneInv
  BY InitInv, StepKeeps, PTL DEF Spec
<1>2. WriteLaneInv /\ [Next]_vars => [LostOnlyWithCleanup]_vars /\ [LostOnlyAfterLook]_vars
  BY StepDestroysNothingUnseen
<1>3. Spec => [][LostOnlyWithCleanup]_vars /\ [][LostOnlyAfterLook]_vars
  BY <1>1, <1>2, PTL DEF Spec
<1>4. Spec => WriteSurvives /\ DestroysOnlyLaterEdits
  BY <1>3 DEF WriteSurvives, DestroysOnlyLaterEdits, LostOnlyWithCleanup, LostOnlyAfterLook
<1> QED BY <1>4 DEF WriteLaneDestroysNothingUnseen

-----------------------------------------------------------------------------
(* The attempt that owns it.                                              *)

(* The records of the type invariant.                                      *)
EffectSteps == {"none", "worktree", "diff", "published", "cleanup"}
AttemptSteps == Ended \cup {"dispatch", "materializing", "baseline", "head", "calling", "validate",
                            "reading", "writing", "publish", "release", "releasing", "ready"}
AttemptRecords ==
    [pc : AttemptSteps, plan : Plans \cup {NoPlan}, revision : 0..MaxModelCalls,
     calls : 0..MaxModelCalls, rejections : 0..(MaxActionRejections + 1), toolCalls : 0..2,
     tokens : 0..MaxOutputTokens, read : BOOLEAN, written : BOOLEAN,
     finishCalls : 0..MaxModelCalls, effect : EffectSteps,
     outcome : {"none", "error", "slots", "rejections"} \cup Finishes]
CandidateRecords == [published : BOOLEAN, change : SUBSET {"target", "other"}, ready : BOOLEAN]
Typed == attempt \in AttemptRecords /\ candidate \in CandidateRecords

(* What the budgets are at each point of the loop.                         *)
Loop == {"head", "calling", "validate", "reading", "writing"}
Finishing == {"publish", "release", "releasing", "ready", "completed"}
Remaining == MaxModelCalls - attempt.calls
BudgetOK ==
    /\ attempt.revision <= attempt.calls /\ attempt.finishCalls <= attempt.calls
    /\ attempt.pc \in {"calling", "validate"} => attempt.revision < attempt.calls
    /\ attempt.pc \notin Ended => attempt.rejections <= MaxActionRejections
    /\ attempt.pc \in Loop \cup {"dispatch", "materializing", "baseline"} =>
          /\ attempt.tokens >= Remaining * TokensPerCall
          /\ attempt.outcome = "none"
    /\ attempt.pc = "calling" => attempt.tokens >= (Remaining + 1) * TokensPerCall
    /\ attempt.pc = "reading" => attempt.toolCalls = 0 /\ ~attempt.read /\ ~attempt.written
    /\ attempt.pc = "writing" =>
          /\ attempt.read /\ ~attempt.written /\ attempt.toolCalls \in {1, 2}
          /\ Remaining >= FinishCallReserve
    /\ attempt.pc \notin Ended \cup {"writing"} =>
          attempt.toolCalls = IF attempt.written THEN 2 ELSE IF attempt.read THEN 1 ELSE 0
    /\ attempt.pc \in {"dispatch", "materializing", "baseline"} => ~attempt.written
    /\ attempt.pc \in Loop /\ attempt.written => attempt.finishCalls + Remaining >= FinishCallReserve
    /\ attempt.pc \in Finishing => attempt.revision >= MinimumPlanRevisions
    /\ attempt.pc = "publish" => attempt.outcome \in Finishes
    /\ attempt.pc \in Finishing \ {"publish"} => attempt.written /\ attempt.outcome \in Finishes

(* Where the lane stands while the attempt is at each point.  It is only   *)
(* moved on by what the attempt waits for, and a crash leaves it.          *)
Resting == {"idle", "crashed"}
Standing(phase) == lane.phase = phase /\ lane.pc \in Resting
LaneFollows ==
    /\ attempt.pc = "dispatch" => lane.phase = "none" /\ lane.pc \in {"head_before", "crashed"}
    /\ attempt.pc = "materializing" => lane.phase = "none" \/ Standing("Ready")
    /\ attempt.pc \in {"baseline", "head", "calling", "validate", "reading", "publish"} =>
          Standing(IF attempt.written THEN "Written" ELSE "Ready")
    /\ attempt.pc = "writing" /\ attempt.toolCalls = 1 => Standing("Ready")
    /\ attempt.pc = "writing" /\ attempt.toolCalls = 2 =>
          \/ lane.phase = "Ready" /\ lane.pc \notin Removing \cup {"dropped"}
          \/ lane.phase = "EffectInFlight"
          \/ \E phase \in {"Written", "ReconciliationRequired"} : Standing(phase)
    /\ attempt.pc = "release" => Standing("Written")
    /\ attempt.pc = "releasing" =>
          /\ lane.phase \in {"Written", "CleanupInFlight", "Released", "ReconciliationRequired"}
          /\ lane.pc # "dropped"
    /\ attempt.pc = "ready" => Standing("Released")
    /\ attempt.pc = "completed" => lane.phase = "Released"
    /\ attempt.pc \in {"failed", "completed"} =>
          \/ lane.pc \in Resting \cup {"head_before", "failed", "dropped"}
          \/ lane.pc \in Removing /\ lane.phase = "Ready"

(* What the attempt and the candidate say of the effect.                   *)
EffectOK ==
    /\ attempt.pc = "failed" /\ lane.renames = 1 => attempt.effect # "none"
    /\ attempt.pc \in Finishing \ {"publish"} => candidate.published
    /\ candidate.published => candidate.change = {"target"}
    /\ candidate.ready <=> attempt.pc = "completed"
    /\ candidate.ready => candidate.published
    /\ attempt.outcome = "slots" /\ attempt.written => attempt.finishCalls >= FinishCallReserve

(* The lane's worktree is kept on a drop only once a write is announced,   *)
(* and a Ready lane that was dropped has removed it unless that failed.    *)
KeptOnDrop ==
    /\ lane.phase \in {"none", "Ready"} => tree.cleanup_on_drop
    /\ lane.phase = "Ready" /\ lane.pc = "dropped" => Absent \/ faults >= 1
    /\ lane.phase = "none" /\ lane.pc = "dropped" => Absent \/ faults >= 1

AttemptInv == WriteLaneInv /\ Typed /\ BudgetOK /\ LaneFollows /\ EffectOK /\ KeptOnDrop

-----------------------------------------------------------------------------
LEMMA Policy ==
    /\ MaxModelCalls \in Nat /\ MaxActionRejections \in Nat /\ TokensPerCall \in Nat
    /\ MaxOutputTokens \in Nat /\ MinimumPlanRevisions \in Nat /\ FinishCallReserve \in Nat
    /\ MaxModelCalls >= 3 /\ TokensPerCall > 0 /\ FinishCallReserve >= 1
    /\ MaxOutputTokens >= MaxModelCalls * TokensPerCall
BY PolicyAssumption

(* The fields of the attempt and of the candidate.                         *)
LEMMA Fields ==
    ASSUME Typed
    PROVE  /\ attempt \in AttemptRecords /\ candidate \in CandidateRecords
           /\ attempt.pc \in AttemptSteps /\ attempt.plan \in Plans \cup {NoPlan}
           /\ attempt.revision \in 0..MaxModelCalls /\ attempt.calls \in 0..MaxModelCalls
           /\ attempt.rejections \in 0..(MaxActionRejections + 1) /\ attempt.toolCalls \in 0..2
           /\ attempt.tokens \in 0..MaxOutputTokens /\ attempt.read \in BOOLEAN
           /\ attempt.written \in BOOLEAN /\ attempt.finishCalls \in 0..MaxModelCalls
           /\ attempt.effect \in EffectSteps
           /\ attempt.outcome \in {"none", "error", "slots", "rejections"} \cup Finishes
           /\ candidate.published \in BOOLEAN /\ candidate.change \in SUBSET {"target", "other"}
           /\ candidate.ready \in BOOLEAN
BY DEF Typed, AttemptRecords, CandidateRecords

(* A failure that touches nothing else only counts.                        *)
LEMMA LaneUntouched ==
    ASSUME WriteLaneInv, KeptOnDrop, UNCHANGED <<source, disk, tree, lane, journal, edits>>,
           Fault \/ NoFault
    PROVE  WriteLaneInv' /\ KeptOnDrop'
<1>1. Counted
  BY FaultsCounted DEF WriteLaneInv
<1>2. TypeOK'
  BY <1>1, Types, TypesNext DEF WriteLaneInv, Counted
<1>3. faults \in Nat /\ faults' >= faults /\ faults' \in Nat
  BY <1>1, BoundsAssumption DEF Counted, WriteLaneInv, TypeOK
<1>4. ControlOK' /\ StoryOK'
  BY DEF WriteLaneInv, ControlOK, StoryOK
<1>5. DiskOK' /\ ComparisonOK'
  BY <1>3 DEF WriteLaneInv, DiskOK, ComparisonOK, Absent, Unchanged, TrackedDiff, Untracked
<1>6. KeptOnDrop'
  BY <1>3 DEF KeptOnDrop, Absent
<1> QED BY <1>2, <1>4, <1>5, <1>6 DEF WriteLaneInv

(* A live attempt that holds the worktree knows whether its write is there. *)
LEMMA ReceiptNamesWrite ==
    ASSUME AttemptInv,
           \/ attempt.pc \in {"dispatch", "materializing", "baseline", "head", "calling", "validate",
                              "reading", "publish"}
           \/ attempt.pc = "writing" /\ attempt.toolCalls = 1
    PROVE  lane.renames = 1 => EffectReceipt = "diff"
<1>1. \/ lane.phase \in {"none", "Ready"}
      \/ attempt.written
  BY DEF AttemptInv, LaneFollows, Standing
<1>2. lane.phase \in {"none", "Ready"} => lane.renames = 0
  BY DEF AttemptInv, WriteLaneInv, StoryOK
<1> QED BY <1>1, <1>2 DEF EffectReceipt

(* A live attempt fails: nothing of the lane moves, the counters stay      *)
(* bounded, and an effect that happened is named.                          *)
LEMMA FailureKeeps ==
    ASSUME AttemptInv, NEW s \in AttemptRecords, NEW reason, NEW effect \in EffectSteps,
           FailWith(s, reason, effect), UNCHANGED <<lane, candidate>>,
           reason \in {"error", "slots", "rejections"},
           attempt.pc # "completed",
           s.revision <= s.calls, s.finishCalls <= s.calls,
           reason = "slots" /\ s.written => s.finishCalls >= FinishCallReserve,
           lane.pc \in {"head_before", "idle", "failed", "dropped"},
           lane.renames = 1 => effect # "none"
    PROVE  Typed' /\ BudgetOK' /\ LaneFollows' /\ EffectOK'
<1>1. attempt' = [s EXCEPT !.pc = "failed", !.outcome = reason, !.effect = effect]
  BY DEF FailWith
<1>2. "failed" \in AttemptSteps /\ reason \in {"none", "error", "slots", "rejections"} \cup Finishes
  BY DEF AttemptSteps, Ended
<1>3. attempt' \in AttemptRecords
  BY <1>1, <1>2 DEF AttemptRecords
<1>4. /\ attempt'.pc = "failed" /\ attempt'.outcome = reason /\ attempt'.effect = effect
      /\ attempt'.revision = s.revision /\ attempt'.calls = s.calls /\ attempt'.written = s.written
      /\ attempt'.finishCalls = s.finishCalls
  BY <1>1 DEF AttemptRecords
<1>5. Typed'
  BY <1>3 DEF AttemptInv, Typed, CandidateRecords
<1>6. BudgetOK'
  BY <1>4 DEF BudgetOK, Ended, Loop, Finishing
<1>7. LaneFollows'
  BY <1>4 DEF LaneFollows, Resting
<1>8. EffectOK'
  BY <1>4 DEF AttemptInv, EffectOK, Finishing
<1> QED BY <1>5, <1>6, <1>7, <1>8

(* The same for a failure without an effect of its own.                    *)
LEMMA FailKeeps ==
    ASSUME AttemptInv, NEW s \in AttemptRecords, NEW reason,
           FailWith(s, reason, EffectReceipt), UNCHANGED <<lane, candidate>>,
           reason \in {"error", "slots", "rejections"},
           \/ attempt.pc \in {"dispatch", "materializing", "baseline", "head", "calling", "validate",
                              "reading", "publish"}
           \/ attempt.pc = "writing" /\ attempt.toolCalls = 1,
           s.revision <= s.calls, s.finishCalls <= s.calls,
           reason = "slots" /\ s.written => s.finishCalls >= FinishCallReserve,
           lane.pc \in {"head_before", "idle", "failed", "dropped"}
    PROVE  Typed' /\ BudgetOK' /\ LaneFollows' /\ EffectOK'
<1>1. EffectReceipt \in EffectSteps /\ "diff" # "none"
  BY DEF EffectReceipt, EffectSteps
<1>2. lane.renames = 1 => EffectReceipt # "none"
  BY <1>1, ReceiptNamesWrite
<1>3. attempt.pc # "completed"
  OBVIOUS
<1> QED BY <1>1, <1>2, <1>3, FailureKeeps

(* A step of the attempt that only moves it on.                            *)
LEMMA OnlyMoved ==
    ASSUME Typed, NEW pc \in AttemptSteps, attempt' = [attempt EXCEPT !.pc = pc]
    PROVE  /\ attempt' \in AttemptRecords /\ attempt'.pc = pc
           /\ attempt'.plan = attempt.plan /\ attempt'.revision = attempt.revision
           /\ attempt'.calls = attempt.calls /\ attempt'.rejections = attempt.rejections
           /\ attempt'.toolCalls = attempt.toolCalls /\ attempt'.tokens = attempt.tokens
           /\ attempt'.read = attempt.read /\ attempt'.written = attempt.written
           /\ attempt'.finishCalls = attempt.finishCalls /\ attempt'.effect = attempt.effect
           /\ attempt'.outcome = attempt.outcome
<1>1. attempt \in AttemptRecords
  BY DEF Typed
<1> QED BY <1>1 DEF AttemptRecords

(* The lane rests where the attempt goes on only while the daemon lives.   *)
LEMMA Idle == ASSUME lane.pc \in Resting, ~At("crashed") PROVE lane.pc = "idle"
BY DEF Resting, At

-----------------------------------------------------------------------------
LEMMA StartAttemptKeeps == ASSUME AttemptInv, StartAttempt, ~At("crashed") PROVE AttemptInv'
<1>1. /\ attempt.pc = "dispatch" /\ UNCHANGED <<source, disk, tree, lane, journal, edits, candidate>>
      /\ \/ NoFault /\ attempt' = [attempt EXCEPT !.pc = "materializing"]
         \/ Fault /\ Fail
  BY DEF StartAttempt, Doing, Boundary
<1>2. WriteLaneInv' /\ KeptOnDrop'
  BY <1>1, LaneUntouched DEF AttemptInv
<1>3. lane.phase = "none" /\ lane.pc = "head_before" /\ Typed
  BY <1>1 DEF AttemptInv, LaneFollows, At
<1>4. CASE Fail
  <2>1. /\ attempt \in AttemptRecords /\ attempt.revision <= attempt.calls
        /\ attempt.finishCalls <= attempt.calls
    BY <1>3, Fields DEF AttemptInv, BudgetOK
  <2>2. Typed' /\ BudgetOK' /\ LaneFollows' /\ EffectOK'
    BY <1>1, <1>3, <1>4, <2>1, FailKeeps DEF Fail
  <2> QED BY <1>2, <2>2 DEF AttemptInv
<1>5. CASE attempt' = [attempt EXCEPT !.pc = "materializing"]
  <2>1. "materializing" \in AttemptSteps
    BY DEF AttemptSteps
  <2>2. Typed'
    BY <1>1, <1>3, <1>5, <2>1, OnlyMoved DEF Typed, CandidateRecords
  <2>3. BudgetOK'
    BY <1>1, <1>3, <1>5, <2>1, OnlyMoved DEF AttemptInv, BudgetOK, Ended, Loop, Finishing, Remaining
  <2>4. LaneFollows'
    BY <1>1, <1>3, <1>5, <2>1, OnlyMoved DEF LaneFollows
  <2>5. EffectOK'
    BY <1>1, <1>3, <1>5, <2>1, OnlyMoved DEF AttemptInv, EffectOK, Finishing
  <2> QED BY <1>2, <2>2, <2>3, <2>4, <2>5 DEF AttemptInv
<1> QED BY <1>1, <1>4, <1>5

LEMMA MaterializedKeeps == ASSUME AttemptInv, Materialized, ~At("crashed") PROVE AttemptInv'
<1>1. /\ attempt.pc = "materializing" /\ UNCHANGED <<vars, candidate>>
      /\ \/ lane.phase = "Ready" /\ lane.pc = "idle" /\ attempt' = [attempt EXCEPT !.pc = "baseline"]
         \/ lane.pc \in {"failed", "dropped"} /\ Fail
  BY DEF Materialized, Doing, At
<1>2. WriteLaneInv' /\ KeptOnDrop' /\ UNCHANGED lane
  BY <1>1, LaneUntouched DEF AttemptInv, NoFault, vars
<1>3. Typed /\ ~attempt.written /\ BudgetOK /\ EffectOK
  BY <1>1 DEF AttemptInv, BudgetOK
<1>4. CASE lane.pc \in {"failed", "dropped"} /\ Fail
  <2>1. /\ attempt \in AttemptRecords /\ attempt.revision <= attempt.calls
        /\ attempt.finishCalls <= attempt.calls
    BY <1>3, Fields DEF BudgetOK
  <2>2. Typed' /\ BudgetOK' /\ LaneFollows' /\ EffectOK'
    BY <1>1, <1>2, <1>4, <2>1, FailKeeps DEF Fail
  <2> QED BY <1>2, <2>2 DEF AttemptInv
<1>5. CASE lane.phase = "Ready" /\ lane.pc = "idle" /\ attempt' = [attempt EXCEPT !.pc = "baseline"]
  <2>1. "baseline" \in AttemptSteps
    BY DEF AttemptSteps
  <2>2. Typed'
    BY <1>1, <1>3, <1>5, <2>1, OnlyMoved DEF Typed, CandidateRecords
  <2>3. BudgetOK'
    BY <1>1, <1>3, <1>5, <2>1, OnlyMoved DEF BudgetOK, Ended, Loop, Finishing, Remaining
  <2>4. LaneFollows'
    BY <1>2, <1>3, <1>5, <2>1, OnlyMoved DEF LaneFollows, Standing, Resting
  <2>5. EffectOK'
    BY <1>1, <1>2, <1>3, <1>5, <2>1, OnlyMoved DEF EffectOK, Finishing
  <2> QED BY <1>2, <2>2, <2>3, <2>4, <2>5 DEF AttemptInv
<1> QED BY <1>1, <1>4, <1>5

LEMMA CheckBaselineKeeps == ASSUME AttemptInv, CheckBaseline, ~At("crashed") PROVE AttemptInv'
<1>1. /\ attempt.pc = "baseline" /\ UNCHANGED <<source, disk, tree, lane, journal, edits, candidate>>
      /\ Fault \/ NoFault
      /\ \/ attempt' = [attempt EXCEPT !.pc = "head"]
         \/ Fail
  BY DEF CheckBaseline, Doing, Boundary
<1>2. WriteLaneInv' /\ KeptOnDrop'
  BY <1>1, LaneUntouched DEF AttemptInv
<1>3. /\ Typed /\ ~attempt.written /\ BudgetOK /\ EffectOK
      /\ lane.phase = "Ready" /\ lane.pc = "idle"
  BY <1>1, Idle DEF AttemptInv, BudgetOK, LaneFollows, Standing
<1>4. CASE Fail
  <2>1. /\ attempt \in AttemptRecords /\ attempt.revision <= attempt.calls
        /\ attempt.finishCalls <= attempt.calls
    BY <1>3, Fields DEF BudgetOK
  <2>2. Typed' /\ BudgetOK' /\ LaneFollows' /\ EffectOK'
    BY <1>1, <1>3, <1>4, <2>1, FailKeeps DEF Fail
  <2> QED BY <1>2, <2>2 DEF AttemptInv
<1>5. CASE attempt' = [attempt EXCEPT !.pc = "head"]
  <2>1. "head" \in AttemptSteps
    BY DEF AttemptSteps
  <2>2. Typed'
    BY <1>1, <1>3, <1>5, <2>1, OnlyMoved DEF Typed, CandidateRecords
  <2>3. BudgetOK'
    BY <1>1, <1>3, <1>5, <2>1, OnlyMoved DEF BudgetOK, Ended, Loop, Finishing, Remaining
  <2>4. LaneFollows'
    BY <1>1, <1>3, <1>5, <2>1, OnlyMoved DEF LaneFollows, Standing, Resting
  <2>5. EffectOK'
    BY <1>1, <1>3, <1>5, <2>1, OnlyMoved DEF EffectOK, Finishing
  <2> QED BY <1>2, <2>2, <2>3, <2>4, <2>5 DEF AttemptInv
<1> QED BY <1>1, <1>4, <1>5

(* One call fewer remains, and one call's tokens with it.                  *)
LEMMA OneCallFewer ==
    ASSUME NEW calls \in Nat, NEW k \in Nat
    PROVE  (MaxModelCalls - calls) * k = (MaxModelCalls - (calls + 1)) * k + k
<1>1. MaxModelCalls \in Nat
  BY Policy
<1> QED BY <1>1

(* The calls run out before the tokens do.                                 *)
LEMMA TokensLast ==
    ASSUME AttemptInv, attempt.pc = "head", attempt.calls < MaxModelCalls
    PROVE  attempt.tokens >= TokensPerCall
<1>1. /\ attempt.calls \in Nat /\ attempt.tokens \in Nat /\ MaxModelCalls \in Nat
      /\ TokensPerCall \in Nat
      /\ attempt.tokens >= (MaxModelCalls - attempt.calls) * TokensPerCall
  BY Fields, Policy DEF AttemptInv, BudgetOK, Loop, Remaining
<1>2. PICK n \in Nat : MaxModelCalls - attempt.calls = n + 1
  <2> DEFINE m == MaxModelCalls - attempt.calls - 1
  <2>1. m \in Nat /\ MaxModelCalls - attempt.calls = m + 1
    BY <1>1
  <2> HIDE DEF m
  <2> QED BY <2>1
<1>3. (n + 1) * TokensPerCall = n * TokensPerCall + TokensPerCall /\ n * TokensPerCall >= 0
  BY <1>1
<1>4. n * TokensPerCall \in Nat
  BY <1>1
<1> QED BY <1>1, <1>2, <1>3, <1>4

LEMMA LoopHeadKeeps == ASSUME AttemptInv, LoopHead, ~At("crashed") PROVE AttemptInv'
<1> DEFINE over == attempt.calls >= MaxModelCalls \/ attempt.tokens < TokensPerCall
<1>1. /\ attempt.pc = "head" /\ UNCHANGED <<vars, candidate>>
      /\ \/ over /\ FailWith(attempt, "slots", EffectReceipt)
         \/ ~over /\ attempt' = [attempt EXCEPT !.pc = "calling", !.calls = @ + 1,
                                !.finishCalls = IF attempt.written THEN @ + 1 ELSE @]
  BY DEF LoopHead, Doing
<1>2. WriteLaneInv' /\ KeptOnDrop' /\ UNCHANGED lane
  BY <1>1, LaneUntouched DEF AttemptInv, NoFault, vars
<1>3. /\ Typed /\ BudgetOK /\ EffectOK /\ LaneFollows
      /\ Standing(IF attempt.written THEN "Written" ELSE "Ready") /\ lane.pc = "idle"
  BY <1>1, Idle DEF AttemptInv, LaneFollows, Standing
<1>4. /\ attempt \in AttemptRecords /\ attempt.calls \in Nat /\ attempt.calls <= MaxModelCalls
      /\ MaxModelCalls \in Nat /\ attempt.finishCalls \in Nat /\ attempt.written \in BOOLEAN
      /\ attempt.finishCalls <= attempt.calls /\ attempt.revision <= attempt.calls
      /\ attempt.revision \in Nat /\ attempt.tokens \in Nat /\ TokensPerCall \in Nat
  BY <1>3, Fields, Policy DEF BudgetOK
<1>5. CASE over /\ FailWith(attempt, "slots", EffectReceipt)
  <2>1. attempt.calls = MaxModelCalls
    BY <1>1, <1>4, <1>5, TokensLast
  <2>2. attempt.written => attempt.finishCalls >= FinishCallReserve
    BY <1>1, <1>3, <1>4, <2>1, Policy DEF BudgetOK, Loop, Remaining
  <2>3. Typed' /\ BudgetOK' /\ LaneFollows' /\ EffectOK'
    BY <1>1, <1>2, <1>3, <1>4, <1>5, <2>2, FailKeeps
  <2> QED BY <1>2, <2>3 DEF AttemptInv
<1>6. CASE ~over /\ attempt' = [attempt EXCEPT !.pc = "calling", !.calls = @ + 1,
                               !.finishCalls = IF attempt.written THEN @ + 1 ELSE @]
  <2>1. "calling" \in AttemptSteps /\ attempt.calls + 1 \in 0..MaxModelCalls
    BY <1>4, <1>6 DEF AttemptSteps
  <2>2. PICK n \in 0..MaxModelCalls : n = IF attempt.written THEN attempt.finishCalls + 1 ELSE attempt.finishCalls
    BY <1>4, <1>6
  <2>3. attempt' = [attempt EXCEPT !.pc = "calling", !.calls = attempt.calls + 1, !.finishCalls = n]
    BY <1>4, <1>6, <2>2 DEF AttemptRecords
  <2>4. attempt' \in AttemptRecords
    BY <1>4, <2>1, <2>3 DEF AttemptRecords
  <2>5. /\ attempt'.pc = "calling" /\ attempt'.calls = attempt.calls + 1 /\ attempt'.finishCalls = n
        /\ attempt'.revision = attempt.revision /\ attempt'.rejections = attempt.rejections
        /\ attempt'.toolCalls = attempt.toolCalls /\ attempt'.tokens = attempt.tokens
        /\ attempt'.read = attempt.read /\ attempt'.written = attempt.written
        /\ attempt'.outcome = attempt.outcome
    BY <1>4, <2>3 DEF AttemptRecords
  <2>6. Typed'
    BY <1>1, <1>3, <2>4 DEF Typed, CandidateRecords
  <2>7. (MaxModelCalls - attempt.calls) * TokensPerCall
          = (MaxModelCalls - (attempt.calls + 1) + 1) * TokensPerCall
    BY <1>4
  <2>8. attempt'.tokens >= (MaxModelCalls - attempt'.calls + 1) * TokensPerCall
    <3>1. attempt.tokens >= (MaxModelCalls - attempt.calls) * TokensPerCall
      BY <1>1, <1>3 DEF BudgetOK, Loop, Remaining
    <3> QED BY <2>5, <2>7, <3>1
  <2>9. attempt'.tokens >= (MaxModelCalls - attempt'.calls) * TokensPerCall
    <3>1. PICK m \in Nat : m = MaxModelCalls - attempt'.calls
      BY <1>4, <1>6, <2>5
    <3>2. (m + 1) * TokensPerCall = m * TokensPerCall + TokensPerCall /\ m * TokensPerCall \in Nat
      BY <1>4
    <3>3. attempt'.tokens >= (m + 1) * TokensPerCall
      BY <2>8, <3>1
    <3> QED BY <1>4, <2>5, <3>1, <3>2, <3>3
  <2>10. BudgetOK'
    <3>1. attempt.written /\ attempt.finishCalls + (MaxModelCalls - attempt.calls) >= FinishCallReserve
            => n + (MaxModelCalls - (attempt.calls + 1)) >= FinishCallReserve
      BY <1>4, <2>2, Policy
    <3>2. n <= attempt.calls + 1 /\ attempt.revision < attempt.calls + 1
      BY <1>4, <2>2
    <3>3. attempt.written => attempt.finishCalls + (MaxModelCalls - attempt.calls) >= FinishCallReserve
      BY <1>1, <1>3 DEF BudgetOK, Loop, Remaining
    <3>4. /\ attempt'.revision <= attempt'.calls /\ attempt'.finishCalls <= attempt'.calls
          /\ attempt'.revision < attempt'.calls
      BY <1>4, <2>5, <3>2
    <3>5. attempt'.written => attempt'.finishCalls + Remaining' >= FinishCallReserve
      BY <2>5, <3>1, <3>3 DEF Remaining
    <3>6. /\ attempt.rejections <= MaxActionRejections /\ attempt.outcome = "none"
          /\ attempt.toolCalls = IF attempt.written THEN 2 ELSE IF attempt.read THEN 1 ELSE 0
      BY <1>1, <1>3 DEF BudgetOK, Loop, Ended
    <3> QED BY <2>5, <2>8, <2>9, <3>4, <3>5, <3>6 DEF BudgetOK, Ended, Loop, Finishing, Remaining
  <2>11. LaneFollows'
    BY <1>2, <1>3, <2>5 DEF LaneFollows, Standing, Resting
  <2>12. EffectOK'
    BY <1>1, <1>2, <1>3, <2>5 DEF EffectOK, BudgetOK, Finishing, Loop
  <2> QED BY <1>2, <2>6, <2>10, <2>11, <2>12 DEF AttemptInv
<1> QED BY <1>1, <1>5, <1>6

(* What an answer costs is never more than is there, nor than a full call  *)
(* unless its report was above the ceiling.                                *)
LEMMA SpendLeaves ==
    ASSUME Typed, NEW reported \in 0..(TokensPerCall + 1)
    PROVE  /\ Spend(reported) \in AttemptRecords
           /\ Spend(reported) = [attempt EXCEPT !.tokens = Spend(reported).tokens]
           /\ Spend(reported).revision = attempt.revision /\ Spend(reported).calls = attempt.calls
           /\ Spend(reported).finishCalls = attempt.finishCalls
           /\ Spend(reported).written = attempt.written
           /\ \A k \in Nat : attempt.tokens >= k + TokensPerCall /\ reported <= TokensPerCall
                               => Spend(reported).tokens >= k
<1>1. /\ attempt \in AttemptRecords /\ attempt.tokens \in Nat /\ attempt.tokens <= MaxOutputTokens
      /\ TokensPerCall \in Nat /\ MaxOutputTokens \in Nat /\ reported \in Nat
  BY Fields, Policy
<1>2. PICK c \in Nat : c = Charge(reported)
  BY <1>1 DEF Charge
<1>3. reported <= TokensPerCall => c <= TokensPerCall
  BY <1>1, <1>2 DEF Charge
<1>4. PICK n : n = IF attempt.tokens > c THEN attempt.tokens - c ELSE 0
  OBVIOUS
<1>5. n \in 0..MaxOutputTokens /\ \A k \in Nat : attempt.tokens >= k + c => n >= k
  BY <1>1, <1>4
<1>6. Spend(reported) = [attempt EXCEPT !.tokens = n]
  BY <1>1, <1>2, <1>4 DEF Spend, AttemptRecords
<1>7. /\ Spend(reported) \in AttemptRecords /\ Spend(reported).tokens = n
      /\ Spend(reported).revision = attempt.revision /\ Spend(reported).calls = attempt.calls
      /\ Spend(reported).finishCalls = attempt.finishCalls
      /\ Spend(reported).written = attempt.written
  BY <1>1, <1>5, <1>6 DEF AttemptRecords
<1>8. \A k \in Nat : attempt.tokens >= k + TokensPerCall /\ reported <= TokensPerCall => n >= k
  BY <1>1, <1>3, <1>5
<1> QED BY <1>6, <1>7, <1>8

LEMMA CallModelKeeps == ASSUME AttemptInv, CallModel, ~At("crashed") PROVE AttemptInv'
<1>1. /\ attempt.pc = "calling" /\ UNCHANGED <<source, disk, tree, lane, journal, edits, candidate>>
      /\ Fault \/ NoFault
      /\ \E reported \in 0..(TokensPerCall + 1) :
            \/ reported <= TokensPerCall /\ attempt' = [Spend(reported) EXCEPT !.pc = "validate"]
            \/ FailWith(Spend(reported), "error", EffectReceipt)
  BY DEF CallModel, Doing
<1>2. WriteLaneInv' /\ KeptOnDrop'
  BY <1>1, LaneUntouched DEF AttemptInv
<1>3. /\ Typed /\ BudgetOK /\ EffectOK /\ LaneFollows
      /\ Standing(IF attempt.written THEN "Written" ELSE "Ready") /\ lane.pc = "idle"
  BY <1>1, Idle DEF AttemptInv, LaneFollows, Standing
<1>4. PICK reported \in 0..(TokensPerCall + 1) :
            \/ reported <= TokensPerCall /\ attempt' = [Spend(reported) EXCEPT !.pc = "validate"]
            \/ FailWith(Spend(reported), "error", EffectReceipt)
  BY <1>1
<1>5. PICK s : s = Spend(reported)
  OBVIOUS
<1>6. /\ s \in AttemptRecords /\ s = [attempt EXCEPT !.tokens = s.tokens]
      /\ s.revision = attempt.revision /\ s.calls = attempt.calls
      /\ s.finishCalls = attempt.finishCalls /\ s.written = attempt.written
  BY <1>3, <1>5, SpendLeaves
<1>7. attempt.revision < attempt.calls /\ attempt.finishCalls <= attempt.calls
  BY <1>1, <1>3 DEF BudgetOK
<1>8. CASE FailWith(s, "error", EffectReceipt)
  <2>1. s.revision <= s.calls /\ s.finishCalls <= s.calls
    BY <1>3, <1>6, <1>7, Fields
  <2>2. Typed' /\ BudgetOK' /\ LaneFollows' /\ EffectOK'
    BY <1>1, <1>3, <1>6, <1>8, <2>1, FailKeeps
  <2> QED BY <1>2, <2>2 DEF AttemptInv
<1>9. CASE reported <= TokensPerCall /\ attempt' = [s EXCEPT !.pc = "validate"]
  <2>1. "validate" \in AttemptSteps /\ attempt \in AttemptRecords
    BY <1>3, Fields DEF AttemptSteps
  <2>2. attempt' = [attempt EXCEPT !.pc = "validate", !.tokens = s.tokens] /\ attempt' \in AttemptRecords
    BY <1>6, <1>9, <2>1 DEF AttemptRecords
  <2>3. /\ attempt'.pc = "validate" /\ attempt'.calls = attempt.calls
        /\ attempt'.finishCalls = attempt.finishCalls
        /\ attempt'.revision = attempt.revision /\ attempt'.rejections = attempt.rejections
        /\ attempt'.toolCalls = attempt.toolCalls /\ attempt'.tokens = s.tokens
        /\ attempt'.read = attempt.read /\ attempt'.written = attempt.written
        /\ attempt'.outcome = attempt.outcome
    BY <2>1, <2>2 DEF AttemptRecords
  <2>4. Typed'
    BY <1>1, <1>3, <2>2 DEF Typed, CandidateRecords
  <2>5. s.tokens >= (MaxModelCalls - attempt.calls) * TokensPerCall
    <3>1. PICK m \in Nat : m = MaxModelCalls - attempt.calls
      BY <1>3, Fields, Policy
    <3>2. (m + 1) * TokensPerCall = m * TokensPerCall + TokensPerCall /\ m * TokensPerCall \in Nat
      BY Policy
    <3>3. attempt.tokens >= (m + 1) * TokensPerCall
      BY <1>1, <1>3, <3>1 DEF BudgetOK, Remaining
    <3> QED BY <1>3, <1>5, <1>9, <3>1, <3>2, <3>3, SpendLeaves
  <2>6. BudgetOK'
    BY <1>1, <1>3, <2>3, <2>5 DEF BudgetOK, Ended, Loop, Finishing, Remaining
  <2>7. LaneFollows'
    BY <1>1, <1>3, <2>3 DEF LaneFollows, Standing, Resting
  <2>8. EffectOK'
    BY <1>1, <1>3, <2>3 DEF EffectOK, Finishing
  <2> QED BY <1>2, <2>4, <2>6, <2>7, <2>8 DEF AttemptInv
<1> QED BY <1>4, <1>5, <1>8, <1>9

-----------------------------------------------------------------------------
(* What is left of the attempt by an answer: its plan and the revision may *)
(* differ, nothing else that the invariant speaks of.                      *)
Revision(s) ==
    /\ s \in AttemptRecords /\ s.revision <= s.calls
    /\ s.calls = attempt.calls /\ s.finishCalls = attempt.finishCalls
    /\ s.rejections = attempt.rejections /\ s.toolCalls = attempt.toolCalls
    /\ s.tokens = attempt.tokens /\ s.read = attempt.read /\ s.written = attempt.written
    /\ s.outcome = attempt.outcome

LEMMA Revisions ==
    ASSUME AttemptInv, attempt.pc = "validate"
    PROVE  Revision(attempt) /\ \A plan \in Plans : Revision(Revised(plan))
<1>1. /\ attempt \in AttemptRecords /\ attempt.revision \in Nat /\ attempt.calls \in 0..MaxModelCalls
      /\ attempt.revision < attempt.calls /\ MaxModelCalls \in Nat
  BY Fields, Policy DEF AttemptInv, BudgetOK
<1>2. attempt.revision + 1 \in 0..MaxModelCalls /\ attempt.revision + 1 <= attempt.calls
  BY <1>1
<1>3. ASSUME NEW plan \in Plans PROVE Revision(Revised(plan))
  <2>1. Revised(plan) = [attempt EXCEPT !.plan = plan, !.revision = attempt.revision + 1]
    BY <1>1 DEF Revised, AttemptRecords
  <2>2. Revised(plan) \in AttemptRecords
    BY <1>1, <1>2, <1>3, <2>1 DEF AttemptRecords
  <2> QED BY <1>1, <1>2, <2>1, <2>2 DEF Revision, AttemptRecords
<1> QED BY <1>1, <1>3 DEF Revision

(* A revised state that goes on at another point of the loop.              *)
LEMMA RevisedMoved ==
    ASSUME NEW s, Revision(s), NEW pc \in AttemptSteps,
           attempt' = [s EXCEPT !.pc = pc]
    PROVE  /\ attempt' \in AttemptRecords /\ attempt'.pc = pc /\ attempt'.revision = s.revision
           /\ attempt'.calls = attempt.calls /\ attempt'.rejections = attempt.rejections
           /\ attempt'.toolCalls = attempt.toolCalls /\ attempt'.tokens = attempt.tokens
           /\ attempt'.read = attempt.read /\ attempt'.written = attempt.written
           /\ attempt'.finishCalls = attempt.finishCalls /\ attempt'.outcome = attempt.outcome
<1>1. s \in AttemptRecords
  BY DEF Revision
<1> QED BY <1>1 DEF Revision, AttemptRecords

LEMMA RejectKeeps ==
    ASSUME AttemptInv, attempt.pc = "validate", lane.pc = "idle", UNCHANGED <<lane, candidate>>,
           NEW s, Revision(s), Reject(s)
    PROVE  Typed' /\ BudgetOK' /\ LaneFollows' /\ EffectOK'
<1>1. PICK r : r = [s EXCEPT !.rejections = s.rejections + 1]
  OBVIOUS
<1>2. \/ r.rejections > MaxActionRejections /\ FailWith(r, "rejections", EffectReceipt)
      \/ ~(r.rejections > MaxActionRejections) /\ attempt' = [r EXCEPT !.pc = "head"]
  <2>1. r = [s EXCEPT !.rejections = @ + 1]
    BY <1>1 DEF Revision, AttemptRecords
  <2> QED BY <2>1 DEF Reject
<1>3. /\ s \in AttemptRecords /\ s.rejections \in Nat /\ s.rejections <= MaxActionRejections
      /\ MaxActionRejections \in Nat /\ Typed /\ BudgetOK /\ EffectOK /\ LaneFollows
      /\ attempt.finishCalls <= attempt.calls
  BY Fields, Policy DEF AttemptInv, BudgetOK, Ended, Revision
<1>4. s.rejections + 1 \in 0..(MaxActionRejections + 1)
  BY <1>3
<1>5. /\ r \in AttemptRecords /\ r.rejections = s.rejections + 1 /\ r.revision = s.revision
      /\ r.calls = s.calls /\ r.finishCalls = s.finishCalls /\ r.written = s.written
      /\ r.toolCalls = s.toolCalls /\ r.tokens = s.tokens /\ r.read = s.read
      /\ r.outcome = s.outcome
  BY <1>1, <1>3, <1>4 DEF AttemptRecords
<1>6. r.revision <= r.calls /\ r.finishCalls <= r.calls
  BY <1>3, <1>5 DEF Revision
<1>7. CASE FailWith(r, "rejections", EffectReceipt)
  BY <1>5, <1>6, <1>7, FailKeeps
<1>8. CASE ~(r.rejections > MaxActionRejections) /\ attempt' = [r EXCEPT !.pc = "head"]
  <2>1. "head" \in AttemptSteps
    BY DEF AttemptSteps
  <2>2. /\ attempt' \in AttemptRecords /\ attempt'.pc = "head" /\ attempt'.revision = r.revision
        /\ attempt'.calls = attempt.calls /\ attempt'.rejections = r.rejections
        /\ attempt'.toolCalls = attempt.toolCalls /\ attempt'.tokens = attempt.tokens
        /\ attempt'.read = attempt.read /\ attempt'.written = attempt.written
        /\ attempt'.finishCalls = attempt.finishCalls /\ attempt'.outcome = attempt.outcome
    BY <1>5, <1>8, <2>1 DEF AttemptRecords, Revision
  <2>3. r.rejections <= MaxActionRejections
    BY <1>3, <1>5, <1>8
  <2>4. Typed'
    BY <1>3, <2>2 DEF Typed, CandidateRecords
  <2>5. BudgetOK'
    BY <1>3, <1>5, <1>6, <2>2, <2>3 DEF Revision, BudgetOK, Ended, Loop, Finishing, Remaining
  <2>6. LaneFollows'
    BY <1>3, <2>2 DEF LaneFollows, Standing, Resting
  <2>7. EffectOK'
    BY <1>3, <2>2 DEF EffectOK, Finishing
  <2> QED BY <2>4, <2>5, <2>6, <2>7
<1> QED BY <1>2, <1>7, <1>8

(* What an answer may come to.                                             *)
LEMMA AnswerTold ==
    ASSUME Answer
    PROVE  /\ attempt.pc = "validate" /\ UNCHANGED <<source, disk, tree, lane, journal, edits, candidate>>
           /\ Fault \/ NoFault
           /\ \/ \E plan \in Plans :
                    \/ ReadAdmitted /\ attempt' = [Revised(plan) EXCEPT !.pc = "reading"]
                    \/ ReplaceAdmitted /\ attempt' = [Revised(plan) EXCEPT !.pc = "writing"]
                    \/ \E action \in Finishes :
                          /\ Revised(plan).revision >= MinimumPlanRevisions
                          /\ attempt' = [Revised(plan) EXCEPT !.pc = "publish", !.outcome = action]
                    \/ Reject(Revised(plan))
              \/ Reject(attempt)
              \/ Fail
BY DEF Answer, Doing, FinishAdmitted

LEMMA AnswerKeeps == ASSUME AttemptInv, Answer, ~At("crashed") PROVE AttemptInv'
<1>1. /\ attempt.pc = "validate" /\ UNCHANGED <<source, disk, tree, lane, journal, edits, candidate>>
      /\ Fault \/ NoFault
      /\ \/ \E plan \in Plans :
               \/ ReadAdmitted /\ attempt' = [Revised(plan) EXCEPT !.pc = "reading"]
               \/ ReplaceAdmitted /\ attempt' = [Revised(plan) EXCEPT !.pc = "writing"]
               \/ \E action \in Finishes :
                     /\ Revised(plan).revision >= MinimumPlanRevisions
                     /\ attempt' = [Revised(plan) EXCEPT !.pc = "publish", !.outcome = action]
               \/ Reject(Revised(plan))
         \/ Reject(attempt)
         \/ Fail
  BY AnswerTold
<1>2. WriteLaneInv' /\ KeptOnDrop'
  BY <1>1, LaneUntouched DEF AttemptInv
<1>3. /\ Typed /\ BudgetOK /\ EffectOK /\ LaneFollows
      /\ Standing(IF attempt.written THEN "Written" ELSE "Ready") /\ lane.pc = "idle"
  BY <1>1, Idle DEF AttemptInv, LaneFollows, Standing
<1>4. Revision(attempt) /\ \A plan \in Plans : Revision(Revised(plan))
  BY <1>1, Revisions
<1>5. /\ attempt.finishCalls <= attempt.calls /\ attempt.rejections <= MaxActionRejections
      /\ attempt.tokens >= Remaining * TokensPerCall /\ attempt.outcome = "none"
      /\ attempt.toolCalls = IF attempt.written THEN 2 ELSE IF attempt.read THEN 1 ELSE 0
      /\ attempt.written => attempt.finishCalls + Remaining >= FinishCallReserve
  BY <1>1, <1>3 DEF BudgetOK, Ended, Loop
<1>6. CASE Fail
  <2>1. Typed' /\ BudgetOK' /\ LaneFollows' /\ EffectOK'
    BY <1>1, <1>3, <1>4, <1>5, <1>6, FailKeeps DEF Fail, Revision
  <2> QED BY <1>2, <2>1 DEF AttemptInv
<1>7. CASE Reject(attempt)
  BY <1>1, <1>2, <1>3, <1>4, <1>7, RejectKeeps DEF AttemptInv
<1>8. CASE \E plan \in Plans : Reject(Revised(plan))
  BY <1>1, <1>2, <1>3, <1>4, <1>8, RejectKeeps DEF AttemptInv
<1>9. ASSUME NEW plan \in Plans, ReadAdmitted, attempt' = [Revised(plan) EXCEPT !.pc = "reading"]
      PROVE  AttemptInv'
  <2>1. "reading" \in AttemptSteps
    BY DEF AttemptSteps
  <2>2. PICK s : s = Revised(plan)
    OBVIOUS
  <2>3. Revision(s) /\ attempt' = [s EXCEPT !.pc = "reading"] /\ ~attempt.read /\ ~attempt.written
    BY <1>4, <1>9, <2>2 DEF ReadAdmitted
  <2>4. Typed'
    BY <1>1, <1>3, <2>1, <2>3, RevisedMoved DEF Typed, CandidateRecords
  <2>5. BudgetOK'
    BY <1>5, <2>1, <2>3, RevisedMoved DEF Revision, BudgetOK, Ended, Loop, Finishing, Remaining
  <2>6. LaneFollows'
    BY <1>1, <1>3, <2>1, <2>3, RevisedMoved DEF LaneFollows, Standing, Resting
  <2>7. EffectOK'
    BY <1>1, <1>3, <1>5, <2>1, <2>3, RevisedMoved DEF EffectOK, Finishing
  <2> QED BY <1>2, <2>4, <2>5, <2>6, <2>7 DEF AttemptInv
<1>10. ASSUME NEW plan \in Plans, ReplaceAdmitted, attempt' = [Revised(plan) EXCEPT !.pc = "writing"]
       PROVE  AttemptInv'
  <2>1. "writing" \in AttemptSteps
    BY DEF AttemptSteps
  <2>2. PICK s : s = Revised(plan)
    OBVIOUS
  <2>3. /\ Revision(s) /\ attempt' = [s EXCEPT !.pc = "writing"] /\ attempt.read /\ ~attempt.written
        /\ Remaining >= FinishCallReserve
    BY <1>4, <1>10, <2>2 DEF ReplaceAdmitted, Remaining
  <2>8. attempt.toolCalls = 1 /\ 1 # 2
    BY <1>5, <2>3
  <2>4. Typed'
    BY <1>1, <1>3, <2>1, <2>3, RevisedMoved DEF Typed, CandidateRecords
  <2>5. BudgetOK'
    BY <1>5, <2>1, <2>3, RevisedMoved DEF Revision, BudgetOK, Ended, Loop, Finishing, Remaining
  <2>6. LaneFollows'
    BY <1>1, <1>3, <2>1, <2>3, <2>8, RevisedMoved DEF LaneFollows, Standing, Resting
  <2>7. EffectOK'
    BY <1>1, <1>3, <1>5, <2>1, <2>3, RevisedMoved DEF EffectOK, Finishing
  <2> QED BY <1>2, <2>4, <2>5, <2>6, <2>7 DEF AttemptInv
<1>11. ASSUME NEW plan \in Plans, NEW action \in Finishes,
              Revised(plan).revision >= MinimumPlanRevisions,
              attempt' = [Revised(plan) EXCEPT !.pc = "publish", !.outcome = action]
       PROVE  AttemptInv'
  <2>1. "publish" \in AttemptSteps /\ action # "slots"
    BY DEF AttemptSteps, Finishes
  <2>2. PICK s : s = Revised(plan)
    OBVIOUS
  <2>3. /\ Revision(s) /\ attempt' = [s EXCEPT !.pc = "publish", !.outcome = action]
        /\ s.revision >= MinimumPlanRevisions /\ s \in AttemptRecords
    BY <1>4, <1>11, <2>2 DEF Revision
  <2>4. /\ attempt' \in AttemptRecords /\ attempt'.pc = "publish" /\ attempt'.revision = s.revision
        /\ attempt'.calls = attempt.calls /\ attempt'.rejections = attempt.rejections
        /\ attempt'.toolCalls = attempt.toolCalls /\ attempt'.tokens = attempt.tokens
        /\ attempt'.read = attempt.read /\ attempt'.written = attempt.written
        /\ attempt'.finishCalls = attempt.finishCalls /\ attempt'.outcome = action
    BY <2>1, <2>3 DEF Revision, AttemptRecords
  <2>5. Typed'
    BY <1>1, <1>3, <2>4 DEF Typed, CandidateRecords
  <2>6. BudgetOK'
    BY <1>5, <2>3, <2>4 DEF Revision, BudgetOK, Ended, Loop, Finishing, Remaining
  <2>7. LaneFollows'
    BY <1>1, <1>3, <2>4 DEF LaneFollows, Standing, Resting
  <2>8. EffectOK'
    BY <1>1, <1>3, <2>1, <2>4 DEF EffectOK, Finishing
  <2> QED BY <1>2, <2>5, <2>6, <2>7, <2>8 DEF AttemptInv
<1> QED BY <1>1, <1>6, <1>7, <1>8, <1>9, <1>10, <1>11

-----------------------------------------------------------------------------
(* From which phase to which a step of a call leads, and where it stops.   *)
Moves ==
    /\ lane.pc \notin {"idle", "failed", "dropped", "crashed"}
    /\ lane.phase \notin {"Released", "ReconciliationRequired"}
    /\ lane.phase = "none" => lane'.phase = "none" \/ (lane'.phase = "Ready" /\ lane'.pc = "idle")
    /\ lane.phase = "Ready" /\ lane.pc \in Removing =>
          lane'.phase = "Ready" /\ lane'.pc \in {"absent", "dropped"} /\ lane'.renames = lane.renames
    /\ lane.phase = "Ready" /\ lane.pc \notin Removing =>
          \/ lane'.phase = "Ready" /\ lane'.pc \in {"idle", "prepare", "journal_prepared"}
          \/ lane'.phase = "EffectInFlight"
    /\ lane.phase = "EffectInFlight" =>
          \/ lane'.phase = "EffectInFlight"
          \/ lane'.phase \in {"Written", "ReconciliationRequired"} /\ lane'.pc = "idle"
    /\ lane.phase = "Written" =>
          lane'.phase \in {"Written", "CleanupInFlight", "ReconciliationRequired"} /\ lane'.pc # "dropped"
    /\ lane.phase = "CleanupInFlight" =>
          lane'.phase \in {"CleanupInFlight", "Released", "ReconciliationRequired"} /\ lane'.pc # "dropped"
    /\ tree'.cleanup_on_drop = tree.cleanup_on_drop \/ lane'.phase = "EffectInFlight"

LEMMA CallMoves == ASSUME WriteLaneInv, CallStep PROVE Moves
<1> USE DEF At, Goto, Observe, Retain, Reconcile, Rejected, Removing, Checking, Acquiring, Moves
<1>1. /\ lane \in LaneRecords /\ tree \in TreeRecords /\ ControlOK
  BY Types DEF WriteLaneInv
<1>2. CASE ObserveHeadBefore
  BY <1>1, <1>2 DEF ObserveHeadBefore, ControlOK, LaneRecords, TreeRecords, Phases
<1>3. CASE AddDetached
  BY <1>1, <1>3 DEF AddDetached, ControlOK, LaneRecords, TreeRecords, Phases
<1>4. CASE Canonicalize
  BY <1>1, <1>4 DEF Canonicalize, Rollback, ControlOK, LaneRecords, TreeRecords, Phases
<1>5. CASE OpenRoot
  BY <1>1, <1>5 DEF OpenRoot, Rollback, ControlOK, LaneRecords, TreeRecords, Phases
<1>6. CASE ObserveHeadAfter
  BY <1>1, <1>6 DEF ObserveHeadAfter, ReleaseFailedAcquisition, ControlOK, LaneRecords, TreeRecords, Phases
<1>7. CASE ObserveAcquired
  BY <1>1, <1>7 DEF ObserveAcquired, ReleaseFailedAcquisition, ControlOK, LaneRecords, TreeRecords, Phases
<1>8. CASE ObservePristine
  BY <1>1, <1>8 DEF ObservePristine, ControlOK, LaneRecords, TreeRecords, Phases
<1>9. CASE PrepareReplace
  BY <1>1, <1>9 DEF PrepareReplace, ControlOK, LaneRecords, TreeRecords, Phases
<1>10. CASE JournalPrepared
  BY <1>1, <1>10 DEF JournalPrepared, ControlOK, LaneRecords, TreeRecords, Phases
<1>11. CASE Reobserve
  BY <1>1, <1>11 DEF Reobserve, AbandonReplace, ControlOK, LaneRecords, TreeRecords, Phases
<1>12. CASE CreateTemporary
  BY <1>1, <1>12 DEF CreateTemporary, AbandonReplace, ControlOK, LaneRecords, TreeRecords, Phases
<1>13. CASE LastLook
  BY <1>1, <1>13 DEF LastLook, GiveUp, ControlOK, LaneRecords, TreeRecords, Phases
<1>14. CASE Rename
  BY <1>1, <1>14 DEF Rename, ControlOK, LaneRecords, TreeRecords, Phases
<1>15. CASE Verify
  BY <1>1, <1>15 DEF Verify, Poison, ControlOK, LaneRecords, TreeRecords, Phases
<1>16. CASE UnlinkTemporary
  BY <1>1, <1>16 DEF UnlinkTemporary, AbandonReplace, Poison, ControlOK, LaneRecords, TreeRecords, Phases
<1>17. CASE JournalUnknown
  BY <1>1, <1>17 DEF JournalUnknown, ControlOK, LaneRecords, TreeRecords, Phases
<1>18. CASE JournalObserved
  BY <1>1, <1>18 DEF JournalObserved, ControlOK, LaneRecords, TreeRecords, Phases
<1>19. CASE ObserveDiff
  BY <1>1, <1>19 DEF ObserveDiff, ControlOK, LaneRecords, TreeRecords, Phases
<1>20. CASE ObserveUntracked
  BY <1>1, <1>20 DEF ObserveUntracked, ControlOK, LaneRecords, TreeRecords, Phases
<1>21. CASE JournalDiff
  BY <1>1, <1>21 DEF JournalDiff, Check, ControlOK, LaneRecords, TreeRecords, Phases
<1>22. CASE CheckFile
  BY <1>1, <1>22 DEF CheckFile, ControlOK, LaneRecords, TreeRecords, Phases
<1>23. CASE CheckDiff
  BY <1>1, <1>23 DEF CheckDiff, ControlOK, LaneRecords, TreeRecords, Phases
<1>24. CASE CheckUntracked
  BY <1>1, <1>24 DEF CheckUntracked, Checked, ControlOK, LaneRecords, TreeRecords, Phases
<1>25. CASE JournalCleanup
  BY <1>1, <1>25 DEF JournalCleanup, Check, ControlOK, LaneRecords, TreeRecords, Phases
<1>26. CASE Remove
  BY <1>1, <1>26 DEF Remove, ReleaseFailed, ControlOK, LaneRecords, TreeRecords, Phases
<1>27. CASE ObserveAbsent
  BY <1>1, <1>27 DEF ObserveAbsent, ReleaseFailed, ControlOK, LaneRecords, TreeRecords, Phases
<1>28. CASE JournalRemoved
  BY <1>1, <1>28 DEF JournalRemoved, ControlOK, LaneRecords, TreeRecords, Phases
<1> QED BY <1>2, <1>3, <1>4, <1>5, <1>6, <1>7, <1>8, <1>9, <1>10, <1>11, <1>12, <1>13, <1>14, <1>15, <1>16, <1>17, <1>18, <1>19, <1>20, <1>21, <1>22, <1>23, <1>24, <1>25, <1>26, <1>27, <1>28 DEF CallStep

(* A worktree under removal is only removed, or looked for.                *)
LEMMA RemovalSteps ==
    ASSUME CallStep, lane.pc \in Removing
    PROVE  Remove \/ ObserveAbsent
BY DEF Removing, CallStep, At, ObserveHeadBefore, AddDetached, Canonicalize, OpenRoot,
       ObserveHeadAfter, ObserveAcquired, ObservePristine, PrepareReplace, JournalPrepared, Reobserve,
       CreateTemporary, LastLook, Rename, Verify, UnlinkTemporary, JournalUnknown, JournalObserved,
       ObserveDiff, ObserveUntracked, JournalDiff, CheckFile, CheckDiff, CheckUntracked,
       JournalCleanup, JournalRemoved

(* A Ready lane is dropped once its worktree is gone, or after a failure.  *)
LEMMA ReadyDropped ==
    ASSUME WriteLaneInv, CallStep, lane.phase = "Ready", lane'.phase = "Ready", lane'.pc = "dropped"
    PROVE  Absent' \/ faults' >= 1
<1>1. Moves
  BY CallMoves
<1>2. lane.pc \in Removing /\ lane \in LaneRecords /\ faults \in Nat
  BY <1>1, Types, BoundsAssumption DEF Moves, WriteLaneInv
<1>3. /\ tree.cleanup = "Active" /\ disk.present => disk.registered
      /\ tree.cleanup = "GitRemoved" => Absent \/ faults >= 1
      /\ lane.then = "dropped" /\ lane.pc = "absent" => tree.cleanup = "GitRemoved"
  BY <1>2 DEF WriteLaneInv, DiskOK, ControlOK
<1>4. lane.then = "dropped"
  BY <1>2 DEF WriteLaneInv, ControlOK
<1>5. CASE Remove
  <2>1. lane'.pc # "absent"
    OBVIOUS
  <2>2. /\ tree.cleanup = "Active"
        /\ Fault \/ (~disk.registered /\ UNCHANGED disk)
    BY <1>2, <1>5, <2>1 DEF Remove, Goto, LaneRecords
  <2> QED BY <1>2, <1>3, <2>2 DEF Fault, Absent
<1>6. CASE ObserveAbsent
  <2>1. \/ ~disk.present /\ ~disk.registered /\ UNCHANGED disk
        \/ (disk.present \/ disk.registered) /\ NoFault
        \/ Fault
    BY <1>6 DEF ObserveAbsent
  <2>2. lane.pc = "absent"
    BY <1>6 DEF ObserveAbsent, At
  <2> QED BY <1>2, <1>3, <1>4, <2>1, <2>2 DEF Fault, NoFault, Absent
<1> QED BY <1>2, <1>5, <1>6, RemovalSteps

LEMMA LaneKeepsOnDrop == ASSUME WriteLaneInv, KeptOnDrop, Next PROVE KeptOnDrop'
<1>1. WriteLaneInv' /\ lane \in LaneRecords /\ faults \in Nat
  BY StepKeeps, Types, BoundsAssumption DEF WriteLaneInv
<1>2. lane'.phase = "none" /\ lane'.pc = "dropped" => Absent' \/ faults' >= 1
  <2>1. faults' \in Nat
    BY <1>1, Types, BoundsAssumption DEF WriteLaneInv, TypeOK
  <2> QED BY <1>1, <2>1 DEF WriteLaneInv, DiskOK
<1>3. CASE CallStep
  <2>1. Moves
    BY <1>3, CallMoves
  <2>2. lane'.phase \in {"none", "Ready"} => tree'.cleanup_on_drop
    BY <1>1, <2>1 DEF Moves, KeptOnDrop, LaneRecords, Phases
  <2>3. lane'.phase = "Ready" /\ lane'.pc = "dropped" => lane.phase = "Ready"
    BY <1>1, <2>1 DEF Moves, LaneRecords, Phases
  <2> QED BY <1>2, <1>3, <2>2, <2>3, ReadyDropped DEF KeptOnDrop
<1>4. CASE World
  <2>1. /\ UNCHANGED <<tree, faults>> /\ lane'.phase = lane.phase
        /\ lane'.pc \in {lane.pc, "crashed"}
        /\ (Absent' <=> Absent) \/ (disk.present /\ UNCHANGED lane)
    BY <1>1, <1>4 DEF World, Crash, EditWorktree, EditSource, Goto, LaneRecords, Absent
  <2> QED BY <1>2, <2>1 DEF KeptOnDrop, Absent
<1>5. CASE ExecuteOnce \/ ReleaseAfterCandidatePublished
  <2>1. UNCHANGED <<tree, faults>> /\ lane'.phase = lane.phase /\ lane'.pc # "dropped"
    BY <1>1, <1>5 DEF ExecuteOnce, ReleaseAfterCandidatePublished, Check, Goto, LaneRecords
  <2> QED BY <2>1 DEF KeptOnDrop
<1>6. CASE Drop
  <2>1. /\ lane.pc = "idle" /\ UNCHANGED <<tree, faults>> /\ lane'.phase = lane.phase
        /\ tree.cleanup_on_drop /\ tree.cleanup # "Released" => lane'.pc = "remove"
    BY <1>1, <1>6 DEF Drop, At, Goto, LaneRecords
  <2>2. lane.phase = "Ready" => tree.cleanup = "Active"
    BY <2>1 DEF WriteLaneInv, DiskOK, Removing
  <2> QED BY <1>2, <2>1, <2>2 DEF KeptOnDrop
<1> QED BY <1>3, <1>4, <1>5, <1>6 DEF Next

-----------------------------------------------------------------------------
(* The steps in which the attempt waits for its lane.                      *)
LEMMA LaneStepKeeps == ASSUME AttemptInv, LaneStep PROVE AttemptInv'
<1>1. /\ CallStep /\ UNCHANGED worker /\ Moves
      /\ lane.pc = "head_before" => attempt.pc \in {"materializing", "dropped"}
  BY CallMoves DEF LaneStep, At, AttemptInv
<1>2. WriteLaneInv' /\ KeptOnDrop' /\ UNCHANGED <<attempt, candidate>>
  BY <1>1, StepKeeps, LaneKeepsOnDrop DEF AttemptInv, Next, worker
<1>3. Typed' /\ BudgetOK'
  BY <1>2 DEF AttemptInv, Typed, BudgetOK, Remaining
<1>4. /\ attempt.pc \in {"materializing", "writing", "releasing", "failed", "dropped"}
      /\ attempt.pc = "writing" => attempt.toolCalls = 2
      /\ attempt.pc = "failed" => lane.pc \in Removing /\ lane.phase = "Ready"
  <2>1. attempt.pc \in AttemptSteps /\ LaneFollows /\ BudgetOK
    BY Fields DEF AttemptInv
  <2> QED BY <1>1, <2>1 DEF Moves, LaneFollows, Standing, Resting, AttemptSteps, Ended, BudgetOK
<1>5. LaneFollows'
  BY <1>1, <1>2, <1>4 DEF AttemptInv, LaneFollows, Moves, Standing, Resting, Removing
<1>6. EffectOK'
  BY <1>1, <1>2, <1>4 DEF AttemptInv, EffectOK, Moves
<1> QED BY <1>2, <1>3, <1>5, <1>6 DEF AttemptInv

LEMMA WorldKeeps == ASSUME AttemptInv, World, UNCHANGED worker PROVE AttemptInv'
<1>1. WriteLaneInv' /\ KeptOnDrop' /\ UNCHANGED <<attempt, candidate>>
  BY StepKeeps, LaneKeepsOnDrop DEF AttemptInv, Next, worker
<1>2. Typed' /\ BudgetOK'
  BY <1>1 DEF AttemptInv, Typed, BudgetOK, Remaining
<1>3. lane'.phase = lane.phase /\ lane'.renames = lane.renames /\ lane'.pc \in {lane.pc, "crashed"}
  <2>1. lane \in LaneRecords
    BY Types DEF AttemptInv, WriteLaneInv
  <2> QED BY <2>1 DEF World, Crash, EditWorktree, EditSource, Goto, LaneRecords
<1>4. LaneFollows'
  BY <1>1, <1>3 DEF AttemptInv, LaneFollows, Standing, Resting, Removing
<1>5. EffectOK'
  BY <1>1, <1>3 DEF AttemptInv, EffectOK
<1> QED BY <1>1, <1>2, <1>4, <1>5 DEF AttemptInv

LEMMA DropWorktreeKeeps == ASSUME AttemptInv, DropWorktree PROVE AttemptInv'
<1>1. WriteLaneInv' /\ KeptOnDrop' /\ UNCHANGED <<attempt, candidate>> /\ attempt.pc \in Ended /\ Drop
  BY StepKeeps, LaneKeepsOnDrop DEF AttemptInv, Next, worker, DropWorktree
<1>2. Typed' /\ BudgetOK'
  BY <1>1 DEF AttemptInv, Typed, BudgetOK, Remaining
<1>3. /\ lane.pc = "idle" /\ lane'.phase = lane.phase /\ lane'.renames = lane.renames
      /\ \/ lane'.pc = "dropped"
         \/ tree.cleanup_on_drop /\ tree.cleanup # "Released" /\ lane'.pc = "remove"
  <2>1. lane \in LaneRecords
    BY Types DEF AttemptInv, WriteLaneInv
  <2> QED BY <1>1, <2>1 DEF Drop, At, Goto, LaneRecords
<1>4. tree.cleanup_on_drop => lane.phase = "Ready"
  BY <1>3 DEF AttemptInv, WriteLaneInv, ControlOK, Acquiring, Removing
<1>5. LaneFollows'
  BY <1>1, <1>3, <1>4 DEF AttemptInv, LaneFollows, Resting, Removing, Ended
<1>6. EffectOK'
  BY <1>1, <1>3 DEF AttemptInv, EffectOK
<1> QED BY <1>1, <1>2, <1>5, <1>6 DEF AttemptInv

-----------------------------------------------------------------------------
LEMMA ReadKeeps == ASSUME AttemptInv, Read, ~At("crashed") PROVE AttemptInv'
<1>1. PICK used : used = [attempt EXCEPT !.toolCalls = attempt.toolCalls + 1]
  OBVIOUS
<1>2. /\ Typed /\ BudgetOK /\ EffectOK /\ LaneFollows /\ attempt \in AttemptRecords
      /\ attempt.pc = "reading" /\ attempt.toolCalls = 0 /\ ~attempt.read /\ ~attempt.written
      /\ Standing("Ready") /\ lane.pc = "idle"
      /\ UNCHANGED <<source, disk, tree, lane, journal, edits, candidate>>
  BY Idle, Fields DEF AttemptInv, BudgetOK, LaneFollows, Standing, Read, Doing
<1>3. /\ Fault \/ NoFault
      /\ \/ attempt' = [used EXCEPT !.read = TRUE, !.pc = "head"]
         \/ FailWith(used, "error", EffectReceipt)
  <2>1. used = [attempt EXCEPT !.toolCalls = @ + 1]
    BY <1>1, <1>2 DEF AttemptRecords
  <2> QED BY <2>1 DEF Read
<1>4. WriteLaneInv' /\ KeptOnDrop'
  BY <1>2, <1>3, LaneUntouched DEF AttemptInv
<1>5. /\ used \in AttemptRecords /\ used = [attempt EXCEPT !.toolCalls = 1] /\ used.revision = attempt.revision
      /\ used.calls = attempt.calls /\ used.finishCalls = attempt.finishCalls
      /\ used.revision <= used.calls /\ used.finishCalls <= used.calls
  BY <1>1, <1>2 DEF AttemptRecords, BudgetOK
<1>6. CASE FailWith(used, "error", EffectReceipt)
  BY <1>2, <1>4, <1>5, <1>6, FailKeeps DEF AttemptInv
<1>7. CASE attempt' = [used EXCEPT !.read = TRUE, !.pc = "head"]
  <2>1. attempt' = [attempt EXCEPT !.toolCalls = 1, !.read = TRUE, !.pc = "head"] /\ "head" \in AttemptSteps
    BY <1>2, <1>5, <1>7 DEF AttemptRecords, AttemptSteps
  <2>2. /\ attempt' \in AttemptRecords /\ attempt'.pc = "head" /\ attempt'.toolCalls = 1 /\ attempt'.read = TRUE
        /\ attempt'.calls = attempt.calls /\ attempt'.finishCalls = attempt.finishCalls
        /\ attempt'.revision = attempt.revision /\ attempt'.rejections = attempt.rejections
        /\ attempt'.tokens = attempt.tokens /\ attempt'.written = attempt.written
        /\ attempt'.outcome = attempt.outcome
    <3>1. PICK a : a = [attempt EXCEPT !.toolCalls = 1, !.read = TRUE, !.pc = "head"]
      OBVIOUS
    <3>2. 1 \in 0..2 /\ TRUE \in BOOLEAN
      OBVIOUS
    <3>3. a \in AttemptRecords
      BY <1>2, <2>1, <3>1, <3>2 DEF AttemptRecords
    <3>4. /\ a.pc = "head" /\ a.toolCalls = 1 /\ a.read = TRUE
          /\ a.calls = attempt.calls /\ a.finishCalls = attempt.finishCalls
          /\ a.revision = attempt.revision /\ a.rejections = attempt.rejections
          /\ a.tokens = attempt.tokens /\ a.written = attempt.written /\ a.outcome = attempt.outcome
      BY <1>2, <3>1 DEF AttemptRecords
    <3> QED BY <2>1, <3>1, <3>3, <3>4
  <2>3. Typed'
    BY <1>2, <2>2 DEF Typed, CandidateRecords
  <2>4. BudgetOK'
    BY <1>2, <2>2 DEF BudgetOK, Ended, Loop, Finishing, Remaining
  <2>5. LaneFollows'
    BY <1>2, <2>2 DEF LaneFollows, Standing, Resting
  <2>6. EffectOK'
    BY <1>2, <2>2 DEF EffectOK, Finishing
  <2> QED BY <1>4, <2>3, <2>4, <2>5, <2>6 DEF AttemptInv
<1> QED BY <1>3, <1>6, <1>7

LEMMA BeginWriteKeeps == ASSUME AttemptInv, BeginWrite, ~At("crashed") PROVE AttemptInv'
<1>1. /\ Typed /\ BudgetOK /\ EffectOK /\ LaneFollows /\ attempt \in AttemptRecords
      /\ attempt.pc = "writing" /\ attempt.toolCalls = 1 /\ Standing("Ready") /\ lane.pc = "idle"
      /\ UNCHANGED candidate
      /\ \/ ExecuteOnce /\ attempt' = [attempt EXCEPT !.toolCalls = 2]
         \/ Fault /\ Fail /\ UNCHANGED <<source, disk, tree, lane, journal, edits>>
  BY Idle, Fields DEF AttemptInv, LaneFollows, Standing, BeginWrite, Doing
<1>2. CASE Fault /\ Fail /\ UNCHANGED <<source, disk, tree, lane, journal, edits>>
  <2>1. attempt.revision <= attempt.calls /\ attempt.finishCalls <= attempt.calls
    BY <1>1 DEF BudgetOK
  <2>2. Typed' /\ BudgetOK' /\ LaneFollows' /\ EffectOK'
    BY <1>1, <1>2, <2>1, FailKeeps DEF Fail
  <2>3. WriteLaneInv' /\ KeptOnDrop'
    BY <1>2, LaneUntouched DEF AttemptInv
  <2> QED BY <2>2, <2>3 DEF AttemptInv
<1>3. CASE ExecuteOnce /\ attempt' = [attempt EXCEPT !.toolCalls = 2]
  <2>1. WriteLaneInv' /\ KeptOnDrop'
    BY <1>3, StepKeeps, LaneKeepsOnDrop DEF AttemptInv, Next
  <2>2. lane'.phase = "Ready" /\ lane'.pc = "pristine" /\ lane'.renames = lane.renames
    <3>1. lane \in LaneRecords
      BY Types DEF AttemptInv, WriteLaneInv
    <3> QED BY <1>3, <3>1 DEF ExecuteOnce, Goto, LaneRecords
  <2>3. /\ attempt' \in AttemptRecords /\ attempt'.pc = "writing" /\ attempt'.toolCalls = 2
        /\ attempt'.read = attempt.read /\ attempt'.calls = attempt.calls
        /\ attempt'.finishCalls = attempt.finishCalls
        /\ attempt'.revision = attempt.revision /\ attempt'.rejections = attempt.rejections
        /\ attempt'.tokens = attempt.tokens /\ attempt'.written = attempt.written
        /\ attempt'.outcome = attempt.outcome
    BY <1>1, <1>3 DEF AttemptRecords
  <2>4. Typed'
    BY <1>1, <2>3 DEF Typed, CandidateRecords
  <2>5. BudgetOK'
    BY <1>1, <2>3 DEF BudgetOK, Ended, Loop, Finishing, Remaining
  <2>6. LaneFollows'
    BY <2>2, <2>3 DEF LaneFollows, Standing, Resting, Removing
  <2>7. EffectOK'
    BY <1>1, <2>2, <2>3 DEF EffectOK, BudgetOK, Finishing
  <2> QED BY <2>1, <2>4, <2>5, <2>6, <2>7 DEF AttemptInv
<1> QED BY <1>1, <1>2, <1>3

LEMMA WroteKeeps == ASSUME AttemptInv, Wrote, ~At("crashed") PROVE AttemptInv'
<1>1. /\ Typed /\ BudgetOK /\ EffectOK /\ LaneFollows /\ attempt \in AttemptRecords
      /\ attempt.pc = "writing" /\ attempt.toolCalls = 2 /\ lane.pc = "idle" /\ UNCHANGED <<vars, candidate>>
      /\ \/ lane.phase = "Written" /\ attempt' = [attempt EXCEPT !.written = TRUE, !.pc = "head"]
         \/ FailWith(attempt, "error", "worktree")
  BY Fields DEF AttemptInv, Wrote, Doing, At
<1>2. WriteLaneInv' /\ KeptOnDrop' /\ UNCHANGED lane
  BY <1>1, LaneUntouched DEF AttemptInv, NoFault, vars
<1>3. CASE FailWith(attempt, "error", "worktree")
  <2>1. attempt.revision <= attempt.calls /\ attempt.finishCalls <= attempt.calls
    BY <1>1 DEF BudgetOK
  <2>2. "worktree" \in EffectSteps /\ "worktree" # "none"
    BY DEF EffectSteps
  <2>3. Typed' /\ BudgetOK' /\ LaneFollows' /\ EffectOK'
    BY <1>1, <1>2, <1>3, <2>1, <2>2, FailureKeeps
  <2> QED BY <1>2, <2>3 DEF AttemptInv
<1>4. CASE lane.phase = "Written" /\ attempt' = [attempt EXCEPT !.written = TRUE, !.pc = "head"]
  <2>1. "head" \in AttemptSteps
    BY DEF AttemptSteps
  <2>2. /\ attempt' \in AttemptRecords /\ attempt'.pc = "head" /\ attempt'.written = TRUE
        /\ attempt'.toolCalls = 2
        /\ attempt'.read = attempt.read /\ attempt'.calls = attempt.calls
        /\ attempt'.finishCalls = attempt.finishCalls
        /\ attempt'.revision = attempt.revision /\ attempt'.rejections = attempt.rejections
        /\ attempt'.tokens = attempt.tokens /\ attempt'.outcome = attempt.outcome
    BY <1>1, <1>4, <2>1 DEF AttemptRecords
  <2>3. Typed'
    BY <1>1, <2>2 DEF Typed, CandidateRecords
  <2>4. attempt.finishCalls + Remaining >= FinishCallReserve
    BY <1>1, Fields, Policy DEF BudgetOK, Remaining
  <2>5. BudgetOK'
    BY <1>1, <2>2, <2>4 DEF BudgetOK, Ended, Loop, Finishing, Remaining
  <2>6. LaneFollows'
    BY <1>1, <1>2, <1>4, <2>2 DEF LaneFollows, Standing, Resting
  <2>7. EffectOK'
    BY <1>1, <1>2, <2>2 DEF EffectOK, BudgetOK, Finishing, Loop
  <2> QED BY <1>2, <2>3, <2>5, <2>6, <2>7 DEF AttemptInv
<1> QED BY <1>1, <1>3, <1>4

LEMMA PublishKeeps == ASSUME AttemptInv, Publish, ~At("crashed") PROVE AttemptInv'
<1>1. /\ Typed /\ BudgetOK /\ EffectOK /\ LaneFollows /\ attempt \in AttemptRecords
      /\ attempt.pc = "publish" /\ UNCHANGED <<source, disk, tree, lane, journal, edits>>
      /\ Standing(IF attempt.written THEN "Written" ELSE "Ready") /\ lane.pc = "idle"
      /\ Fault \/ NoFault
      /\ \/ /\ attempt.written /\ candidate' = Published(lane.diff)
            /\ attempt' = [attempt EXCEPT !.pc = "release"]
         \/ Fail /\ UNCHANGED candidate
  BY Idle, Fields DEF AttemptInv, LaneFollows, Standing, Publish, Doing
<1>2. WriteLaneInv' /\ KeptOnDrop'
  BY <1>1, LaneUntouched DEF AttemptInv
<1>3. CASE Fail /\ UNCHANGED candidate
  <2>1. attempt.revision <= attempt.calls /\ attempt.finishCalls <= attempt.calls
    BY <1>1 DEF BudgetOK
  <2>2. Typed' /\ BudgetOK' /\ LaneFollows' /\ EffectOK'
    BY <1>1, <1>3, <2>1, FailKeeps DEF Fail
  <2> QED BY <1>2, <2>2 DEF AttemptInv
<1>4. CASE /\ attempt.written /\ candidate' = Published(lane.diff)
           /\ attempt' = [attempt EXCEPT !.pc = "release"]
  <2>1. "release" \in AttemptSteps
    BY DEF AttemptSteps
  <2>2. lane.phase = "Written" /\ lane.diff = {"target"}
    BY <1>1, <1>4 DEF AttemptInv, WriteLaneInv, StoryOK, Standing
  <2>3. candidate' = [published |-> TRUE, change |-> {"target"}, ready |-> FALSE]
    BY <1>4, <2>2 DEF Published, NoCandidate
  <2>8. {"target"} \in SUBSET {"target", "other"} /\ TRUE \in BOOLEAN /\ FALSE \in BOOLEAN
    OBVIOUS
  <2>9. candidate' \in CandidateRecords
    BY <2>3, <2>8 DEF CandidateRecords
  <2>4. Typed'
    BY <1>1, <1>4, <2>1, <2>9, OnlyMoved DEF Typed
  <2>5. BudgetOK'
    BY <1>1, <1>4, <2>1, OnlyMoved DEF BudgetOK, Ended, Loop, Finishing, Remaining
  <2>6. LaneFollows'
    BY <1>1, <1>4, <2>1, <2>2, OnlyMoved DEF LaneFollows, Standing, Resting
  <2>7. EffectOK'
    BY <1>1, <1>4, <2>1, <2>3, OnlyMoved DEF EffectOK, BudgetOK, Finishing, Finishes
  <2> QED BY <1>2, <2>4, <2>5, <2>6, <2>7 DEF AttemptInv
<1> QED BY <1>1, <1>3, <1>4

LEMMA BeginReleaseKeeps == ASSUME AttemptInv, BeginRelease, ~At("crashed") PROVE AttemptInv'
<1>1. /\ Typed /\ BudgetOK /\ EffectOK /\ attempt.pc = "release"
      /\ ReleaseAfterCandidatePublished /\ attempt' = [attempt EXCEPT !.pc = "releasing"]
      /\ UNCHANGED candidate
  BY DEF AttemptInv, BeginRelease, Doing
<1>2. WriteLaneInv' /\ KeptOnDrop'
  BY <1>1, StepKeeps, LaneKeepsOnDrop DEF AttemptInv, Next
<1>3. lane'.phase = "Written" /\ lane'.pc = "check_file" /\ lane'.renames = lane.renames
  <2>1. lane \in LaneRecords
    BY Types DEF AttemptInv, WriteLaneInv
  <2> QED BY <1>1, <2>1 DEF ReleaseAfterCandidatePublished, Check, LaneRecords
<1>4. "releasing" \in AttemptSteps
  BY DEF AttemptSteps
<1>5. Typed'
  BY <1>1, <1>4, OnlyMoved DEF Typed, CandidateRecords
<1>6. BudgetOK'
  BY <1>1, <1>4, OnlyMoved DEF BudgetOK, Ended, Loop, Finishing, Remaining
<1>7. LaneFollows'
  BY <1>1, <1>3, <1>4, OnlyMoved DEF LaneFollows
<1>8. EffectOK'
  BY <1>1, <1>3, <1>4, OnlyMoved DEF EffectOK, Finishing
<1> QED BY <1>2, <1>5, <1>6, <1>7, <1>8 DEF AttemptInv

LEMMA ReleasedKeeps == ASSUME AttemptInv, Released, ~At("crashed") PROVE AttemptInv'
<1>1. /\ Typed /\ BudgetOK /\ EffectOK /\ LaneFollows /\ attempt \in AttemptRecords
      /\ attempt.pc = "releasing" /\ lane.pc = "idle" /\ UNCHANGED <<vars, candidate>>
      /\ \/ lane.phase = "Released" /\ attempt' = [attempt EXCEPT !.pc = "ready"]
         \/ FailWith(attempt, "error", "published")
  BY Fields DEF AttemptInv, Released, Doing, At
<1>2. WriteLaneInv' /\ KeptOnDrop' /\ UNCHANGED lane
  BY <1>1, LaneUntouched DEF AttemptInv, NoFault, vars
<1>3. CASE FailWith(attempt, "error", "published")
  <2>1. attempt.revision <= attempt.calls /\ attempt.finishCalls <= attempt.calls
    BY <1>1 DEF BudgetOK
  <2>2. "published" \in EffectSteps /\ "published" # "none"
    BY DEF EffectSteps
  <2>3. Typed' /\ BudgetOK' /\ LaneFollows' /\ EffectOK'
    BY <1>1, <1>2, <1>3, <2>1, <2>2, FailureKeeps
  <2> QED BY <1>2, <2>3 DEF AttemptInv
<1>4. CASE lane.phase = "Released" /\ attempt' = [attempt EXCEPT !.pc = "ready"]
  <2>1. "ready" \in AttemptSteps
    BY DEF AttemptSteps
  <2>2. Typed'
    BY <1>1, <1>4, <2>1, OnlyMoved DEF Typed, CandidateRecords
  <2>3. BudgetOK'
    BY <1>1, <1>4, <2>1, OnlyMoved DEF BudgetOK, Ended, Loop, Finishing, Remaining
  <2>4. LaneFollows'
    BY <1>1, <1>2, <1>4, <2>1, OnlyMoved DEF LaneFollows, Standing, Resting
  <2>5. EffectOK'
    BY <1>1, <1>2, <1>4, <2>1, OnlyMoved DEF EffectOK, Finishing
  <2> QED BY <1>2, <2>2, <2>3, <2>4, <2>5 DEF AttemptInv
<1> QED BY <1>1, <1>3, <1>4

LEMMA MarkCleanupObservedKeeps ==
    ASSUME AttemptInv, MarkCleanupObserved, ~At("crashed") PROVE AttemptInv'
<1>1. /\ Typed /\ BudgetOK /\ EffectOK /\ LaneFollows /\ attempt \in AttemptRecords
      /\ attempt.pc = "ready" /\ lane.phase = "Released" /\ lane.pc = "idle"
      /\ Fault \/ NoFault
      /\ UNCHANGED <<source, disk, tree, lane, journal, edits>>
      /\ \/ candidate' = ReadyAfterCleanup /\ attempt' = [attempt EXCEPT !.pc = "completed"]
         \/ FailWith(attempt, "error", "cleanup") /\ UNCHANGED candidate
  BY Idle, Fields DEF AttemptInv, LaneFollows, Standing, MarkCleanupObserved, Doing
<1>2. WriteLaneInv' /\ KeptOnDrop'
  BY <1>1, LaneUntouched DEF AttemptInv
<1>3. CASE FailWith(attempt, "error", "cleanup") /\ UNCHANGED candidate
  <2>1. attempt.revision <= attempt.calls /\ attempt.finishCalls <= attempt.calls
    BY <1>1 DEF BudgetOK
  <2>2. "cleanup" \in EffectSteps /\ "cleanup" # "none"
    BY DEF EffectSteps
  <2>3. Typed' /\ BudgetOK' /\ LaneFollows' /\ EffectOK'
    BY <1>1, <1>3, <2>1, <2>2, FailureKeeps
  <2> QED BY <1>2, <2>3 DEF AttemptInv
<1>4. CASE candidate' = ReadyAfterCleanup /\ attempt' = [attempt EXCEPT !.pc = "completed"]
  <2>1. "completed" \in AttemptSteps
    BY DEF AttemptSteps, Ended
  <2>2. /\ candidate' \in CandidateRecords /\ candidate'.published = candidate.published
        /\ candidate'.change = candidate.change /\ candidate'.ready
    BY <1>1, <1>4 DEF ReadyAfterCleanup, Typed, CandidateRecords
  <2>3. Typed'
    BY <1>1, <1>4, <2>1, <2>2, OnlyMoved DEF Typed
  <2>4. BudgetOK'
    BY <1>1, <1>4, <2>1, OnlyMoved DEF BudgetOK, Ended, Loop, Finishing, Remaining
  <2>5. LaneFollows'
    BY <1>1, <1>4, <2>1, OnlyMoved DEF LaneFollows, Standing, Resting
  <2>6. EffectOK'
    BY <1>1, <1>4, <2>1, <2>2, OnlyMoved DEF EffectOK, Finishing
  <2> QED BY <1>2, <2>3, <2>4, <2>5, <2>6 DEF AttemptInv
<1> QED BY <1>1, <1>3, <1>4

LEMMA DropAttemptKeeps == ASSUME AttemptInv, DropAttempt PROVE AttemptInv'
<1>1. /\ Typed /\ BudgetOK /\ EffectOK /\ attempt.pc \in {"materializing", "calling"}
      /\ attempt' = [attempt EXCEPT !.pc = "dropped"] /\ UNCHANGED <<vars, candidate>>
  BY DEF AttemptInv, DropAttempt
<1>2. WriteLaneInv' /\ KeptOnDrop' /\ UNCHANGED lane
  BY <1>1, LaneUntouched DEF AttemptInv, NoFault, vars
<1>3. "dropped" \in AttemptSteps
  BY DEF AttemptSteps, Ended
<1>4. Typed'
  BY <1>1, <1>3, OnlyMoved DEF Typed, CandidateRecords
<1>5. BudgetOK'
  BY <1>1, <1>3, OnlyMoved DEF BudgetOK, Ended, Loop, Finishing
<1>6. LaneFollows'
  BY <1>1, <1>3, OnlyMoved DEF LaneFollows
<1>7. EffectOK'
  BY <1>1, <1>2, <1>3, OnlyMoved DEF EffectOK, Finishing
<1> QED BY <1>2, <1>4, <1>5, <1>6, <1>7 DEF AttemptInv

-----------------------------------------------------------------------------
LEMMA AttemptInitInv == AttemptInit => AttemptInv
<1> SUFFICES ASSUME AttemptInit PROVE AttemptInv
  OBVIOUS
<1>1. /\ Init
      /\ attempt = [pc |-> "dispatch", plan |-> NoPlan, revision |-> 0, calls |-> 0, rejections |-> 0,
                    toolCalls |-> 0, tokens |-> MaxOutputTokens, read |-> FALSE, written |-> FALSE,
                    finishCalls |-> 0, effect |-> "none", outcome |-> "none"]
      /\ candidate = [published |-> FALSE, change |-> {}, ready |-> FALSE]
  BY DEF AttemptInit, NoCandidate
<1>2. WriteLaneInv
  BY <1>1, InitInv
<1>3. lane.phase = "none" /\ lane.pc = "head_before" /\ lane.renames = 0 /\ tree.cleanup_on_drop
  BY <1>1 DEF Init
<1>4. attempt \in AttemptRecords
  <2>1. /\ "dispatch" \in AttemptSteps /\ "none" \in EffectSteps /\ 0 \in 0..MaxModelCalls
        /\ 0 \in 0..(MaxActionRejections + 1) /\ 0 \in 0..2 /\ MaxOutputTokens \in 0..MaxOutputTokens
    BY Policy DEF AttemptSteps, EffectSteps
  <2> QED BY <1>1, <2>1 DEF AttemptRecords
<1>5. candidate \in CandidateRecords
  BY <1>1 DEF CandidateRecords
<1>6. BudgetOK
  BY <1>1, Policy DEF BudgetOK, Ended, Loop, Finishing, Remaining
<1>7. LaneFollows
  BY <1>1, <1>3 DEF LaneFollows
<1>8. EffectOK
  BY <1>1 DEF EffectOK, Finishing
<1>9. KeptOnDrop
  BY <1>3 DEF KeptOnDrop
<1> QED BY <1>2, <1>4, <1>5, <1>6, <1>7, <1>8, <1>9 DEF AttemptInv, Typed

LEMMA AttemptNextKeeps == AttemptInv /\ [AttemptNext]_all => AttemptInv'
<1> SUFFICES ASSUME AttemptInv, [AttemptNext]_all PROVE AttemptInv'
  OBVIOUS
<1>1. CASE AttemptStep /\ ~At("crashed")
  BY <1>1, StartAttemptKeeps, MaterializedKeeps, CheckBaselineKeeps, LoopHeadKeeps, CallModelKeeps,
     AnswerKeeps, ReadKeeps, BeginWriteKeeps, WroteKeeps, PublishKeeps, BeginReleaseKeeps,
     ReleasedKeeps, MarkCleanupObservedKeeps DEF AttemptStep
<1>2. CASE LaneStep
  BY <1>2, LaneStepKeeps
<1>3. CASE DropAttempt
  BY <1>3, DropAttemptKeeps
<1>4. CASE DropWorktree
  BY <1>4, DropWorktreeKeeps
<1>5. CASE World /\ UNCHANGED worker
  BY <1>5, WorldKeeps
<1>6. CASE UNCHANGED all
  <2>1. UNCHANGED vars /\ UNCHANGED attempt /\ UNCHANGED candidate
    BY <1>6 DEF all, worker
  <2>2. WriteLaneInv' /\ KeptOnDrop' /\ UNCHANGED lane
    BY <2>1, LaneUntouched DEF AttemptInv, NoFault, vars
  <2>3. Typed' /\ BudgetOK' /\ LaneFollows' /\ EffectOK'
    BY <2>1, <2>2 DEF AttemptInv, Typed, BudgetOK, Remaining, LaneFollows, Standing, EffectOK
  <2> QED BY <2>2, <2>3 DEF AttemptInv
<1> QED BY <1>1, <1>2, <1>3, <1>4, <1>5, <1>6 DEF AttemptNext

LEMMA AttemptInvSuffices == AttemptInv => AttemptIsSound /\ WriteLaneIsSound
<1> SUFFICES ASSUME AttemptInv PROVE AttemptIsSound /\ WriteLaneIsSound
  OBVIOUS
<1>1. WriteLaneInv /\ WriteLaneIsSound /\ Typed
  BY InvSuffices DEF AttemptInv
<1>2. AttemptTypeOK
  BY <1>1, Fields DEF AttemptTypeOK, AttemptSteps, EffectSteps, CandidateRecords
<1>3. ReadyIsReleased
  <2>1. candidate.ready <=> attempt.pc = "completed"
    BY DEF AttemptInv, EffectOK
  <2>2. candidate.ready => candidate.published /\ candidate.change = {"target"}
    BY DEF AttemptInv, EffectOK
  <2>3. attempt.pc = "completed" => lane.phase = "Released" /\ attempt.revision >= MinimumPlanRevisions
    BY DEF AttemptInv, LaneFollows, BudgetOK, Finishing
  <2>4. lane.phase = "Released" => ~disk.present
    BY <1>1 DEF WriteLaneIsSound, ReleasedIsGone
  <2> QED BY <2>1, <2>2, <2>3, <2>4 DEF ReadyIsReleased
<1>4. FailureNamesEffect /\ WriteLeavesFinishCalls
  BY DEF AttemptInv, EffectOK, FailureNamesEffect, WriteLeavesFinishCalls
<1>5. TokensCoverCalls
  BY DEF AttemptInv, BudgetOK, TokensCoverCalls, Loop, Remaining
<1>6. LeftoverIsJournaled
  <2> SUFFICES ASSUME lane.pc = "dropped", disk.present
               PROVE  \/ Retained("FileReplacePrepared")
                      \/ tree.cleanup_on_drop /\ faults > 0
    BY DEF LeftoverIsJournaled, At
  <2>1. faults \in Nat
    BY <1>1, BoundsAssumption DEF WriteLaneInv, TypeOK
  <2>2. lane.phase \in {"none", "Ready"} => tree.cleanup_on_drop /\ faults > 0
    BY <2>1 DEF AttemptInv, KeptOnDrop, Absent
  <2>3. lane.phase \notin {"none", "Ready"} => Retained("FileReplacePrepared")
    BY <1>1, StoriesTell DEF WriteLaneInv, StoryOK, Kinds, Retained
  <2> QED BY <2>2, <2>3
<1> QED BY <1>1, <1>2, <1>3, <1>4, <1>5, <1>6 DEF AttemptIsSound

(* Whatever the model answers, whatever fails and whenever the attempt is  *)
(* dropped: a completed attempt has published its exact write and left no  *)
(* worktree, a failed one names what it left behind, and its tokens and    *)
(* calls reach as far as the policy promises (run_attempt).                *)
THEOREM AttemptSound == AttemptSpec => []AttemptIsSound
<1>1. AttemptInit => AttemptInv
  BY AttemptInitInv
<1>2. AttemptInv /\ [AttemptNext]_all => AttemptInv'
  BY AttemptNextKeeps
<1>3. AttemptInv => AttemptIsSound
  BY AttemptInvSuffices
<1> QED BY <1>1, <1>2, <1>3, PTL DEF AttemptSpec

(* Seen from the lane, an attempt is one of the owners it is sound for.    *)
THEOREM AttemptedLaneSound == AttemptSpec => []WriteLaneIsSound
<1>1. AttemptInit => AttemptInv
  BY AttemptInitInv
<1>2. AttemptInv /\ [AttemptNext]_all => AttemptInv'
  BY AttemptNextKeeps
<1>3. AttemptInv => WriteLaneIsSound
  BY AttemptInvSuffices
<1> QED BY <1>1, <1>2, <1>3, PTL DEF AttemptSpec

-----------------------------------------------------------------------------
(* What the revisions of the plan count: a read and a write took an        *)
(* accepted plan each.                                                     *)
RevisionsFollow ==
    /\ attempt.revision > 0 => attempt.plan \in Plans
    /\ attempt.read \/ attempt.pc = "reading" => attempt.revision >= 1
    /\ attempt.written \/ attempt.pc = "writing" => attempt.revision >= 2

\* The step keeps the plan of s and what it was revised for, and admits no tool.
KeepsPlanOf(s) ==
    /\ attempt'.plan = s.plan /\ attempt'.revision = s.revision
    /\ attempt'.read = s.read /\ attempt'.written = s.written
    /\ attempt'.pc \notin {"reading", "writing"}

LEMMA FailureKeepsPlan ==
    ASSUME NEW s \in AttemptRecords, NEW reason, NEW effect, FailWith(s, reason, effect)
    PROVE  KeepsPlanOf(s)
BY DEF FailWith, AttemptRecords, KeepsPlanOf

LEMMA RejectKeepsPlan ==
    ASSUME NEW s \in AttemptRecords, Reject(s), s.rejections <= MaxActionRejections
    PROVE  KeepsPlanOf(s)
<1>1. PICK r : r = [s EXCEPT !.rejections = @ + 1]
  OBVIOUS
<1>2. MaxActionRejections \in Nat /\ s.rejections + 1 \in 0..(MaxActionRejections + 1)
  BY Policy DEF AttemptRecords
<1>3. /\ r \in AttemptRecords /\ r.plan = s.plan /\ r.revision = s.revision
      /\ r.read = s.read /\ r.written = s.written
  BY <1>1, <1>2 DEF AttemptRecords
<1>4. \/ FailWith(r, "rejections", EffectReceipt)
      \/ attempt' = [r EXCEPT !.pc = "head"]
  BY <1>1 DEF Reject
<1>5. CASE FailWith(r, "rejections", EffectReceipt)
  BY <1>3, <1>5, FailureKeepsPlan DEF KeepsPlanOf
<1>6. CASE attempt' = [r EXCEPT !.pc = "head"]
  BY <1>3, <1>6 DEF AttemptRecords, KeepsPlanOf
<1> QED BY <1>4, <1>5, <1>6

LEMMA AnswerKeepsRevisions ==
    ASSUME AttemptInv, RevisionsFollow, Answer PROVE RevisionsFollow'
<1>1. /\ attempt.pc = "validate" /\ attempt \in AttemptRecords /\ attempt.revision \in Nat
      /\ attempt.rejections <= MaxActionRejections
      /\ \A plan \in Plans : Revision(Revised(plan))
  <2>1. attempt.pc = "validate"
    BY AnswerTold
  <2>2. attempt \in AttemptRecords /\ attempt.revision \in Nat
    BY Fields, Policy DEF AttemptInv
  <2>3. attempt.rejections <= MaxActionRejections
    BY <2>1 DEF AttemptInv, BudgetOK, Ended
  <2> QED BY <2>1, <2>2, <2>3, Revisions
<1>2. CASE Fail \/ Reject(attempt)
  BY <1>1, <1>2, FailureKeepsPlan, RejectKeepsPlan DEF Fail, KeepsPlanOf, RevisionsFollow
<1>3. ASSUME NEW plan \in Plans,
             \/ ReadAdmitted /\ attempt' = [Revised(plan) EXCEPT !.pc = "reading"]
             \/ ReplaceAdmitted /\ attempt' = [Revised(plan) EXCEPT !.pc = "writing"]
             \/ \E action \in Finishes : attempt' = [Revised(plan) EXCEPT !.pc = "publish", !.outcome = action]
             \/ Reject(Revised(plan))
      PROVE  RevisionsFollow'
  <2>1. PICK s : s = Revised(plan)
    OBVIOUS
  <2>2. /\ s \in AttemptRecords /\ s.rejections <= MaxActionRejections
        /\ s.read = attempt.read /\ s.written = attempt.written
    BY <1>1, <2>1 DEF Revision
  <2>3. s.plan = plan /\ s.revision = attempt.revision + 1
    BY <1>1, <2>1 DEF Revised, AttemptRecords
  <2>4. CASE ReadAdmitted /\ attempt' = [s EXCEPT !.pc = "reading"]
    <3>1. /\ attempt'.plan = plan /\ attempt'.revision = attempt.revision + 1
          /\ attempt'.written = attempt.written /\ attempt'.pc = "reading"
      BY <2>2, <2>3, <2>4 DEF AttemptRecords
    <3> QED BY <1>1, <2>4, <3>1 DEF ReadAdmitted, RevisionsFollow
  <2>5. CASE ReplaceAdmitted /\ attempt' = [s EXCEPT !.pc = "writing"]
    <3>1. /\ attempt'.plan = plan /\ attempt'.revision = attempt.revision + 1
          /\ attempt'.pc = "writing"
      BY <2>2, <2>3, <2>5 DEF AttemptRecords
    <3> QED BY <1>1, <2>5, <3>1 DEF ReplaceAdmitted, RevisionsFollow
  <2>6. CASE Reject(s) \/ \E action \in Finishes : attempt' = [s EXCEPT !.pc = "publish", !.outcome = action]
    <3>1. KeepsPlanOf(s)
      BY <2>2, <2>6, RejectKeepsPlan DEF AttemptRecords, KeepsPlanOf
    <3> QED BY <1>1, <2>2, <2>3, <3>1 DEF KeepsPlanOf, RevisionsFollow
  <2> QED BY <1>3, <2>1, <2>4, <2>5, <2>6
<1> QED BY <1>2, <1>3, AnswerTold

\* The step leaves the plan alone, and what it adds to the reads and writes was admitted.
GoesOn ==
    /\ attempt'.plan = attempt.plan /\ attempt'.revision = attempt.revision
    /\ attempt'.pc \in {"reading", "writing"} => attempt'.pc = attempt.pc
    /\ attempt'.read => attempt.read \/ attempt.pc = "reading"
    /\ attempt'.written => attempt.written \/ attempt.pc = "writing"

\* Only an answer changes the plan.
LEMMA OtherStepsGoOn == ASSUME AttemptInv, AttemptStep, ~Answer PROVE GoesOn
<1>1. attempt \in AttemptRecords
  BY Fields DEF AttemptInv
<1>2. \A s \in AttemptRecords : KeepsPlanOf(s) /\ s.plan = attempt.plan /\ s.revision = attempt.revision
          /\ s.read = attempt.read /\ s.written = attempt.written => GoesOn
  BY DEF KeepsPlanOf, GoesOn
<1>3. Fail \/ (\E effect : FailWith(attempt, "error", effect)) \/ FailWith(attempt, "slots", EffectReceipt) => GoesOn
  BY <1>1, <1>2, FailureKeepsPlan DEF Fail
<1>4. (\E pc \in AttemptSteps \ {"reading", "writing"} : attempt' = [attempt EXCEPT !.pc = pc]) => GoesOn
  BY <1>1 DEF GoesOn, AttemptRecords
<1>5. CASE StartAttempt \/ Materialized \/ CheckBaseline
  <2>1. Fail \/ \E pc \in {"materializing", "baseline", "head"} : attempt' = [attempt EXCEPT !.pc = pc]
    BY <1>5 DEF StartAttempt, Materialized, CheckBaseline, Boundary
  <2> QED BY <1>3, <1>4, <2>1 DEF AttemptSteps
<1>6. CASE LoopHead
  <2>1. CASE FailWith(attempt, "slots", EffectReceipt)
    BY <1>3, <2>1
  <2>2. CASE attempt' = [attempt EXCEPT !.pc = "calling", !.calls = @ + 1,
                                        !.finishCalls = IF attempt.written THEN @ + 1 ELSE @]
    BY <1>1, <2>2 DEF GoesOn, AttemptRecords
  <2> QED BY <1>6, <2>1, <2>2 DEF LoopHead
<1>7. CASE CallModel
  <2>1. \A reported : \E tokens : Spend(reported) = [attempt EXCEPT !.tokens = tokens]
    BY <1>1 DEF Spend, AttemptRecords
  <2>2. PICK reported : \/ attempt' = [Spend(reported) EXCEPT !.pc = "validate"]
                        \/ FailWith(Spend(reported), "error", EffectReceipt)
    BY <1>7 DEF CallModel
  <2>3. PICK tokens : Spend(reported) = [attempt EXCEPT !.tokens = tokens]
    BY <2>1
  <2>4. PICK s : s = Spend(reported)
    OBVIOUS
  <2>5. CASE attempt' = [s EXCEPT !.pc = "validate"]
    <3>1. attempt' = [attempt EXCEPT !.tokens = tokens, !.pc = "validate"]
      BY <1>1, <2>3, <2>4, <2>5 DEF AttemptRecords
    <3> QED BY <1>1, <3>1 DEF GoesOn, AttemptRecords
  <2>6. CASE FailWith(s, "error", EffectReceipt)
    <3>1. attempt' = [attempt EXCEPT !.tokens = tokens, !.pc = "failed", !.outcome = "error", !.effect = EffectReceipt]
      BY <1>1, <2>3, <2>4, <2>6 DEF AttemptRecords, FailWith
    <3> QED BY <1>1, <3>1 DEF GoesOn, AttemptRecords
  <2> QED BY <2>2, <2>4, <2>5, <2>6
<1>8. CASE Read
  <2>1. PICK used : used = [attempt EXCEPT !.toolCalls = @ + 1]
    OBVIOUS
  <2>2. \/ attempt' = [used EXCEPT !.read = TRUE, !.pc = "head"]
        \/ FailWith(used, "error", EffectReceipt)
    BY <1>8, <2>1 DEF Read
  <2>3. attempt.pc = "reading"
    BY <1>8 DEF Read, Doing
  <2>4. /\ used.plan = attempt.plan /\ used.revision = attempt.revision /\ used.written = attempt.written
        /\ used.read = attempt.read
    BY <1>1, <2>1 DEF AttemptRecords
  <2> QED BY <1>1, <2>1, <2>2, <2>3, <2>4 DEF FailWith, GoesOn, AttemptRecords
<1>9. CASE BeginWrite \/ Wrote
  <2>1. attempt.pc = "writing"
    BY <1>9 DEF BeginWrite, Wrote, Doing
  <2>2. \/ Fail
        \/ attempt' = [attempt EXCEPT !.toolCalls = 2]
        \/ attempt' = [attempt EXCEPT !.written = TRUE, !.pc = "head"]
        \/ FailWith(attempt, "error", "worktree")
    BY <1>9 DEF BeginWrite, Wrote
  <2>3. CASE attempt' = [attempt EXCEPT !.toolCalls = 2] \/ attempt' = [attempt EXCEPT !.written = TRUE, !.pc = "head"]
    BY <1>1, <2>1, <2>3 DEF GoesOn, AttemptRecords
  <2> QED BY <1>3, <2>2, <2>3
<1>10. CASE Publish \/ BeginRelease \/ Released \/ MarkCleanupObserved
  <2>1. \/ Fail
        \/ \E pc \in {"release", "releasing", "ready", "completed"} : attempt' = [attempt EXCEPT !.pc = pc]
        \/ \E effect : FailWith(attempt, "error", effect)
    BY <1>10 DEF Publish, BeginRelease, Released, MarkCleanupObserved
  <2>2. {"release", "releasing", "ready", "completed"} \subseteq AttemptSteps \ {"reading", "writing"}
    BY DEF AttemptSteps, Ended
  <2> QED BY <1>3, <1>4, <2>1, <2>2
<1> QED BY <1>5, <1>6, <1>7, <1>8, <1>9, <1>10 DEF AttemptStep

\* Every plan can be closed: what is open in it is cancelled.
LEMMA PlanCanClose ==
    ASSUME NEW prior \in Plans
    PROVE  \E plan \in Plans : ValidPlan(prior, plan, TRUE, "Partial", TRUE)
<1> DEFINE closed == [s \in DOMAIN prior |-> IF prior[s] \in Open THEN "Cancelled" ELSE prior[s]]
<1>1. PICK S \in (SUBSET PlanSteps) \ {{}} : prior \in [S -> StepStatuses]
  BY DEF Plans
<1>2. closed \in [S -> StepStatuses] /\ DOMAIN closed = DOMAIN prior
  BY <1>1 DEF StepStatuses, Open
<1>3. closed \in Plans
  BY <1>1, <1>2 DEF Plans
<1>4. /\ \A s \in DOMAIN closed : closed[s] \notin Open /\ ValidStepTransition(prior[s], closed[s])
  BY <1>1 DEF StepStatuses, Open, ValidStepTransition
<1>5. InProgress(closed) = {}
  BY <1>4 DEF InProgress, Open
<1>6. Cardinality(InProgress(closed)) <= 1
  BY <1>5, FS_EmptySet
<1>7. ValidPlan(prior, closed, TRUE, "Partial", TRUE)
  <2> HIDE DEF closed
  <2> QED BY <1>2, <1>4, <1>5, <1>6 DEF ValidPlan, ValidRevision, ValidFinishPlanState
<1> QED BY <1>3, <1>7

(* A write is never left without a way to hand it off: after it, every     *)
(* answer an attempt waits for can be a Finish that validate_plan and      *)
(* validate_finish_evidence accept, whatever plans were submitted before   *)
(* and whichever of their actions were rejected.                           *)
THEOREM FinishIsInReach == AttemptSpec => []FinishStaysInReach
<1>1. AttemptInit => RevisionsFollow
  BY DEF AttemptInit, RevisionsFollow
<1>2. AttemptInv /\ RevisionsFollow /\ [AttemptNext]_all => RevisionsFollow'
  <2> SUFFICES ASSUME AttemptInv, RevisionsFollow, [AttemptNext]_all PROVE RevisionsFollow'
    OBVIOUS
  <2>1. attempt \in AttemptRecords
    BY Fields DEF AttemptInv
  <2>2. CASE Answer
    BY <2>2, AnswerKeepsRevisions
  <2>3. CASE ~Answer
    <3>1. CASE AttemptStep
      BY <2>3, <3>1, OtherStepsGoOn DEF GoesOn, RevisionsFollow
    <3>2. CASE ~AttemptStep
      <4>1. UNCHANGED attempt \/ attempt' = [attempt EXCEPT !.pc = "dropped"]
        BY <3>2 DEF AttemptNext, LaneStep, DropAttempt, DropWorktree, worker, all
      <4> QED BY <2>1, <4>1 DEF RevisionsFollow, AttemptRecords
    <3> QED BY <3>1, <3>2
  <2> QED BY <2>2, <2>3
<1>3. AttemptInv /\ RevisionsFollow => FinishStaysInReach
  <2> SUFFICES ASSUME AttemptInv, RevisionsFollow, attempt.pc = "validate", attempt.written
               PROVE  \E plan \in Plans, status \in Finishes, unknowns \in BOOLEAN :
                         /\ ValidPlan(attempt.plan, plan, TRUE, status, unknowns)
                         /\ FinishAdmitted(Revised(plan), status, TRUE)
    BY DEF FinishStaysInReach, Doing
  <2>1. attempt \in AttemptRecords /\ attempt.revision \in Nat /\ attempt.revision >= 2
    BY Fields DEF AttemptInv, RevisionsFollow
  <2>2. attempt.plan \in Plans
    BY <2>1 DEF RevisionsFollow
  <2>3. PICK plan \in Plans : ValidPlan(attempt.plan, plan, TRUE, "Partial", TRUE)
    BY <2>2, PlanCanClose
  <2>4. Revised(plan).revision = attempt.revision + 1
    BY <2>1 DEF Revised, AttemptRecords
  <2>5. FinishAdmitted(Revised(plan), "Partial", TRUE)
    BY <2>1, <2>4, PolicyAssumption DEF FinishAdmitted
  <2>6. "Partial" \in Finishes
    BY DEF Finishes
  <2> QED BY <2>3, <2>5, <2>6
<1> QED BY AttemptInitInv, AttemptNextKeeps, <1>1, <1>2, <1>3, PTL DEF AttemptSpec

(* What an attempt's lane destroys it has seen, whoever drives the lane.   *)
THEOREM AttemptDestroysNothingUnseen == AttemptSpec => WriteLaneDestroysNothingUnseen
<1>1. AttemptInv /\ [AttemptNext]_all => [LostOnlyWithCleanup]_vars /\ [LostOnlyAfterLook]_vars
  <2> SUFFICES ASSUME AttemptInv, [AttemptNext]_all PROVE LostOnlyWithCleanup /\ LostOnlyAfterLook
    OBVIOUS
  <2>1. WriteLaneInv
    BY DEF AttemptInv
  <2>2. CASE [Next]_vars
    BY <2>1, <2>2, StepDestroysNothingUnseen
  <2>3. CASE UNCHANGED <<lane, disk>>
    BY <2>3 DEF LostOnlyWithCleanup, LostOnlyAfterLook
  <2>4. [Next]_vars \/ UNCHANGED <<lane, disk>>
    <3>1. AttemptStep => [Next]_vars \/ UNCHANGED <<lane, disk>>
      BY DEF AttemptStep, StartAttempt, Materialized, CheckBaseline, LoopHead, CallModel, Answer, Read,
             BeginWrite, Wrote, Publish, BeginRelease, Released, MarkCleanupObserved, vars, Next, CallStep
    <3>2. LaneStep \/ DropAttempt \/ DropWorktree \/ (World /\ UNCHANGED worker) => [Next]_vars
      BY DEF LaneStep, DropAttempt, DropWorktree, Next
    <3> QED BY <3>1, <3>2 DEF AttemptNext, all
  <2> QED BY <2>2, <2>3, <2>4
<1>2. AttemptSpec => [][LostOnlyWithCleanup]_vars /\ [][LostOnlyAfterLook]_vars
  BY AttemptInitInv, AttemptNextKeeps, <1>1, PTL DEF AttemptSpec
<1>3. AttemptSpec => WriteSurvives /\ DestroysOnlyLaterEdits
  BY <1>2 DEF WriteSurvives, DestroysOnlyLaterEdits, LostOnlyWithCleanup, LostOnlyAfterLook
<1> QED BY <1>3 DEF WriteLaneDestroysNothingUnseen

-----------------------------------------------------------------------------
(* The candidate head.                                                   *)

Recorded(s) == selections[s] # NoRecord
Binding(s)  == selections[s].selected

(* A record is filed under its own id and binds what was requested.        *)
RecordsNamed ==
    \A s \in SelectionIds : Recorded(s) =>
        /\ Binding(s).id = s
        /\ selections[s].request.track = Binding(s).track
        /\ selections[s].request.candidate = Binding(s).candidate
        /\ selections[s].request.expected.id = Binding(s).previous

(* The head of a track is one of its records.                              *)
HeadsRecorded ==
    \A t \in Tracks : current[t] # NoHead =>
        /\ Recorded(current[t].id)
        /\ Binding(current[t].id) = current[t]
        /\ current[t].track = t

(* The generations of a track are those up to its head, each once.         *)
GenerationsBelow ==
    \A s \in SelectionIds :
        Recorded(s) => Binding(s).generation <= current[Binding(s).track].generation
GenerationsCovered ==
    \A t \in Tracks : \A g \in 1..current[t].generation :
        \E s \in Selected(t) : Binding(s).generation = g
GenerationsUnique ==
    \A s, u \in SelectionIds :
        /\ Recorded(s) /\ Recorded(u)
        /\ Binding(s).track = Binding(u).track /\ Binding(s).generation = Binding(u).generation
        => s = u
GenerationsCounted ==
    \A t \in Tracks : IsFiniteSet(Selected(t)) /\ Cardinality(Selected(t)) = current[t].generation

(* A record names the record one generation below it.                      *)
RecordsLinked ==
    \A s \in SelectionIds : Recorded(s) =>
        IF Binding(s).generation = 1 THEN Binding(s).previous = NoSelection
        ELSE /\ Binding(s).previous \in Selected(Binding(s).track)
             /\ Binding(Binding(s).previous).generation = Binding(s).generation - 1

(* What was replayed is still on record.                                   *)
RepliesRecorded ==
    \A c \in Controllers : reply[c].outcome = "replay" =>
        /\ reply[c].recorded.id \in SelectionIds
        /\ Recorded(reply[c].recorded.id)

RegistryInv ==
    /\ RecordsNamed /\ HeadsRecorded /\ GenerationsBelow /\ GenerationsCovered
    /\ GenerationsUnique /\ GenerationsCounted /\ RecordsLinked

HeadInv == HeadTypeOK /\ RegistryInv /\ RepliesRecorded /\ ReplayIsHistorical

-----------------------------------------------------------------------------
(* No binding is the absent head, no record the absent record, and only    *)
(* the absent head has generation 0.                                       *)
LEMMA NoneBound ==
    /\ \A h \in Heads : /\ h.generation \in 0..MaxGeneration /\ h.generation \in Nat
                        /\ h.id \in SelectionIds \cup {NoSelection}
                        /\ h = NoHead <=> h.generation = 0
                        /\ h # NoHead => h \in Bindings
    /\ \A x \in SelectionRecords : x # NoRecord
    /\ NoRequest \notin Requests
<1>1. NoHead.generation = 0 /\ NoHead.id = NoSelection
  BY DEF NoHead
<1>2. \A h \in Bindings : /\ h.generation \in 1..MaxGeneration /\ h.generation \in Nat
                          /\ h.id \in SelectionIds
  BY RegistryAssumption DEF Bindings
<1>3. \A h \in Bindings : h # NoHead
  BY <1>1, <1>2
<1>4. \A x \in SelectionRecords : x # NoRecord
  BY <1>3 DEF SelectionRecords, NoRecord
<1>5. NoRequest \notin Requests
  BY RegistryAssumption DEF NoRequest, Requests
<1>6. ASSUME NEW h \in Heads
      PROVE  /\ h.generation \in 0..MaxGeneration /\ h.generation \in Nat
             /\ h.id \in SelectionIds \cup {NoSelection}
             /\ h = NoHead <=> h.generation = 0
             /\ h # NoHead => h \in Bindings
  BY <1>1, <1>2, RegistryAssumption DEF Heads
<1> QED BY <1>4, <1>5, <1>6

(* A record's request and binding.                                         *)
LEMMA RecordTypes ==
    ASSUME HeadTypeOK, NEW s \in SelectionIds, Recorded(s)
    PROVE  /\ selections[s].request \in Requests /\ Binding(s) \in Bindings
           /\ Binding(s).track \in Tracks /\ Binding(s).generation \in 1..MaxGeneration
           /\ Binding(s).generation \in Nat \ {0}
           /\ s \in Selected(Binding(s).track)
<1>1. selections[s] \in SelectionRecords
  BY DEF HeadTypeOK, Recorded
<1>2. selections[s].request \in Requests /\ Binding(s) \in Bindings
  BY <1>1 DEF SelectionRecords, Binding
<1> QED BY <1>2, RegistryAssumption DEF Bindings, Selected, Recorded, Binding

(* The selection of a generation is the one recorded with it.              *)
LEMMA SelectionAtGeneration ==
    ASSUME HeadTypeOK, GenerationsUnique, NEW t \in Tracks, NEW s \in Selected(t)
    PROVE  SelectionAt(t, Binding(s).generation) = s
<1>1. s \in SelectionIds /\ Recorded(s) /\ Binding(s).track = t
  BY DEF Selected, Recorded, Binding
<1> DEFINE u == SelectionAt(t, Binding(s).generation)
<1>2. u \in Selected(t) /\ selections[u].selected.generation = Binding(s).generation
  BY DEF SelectionAt, Binding
<1> HIDE DEF u
<1>3. u \in SelectionIds /\ Recorded(u) /\ Binding(u).track = t
      /\ Binding(u).generation = Binding(s).generation
  BY <1>2 DEF Selected, Recorded, Binding
<1>4. u = s
  BY <1>1, <1>3 DEF GenerationsUnique
<1> QED BY <1>4 DEF u

(* What the controllers see of the registry follows from the invariant.    *)
LEMMA HeadInvImplies == HeadInv => HeadIsSound
<1> SUFFICES ASSUME HeadInv PROVE GenerationsContiguous
  BY DEF HeadInv, HeadIsSound
<1> USE DEF HeadInv, RegistryInv
<1> SUFFICES ASSUME NEW t \in Tracks
             PROVE  /\ {selections[s].selected.generation : s \in Selected(t)}
                          = 1..current[t].generation
                    /\ Cardinality(Selected(t)) = current[t].generation
                    /\ \A s \in Selected(t) :
                          selections[s].selected.previous =
                              IF selections[s].selected.generation = 1 THEN NoSelection
                              ELSE SelectionAt(t, selections[s].selected.generation - 1)
  BY DEF GenerationsContiguous
<1>0. \A s \in Selected(t) : /\ s \in SelectionIds /\ Recorded(s) /\ Binding(s).track = t
                             /\ Binding(s).generation \in Nat \ {0}
  BY RecordTypes DEF Selected, Recorded, Binding
<1>1. current[t].generation \in Nat
  BY NoneBound DEF HeadTypeOK
<1>2. {Binding(s).generation : s \in Selected(t)} = 1..current[t].generation
  <2>1. ASSUME NEW s \in Selected(t) PROVE Binding(s).generation \in 1..current[t].generation
    <3>1. Binding(s).generation <= current[t].generation
      BY <1>0 DEF GenerationsBelow
    <3> QED BY <1>0, <1>1, <3>1
  <2>2. ASSUME NEW g \in 1..current[t].generation
        PROVE  \E s \in Selected(t) : Binding(s).generation = g
    BY DEF GenerationsCovered
  <2> QED BY <2>1, <2>2
<1>3. Cardinality(Selected(t)) = current[t].generation
  BY DEF GenerationsCounted
<1>4. ASSUME NEW s \in Selected(t), Binding(s).generation # 1
      PROVE  Binding(s).previous = SelectionAt(t, Binding(s).generation - 1)
  <2>1. /\ Binding(s).previous \in Selected(t)
        /\ Binding(Binding(s).previous).generation = Binding(s).generation - 1
    BY <1>0, <1>4 DEF RecordsLinked
  <2>2. SelectionAt(t, Binding(Binding(s).previous).generation) = Binding(s).previous
    BY <2>1, SelectionAtGeneration
  <2> QED BY <2>1, <2>2
<1>5. ASSUME NEW s \in Selected(t), Binding(s).generation = 1
      PROVE  Binding(s).previous = NoSelection
  BY <1>0, <1>5 DEF RecordsLinked
<1> QED BY <1>2, <1>3, <1>4, <1>5 DEF Binding
-----------------------------------------------------------------------------
(* The binding a selection computes, where the counter is not exhausted.   *)
LEMMA BindHeadBinds ==
    ASSUME HeadTypeOK, NEW r \in Requests, current[r.track].generation < MaxGeneration
    PROVE  /\ r.track \in Tracks /\ r.id \in SelectionIds /\ r.candidate \in Candidates
           /\ BindHead(r) \in Bindings
           /\ BindHead(r).track = r.track /\ BindHead(r).id = r.id
           /\ BindHead(r).generation = current[r.track].generation + 1
           /\ BindHead(r).previous = current[r.track].id
           /\ BindHead(r).candidate = r.candidate
<1>1. r.track \in Tracks /\ r.id \in SelectionIds /\ r.candidate \in Candidates
  BY DEF Requests
<1>2. current[r.track] \in Heads
  BY <1>1 DEF HeadTypeOK
<1>3. /\ current[r.track].generation + 1 \in 1..MaxGeneration
      /\ current[r.track].id \in SelectionIds \cup {NoSelection}
  BY <1>2, NoneBound, RegistryAssumption
<1> QED BY <1>1, <1>3 DEF BindHead, Bindings, NextGeneration

(* A selection extends its track by one record and leaves the others be.   *)
LEMMA SelectKeeps ==
    ASSUME HeadTypeOK, RegistryInv, NEW c \in Controllers, NEW r \in Requests,
           ~Recorded(r.id), r.expected = current[r.track],
           current[r.track].generation < MaxGeneration, Select(c, r)
    PROVE  /\ RegistryInv'
           /\ current' \in [Tracks -> Heads]
           /\ selections' \in [SelectionIds -> SelectionRecords \cup {NoRecord}]
           /\ \A s \in SelectionIds : Recorded(s) => selections'[s] = selections[s]
           /\ Selected(r.track)' = Selected(r.track) \cup {r.id}
           /\ \A t \in Tracks \ {r.track} : Selected(t)' = Selected(t)
<1> USE DEF RegistryInv
<1> DEFINE b == BindHead(r)
           n == current[r.track].generation
<1>1. /\ r.track \in Tracks /\ r.id \in SelectionIds
      /\ b \in Bindings /\ b.track = r.track /\ b.id = r.id /\ b.generation = n + 1
      /\ b.previous = current[r.track].id /\ b.candidate = r.candidate
  BY BindHeadBinds
<1>2. /\ selections' = [selections EXCEPT ![r.id] = [request |-> r, selected |-> b]]
      /\ current' = [current EXCEPT ![r.track] = b]
  BY DEF Select
<1> HIDE DEF b
<1>3. /\ [request |-> r, selected |-> b] \in SelectionRecords
      /\ selections \in [SelectionIds -> SelectionRecords \cup {NoRecord}]
      /\ current \in [Tracks -> Heads] /\ b \in Heads
  BY <1>1 DEF HeadTypeOK, SelectionRecords, Heads
<1>4. /\ current' \in [Tracks -> Heads] /\ current'[r.track] = b
      /\ \A t \in Tracks \ {r.track} : current'[t] = current[t]
  BY <1>1, <1>2, <1>3
<1>5. /\ selections' \in [SelectionIds -> SelectionRecords \cup {NoRecord}]
      /\ selections'[r.id] = [request |-> r, selected |-> b]
      /\ \A s \in SelectionIds \ {r.id} : selections'[s] = selections[s]
  BY <1>1, <1>2, <1>3
<1>6. /\ Recorded(r.id)' /\ Binding(r.id)' = b
      /\ \A s \in SelectionIds \ {r.id} : /\ Recorded(s)' <=> Recorded(s)
                                          /\ Binding(s)' = Binding(s)
  BY <1>3, <1>5, NoneBound DEF Recorded, Binding
<1>7. /\ \A t \in Tracks \ {r.track} : Selected(t)' = Selected(t)
      /\ Selected(r.track)' = Selected(r.track) \cup {r.id}
      /\ r.id \notin Selected(r.track)
  BY <1>1, <1>5, <1>6 DEF Selected, Recorded, Binding
<1>8. n \in Nat /\ \A t \in Tracks : current[t].generation \in Nat
  BY <1>1, <1>3, NoneBound
<1>9. \A s \in SelectionIds : Recorded(s) =>
         /\ Binding(s).track \in Tracks /\ Binding(s).generation \in Nat \ {0}
         /\ Binding(s).generation <= current[Binding(s).track].generation
  BY RecordTypes DEF GenerationsBelow
<1>10. RecordsNamed'
  <2>1. /\ Binding(r.id)'.id = r.id /\ selections'[r.id].request.track = Binding(r.id)'.track
        /\ selections'[r.id].request.candidate = Binding(r.id)'.candidate
        /\ selections'[r.id].request.expected.id = Binding(r.id)'.previous
    BY <1>1, <1>5, <1>6
  <2> QED BY <1>5, <1>6, <2>1 DEF RecordsNamed
<1>11. HeadsRecorded'
  <2>1. ASSUME NEW t \in Tracks \ {r.track}, current'[t] # NoHead
        PROVE  /\ Recorded(current[t].id)' /\ Binding(current[t].id)' = current'[t]
               /\ current'[t].track = t
    <3>1. /\ current[t].id \in SelectionIds /\ Recorded(current[t].id)
          /\ Binding(current[t].id) = current[t] /\ current[t].track = t
      BY <1>3, <1>4, <2>1, NoneBound DEF HeadsRecorded, Bindings
    <3>2. current[t].id # r.id
      BY <3>1
    <3> QED BY <1>4, <1>6, <3>1, <3>2
  <2> QED BY <1>1, <1>4, <1>6, <2>1 DEF HeadsRecorded
<1>12. GenerationsBelow'
  <2>1. ASSUME NEW s \in SelectionIds, Recorded(s)'
        PROVE  Binding(s)'.generation <= current'[Binding(s)'.track].generation
    <3>1. CASE s = r.id
      BY <1>1, <1>4, <1>6, <1>8, <3>1
    <3>2. CASE s # r.id /\ Binding(s).track = r.track
      BY <1>1, <1>4, <1>6, <1>8, <1>9, <2>1, <3>2
    <3>3. CASE s # r.id /\ Binding(s).track # r.track
      BY <1>4, <1>6, <1>9, <2>1, <3>3
    <3> QED BY <3>1, <3>2, <3>3
  <2> QED BY <2>1 DEF GenerationsBelow
<1>13. GenerationsCovered'
  <2>1. ASSUME NEW t \in Tracks \ {r.track}, NEW g \in 1..current'[t].generation
        PROVE  \E s \in Selected(t)' : Binding(s)'.generation = g
    <3>1. PICK s \in Selected(t) : Binding(s).generation = g
      BY <1>4, <2>1 DEF GenerationsCovered
    <3>2. s \in SelectionIds \ {r.id}
      BY <3>1 DEF Selected, Recorded
    <3> QED BY <1>6, <1>7, <3>1, <3>2
  <2>2. ASSUME NEW g \in 1..current'[r.track].generation
        PROVE  \E s \in Selected(r.track)' : Binding(s)'.generation = g
    <3>1. CASE g = n + 1
      BY <1>1, <1>6, <1>7, <3>1
    <3>2. CASE g # n + 1
      <4>1. g \in 1..n
        BY <1>1, <1>4, <1>8, <3>2
      <4>2. PICK s \in Selected(r.track) : Binding(s).generation = g
        BY <1>1, <4>1 DEF GenerationsCovered
      <4>3. s \in SelectionIds \ {r.id}
        BY <4>2 DEF Selected, Recorded
      <4> QED BY <1>6, <1>7, <4>2, <4>3
    <3> QED BY <3>1, <3>2
  <2> QED BY <2>1, <2>2 DEF GenerationsCovered
<1>14. GenerationsUnique'
  <2>1. ASSUME NEW s \in SelectionIds \ {r.id}, Recorded(s)'
        PROVE  ~(Binding(s)'.track = b.track /\ Binding(s)'.generation = b.generation)
    BY <1>1, <1>6, <1>8, <1>9, <2>1
  <2>2. ASSUME NEW s \in SelectionIds, NEW u \in SelectionIds, Recorded(s)', Recorded(u)',
               Binding(s)'.track = Binding(u)'.track,
               Binding(s)'.generation = Binding(u)'.generation
        PROVE  s = u
    <3>1. CASE s = r.id \/ u = r.id
      BY <1>6, <2>1, <2>2, <3>1
    <3>2. CASE s # r.id /\ u # r.id
      BY <1>6, <2>2, <3>2 DEF GenerationsUnique
    <3> QED BY <3>1, <3>2
  <2> QED BY <2>2 DEF GenerationsUnique
<1>15. GenerationsCounted'
  <2>1. /\ IsFiniteSet(Selected(r.track)')
        /\ Cardinality(Selected(r.track)') = Cardinality(Selected(r.track)) + 1
    BY <1>1, <1>7, FS_AddElement DEF GenerationsCounted
  <2>2. Cardinality(Selected(r.track)') = current'[r.track].generation
    BY <1>1, <1>4, <2>1 DEF GenerationsCounted
  <2> QED BY <1>4, <1>7, <2>1, <2>2 DEF GenerationsCounted
<1>16. RecordsLinked'
  <2> SUFFICES ASSUME NEW s \in SelectionIds, Recorded(s)'
               PROVE  (IF Binding(s).generation = 1 THEN Binding(s).previous = NoSelection
                       ELSE /\ Binding(s).previous \in Selected(Binding(s).track)
                            /\ Binding(Binding(s).previous).generation
                                   = Binding(s).generation - 1)'
    BY DEF RecordsLinked
  <2>1. CASE s = r.id
    <3>1. CASE n = 0
      <4>1. current[r.track] = NoHead
        BY <1>1, <1>3, <3>1, NoneBound
      <4>2. b.previous = NoSelection
        BY <1>1, <4>1 DEF NoHead
      <4> QED BY <1>1, <1>6, <2>1, <3>1, <4>2
    <3>2. CASE n # 0
      <4>1. /\ current[r.track].id \in SelectionIds /\ Recorded(current[r.track].id)
            /\ Binding(current[r.track].id) = current[r.track]
            /\ current[r.track].track = r.track
        BY <1>1, <1>3, <3>2, NoneBound DEF HeadsRecorded, Bindings
      <4>2. current[r.track].id # r.id
        BY <4>1
      <4>3. current[r.track].id \in Selected(r.track)
        BY <4>1 DEF Selected, Recorded, Binding
      <4> QED BY <1>1, <1>6, <1>7, <1>8, <2>1, <3>2, <4>1, <4>2, <4>3
    <3> QED BY <3>1, <3>2
  <2>2. CASE s # r.id
    <3>1. Recorded(s) /\ Binding(s)' = Binding(s) /\ Binding(s).track \in Tracks
      BY <1>6, <1>9, <2>2
    <3>2. CASE Binding(s).generation = 1
      BY <3>1, <3>2 DEF RecordsLinked
    <3>3. CASE Binding(s).generation # 1
      <4>1. /\ Binding(s).previous \in Selected(Binding(s).track)
            /\ Binding(Binding(s).previous).generation = Binding(s).generation - 1
        BY <3>1, <3>3 DEF RecordsLinked
      <4>2. Binding(s).previous \in SelectionIds \ {r.id}
        BY <4>1 DEF Selected, Recorded
      <4>3. Binding(s).previous \in Selected(Binding(s).track)'
        BY <1>1, <1>7, <3>1, <4>1
      <4> QED BY <1>6, <3>1, <3>3, <4>1, <4>2, <4>3
    <3> QED BY <3>2, <3>3
  <2> QED BY <2>1, <2>2
<1>17. \A s \in SelectionIds : Recorded(s) => selections'[s] = selections[s]
  BY <1>5
<1> QED BY <1>4, <1>5, <1>7, <1>10, <1>11, <1>12, <1>13, <1>14, <1>15, <1>16, <1>17
-----------------------------------------------------------------------------
(* Steps that leave the registry's records and heads alone.                *)
LEMMA RegistryFrame ==
    ASSUME RegistryInv, UNCHANGED <<current, selections>>
    PROVE  RegistryInv'
<1>1. RecordsNamed' /\ HeadsRecorded' /\ GenerationsBelow' /\ RecordsLinked'
  BY DEF RegistryInv, RecordsNamed, HeadsRecorded, GenerationsBelow, RecordsLinked, Recorded,
         Binding, Selected
<1>2. GenerationsCovered' /\ GenerationsUnique' /\ GenerationsCounted'
  BY DEF RegistryInv, GenerationsCovered, GenerationsUnique, GenerationsCounted, Recorded,
         Binding, Selected
<1> QED BY <1>1, <1>2 DEF RegistryInv

(* A call of select_successor keeps the invariant, whatever it returns.    *)
LEMMA SelectSuccessorKeeps ==
    ASSUME HeadInv, NEW c \in Controllers, NEW r \in Requests, SelectSuccessor(c, r)
    PROVE  HeadInv'
<1> USE DEF HeadInv
<1> DEFINE Kept == /\ RegistryInv'
                   /\ opened' = opened
                   /\ current' \in [Tracks -> Heads]
                   /\ selections' \in [SelectionIds -> SelectionRecords \cup {NoRecord}]
                   /\ \A s \in SelectionIds : Recorded(s) => selections'[s] = selections[s]
           Replied(a) == reply' = [reply EXCEPT ![c] = a]
           Good(a) == /\ a \in Answers
                      /\ a.outcome = "replay" =>
                           /\ a.recorded.id \in SelectionIds /\ Recorded(a.recorded.id)
                           /\ a.recorded = Binding(a.recorded.id)
                           /\ a.current.track = a.recorded.track
                           /\ a.current.generation >= a.recorded.generation
<1>1. r.track \in Tracks /\ r.id \in SelectionIds /\ current[r.track] \in Heads
  BY DEF Requests, HeadTypeOK
<1>2. \A outcome \in {"stale", "conflict", "exhausted", "scope"} :
         Good([outcome |-> outcome, recorded |-> NoHead, current |-> NoHead])
  BY DEF Answers, Heads
<1>3. ASSUME UNCHANGED registry PROVE Kept
  <2>1. UNCHANGED <<opened, current, selections>>
    BY <1>3 DEF registry
  <2>2. RegistryInv'
    BY <2>1, RegistryFrame
  <2> QED BY <2>1, <2>2 DEF HeadTypeOK
<1>4. ASSUME NEW outcome \in {"stale", "conflict", "exhausted", "scope"}, Refuse(c, outcome)
      PROVE  Kept /\ \E a : Good(a) /\ Replied(a)
  BY <1>2, <1>3, <1>4 DEF Refuse, AnswerCall
<1>5. ASSUME RecordedSelection(c, r) PROVE Kept /\ \E a : Good(a) /\ Replied(a)
  <2>1. CASE selections[r.id].request = r
    <3> DEFINE a == [outcome |-> "replay", recorded |-> selections[r.id].selected,
                     current |-> current[r.track]]
    <3>1. Recorded(r.id) /\ Replied(a) /\ UNCHANGED registry
      BY <1>5, <2>1 DEF RecordedSelection, AnswerCall, Recorded
    <3>2. Binding(r.id) \in Bindings /\ Binding(r.id).id = r.id /\ Binding(r.id).track = r.track
      BY <1>1, <2>1, <3>1, RecordTypes DEF RegistryInv, RecordsNamed
    <3>3. /\ Binding(r.id).generation \in Nat \ {0} /\ current[r.track].generation \in Nat
          /\ current[r.track].generation >= Binding(r.id).generation
      <4>1. Binding(r.id).generation \in Nat \ {0} /\ current[r.track].generation \in Nat
        BY <1>1, <3>1, RecordTypes, NoneBound
      <4>2. Binding(r.id).generation <= current[r.track].generation
        BY <1>1, <3>1, <3>2 DEF RegistryInv, GenerationsBelow
      <4> QED BY <4>1, <4>2
    <3>4. current[r.track] # NoHead
      BY <1>1, <3>3, NoneBound
    <3>5. current[r.track].track = r.track
      BY <1>1, <3>4 DEF RegistryInv, HeadsRecorded
    <3>6. Good(a)
      BY <1>1, <3>1, <3>2, <3>3, <3>5 DEF Answers, Heads, Binding
    <3> QED BY <1>3, <3>1, <3>6
  <2>2. CASE selections[r.id].request # r
    BY <1>4, <1>5, <2>2 DEF RecordedSelection
  <2> QED BY <2>1, <2>2
<1>6. ASSUME FreshSelection(c, r) PROVE Kept /\ \E a : Good(a) /\ Replied(a)
  <2>1. CASE Refuse(c, "stale") \/ Refuse(c, "exhausted")
    BY <1>4, <2>1
  <2>2. CASE /\ r.expected = current[r.track] /\ current[r.track].generation < MaxGeneration
             /\ Select(c, r)
    <3>1. ~Recorded(r.id)
      BY <1>6 DEF FreshSelection, Recorded
    <3>2. Kept
      BY <2>2, <3>1, SelectKeeps DEF Select
    <3>3. BindHead(r) \in Heads
      BY <2>2, BindHeadBinds DEF Heads
    <3> DEFINE a == [outcome |-> "selected", recorded |-> BindHead(r), current |-> BindHead(r)]
    <3>4. Replied(a) /\ Good(a)
      BY <2>2, <3>3 DEF Select, AnswerCall, Answers
    <3> QED BY <3>2, <3>4
  <2> QED BY <1>6, <2>1, <2>2 DEF FreshSelection
<1>7. Kept /\ \E a : Good(a) /\ Replied(a)
  BY <1>4, <1>5, <1>6 DEF SelectSuccessor
<1>8. PICK a : Good(a) /\ Replied(a)
  BY <1>7
<1> HIDE DEF Kept, Good
<1>9. /\ reply' \in [Controllers -> Answers] /\ reply'[c] = a
      /\ \A d \in Controllers \ {c} : reply'[d] = reply[d]
  BY <1>8 DEF HeadTypeOK, Good
<1>10. HeadTypeOK'
  <2>1. sent' \in [Controllers -> Requests \cup {NoRequest}]
    BY DEF SelectSuccessor, HeadTypeOK
  <2>2. a.current \in Heads
    BY <1>8 DEF Good, Answers
  <2>3. view' \in [Controllers -> [Tracks -> Heads]]
    BY <1>1, <1>9, <2>2 DEF SelectSuccessor, HeadTypeOK
  <2> QED BY <1>7, <1>9, <2>1, <2>3 DEF HeadTypeOK, Kept
<1>11. RepliesRecorded' /\ ReplayIsHistorical'
  <2> SUFFICES ASSUME NEW d \in Controllers, reply'[d].outcome = "replay"
               PROVE  /\ reply'[d].recorded.id \in SelectionIds
                      /\ Recorded(reply[d].recorded.id)'
                      /\ reply'[d].recorded = selections'[reply'[d].recorded.id].selected
                      /\ reply'[d].current.track = reply'[d].recorded.track
                      /\ reply'[d].current.generation >= reply'[d].recorded.generation
    BY DEF RepliesRecorded, ReplayIsHistorical
  <2>1. /\ reply'[d].recorded.id \in SelectionIds
        /\ selections[reply'[d].recorded.id] # NoRecord
        /\ reply'[d].recorded = selections[reply'[d].recorded.id].selected
        /\ reply'[d].current.track = reply'[d].recorded.track
        /\ reply'[d].current.generation >= reply'[d].recorded.generation
    <3>1. CASE d = c
      BY <1>8, <1>9, <3>1 DEF Good, Recorded, Binding
    <3>2. CASE d # c
      BY <1>9, <3>2 DEF RepliesRecorded, ReplayIsHistorical, Recorded
    <3> QED BY <3>1, <3>2
  <2>2. selections'[reply'[d].recorded.id] = selections[reply'[d].recorded.id]
    BY <1>7, <2>1 DEF Kept, Recorded
  <2> QED BY <2>1, <2>2 DEF Recorded
<1> QED BY <1>7, <1>10, <1>11 DEF Kept

-----------------------------------------------------------------------------
(* The registry starts with empty tracks.                                  *)
LEMMA HeadStarts == HeadInit => HeadInv
<1> SUFFICES ASSUME HeadInit PROVE HeadInv
  OBVIOUS
<1>1. HeadTypeOK
  BY DEF HeadInit, HeadTypeOK, Heads, Answers, NoAnswer
<1>2. \A s \in SelectionIds : ~Recorded(s)
  BY DEF HeadInit, Recorded
<1>3. \A t \in Tracks : Selected(t) = {} /\ current[t] = NoHead /\ current[t].generation = 0
  BY <1>2 DEF HeadInit, Selected, Recorded, NoHead
<1>4. GenerationsCounted
  BY <1>3, FS_EmptySet DEF GenerationsCounted
<1>5. GenerationsCovered
  BY <1>3 DEF GenerationsCovered
<1>6. RecordsNamed /\ HeadsRecorded /\ GenerationsBelow /\ GenerationsUnique /\ RecordsLinked
  BY <1>2, <1>3 DEF RecordsNamed, HeadsRecorded, GenerationsBelow, GenerationsUnique, RecordsLinked
<1>7. RepliesRecorded /\ ReplayIsHistorical
  BY DEF HeadInit, NoAnswer, RepliesRecorded, ReplayIsHistorical
<1> QED BY <1>1, <1>4, <1>5, <1>6, <1>7 DEF HeadInv, RegistryInv

(* What a controller asks for, first or again, is a request.               *)
LEMMA CallsAreRequests ==
    ASSUME HeadTypeOK, HeadNext
    PROVE  \/ \E t \in Tracks : OpenTrack(t)
           \/ \E c \in Controllers, t \in Tracks : Current(c, t)
           \/ \E c \in Controllers, r \in Requests : SelectSuccessor(c, r)
<1>1. ASSUME NEW c \in Controllers, NEW t \in Tracks, NEW x \in Candidates,
             NEW id \in SelectionIds, Propose(c, t, x, id)
      PROVE  \E r \in Requests : SelectSuccessor(c, r)
  <2>1. [track |-> t, expected |-> view[c][t], candidate |-> x, id |-> id] \in Requests
    BY DEF HeadTypeOK, Requests
  <2> QED BY <1>1, <2>1 DEF Propose
<1>2. ASSUME NEW c \in Controllers, Repeat(c)
      PROVE  \E r \in Requests : SelectSuccessor(c, r)
  BY <1>2 DEF Repeat, HeadTypeOK
<1> QED BY <1>1, <1>2 DEF HeadNext

(* Every step keeps the invariant.                                         *)
LEMMA HeadKeeps == HeadInv /\ [HeadNext]_headVars => HeadInv'
<1> SUFFICES ASSUME HeadInv, [HeadNext]_headVars PROVE HeadInv'
  OBVIOUS
<1> USE DEF HeadInv
<1>1. ASSUME UNCHANGED <<current, selections, sent, reply>>, opened' \subseteq Tracks,
             view' \in [Controllers -> [Tracks -> Heads]]
      PROVE  HeadInv'
  BY <1>1, RegistryFrame DEF HeadTypeOK, RepliesRecorded, ReplayIsHistorical, Recorded
<1>2. CASE UNCHANGED headVars
  BY <1>1, <1>2 DEF headVars, registry, HeadTypeOK
<1>3. ASSUME NEW t \in Tracks, OpenTrack(t) PROVE HeadInv'
  BY <1>1, <1>3 DEF OpenTrack, HeadTypeOK
<1>4. ASSUME NEW c \in Controllers, NEW t \in Tracks, Current(c, t) PROVE HeadInv'
  <2>1. view' \in [Controllers -> [Tracks -> Heads]]
    BY <1>4 DEF Current, HeadTypeOK
  <2> QED BY <1>1, <1>4, <2>1 DEF Current, registry, HeadTypeOK
<1>5. ASSUME NEW c \in Controllers, NEW r \in Requests, SelectSuccessor(c, r) PROVE HeadInv'
  BY <1>5, SelectSuccessorKeeps
<1> QED BY <1>2, <1>3, <1>4, <1>5, CallsAreRequests

(* However reads, selections, repetitions and refusals of any number of    *)
(* controllers interleave, the generations of every track are contiguous,  *)
(* each selection names its predecessor, and a replay returns what was     *)
(* recorded beside a head of the same track that is no older.              *)
THEOREM RegistrySound == HeadSpec => []HeadIsSound
BY HeadStarts, HeadKeeps, HeadInvImplies, PTL DEF HeadSpec
-----------------------------------------------------------------------------
(* What a registry's selection ids stand for, as a step property.          *)
LEMMA RecordsKept ==
    ASSUME HeadInv, [HeadNext]_headVars
    PROVE  \/ UNCHANGED <<current, selections>>
           \/ \E c \in Controllers, r \in Requests :
                 /\ ~Recorded(r.id) /\ r.expected = current[r.track]
                 /\ current[r.track].generation < MaxGeneration /\ Select(c, r)
<1>1. ASSUME NEW c \in Controllers, NEW r \in Requests, SelectSuccessor(c, r)
      PROVE  \/ UNCHANGED <<current, selections>>
             \/ /\ ~Recorded(r.id) /\ r.expected = current[r.track]
                /\ current[r.track].generation < MaxGeneration /\ Select(c, r)
  BY <1>1 DEF SelectSuccessor, RecordedSelection, FreshSelection, Refuse, registry, Recorded
<1> QED BY <1>1, CallsAreRequests DEF OpenTrack, Current, headVars, registry, HeadInv

(* What a selection id stands for never changes once it is recorded: a     *)
(* repeated or conflicting request cannot rewrite history.                 *)
THEOREM SelectionsKept == HeadSpec => SelectionsImmutable
<1>1. ASSUME HeadInv, [HeadNext]_headVars
      PROVE  [\A s \in SelectionIds :
                 selections[s] # NoRecord => selections'[s] = selections[s]]_headVars
  <2>1. CASE UNCHANGED <<current, selections>>
    BY <2>1
  <2>2. ASSUME NEW c \in Controllers, NEW r \in Requests,
               ~Recorded(r.id), r.expected = current[r.track],
               current[r.track].generation < MaxGeneration, Select(c, r)
        PROVE  \A s \in SelectionIds : selections[s] # NoRecord => selections'[s] = selections[s]
    BY <1>1, <2>2, SelectKeeps DEF HeadInv, Recorded
  <2> QED BY <1>1, <2>1, <2>2, RecordsKept
<1> QED BY <1>1, HeadStarts, HeadKeeps, PTL DEF HeadSpec, SelectionsImmutable

-----------------------------------------------------------------------------
(* The chains of the refinement mapping.                                   *)
ChainOf(t) == [g \in 1..current[t].generation |-> Link(SelectionAt(t, g))]

(* A chain is a sequence of links, in the order of the generations.        *)
LEMMA ChainLinks ==
    ASSUME HeadInv, NEW t \in Tracks
    PROVE  /\ current[t].generation \in Nat
           /\ \A g \in 1..current[t].generation :
                 /\ SelectionAt(t, g) \in Selected(t)
                 /\ Binding(SelectionAt(t, g)).generation = g
           /\ Len(ChainOf(t)) = current[t].generation
           /\ current[t] # NoHead => SelectionAt(t, current[t].generation) = current[t].id
<1> USE DEF HeadInv, RegistryInv
<1>1. current[t] \in Heads /\ current[t].generation \in Nat
  BY NoneBound DEF HeadTypeOK
<1>2. ASSUME NEW g \in 1..current[t].generation
      PROVE  SelectionAt(t, g) \in Selected(t) /\ Binding(SelectionAt(t, g)).generation = g
  BY <1>2 DEF GenerationsCovered, SelectionAt, Binding
<1>3. Len(ChainOf(t)) = current[t].generation
  BY <1>1 DEF ChainOf
<1>4. ASSUME current[t] # NoHead
      PROVE  SelectionAt(t, current[t].generation) = current[t].id
  <2>1. /\ current[t].id \in SelectionIds /\ Recorded(current[t].id)
        /\ Binding(current[t].id) = current[t] /\ current[t].track = t
    BY <1>1, <1>4, NoneBound DEF HeadsRecorded, Bindings
  <2>2. current[t].id \in Selected(t)
    BY <2>1 DEF Selected, Recorded, Binding
  <2> QED BY <2>1, <2>2, SelectionAtGeneration
<1> QED BY <1>1, <1>2, <1>3, <1>4

(* The registry is a set of chains: every step of the registry that is not *)
(* invisible puts one new selection on top of the head its controller had  *)
(* read, under an id no chain has used (select_successor's compare and     *)
(* swap).                                                                  *)
THEOREM RegistryImplementsChains == HeadSpec => ImplementsSelectionChain
<1> DEFINE chains == [t \in Tracks |-> [g \in 1..current[t].generation |-> Link(SelectionAt(t, g))]]
<1>1. HeadInit => Chain!Init
  <2> SUFFICES ASSUME HeadInit PROVE chains = [t \in Tracks |-> <<>>]
    BY DEF Chain!Init
  <2>1. \A t \in Tracks : current[t].generation = 0
    BY DEF HeadInit, NoHead
  <2>2. \A t \in Tracks : [g \in 1..current[t].generation |-> Link(SelectionAt(t, g))] = <<>>
    BY <2>1
  <2> QED BY <2>2
<1>2. ASSUME UNCHANGED <<current, selections>> PROVE UNCHANGED chains
  BY <1>2 DEF Link, SelectionAt, Selected
<1>3. ASSUME HeadInv, HeadInv', NEW c \in Controllers, NEW r \in Requests,
             ~Recorded(r.id), r.expected = current[r.track],
             current[r.track].generation < MaxGeneration, Select(c, r)
      PROVE  Chain!Next
  <2>0. PICK n \in Nat : n = current[r.track].generation
    BY <1>3, ChainLinks DEF Requests
  <2>1. /\ r.track \in Tracks /\ r.id \in SelectionIds /\ r.candidate \in Candidates
        /\ BindHead(r) \in Bindings
        /\ BindHead(r).track = r.track /\ BindHead(r).generation = n + 1
    BY <1>3, <2>0, BindHeadBinds DEF HeadInv
  <2>2. /\ \A s \in SelectionIds : Recorded(s) => selections'[s] = selections[s]
        /\ Selected(r.track)' = Selected(r.track) \cup {r.id}
        /\ \A t \in Tracks \ {r.track} : Selected(t)' = Selected(t)
    BY <1>3, SelectKeeps DEF HeadInv
  <2>3. /\ current'[r.track] = BindHead(r)
        /\ \A t \in Tracks \ {r.track} : current'[t] = current[t]
        /\ selections'[r.id] = [request |-> r, selected |-> BindHead(r)]
    BY <1>3, <2>1 DEF Select, HeadInv, HeadTypeOK
  <2>4. \A t \in Tracks : \A g \in 1..current[t].generation :
           /\ SelectionAt(t, g)' = SelectionAt(t, g)
           /\ Link(SelectionAt(t, g))' = Link(SelectionAt(t, g))
    <3> SUFFICES ASSUME NEW t \in Tracks, NEW g \in 1..current[t].generation
                 PROVE  /\ SelectionAt(t, g)' = SelectionAt(t, g)
                        /\ Link(SelectionAt(t, g))' = Link(SelectionAt(t, g))
      OBVIOUS
    <3> DEFINE s == SelectionAt(t, g)
    <3>1. s \in Selected(t) /\ Binding(s).generation = g
      BY <1>3, ChainLinks
    <3> HIDE DEF s
    <3>2. s \in SelectionIds /\ Recorded(s)
      BY <3>1 DEF Selected, Recorded
    <3>3. s \in Selected(t)' /\ selections'[s] = selections[s]
      BY <2>1, <2>2, <3>1, <3>2
    <3>4. SelectionAt(t, g)' = s
      <4>1. selections'[s].selected.generation = g
        BY <3>1, <3>3 DEF Binding
      <4>2. \E u \in Selected(t)' : selections'[u].selected.generation = g
        BY <3>3, <4>1
      <4> DEFINE u == SelectionAt(t, g)
      <4>3. u' \in Selected(t)' /\ selections'[u'].selected.generation = g
        BY <4>2 DEF SelectionAt
      <4> HIDE DEF u
      <4>4. u' = s
        BY <1>3, <3>3, <4>1, <4>3 DEF HeadInv, RegistryInv, GenerationsUnique, Selected, Recorded,
                                       Binding
      <4> QED BY <4>4 DEF u
    <3> QED BY <3>3, <3>4 DEF s, Link
  <2>5. SelectionAt(r.track, n + 1)' = r.id
    <3>1. r.id \in Selected(r.track)' /\ selections'[r.id].selected.generation = n + 1
      BY <2>1, <2>2, <2>3
    <3>2. SelectionAt(r.track, n + 1)' \in Selected(r.track)'
          /\ selections'[SelectionAt(r.track, n + 1)'].selected.generation = n + 1
      BY <3>1 DEF SelectionAt
    <3> QED BY <1>3, <3>1, <3>2 DEF HeadInv, RegistryInv, GenerationsUnique, Selected, Recorded,
                                  Binding
  <2>6. /\ n = current[r.track].generation /\ current'[r.track].generation = n + 1
        /\ current[r.track].id = r.expected.id
        /\ Link(r.id)' = [id |-> r.id, basis |-> current[r.track].id, candidate |-> r.candidate]
    BY <1>3, <2>0, <2>1, <2>3 DEF Link
  <2>7. ChainOf(r.track)' = Append(ChainOf(r.track), Link(r.id)')
    <3>1. ChainOf(r.track)' = [g \in 1..(n + 1) |-> Link(SelectionAt(r.track, g))']
      BY <2>6 DEF ChainOf
    <3>2. ChainOf(r.track) = [g \in 1..n |-> Link(SelectionAt(r.track, g))]
      BY <2>6 DEF ChainOf
    <3>3. \A g \in 1..n : Link(SelectionAt(r.track, g))' = Link(SelectionAt(r.track, g))
      BY <2>1, <2>4, <2>6
    <3>4. Link(SelectionAt(r.track, n + 1))' = Link(r.id)'
      BY <2>5 DEF Link
    <3> QED BY <2>0, <3>1, <3>2, <3>3, <3>4
  <2>8. \A t \in Tracks \ {r.track} : ChainOf(t)' = ChainOf(t)
    BY <2>3, <2>4 DEF ChainOf
  <2>9. /\ chains = [t \in Tracks |-> ChainOf(t)]
        /\ chains' = [t \in Tracks |-> ChainOf(t)']
        /\ \A t \in Tracks : chains[t] = ChainOf(t)
    BY DEF ChainOf
  <2> HIDE DEF chains
  <2>10. \A t \in Tracks : /\ Len(ChainOf(t)) = current[t].generation
                           /\ current[t].generation \in Nat
                           /\ \A g \in 1..current[t].generation :
                                 ChainOf(t)[g].id = SelectionAt(t, g)
    BY <1>3, ChainLinks DEF ChainOf, Link
  <2>11. (IF ChainOf(r.track) = <<>> THEN NoSelection
          ELSE ChainOf(r.track)[Len(ChainOf(r.track))].id) = current[r.track].id
    <3>1. CASE n = 0
      <4>1. current[r.track] = NoHead
        BY <1>3, <2>1, <2>6, <3>1, NoneBound DEF HeadInv, HeadTypeOK
      <4>2. ChainOf(r.track) = <<>>
        BY <2>6, <3>1 DEF ChainOf
      <4> QED BY <4>1, <4>2 DEF NoHead
    <3>2. CASE n # 0
      <4>1. ChainOf(r.track)[n].id = SelectionAt(r.track, n)
        BY <2>0, <2>1, <2>10, <3>2
      <4>2. current[r.track] # NoHead
        BY <2>6, <3>2 DEF NoHead
      <4>3. SelectionAt(r.track, n) = current[r.track].id
        BY <1>3, <2>1, <2>6, <4>2, ChainLinks
      <4>4. Len(ChainOf(r.track)) = n /\ ChainOf(r.track) # <<>>
        BY <2>1, <2>6, <2>10, <3>2
      <4> QED BY <4>1, <4>3, <4>4
    <3> QED BY <3>1, <3>2
  <2>12. ASSUME NEW t \in Tracks, NEW g \in 1..Len(ChainOf(t)) PROVE ChainOf(t)[g].id # r.id
    <3>1. SelectionAt(t, g) \in Selected(t) /\ ChainOf(t)[g].id = SelectionAt(t, g)
      BY <1>3, <2>10, ChainLinks
    <3> QED BY <1>3, <3>1 DEF Selected, Recorded
  <2>13. r.id \in SelectionIds \ Chain!UsedIds
    <3>1. \A t \in Tracks : Chain!UsedBy(t) = {ChainOf(t)[g].id : g \in 1..Len(ChainOf(t))}
      BY DEF Chain!UsedBy, ChainOf
    <3>2. ASSUME NEW t \in Tracks PROVE r.id \notin Chain!UsedBy(t)
      BY <2>12, <3>1
    <3> QED BY <2>1, <3>2 DEF Chain!UsedIds
  <2>14. chains' = [chains EXCEPT ![r.track] =
                      Append(@, [id |-> r.id, basis |-> current[r.track].id,
                                 candidate |-> r.candidate])]
    BY <2>1, <2>6, <2>7, <2>8, <2>9
  <2>15. Chain!HeadOf(r.track) = current[r.track].id
    BY <2>1, <2>9, <2>11 DEF Chain!HeadOf, chains
  <2>16. Chain!Extend(r.track, r.id, r.candidate)
    BY <2>14, <2>15 DEF Chain!Extend, chains
  <2> QED BY <2>1, <2>13, <2>16 DEF Chain!Next
<1>4. ASSUME HeadInv, HeadInv', [HeadNext]_headVars PROVE [Chain!Next]_chains
  BY <1>2, <1>3, <1>4, RecordsKept
<1> QED BY <1>1, <1>4, HeadStarts, HeadKeeps, PTL DEF HeadSpec, ImplementsSelectionChain, Chain!Spec
=============================================================================
