------------------------- MODULE SnapshotLifecycle -------------------------
(***************************************************************************)
(* One repository snapshot of one run, from the revocation of the writers  *)
(* to the deletion of the image: the workspace manager (crates/workspace/  *)
(* src/manager.rs, manager/snapshot_acquisition.rs, snapshot_release.rs),  *)
(* its fsynced cleanup journal (journal.rs), recovery after a crash        *)
(* (recovery.rs) and the daemon's drive of it (apps/daemon/src/recon.rs).  *)
(* The daemon may die between any two durable effects, any call may fail,  *)
(* the source may be edited and the image detached behind its back.        *)
(* An hdiutil process is taken to have ended before recovery looks at what *)
(* it did, and one manager at a time owns the source and its state root.   *)
(***************************************************************************)
EXTENDS Naturals, FiniteSets

CONSTANTS MaxEdits,    \* bound: edits of the source and detaches by another program
          MaxFaults,   \* bound: failing calls and crashes
          MaxClaims    \* bound: renewals of the run's claim

ASSUME BoundsAreNatural == {MaxEdits, MaxFaults, MaxClaims} \subseteq Nat

VARIABLES record,   \* the journal's record of this lease
          disk,     \* the image, its attachment and the mount directory
          source,   \* version of the source's content
          gate,     \* the manager's WriterGate, lost with the process
          worker,   \* typestate of the running call, lost with the process
          run,      \* the Store's claim on the run, and whether it may go on
          log,      \* snapshot lifecycle the Store has committed
          edits, faults

snapshotVars == <<record, disk, source, gate, worker, run, log, edits, faults>>

Capturing == {"WriterRevoked", "CreatePrepared", "CreateOutcomeUnknown"}
Unattached == Capturing \cup {"CreateCleanupRequired", "ImageCaptured"}
Attaching == {"AttachPrepared", "AttachOutcomeUnknown"}
Mounted == {"MountedDetachRequired", "LeaseCommitted", "DetachPrepared", "DetachOutcomeUnknown",
            "DetachedObserved"}
Stages == Unattached \cup Attaching \cup Mounted

NoRecord == [stage |-> "none", unmounted |-> FALSE, mounted |-> FALSE]
NewRecord == [NoRecord EXCEPT !.stage = "WriterRevoked"]

\* A record carries exactly the root identities its stage has observed.
ValidRecord(r) ==
    \/ r.stage \in Unattached /\ ~r.unmounted /\ ~r.mounted
    \/ r.stage \in Attaching /\ r.unmounted /\ ~r.mounted
    \/ r.stage \in Mounted /\ r.unmounted /\ r.mounted

Mixed == MaxEdits + 1   \* content of an image whose source changed while it was copied
NoImage == MaxEdits + 2

Acquisition == {"prepared", "revoking", "revoked", "confirmed", "capture", "creating", "create_done",
                "created", "captured", "mount_dir", "attach", "attach_done", "unattach", "mounted",
                "lease", "leased", "active"}
Release == {"release", "detach_done", "detached", "released", "image_gone", "dir_gone"}
Recovery == {"recovered", "r_prepare", "r_confirm", "r_detach", "r_detach_done", "r_verify", "r_recheck",
             "r_image", "r_mount", "r_remove"}

\* The type of the snapshot's durable and volatile state.
SnapshotTypeOK ==
    /\ record = NoRecord \/ (record.stage \in Stages /\ ValidRecord(record))
    /\ disk \in [image : 0..NoImage, attached : BOOLEAN, dir : BOOLEAN]
    /\ source \in 0..MaxEdits
    /\ gate \in [revoked : BOOLEAN, writers : 0..1]
    /\ worker.pc \in {"off", "idle"} \cup Acquisition \cup Release \cup Recovery
    /\ worker.exit \in {"none", "ok", "unknown", "failed", "not_started"}
    /\ worker.before \in 0..MaxEdits /\ worker.claim \in 0..MaxClaims
    /\ worker.saved = NoRecord \/ worker.saved.stage \in Stages
    /\ run \in [live : BOOLEAN, claim : 0..MaxClaims]
    /\ log \in {"none", "revoked", "leased", "released"}
    /\ edits \in 0..MaxEdits /\ faults \in 0..MaxFaults

Off == [pc |-> "off", exit |-> "none", before |-> 0, began |-> 0, claim |-> 0, saved |-> NoRecord]
ClosedGate == [revoked |-> FALSE, writers |-> 0]

SnapshotInit ==
    /\ record = NoRecord
    /\ disk = [image |-> NoImage, attached |-> FALSE, dir |-> FALSE]
    /\ source = 0
    /\ gate = ClosedGate
    /\ worker = Off
    /\ run = [live |-> TRUE, claim |-> 0]
    /\ log = "none"
    /\ edits = 0 /\ faults = 0

-----------------------------------------------------------------------------
(* Steps                                                                   *)

WorkerAt(pc) == worker.pc = pc
Goto(pc) == worker' = [worker EXCEPT !.pc = pc]
GotoWith(pc, exit) == worker' = [worker EXCEPT !.pc = pc, !.exit = exit]
Stop == worker' = [worker EXCEPT !.pc = "idle", !.exit = "none", !.saved = NoRecord]
Faulty(n) == faults + n <= MaxFaults /\ faults' = faults + n

\* One journal write after n failures: fsynced, or refused, and then the rename may have
\* happened all the same.
Write(r, n, written, refused) ==
    \/ ValidRecord(r) /\ Faulty(n) /\ record' = r /\ written
    \/ Faulty(n + 1) /\ record' \in {record} \cup {q \in {r} : ValidRecord(q)} /\ refused

Erase(n, erased, refused) ==
    \/ Faulty(n) /\ record' = NoRecord /\ erased
    \/ Faulty(n + 1) /\ record' \in {record, NoRecord} /\ refused

Staged(stage) == [record EXCEPT !.stage = stage]

\* A call that is observed, or fails and ends the operation with the journal as it is.
Observe(seen) ==
    \/ Faulty(0) /\ seen
    \/ Faulty(1) /\ Stop

GateRevoked(r) == r.stage \in Capturing

\* Authority is read again before each call.  No call reads it, so losing it after the
\* guard is losing it after the call.
Guard == run.live /\ run.claim = worker.claim

Guarded(call) == IF Guard THEN call ELSE Stop /\ UNCHANGED <<record, faults>>

-----------------------------------------------------------------------------
(* The manager and its writers                                             *)

OpenManager ==
    /\ WorkerAt("off")
    /\ worker' = [Off EXCEPT !.pc = "idle"]
    /\ gate' = [revoked |-> GateRevoked(record), writers |-> 0]
    /\ UNCHANGED <<record, disk, source, run, log, edits, faults>>

AcquireWriter ==
    /\ ~WorkerAt("off") /\ ~gate.revoked /\ gate.writers = 0
    /\ gate' = [gate EXCEPT !.writers = 1]
    /\ UNCHANGED <<record, disk, source, worker, run, log, edits, faults>>

ReleaseWriter ==
    /\ gate.writers = 1
    /\ gate' = [gate EXCEPT !.writers = 0]
    /\ UNCHANGED <<record, disk, source, worker, run, log, edits, faults>>

-----------------------------------------------------------------------------
(* Acquisition                                                             *)

\* refresh_snapshot_claim_handoff renews the claim or finds it fresh; the handoff is
\* PreCapture only while the Store has committed nothing of a snapshot.
PrepareSnapshot ==
    /\ WorkerAt("idle") /\ record = NoRecord /\ run.live /\ log = "none"
    /\ disk.image = NoImage /\ ~disk.dir
    /\ \E claim \in {run.claim, run.claim + 1} \cap 0..MaxClaims :
          /\ run' = [run EXCEPT !.claim = claim]
          /\ worker' = [worker EXCEPT !.pc = "prepared", !.claim = claim]
    /\ UNCHANGED <<record, disk, source, gate, log, edits, faults>>

\* The gate is closed under its mutex, before the source is observed.
RevokeWriters ==
    /\ WorkerAt("prepared")
    /\ IF Guard /\ ~gate.revoked /\ gate.writers = 0
         THEN gate' = [gate EXCEPT !.revoked = TRUE] /\ Goto("revoking")
         ELSE Stop /\ UNCHANGED gate
    /\ UNCHANGED <<record, disk, source, run, log, edits, faults>>

\* Mutant of RevokeWritersInner: the gate is opened again on success as well.
RevokeWritersInnerReopening ==
    /\ WorkerAt("revoking")
    /\ gate' = [gate EXCEPT !.revoked = FALSE]
    /\ Write(NewRecord, 0, worker' = [worker EXCEPT !.pc = "revoked", !.before = source], Stop)
    /\ UNCHANGED <<disk, source, run, log, edits>>

RevokeWritersInner ==
    /\ WorkerAt("revoking")
    /\ Write(NewRecord, 0,
             worker' = [worker EXCEPT !.pc = "revoked", !.before = source] /\ UNCHANGED gate,
             Stop /\ gate' = [gate EXCEPT !.revoked = FALSE])
    /\ UNCHANGED <<disk, source, run, log, edits>>

\* An event is appended, or refused; a refused answer may still have been committed.
AppendEvent(event, appended) ==
    \/ Guard /\ Faulty(0) /\ log' = event /\ appended
    \/ Guard /\ Faulty(1) /\ log' \in {log, event} /\ Stop
    \/ ~Guard /\ Faulty(0) /\ UNCHANGED log /\ Stop

AppendRevoked ==
    /\ WorkerAt("revoked") /\ AppendEvent("revoked", Goto("confirmed"))
    /\ UNCHANGED <<record, disk, source, gate, run, edits>>

PrepareCapture ==
    /\ WorkerAt("confirmed") /\ Guarded(Write(Staged("CreatePrepared"), 0, Goto("capture"), Stop))
    /\ UNCHANGED <<disk, source, gate, run, log, edits>>

BeginCreate ==
    /\ WorkerAt("capture")
    /\ Guarded(Faulty(0) /\ worker' = [worker EXCEPT !.pc = "creating", !.began = source]
               /\ UNCHANGED record)
    /\ UNCHANGED <<disk, source, gate, run, log, edits>>

\* hdiutil create ends: it succeeded, it never started, its outcome is unknown or it failed.
Create ==
    /\ WorkerAt("creating")
    /\ LET copied == IF source = worker.began THEN source ELSE Mixed
       IN  \/ Faulty(0) /\ disk' = [disk EXCEPT !.image = copied] /\ GotoWith("create_done", "ok")
           \/ Faulty(1) /\ UNCHANGED disk /\ GotoWith("create_done", "not_started")
           \/ /\ Faulty(1) /\ disk' \in {disk, [disk EXCEPT !.image = Mixed]}
              /\ \E exit \in {"unknown", "failed"} : GotoWith("create_done", exit)
    /\ UNCHANGED <<record, source, gate, run, log, edits>>

ResumeWriters == gate' = [gate EXCEPT !.revoked = FALSE]

CreateDone ==
    /\ WorkerAt("create_done")
    /\ \/ worker.exit = "ok" /\ Faulty(0) /\ Goto("created") /\ UNCHANGED <<record, gate>>
       \/ worker.exit = "not_started" /\ Erase(0, Stop /\ ResumeWriters, Stop /\ UNCHANGED gate)
       \/ worker.exit = "unknown" /\ UNCHANGED gate /\ Write(Staged("CreateOutcomeUnknown"), 0, Stop, Stop)
       \/ /\ worker.exit = "failed"
          /\ Write(Staged("CreateCleanupRequired"), 0, Stop /\ ResumeWriters, Stop /\ UNCHANGED gate)
    /\ UNCHANGED <<disk, source, run, log, edits>>

SourceUnchanged == source = worker.before

\* The image is hashed and the source observed again; a failure here is not journaled.
FinishCapture ==
    /\ WorkerAt("created")
    /\ \/ Faulty(1) /\ Stop /\ UNCHANGED <<record, gate>>
       \/ IF SourceUnchanged
            THEN Write(Staged("ImageCaptured"), 0, Goto("captured") /\ ResumeWriters, Stop /\ UNCHANGED gate)
            ELSE Write(Staged("CreateCleanupRequired"), 0, Stop /\ ResumeWriters, Stop /\ UNCHANGED gate)
    /\ UNCHANGED <<disk, source, run, log, edits>>

\* The mount directory is made before AttachPrepared is journaled.
MakeMountDirectory ==
    /\ WorkerAt("captured")
    /\ Guarded(Observe(Goto("mount_dir")) /\ UNCHANGED record)
    /\ disk' = [disk EXCEPT !.dir = worker'.pc = "mount_dir"]
    /\ UNCHANGED <<source, gate, run, log, edits>>

\* When the journal refuses, the directory is removed again, if that succeeds.
PrepareAttach ==
    /\ WorkerAt("mount_dir")
    /\ Write([record EXCEPT !.stage = "AttachPrepared", !.unmounted = TRUE], 0,
             Goto("attach") /\ UNCHANGED disk,
             Stop /\ \E left \in BOOLEAN : disk' = [disk EXCEPT !.dir = left])
    /\ UNCHANGED <<source, gate, run, log, edits>>

\* hdiutil attach; a nonzero exit is not told from an unknown outcome.
Attach ==
    /\ WorkerAt("attach")
    /\ IF Guard
         THEN \/ Faulty(0) /\ disk' = [disk EXCEPT !.attached = TRUE] /\ GotoWith("attach_done", "ok")
              \/ Faulty(1) /\ UNCHANGED disk /\ GotoWith("attach_done", "not_started")
              \/ /\ Faulty(1) /\ GotoWith("attach_done", "unknown")
                 /\ \E there \in BOOLEAN : disk' = [disk EXCEPT !.attached = there]
         ELSE Stop /\ UNCHANGED <<disk, faults>>
    /\ UNCHANGED <<record, source, gate, run, log, edits>>

\* What cannot be decoded or is not mounted read-only has an unknown outcome.
AttachDone ==
    /\ WorkerAt("attach_done")
    /\ \/ /\ worker.exit = "not_started" /\ Faulty(0)
          /\ disk' = [disk EXCEPT !.dir = FALSE] /\ Goto("unattach") /\ UNCHANGED record
       \/ /\ UNCHANGED disk
          /\ \/ worker.exit = "unknown" /\ Write(Staged("AttachOutcomeUnknown"), 0, Stop, Stop)
             \/ worker.exit = "ok" /\ Faulty(1) /\ Stop /\ UNCHANGED record
             \/ /\ worker.exit = "ok"
                /\ IF disk.attached
                     THEN Write([record EXCEPT !.stage = "MountedDetachRequired", !.mounted = TRUE], 0,
                                Goto("mounted"), Stop)
                     ELSE Write(Staged("AttachOutcomeUnknown"), 0, Stop, Stop)
    /\ UNCHANGED <<source, gate, run, log, edits>>

AttachNotStarted ==
    /\ WorkerAt("unattach")
    /\ Write([record EXCEPT !.stage = "ImageCaptured", !.unmounted = FALSE], 0, Stop, Stop)
    /\ UNCHANGED <<disk, source, gate, run, log, edits>>

\* The mounted manifest must equal the source's after the capture.
ObserveMounted ==
    /\ WorkerAt("mounted")
    /\ Observe(IF disk.attached /\ disk.image = worker.before THEN Goto("lease") ELSE Stop)
    /\ UNCHANGED <<record, disk, source, gate, run, log, edits>>

AppendLease ==
    /\ WorkerAt("lease") /\ AppendEvent("leased", Goto("leased"))
    /\ UNCHANGED <<record, disk, source, gate, run, edits>>

ActivateSnapshotLease ==
    /\ WorkerAt("leased") /\ Write(Staged("LeaseCommitted"), 0, Goto("active"), Stop)
    /\ UNCHANGED <<disk, source, gate, run, log, edits>>

-----------------------------------------------------------------------------
(* Release                                                                 *)

\* The claim is refreshed once more; the lease can only be rebound from the claim it was
\* last bound to, so a renewal in between makes the release a matter of recovery.
PrepareRelease ==
    /\ WorkerAt("active")
    /\ IF Guard /\ log = "leased"
         THEN \E claim \in {run.claim, run.claim + 1} \cap 0..MaxClaims :
                 /\ run' = [run EXCEPT !.claim = claim]
                 /\ Write(Staged("DetachPrepared"), 0,
                          worker' = [worker EXCEPT !.pc = "release", !.claim = claim], Stop)
         ELSE Stop /\ UNCHANGED <<record, run, faults>>
    /\ UNCHANGED <<disk, source, gate, log, edits>>

\* hdiutil detach; a nonzero exit is not told from an unknown outcome.
DetachTo(pc) ==
    \/ Faulty(0) /\ disk' = [disk EXCEPT !.attached = FALSE] /\ GotoWith(pc, "ok")
    \/ Faulty(1) /\ UNCHANGED disk /\ GotoWith(pc, "not_started")
    \/ /\ Faulty(1) /\ GotoWith(pc, "unknown")
       /\ \E there \in {FALSE, disk.attached} : disk' = [disk EXCEPT !.attached = there]

Detach ==
    /\ WorkerAt("release")
    /\ IF Guard THEN DetachTo("detach_done") ELSE Stop /\ UNCHANGED <<disk, faults>>
    /\ UNCHANGED <<record, source, gate, run, log, edits>>

\* Mutant of DetachDone: the release is confirmed before the Store has committed it.
DetachDoneUnappended ==
    /\ WorkerAt("detach_done")
    /\ \/ worker.exit = "not_started" /\ Write(Staged("LeaseCommitted"), 0, Stop, Stop)
       \/ worker.exit = "unknown" /\ Write(Staged("DetachOutcomeUnknown"), 0, Stop, Stop)
       \/ worker.exit = "ok" /\ Faulty(1) /\ Stop /\ UNCHANGED record
       \/ worker.exit = "ok" /\ Write(Staged("DetachedObserved"), 0, Goto("released"), Stop)
    /\ UNCHANGED <<disk, source, gate, run, log, edits>>

\* A detach that reports success is believed only once the mount is seen to be gone.
DetachDone ==
    /\ WorkerAt("detach_done")
    /\ \/ worker.exit = "not_started" /\ Write(Staged("LeaseCommitted"), 0, Stop, Stop)
       \/ worker.exit = "unknown" /\ Write(Staged("DetachOutcomeUnknown"), 0, Stop, Stop)
       \/ worker.exit = "ok" /\ Faulty(1) /\ Stop /\ UNCHANGED record
       \/ worker.exit = "ok" /\ Write(Staged("DetachedObserved"), 0, Goto("detached"), Stop)
    /\ UNCHANGED <<disk, source, gate, run, log, edits>>

AppendReleased ==
    /\ WorkerAt("detached") /\ AppendEvent("released", Goto("released"))
    /\ UNCHANGED <<record, disk, source, gate, run, edits>>

\* confirm_release: the image, the mount directory, then the record.
DeleteImage(pc, next) ==
    /\ WorkerAt(pc) /\ Observe(Goto(next))
    /\ disk' = IF worker'.pc = next THEN [disk EXCEPT !.image = NoImage] ELSE disk
    /\ UNCHANGED <<record, source, gate, run, log, edits>>

DeleteDirectory(pc, next) ==
    /\ WorkerAt(pc) /\ Observe(Goto(next))
    /\ disk' = IF worker'.pc = next THEN [disk EXCEPT !.dir = FALSE] ELSE disk
    /\ UNCHANGED <<record, source, gate, run, log, edits>>

ConfirmRelease ==
    \/ DeleteImage("released", "image_gone")
    \/ DeleteDirectory("image_gone", "dir_gone")
    \/ /\ WorkerAt("dir_gone") /\ Erase(0, Stop, Stop)
       /\ UNCHANGED <<disk, source, gate, run, log, edits>>

-----------------------------------------------------------------------------
(* Recovery, under the journal's exclusive lock                            *)

\* What is on disk is what a record of this stage can own; a mount directory that no
\* record has observed, a mount or an image of an earlier stage, is not.
Attestable ==
    /\ disk.attached => record.stage \notin Unattached
    /\ ~disk.attached /\ ~record.unmounted => ~disk.dir
    /\ record.stage = "WriterRevoked" => disk.image = NoImage

\* AbandonForFreshCapture, from the first inspection.
Abandon ==
    /\ WorkerAt("idle") /\ record # NoRecord
    /\ Observe(IF ~Attestable THEN Stop
               ELSE IF disk.attached THEN Goto("r_prepare") ELSE Goto("r_recheck"))
    /\ UNCHANGED <<record, disk, source, gate, run, log, edits>>

\* ResumeCommittedLease: the committed lease, its image and its mount are all still there.
Resumable ==
    /\ record.stage \in Mounted \ {"DetachedObserved"} /\ log = "leased"
    /\ disk.attached /\ disk.image # NoImage

ResumeCommittedLease ==
    /\ WorkerAt("idle") /\ record # NoRecord /\ Resumable
    /\ Write(Staged("LeaseCommitted"), 0, Goto("recovered"), Stop)
    /\ UNCHANGED <<disk, source, gate, run, log, edits>>

\* bind_recovered_snapshot_lease, with the Store's ActiveLease handoff.
BindRecovered ==
    /\ WorkerAt("recovered")
    /\ IF run.live /\ log = "leased" THEN worker' = [worker EXCEPT !.pc = "active", !.claim = run.claim,
                                                                   !.before = disk.image]
                                     ELSE Stop
    /\ UNCHANGED <<record, disk, source, gate, run, log, edits, faults>>

\* The detach is journaled, then the topology is confirmed once more.
RecoveryPrepareDetach ==
    /\ WorkerAt("r_prepare")
    /\ Write([record EXCEPT !.stage = "DetachPrepared", !.mounted = TRUE], 0,
             worker' = [worker EXCEPT !.pc = "r_confirm", !.saved = record], Stop)
    /\ UNCHANGED <<disk, source, gate, run, log, edits>>

RecoveryConfirm ==
    /\ WorkerAt("r_confirm")
    /\ \/ disk.attached /\ Faulty(0) /\ Goto("r_detach") /\ UNCHANGED record
       \/ ~disk.attached /\ Write(worker.saved, 0, Stop, Stop)
       \/ Write(worker.saved, 1, Stop, Stop)
    /\ UNCHANGED <<disk, source, gate, run, log, edits>>

RecoveryDetach ==
    /\ WorkerAt("r_detach") /\ DetachTo("r_detach_done")
    /\ UNCHANGED <<record, source, gate, run, log, edits>>

RecoveryDetachDone ==
    /\ WorkerAt("r_detach_done")
    /\ \/ worker.exit = "not_started" /\ Write(worker.saved, 0, Stop, Stop)
       \/ worker.exit = "unknown" /\ Write(Staged("DetachOutcomeUnknown"), 0, Stop, Stop)
       \/ worker.exit = "ok" /\ Faulty(0) /\ Goto("r_verify") /\ UNCHANGED record
    /\ UNCHANGED <<disk, source, gate, run, log, edits>>

RecoveryVerify ==
    /\ WorkerAt("r_verify")
    /\ \/ Write(Staged("DetachedObserved"), 0, Goto("r_image"), Stop)
       \/ Write(Staged("DetachOutcomeUnknown"), 1, Stop, Stop)
    /\ UNCHANGED <<disk, source, gate, run, log, edits>>

RecoveryRecheck ==
    /\ WorkerAt("r_recheck") /\ Observe(Goto("r_image"))
    /\ UNCHANGED <<record, disk, source, gate, run, log, edits>>

\* The image, the directory and last the record go; the gate follows the journal.
RecoveryRemove ==
    \/ DeleteImage("r_image", "r_mount")
    \/ DeleteDirectory("r_mount", "r_remove")
    \/ /\ WorkerAt("r_remove")
       /\ Erase(0, Stop /\ gate' = [gate EXCEPT !.revoked = FALSE], Stop /\ UNCHANGED gate)
       /\ UNCHANGED <<disk, source, run, log, edits>>

-----------------------------------------------------------------------------
(* The world                                                               *)

\* The process ends, with everything it holds in memory.
CrashManager ==
    /\ ~WorkerAt("off") /\ Faulty(1)
    /\ worker' = Off /\ gate' = ClosedGate
    /\ IF WorkerAt("creating") THEN disk' \in {disk, [disk EXCEPT !.image = Mixed]} ELSE UNCHANGED disk
    /\ UNCHANGED <<record, source, run, log, edits>>

World ==
    \/ /\ edits < MaxEdits /\ edits' = edits + 1
       /\ \/ source' = source + 1 /\ UNCHANGED disk
          \/ disk.attached /\ disk' = [disk EXCEPT !.attached = FALSE] /\ UNCHANGED source
       /\ UNCHANGED <<record, gate, worker, run, log, faults>>
    \/ /\ run.live
       /\ run' \in {[run EXCEPT !.live = FALSE]}
                    \cup (IF run.claim < MaxClaims THEN {[run EXCEPT !.claim = @ + 1]} ELSE {})
       /\ UNCHANGED <<record, disk, source, gate, worker, log, edits, faults>>

Acquire ==
    \/ PrepareSnapshot \/ RevokeWriters \/ RevokeWritersInner \/ AppendRevoked \/ PrepareCapture
    \/ BeginCreate \/ Create \/ CreateDone \/ FinishCapture \/ MakeMountDirectory \/ PrepareAttach
    \/ Attach \/ AttachDone \/ AttachNotStarted \/ ObserveMounted \/ AppendLease \/ ActivateSnapshotLease

ReleaseStep == PrepareRelease \/ Detach \/ DetachDone \/ AppendReleased \/ ConfirmRelease

Recover ==
    \/ Abandon \/ RecoveryPrepareDetach \/ RecoveryConfirm \/ RecoveryDetach \/ RecoveryDetachDone
    \/ RecoveryVerify \/ RecoveryRecheck \/ RecoveryRemove

SnapshotNext ==
    \/ OpenManager \/ AcquireWriter \/ ReleaseWriter \/ Acquire \/ ReleaseStep \/ Recover
    \/ ResumeCommittedLease \/ BindRecovered \/ CrashManager \/ World

SnapshotSpec == SnapshotInit /\ [][SnapshotNext]_snapshotVars

\* The daemon runs while it can, and whoever opens the manager ends by abandoning what it
\* finds: SF, since it may first try to resume a lease it can no longer bind.
SnapshotFairness ==
    /\ WF_snapshotVars(OpenManager) /\ WF_snapshotVars(Acquire) /\ WF_snapshotVars(ReleaseStep)
    /\ WF_snapshotVars(BindRecovered) /\ SF_snapshotVars(Recover)

SnapshotLiveSpec == SnapshotSpec /\ SnapshotFairness

-----------------------------------------------------------------------------
(* Properties                                                              *)

\* Whatever is on disk is found through the journal: no image, mount or directory without
\* a record, and none that its record's stage is too early to own; the one exception is the
\* directory prepare_attach makes before it journals it.
JournalCoversDisk ==
    /\ record = NoRecord => disk.image = NoImage /\ ~disk.dir /\ ~disk.attached
    /\ disk.image # NoImage => record.stage # "WriterRevoked"
    /\ disk.attached => record.stage \notin Unattached
    /\ disk.dir /\ record.stage \in Unattached => record.stage = "ImageCaptured"

\* While hdiutil may be copying the source, and until recovery has looked at what an
\* interrupted copy left, no cooperative writer holds a permit (WriterGate, rebuilt from
\* the journal by open).
WritersStayOut ==
    record.stage \in {"CreatePrepared", "CreateOutcomeUnknown"} \/ WorkerAt("creating") => gate.writers = 0

\* An image that was admitted is one version of the source, the one that was observed
\* before the writers left; a lease is only ever committed on such an image.
LeasedIsOneVersion ==
    /\ record.stage \in {"ImageCaptured"} \cup Attaching \cup Mounted => disk.image # Mixed
    /\ log = "leased" /\ WorkerAt("active") => disk.image = worker.before

\* A release the Store has committed is true: the image is detached for good.
ReleasedIsUnmounted ==
    log = "released" \/ record.stage = "DetachedObserved" => ~disk.attached

\* The journal, the disk, the gate and the Store agree, whichever call failed or was cut.
SnapshotIsSound ==
    SnapshotTypeOK /\ JournalCoversDisk /\ WritersStayOut /\ LeasedIsOneVersion /\ ReleasedIsUnmounted

\* The image outlives the lease: outside recovery's abandonment, it is deleted only after
\* the Store has committed the release.
ImageOutlivesLease ==
    [][disk.image # NoImage /\ disk'.image = NoImage /\ ~WorkerAt("r_image") => log = "released"]_snapshotVars

\* Recovery under AbandonForFreshCapture ends with nothing left, from every crash cut but
\* one: a mount directory made and never journaled is refused as UnexpectedMountPath.
Stranded == record.stage = "ImageCaptured" /\ disk.dir

Recovered == record = NoRecord \/ Stranded \/ WorkerAt("active")
RecoveryCompletes == record # NoRecord ~> Recovered
=============================================================================

