---------------------- MODULE SnapshotLifecycle_proofs ----------------------
(***************************************************************************)
(* Proofs about one repository snapshot: the journal finds whatever is on  *)
(* disk, the writers stay out of a copy, a lease is of one version, and a  *)
(* release the Store has committed is true, whichever call fails and       *)
(* wherever the daemon dies, for any number of edits, faults and renewals. *)
(***************************************************************************)
EXTENDS SnapshotLifecycle, TLAPS

Records == [stage : Stages \cup {"none"}, unmounted : BOOLEAN, mounted : BOOLEAN]
PCs == {"off", "idle"} \cup Acquisition \cup Release \cup Recovery
Exits == {"none", "ok", "unknown", "failed", "not_started"}
Workers == [pc : PCs, exit : Exits, before : 0..MaxEdits, began : 0..MaxEdits,
            claim : 0..MaxClaims, saved : Records]
Disks == [image : 0..NoImage, attached : BOOLEAN, dir : BOOLEAN]
Gates == [revoked : BOOLEAN, writers : 0..1]
Claims == [live : BOOLEAN, claim : 0..MaxClaims]
Events == {"none", "revoked", "leased", "released"}

\* The types, with every field; the source is as old as the edits made to it.
SnapshotShape ==
    /\ record \in Records /\ (record = NoRecord \/ (record.stage \in Stages /\ ValidRecord(record)))
    /\ disk \in Disks
    /\ gate \in Gates
    /\ worker \in Workers /\ (worker.saved = NoRecord \/ worker.saved.stage \in Stages)
    /\ run \in Claims
    /\ log \in Events
    /\ edits \in 0..MaxEdits /\ source \in 0..edits /\ faults \in 0..MaxFaults

Resting == Attaching \cup (Mounted \ {"DetachedObserved"})
Copying == {"creating", "create_done", "created"}
Closed == {"revoking", "revoked", "confirmed", "capture"} \cup Copying

\* The stage the journal is at while the manager is at each point of an operation.
RecordFollows ==
    /\ worker.pc \in {"prepared", "revoking"} => record.stage = "none"
    /\ worker.pc \in {"revoked", "confirmed"} => record.stage = "WriterRevoked"
    /\ worker.pc \in {"capture"} \cup Copying => record.stage = "CreatePrepared"
    /\ worker.pc \in {"captured", "mount_dir"} => record.stage = "ImageCaptured"
    /\ worker.pc \in {"attach", "attach_done", "unattach"} => record.stage = "AttachPrepared"
    /\ worker.pc \in {"mounted", "lease", "leased"} => record.stage = "MountedDetachRequired"
    /\ worker.pc \in {"active", "recovered"} => record.stage = "LeaseCommitted"
    /\ worker.pc \in {"release", "detach_done"} => record.stage = "DetachPrepared"
    /\ worker.pc \in {"detached", "released", "image_gone", "dir_gone"} => record.stage = "DetachedObserved"
    /\ worker.pc = "r_prepare" => record.stage \in Resting
    /\ worker.pc \in {"r_confirm", "r_detach", "r_detach_done"} =>
          record.stage = "DetachPrepared" /\ worker.saved.stage \in Resting
    /\ worker.pc = "r_verify" => record.stage = "DetachPrepared"

\* What is known of the image, the mount and the directory there.
DiskFollows ==
    /\ worker.pc \in {"capture", "creating"} => disk.image = NoImage
    /\ worker.pc = "create_done" /\ worker.exit = "not_started" => disk.image = NoImage
    /\ worker.pc \in {"attach", "unattach", "r_verify", "r_recheck", "r_image", "r_mount", "r_remove"} =>
          ~disk.attached
    /\ worker.pc = "attach_done" /\ worker.exit = "not_started" => ~disk.attached
    /\ worker.pc \in {"detach_done", "r_detach_done"} /\ worker.exit = "ok" => ~disk.attached
    /\ worker.pc \in {"image_gone", "dir_gone", "r_mount", "r_remove"} => disk.image = NoImage
    /\ worker.pc \in {"dir_gone", "r_remove"} => ~disk.dir
    /\ worker.pc = "recovered" => disk.image \in 0..MaxEdits

\* What the Store has committed there.
LogFollows ==
    /\ worker.pc \in {"prepared", "revoking", "revoked"} => log = "none"
    /\ worker.pc \in {"confirmed", "capture", "captured", "mount_dir", "attach", "attach_done", "unattach",
                      "mounted", "lease"} \cup Copying => log = "revoked"
    /\ worker.pc \in {"leased", "active", "release", "detach_done", "detached"} => log = "leased"
    /\ worker.pc \in {"released", "image_gone", "dir_gone"} => log = "released"

\* The gate is closed from the revocation until the copy has been judged, and by a manager
\* that opens on a journal that says so.
GateFollows ==
    /\ worker.pc \in Closed => gate.revoked
    /\ gate.revoked => gate.writers = 0
    /\ worker.pc = "off" => gate.writers = 0
    /\ record.stage \in {"CreatePrepared", "CreateOutcomeUnknown"} => gate.revoked \/ worker.pc = "off"

\* What the version observed before the writers left has to do with the image.
VersionFollows ==
    /\ worker.pc \in {"revoked", "confirmed", "capture"} \cup Copying => worker.before <= source
    /\ worker.pc = "creating" => worker.before <= worker.began /\ worker.began <= source
    /\ worker.pc = "created" \/ (worker.pc = "create_done" /\ worker.exit = "ok") =>
          (source = worker.before => disk.image = worker.before)
    /\ worker.pc \in {"lease", "leased", "active"} => disk.image = worker.before
    /\ record.stage \in {"ImageCaptured"} \cup Attaching \cup Mounted => disk.image # Mixed

SnapshotInv ==
    /\ SnapshotShape /\ JournalCoversDisk /\ ReleasedIsUnmounted
    /\ RecordFollows /\ DiskFollows /\ LogFollows /\ GateFollows /\ VersionFollows

-----------------------------------------------------------------------------
(* Steps of a call                                                         *)

\* The control point a call leaves the manager at, with what it observed before.
GoesTo(pc, exit) ==
    /\ worker' \in Workers /\ worker'.pc = pc /\ worker'.exit = exit
    /\ worker'.before = worker.before /\ worker'.began = worker.began /\ worker'.saved = worker.saved
\* The operation is over, whatever came of it.
Stops == worker' \in Workers /\ worker'.pc = "idle" /\ worker'.saved = NoRecord
\* A revocation notes the version it was asked at.
Revoked(pc) ==
    /\ worker' \in Workers /\ worker'.pc = pc /\ worker'.before = source /\ worker'.saved = worker.saved

\* The copy begins at the version of its first read, a lease is bound to what the image holds,
\* a recovery keeps the record it read, and the daemon dies.
Begun ==
    /\ worker' \in Workers /\ worker'.pc = "creating" /\ worker'.began = source
    /\ worker'.before = worker.before /\ worker'.saved = worker.saved
Rebound ==
    /\ worker' \in Workers /\ worker'.pc = "active" /\ worker'.before = disk.image /\ worker'.saved = worker.saved
SavedRecord == worker' \in Workers /\ worker'.pc = "r_confirm" /\ worker'.saved = record
\* The gate with its writers.
GateBecomes(closed, n) ==
    gate' \in Gates /\ gate'.revoked = closed /\ gate'.writers = n
Gone == worker' \in Workers /\ worker'.pc = "off" /\ worker'.saved = NoRecord

\* The disk after an effect on one part of it.
ImageBecomes(image) == disk' \in Disks /\ disk' = [image |-> image, attached |-> disk.attached, dir |-> disk.dir]
AttachedBecomes(attached) == disk' \in Disks /\ disk' = [image |-> disk.image, attached |-> attached, dir |-> disk.dir]
DirBecomes(dir) == disk' \in Disks /\ disk' = [image |-> disk.image, attached |-> disk.attached, dir |-> dir]

\* The version at which the copy begins.
LEMMA CopyBegins ==
    ASSUME SnapshotShape, worker' = [worker EXCEPT !.pc = "creating", !.began = source]
    PROVE  Begun
<1>1. "creating" \in PCs /\ source \in 0..MaxEdits
  BY BoundsAreNatural DEF PCs, Acquisition, SnapshotShape
<1>2. QED
  BY <1>1 DEF SnapshotShape, Workers, Begun

\* The gate is closed or open, with or without a writer.
LEMMA GateEffects ==
    /\ gate' = ClosedGate => GateBecomes(FALSE, 0)
    /\ \A closed \in BOOLEAN : gate' = [revoked |-> closed, writers |-> 0] => GateBecomes(closed, 0)
    /\ SnapshotShape => \A closed \in BOOLEAN :
          gate' = [gate EXCEPT !.revoked = closed] => GateBecomes(closed, gate.writers)
    /\ SnapshotShape => \A n \in 0..1 :
          gate' = [gate EXCEPT !.writers = n] => GateBecomes(gate.revoked, n)
<1>1. 0 \in 0..1 /\ FALSE \in BOOLEAN
  OBVIOUS
<1>2. gate' = ClosedGate => GateBecomes(FALSE, 0)
  BY <1>1 DEF ClosedGate, GateBecomes, Gates
<1>3. \A closed \in BOOLEAN : gate' = [revoked |-> closed, writers |-> 0] => GateBecomes(closed, 0)
  BY <1>1 DEF GateBecomes, Gates
<1>4. SnapshotShape => \A closed \in BOOLEAN :
          gate' = [gate EXCEPT !.revoked = closed] => GateBecomes(closed, gate.writers)
  BY DEF SnapshotShape, GateBecomes, Gates
<1>5. SnapshotShape => \A n \in 0..1 :
          gate' = [gate EXCEPT !.writers = n] => GateBecomes(gate.revoked, n)
  BY DEF SnapshotShape, GateBecomes, Gates
<1>6. QED
  BY <1>2, <1>3, <1>4, <1>5

\* Effects on the disk are effects on one part of it.
LEMMA Effects ==
    ASSUME SnapshotShape
    PROVE  /\ \A image \in 0..NoImage : disk' = [disk EXCEPT !.image = image] => ImageBecomes(image)
           /\ \A attached \in BOOLEAN : disk' = [disk EXCEPT !.attached = attached] => AttachedBecomes(attached)
           /\ \A dir \in BOOLEAN : disk' = [disk EXCEPT !.dir = dir] => DirBecomes(dir)
BY DEF SnapshotShape, Disks, ImageBecomes, AttachedBecomes, DirBecomes

\* Goto, GotoWith and Stop change the control point and nothing a call observed.
LEMMA Control ==
    ASSUME worker \in Workers
    PROVE  /\ \A pc \in PCs : Goto(pc) => GoesTo(pc, worker.exit)
           /\ \A pc \in PCs, exit \in Exits : GotoWith(pc, exit) => GoesTo(pc, exit)
           /\ Stop => Stops
<1>1. NoRecord \in Records
  BY DEF NoRecord, Records
<1>2. \A pc \in PCs : Goto(pc) => GoesTo(pc, worker.exit)
  BY DEF Goto, GoesTo, Workers
<1>3. \A pc \in PCs, exit \in Exits : GotoWith(pc, exit) => GoesTo(pc, exit)
  BY DEF GotoWith, GoesTo, Workers
<1>4. Stop => Stops
  <2>1. "idle" \in PCs /\ "none" \in Exits
    BY DEF PCs, Exits
  <2>2. QED
    BY <1>1, <2>1 DEF Stop, Stops, Workers
<1>5. QED
  BY <1>2, <1>3, <1>4

\* There is a record for no record.
LEMMA NoRecordIsRecord == NoRecord \in Records /\ NoRecord.stage = "none"
BY DEF NoRecord, Records

\* A manager that is opened, and one that is gone.
LEMMA Processes ==
    /\ worker' = [Off EXCEPT !.pc = "idle"] => Stops
    /\ worker' = Off => Gone
<1>1. {"off", "idle"} \subseteq PCs /\ "none" \in Exits
  BY DEF PCs, Exits
<1>2. QED
  BY <1>1, NoRecordIsRecord, BoundsAreNatural DEF Off, Workers, Stops, Gone

\* The version observed when the writers have left.
LEMMA VersionTaken ==
    ASSUME SnapshotShape, worker' = [worker EXCEPT !.pc = "revoked", !.before = source]
    PROVE  Revoked("revoked")
<1>1. "revoked" \in PCs /\ source \in 0..MaxEdits
  BY BoundsAreNatural DEF PCs, Acquisition, SnapshotShape
<1>2. QED
  BY <1>1 DEF SnapshotShape, Workers, Revoked

\* The journal's record after a write of this stage; every such record is valid.
Recorded(stage) ==
    record' \in Records /\ record'.stage = stage /\ record'.stage \in Stages /\ ValidRecord(record')

\* What Write and Staged make of a record.
LEMMA Journaled ==
    ASSUME record \in Records
    PROVE  /\ \A stage \in Stages :
                 ValidRecord(Staged(stage)) /\ record' = Staged(stage) => Recorded(stage)
           /\ \A there \in BOOLEAN, stage \in Stages :
                 LET r == [record EXCEPT !.stage = stage, !.unmounted = there]
                 IN  ValidRecord(r) /\ record' = r => Recorded(stage)
           /\ \A there \in BOOLEAN, stage \in Stages :
                 LET r == [record EXCEPT !.stage = stage, !.mounted = there]
                 IN  ValidRecord(r) /\ record' = r => Recorded(stage)
           /\ ValidRecord(NewRecord) /\ record' = NewRecord => Recorded("WriterRevoked")
<1>1. NewRecord \in Records /\ NewRecord.stage = "WriterRevoked" /\ "WriterRevoked" \in Stages
  BY DEF NewRecord, NoRecord, Records, Stages, Unattached, Capturing
<1>2. QED
  BY <1>1 DEF Staged, Records, Recorded

\* The types survive when each part keeps its own.
LEMMA ShapeKept ==
    ASSUME SnapshotShape,
           \/ record' = record \/ record' = NoRecord
           \/ record' \in Records /\ record'.stage \in Stages /\ ValidRecord(record'),
           \/ worker' = worker
           \/ /\ worker' \in Workers
              /\ worker'.saved \in {NoRecord, worker.saved} \/ worker'.saved.stage \in Stages,
           disk' = disk \/ disk' \in Disks,
           gate' = gate \/ gate' = [gate EXCEPT !.revoked = FALSE] \/ gate' \in Gates,
           run' = run \/ run' \in Claims,
           log' = log \/ log' \in Events,
           UNCHANGED <<source, edits>>, faults' \in 0..MaxFaults
    PROVE  SnapshotShape'
<1>1. record' \in Records /\ (record' = NoRecord \/ (record'.stage \in Stages /\ ValidRecord(record')))
  BY NoRecordIsRecord DEF SnapshotShape
<1>2. worker' \in Workers /\ (worker'.saved = NoRecord \/ worker'.saved.stage \in Stages)
  BY DEF SnapshotShape
<1>3. gate' \in Gates
  BY DEF SnapshotShape, Gates
<1>4. disk' \in Disks /\ run' \in Claims /\ log' \in Events
  BY DEF SnapshotShape
<1>5. QED
  BY <1>1, <1>2, <1>3, <1>4 DEF SnapshotShape

\* What recovery restores is a record of a stage that may have a mount.
LEMMA Restored ==
    ASSUME SnapshotShape, worker.saved.stage \in Resting, record' = worker.saved, ValidRecord(worker.saved)
    PROVE  \E stage \in Resting : Recorded(stage)
BY DEF SnapshotShape, Workers, Resting, Stages, Attaching, Mounted, Recorded

\* A manager opens on the journal it finds.
LEMMA OpenManagerKeeps ==
    ASSUME SnapshotInv, OpenManager
    PROVE  SnapshotInv'
<1>1. /\ SnapshotShape /\ worker \in Workers /\ record \in Records
      /\ worker.pc = "off"
  BY DEF OpenManager, SnapshotInv, SnapshotShape, WorkerAt, RecordFollows, DiskFollows, LogFollows,
         GateFollows, Copying, Closed
<1>3. faults' \in 0..MaxFaults /\ UNCHANGED <<record, disk, source, run, log, edits>>
  BY <1>1, BoundsAreNatural DEF OpenManager, GateRevoked, SnapshotShape, Claims, Faulty, Write, Erase
<1>4. \/ Stops /\ record.stage \in Capturing /\ GateBecomes(TRUE, 0)
      \/ Stops /\ record.stage \notin Capturing /\ GateBecomes(FALSE, 0)
  <2>1. Stops
    BY Processes DEF OpenManager
  <2>2. gate' = [revoked |-> record.stage \in Capturing, writers |-> 0]
    BY DEF OpenManager, GateRevoked
  <2>3. CASE record.stage \in Capturing
    <3>1. (record.stage \in Capturing) = TRUE
      BY <2>3
    <3>2. QED
      BY <2>1, <2>2, <2>3, <3>1, GateEffects
  <2>4. CASE record.stage \notin Capturing
    <3>1. (record.stage \in Capturing) = FALSE
      BY <2>4
    <3>2. QED
      BY <2>1, <2>2, <2>4, <3>1, GateEffects
  <2>5. QED
    BY <2>3, <2>4
<1>5. SnapshotShape'
  BY <1>1, <1>3, <1>4, ShapeKept DEF GoesTo, Stops, Recorded, ResumeWriters, GateBecomes, Events, Capturing
<1>6. JournalCoversDisk' /\ ReleasedIsUnmounted'
  BY <1>1, <1>3, <1>4
     DEF SnapshotInv, JournalCoversDisk, ReleasedIsUnmounted, DiskFollows, LogFollows, NoRecord, Recorded, Unattached, Capturing, Capturing
<1>7. RecordFollows' /\ LogFollows'
  BY <1>1, <1>3, <1>4 DEF SnapshotInv, RecordFollows, LogFollows, Copying, GoesTo, Stops, Recorded, NoRecord, Capturing
<1>8. DiskFollows'
  BY <1>1, <1>3, <1>4 DEF SnapshotInv, JournalCoversDisk, ReleasedIsUnmounted, DiskFollows, GoesTo, Stops, Recorded, NoRecord,
         Unattached, Capturing, Capturing
<1>9. GateFollows'
  BY <1>1, <1>3, <1>4
     DEF SnapshotInv, SnapshotShape, Gates, GateFollows, Closed, Copying, GoesTo, Stops, ResumeWriters, GateBecomes, NoRecord, Recorded, Capturing
<1>10. VersionFollows'
  BY <1>1, <1>3, <1>4, BoundsAreNatural
     DEF SnapshotInv, SnapshotShape, Disks, VersionFollows, Workers, Copying, GoesTo, Stops, NoRecord, Recorded, Attaching, Mounted, Capturing
<1>11. QED
  BY <1>5, <1>6, <1>7, <1>8, <1>9, <1>10 DEF SnapshotInv


\* A writer enters an open gate.
LEMMA AcquireWriterKeeps ==
    ASSUME SnapshotInv, AcquireWriter
    PROVE  SnapshotInv'
<1>1. /\ SnapshotShape /\ worker \in Workers /\ record \in Records
      /\ worker.pc # "off" /\ ~gate.revoked
  BY DEF AcquireWriter, SnapshotInv, SnapshotShape, WorkerAt, RecordFollows, DiskFollows, LogFollows,
         GateFollows, Copying, Closed
<1>3. faults' \in 0..MaxFaults /\ UNCHANGED <<record, disk, source, worker, run, log, edits>>
  BY <1>1, BoundsAreNatural DEF AcquireWriter, SnapshotShape, Claims, Faulty, Write, Erase
<1>4. \/ GateBecomes(FALSE, 1)
  <2>1. 1 \in 0..1 /\ gate.revoked = FALSE /\ gate' = [gate EXCEPT !.writers = 1]
    BY <1>1 DEF AcquireWriter, SnapshotShape, Gates
  <2>2. QED
    BY <1>1, <2>1, GateEffects
<1>5. SnapshotShape'
  BY <1>1, <1>3, <1>4, ShapeKept DEF GoesTo, Stops, Recorded, ResumeWriters, GateBecomes, Events
<1>6. JournalCoversDisk' /\ ReleasedIsUnmounted'
  BY <1>1, <1>3, <1>4
     DEF SnapshotInv, JournalCoversDisk, ReleasedIsUnmounted, DiskFollows, LogFollows, NoRecord, Recorded, Unattached, Capturing
<1>7. RecordFollows' /\ LogFollows'
  BY <1>1, <1>3, <1>4 DEF SnapshotInv, RecordFollows, LogFollows, Copying, GoesTo, Stops, Recorded, NoRecord
<1>8. DiskFollows'
  BY <1>1, <1>3, <1>4 DEF SnapshotInv, JournalCoversDisk, ReleasedIsUnmounted, DiskFollows, GoesTo, Stops, Recorded, NoRecord,
         Unattached, Capturing
<1>9. GateFollows'
  BY <1>1, <1>3, <1>4
     DEF SnapshotInv, SnapshotShape, Gates, GateFollows, Closed, Copying, GoesTo, Stops, ResumeWriters, GateBecomes, NoRecord, Recorded
<1>10. VersionFollows'
  BY <1>1, <1>3, <1>4, BoundsAreNatural
     DEF SnapshotInv, SnapshotShape, Disks, VersionFollows, Workers, Copying, GoesTo, Stops, NoRecord, Recorded, Attaching, Mounted
<1>11. QED
  BY <1>5, <1>6, <1>7, <1>8, <1>9, <1>10 DEF SnapshotInv


\* A writer leaves.
LEMMA ReleaseWriterKeeps ==
    ASSUME SnapshotInv, ReleaseWriter
    PROVE  SnapshotInv'
<1>1. /\ SnapshotShape /\ worker \in Workers /\ record \in Records
      /\ gate.writers = 1 /\ ~gate.revoked
  BY DEF ReleaseWriter, SnapshotInv, SnapshotShape, WorkerAt, RecordFollows, DiskFollows, LogFollows,
         GateFollows, Copying, Closed
<1>3. faults' \in 0..MaxFaults /\ UNCHANGED <<record, disk, source, worker, run, log, edits>>
  BY <1>1, BoundsAreNatural DEF ReleaseWriter, SnapshotShape, Claims, Faulty, Write, Erase
<1>4. \/ GateBecomes(FALSE, 0)
  <2>1. 0 \in 0..1 /\ gate.revoked = FALSE /\ gate' = [gate EXCEPT !.writers = 0]
    BY <1>1 DEF ReleaseWriter, SnapshotShape, Gates
  <2>2. QED
    BY <1>1, <2>1, GateEffects
<1>5. SnapshotShape'
  BY <1>1, <1>3, <1>4, ShapeKept DEF GoesTo, Stops, Recorded, ResumeWriters, GateBecomes, Events
<1>6. JournalCoversDisk' /\ ReleasedIsUnmounted'
  BY <1>1, <1>3, <1>4
     DEF SnapshotInv, JournalCoversDisk, ReleasedIsUnmounted, DiskFollows, LogFollows, NoRecord, Recorded, Unattached, Capturing
<1>7. RecordFollows' /\ LogFollows'
  BY <1>1, <1>3, <1>4 DEF SnapshotInv, RecordFollows, LogFollows, Copying, GoesTo, Stops, Recorded, NoRecord
<1>8. DiskFollows'
  BY <1>1, <1>3, <1>4 DEF SnapshotInv, JournalCoversDisk, ReleasedIsUnmounted, DiskFollows, GoesTo, Stops, Recorded, NoRecord,
         Unattached, Capturing
<1>9. GateFollows'
  BY <1>1, <1>3, <1>4
     DEF SnapshotInv, SnapshotShape, Gates, GateFollows, Closed, Copying, GoesTo, Stops, ResumeWriters, GateBecomes, NoRecord, Recorded
<1>10. VersionFollows'
  BY <1>1, <1>3, <1>4, BoundsAreNatural
     DEF SnapshotInv, SnapshotShape, Disks, VersionFollows, Workers, Copying, GoesTo, Stops, NoRecord, Recorded, Attaching, Mounted
<1>11. QED
  BY <1>5, <1>6, <1>7, <1>8, <1>9, <1>10 DEF SnapshotInv


\* An acquisition begins where nothing was committed and nothing is left.
LEMMA PrepareSnapshotKeeps ==
    ASSUME SnapshotInv, PrepareSnapshot
    PROVE  SnapshotInv'
<1>1. /\ SnapshotShape /\ worker \in Workers /\ record \in Records
      /\ worker.pc = "idle" /\ record = NoRecord /\ log = "none"
  BY DEF PrepareSnapshot, SnapshotInv, SnapshotShape, WorkerAt, RecordFollows, DiskFollows, LogFollows,
         GateFollows, Copying, Closed
<1>2. {"prepared"} \subseteq PCs
  BY DEF PCs, Acquisition, Release, Recovery
<1>3. /\ faults' \in 0..MaxFaults /\ UNCHANGED <<record, disk, source, gate, log, edits>>
      /\ run' \in Claims
  BY <1>1, BoundsAreNatural DEF PrepareSnapshot, SnapshotShape, Claims, Faulty, Write, Erase
<1>4. \/ GoesTo("prepared", worker.exit)
  BY <1>1, <1>2, Control, Journaled DEF PrepareSnapshot, Workers, GoesTo, Write, Erase, Exits, Stages, Unattached, Capturing, Attaching, Mounted
<1>5. SnapshotShape'
  BY <1>1, <1>3, <1>4, ShapeKept DEF GoesTo, Stops, Recorded, ResumeWriters, GateBecomes, Events
<1>6. JournalCoversDisk' /\ ReleasedIsUnmounted'
  BY <1>1, <1>3, <1>4
     DEF SnapshotInv, JournalCoversDisk, ReleasedIsUnmounted, DiskFollows, LogFollows, NoRecord, Recorded, Unattached, Capturing
<1>7. RecordFollows' /\ LogFollows'
  BY <1>1, <1>3, <1>4 DEF SnapshotInv, RecordFollows, LogFollows, Copying, GoesTo, Stops, Recorded, NoRecord
<1>8. DiskFollows'
  BY <1>1, <1>3, <1>4 DEF SnapshotInv, JournalCoversDisk, ReleasedIsUnmounted, DiskFollows, GoesTo, Stops, Recorded, NoRecord,
         Unattached, Capturing
<1>9. GateFollows'
  BY <1>1, <1>3, <1>4
     DEF SnapshotInv, SnapshotShape, Gates, GateFollows, Closed, Copying, GoesTo, Stops, ResumeWriters, GateBecomes, NoRecord, Recorded
<1>10. VersionFollows'
  BY <1>1, <1>3, <1>4, BoundsAreNatural
     DEF SnapshotInv, SnapshotShape, Disks, VersionFollows, Workers, Copying, GoesTo, Stops, NoRecord, Recorded, Attaching, Mounted
<1>11. QED
  BY <1>5, <1>6, <1>7, <1>8, <1>9, <1>10 DEF SnapshotInv


\* The gate closes when no writer is inside.
LEMMA RevokeWritersKeeps ==
    ASSUME SnapshotInv, RevokeWriters
    PROVE  SnapshotInv'
<1>1. /\ SnapshotShape /\ worker \in Workers /\ record \in Records
      /\ worker.pc = "prepared" /\ record = NoRecord /\ log = "none"
  BY DEF RevokeWriters, JournalCoversDisk, NoRecord, Unattached, Capturing, Attaching, Mounted, Stages, SnapshotInv, SnapshotShape, WorkerAt, RecordFollows, DiskFollows, LogFollows,
         GateFollows, Copying, Closed
<1>2. {"revoking"} \subseteq PCs
  BY DEF PCs, Acquisition, Release, Recovery
<1>3. faults' \in 0..MaxFaults /\ UNCHANGED <<record, disk, source, run, log, edits>>
  BY <1>1, BoundsAreNatural DEF RevokeWriters, SnapshotShape, Claims, Faulty, Write, Erase
<1>4. \/ GoesTo("revoking", worker.exit) /\ gate.writers = 0 /\ GateBecomes(TRUE, 0)
      \/ Stops /\ UNCHANGED gate
  BY <1>1, <1>2, Control, GateEffects DEF RevokeWriters, Write, Erase, Exits, Stages, Unattached, Capturing, Attaching, Mounted
<1>5. SnapshotShape'
  BY <1>1, <1>3, <1>4, ShapeKept DEF GoesTo, Stops, Recorded, ResumeWriters, GateBecomes, Events
<1>6. JournalCoversDisk' /\ ReleasedIsUnmounted'
  BY <1>1, <1>3, <1>4
     DEF SnapshotInv, JournalCoversDisk, ReleasedIsUnmounted, DiskFollows, LogFollows, NoRecord, Recorded, Unattached, Capturing
<1>7. RecordFollows' /\ LogFollows'
  BY <1>1, <1>3, <1>4 DEF SnapshotInv, RecordFollows, LogFollows, Copying, GoesTo, Stops, Recorded, NoRecord
<1>8. DiskFollows'
  BY <1>1, <1>3, <1>4 DEF SnapshotInv, JournalCoversDisk, ReleasedIsUnmounted, DiskFollows, GoesTo, Stops, Recorded, NoRecord,
         Unattached, Capturing
<1>9. GateFollows'
  BY <1>1, <1>3, <1>4
     DEF SnapshotInv, SnapshotShape, Gates, GateFollows, Closed, Copying, GoesTo, Stops, ResumeWriters, GateBecomes, NoRecord, Recorded
<1>10. VersionFollows'
  BY <1>1, <1>3, <1>4, BoundsAreNatural
     DEF SnapshotInv, SnapshotShape, Disks, VersionFollows, Workers, Copying, GoesTo, Stops, NoRecord, Recorded, Attaching, Mounted
<1>11. QED
  BY <1>5, <1>6, <1>7, <1>8, <1>9, <1>10 DEF SnapshotInv


\* The record of the revocation: refused, it may be there all the same, and the gate is open.
LEMMA RevokeWritersInnerKeeps ==
    ASSUME SnapshotInv, RevokeWritersInner
    PROVE  SnapshotInv'
<1>1. /\ SnapshotShape /\ worker \in Workers /\ record \in Records
      /\ worker.pc = "revoking" /\ record = NoRecord /\ log = "none" /\ disk.image = NoImage
  BY DEF RevokeWritersInner, JournalCoversDisk, NoRecord, Unattached, Capturing, Attaching, Mounted, Stages, SnapshotInv, SnapshotShape, WorkerAt, RecordFollows, DiskFollows, LogFollows,
         GateFollows, Copying, Closed
<1>2. {"revoked"} \subseteq PCs
  BY DEF PCs, Acquisition, Release, Recovery
<1>3. faults' \in 0..MaxFaults /\ UNCHANGED <<disk, source, run, log, edits>>
  BY <1>1, BoundsAreNatural DEF RevokeWritersInner, ResumeWriters, SnapshotShape, Claims, Faulty, Write, Erase
<1>4. \/ Revoked("revoked") /\ Recorded("WriterRevoked") /\ UNCHANGED gate
      \/ Stops /\ ResumeWriters /\ (UNCHANGED record \/ Recorded("WriterRevoked"))
  BY <1>1, <1>2, Control, Journaled, VersionTaken DEF RevokeWritersInner, ResumeWriters, Write, Erase, Exits, Stages, Unattached, Capturing, Attaching, Mounted
<1>5. SnapshotShape'
  BY <1>1, <1>3, <1>4, ShapeKept DEF GoesTo, Stops, Recorded, ResumeWriters, GateBecomes, Events, Revoked
<1>6. JournalCoversDisk' /\ ReleasedIsUnmounted'
  BY <1>1, <1>3, <1>4
     DEF SnapshotInv, JournalCoversDisk, ReleasedIsUnmounted, DiskFollows, LogFollows, NoRecord, Recorded, Unattached, Capturing, Revoked
<1>7. RecordFollows' /\ LogFollows'
  BY <1>1, <1>3, <1>4 DEF SnapshotInv, RecordFollows, LogFollows, Copying, GoesTo, Stops, Recorded, NoRecord, Revoked
<1>8. DiskFollows'
  BY <1>1, <1>3, <1>4 DEF SnapshotInv, JournalCoversDisk, ReleasedIsUnmounted, DiskFollows, GoesTo, Stops, Recorded, NoRecord,
         Unattached, Capturing, Revoked
<1>9. GateFollows'
  BY <1>1, <1>3, <1>4
     DEF SnapshotInv, SnapshotShape, Gates, GateFollows, Closed, Copying, GoesTo, Stops, ResumeWriters, GateBecomes, NoRecord, Recorded, Revoked
<1>10. VersionFollows'
  BY <1>1, <1>3, <1>4, BoundsAreNatural
     DEF SnapshotInv, SnapshotShape, Disks, VersionFollows, Workers, Copying, GoesTo, Stops, NoRecord, Recorded, Attaching, Mounted, Revoked
<1>11. QED
  BY <1>5, <1>6, <1>7, <1>8, <1>9, <1>10 DEF SnapshotInv


\* The revocation is committed.
LEMMA AppendRevokedKeeps ==
    ASSUME SnapshotInv, AppendRevoked
    PROVE  SnapshotInv'
<1>1. /\ SnapshotShape /\ worker \in Workers /\ record \in Records
      /\ worker.pc = "revoked" /\ record.stage = "WriterRevoked" /\ log = "none"
  BY DEF AppendRevoked, SnapshotInv, SnapshotShape, WorkerAt, RecordFollows, DiskFollows, LogFollows,
         GateFollows, Copying, Closed
<1>2. {"confirmed"} \subseteq PCs
  BY DEF PCs, Acquisition, Release, Recovery
<1>3. faults' \in 0..MaxFaults /\ UNCHANGED <<record, disk, source, gate, run, edits>>
  BY <1>1, BoundsAreNatural DEF AppendRevoked, AppendEvent, SnapshotShape, Claims, Faulty, Write, Erase
<1>4. \/ GoesTo("confirmed", worker.exit) /\ log' = "revoked"
      \/ Stops /\ log' \in {"none", "revoked"}
  BY <1>1, <1>2, Control, Journaled DEF AppendRevoked, AppendEvent, Write, Erase, Exits, Stages, Unattached, Capturing, Attaching, Mounted
<1>5. SnapshotShape'
  BY <1>1, <1>3, <1>4, ShapeKept DEF GoesTo, Stops, Recorded, ResumeWriters, GateBecomes, Events
<1>6. JournalCoversDisk' /\ ReleasedIsUnmounted'
  BY <1>1, <1>3, <1>4
     DEF SnapshotInv, JournalCoversDisk, ReleasedIsUnmounted, DiskFollows, LogFollows, NoRecord, Recorded, Unattached, Capturing
<1>7. RecordFollows' /\ LogFollows'
  BY <1>1, <1>3, <1>4 DEF SnapshotInv, RecordFollows, LogFollows, Copying, GoesTo, Stops, Recorded, NoRecord
<1>8. DiskFollows'
  BY <1>1, <1>3, <1>4 DEF SnapshotInv, JournalCoversDisk, ReleasedIsUnmounted, DiskFollows, GoesTo, Stops, Recorded, NoRecord,
         Unattached, Capturing
<1>9. GateFollows'
  BY <1>1, <1>3, <1>4
     DEF SnapshotInv, SnapshotShape, Gates, GateFollows, Closed, Copying, GoesTo, Stops, ResumeWriters, GateBecomes, NoRecord, Recorded
<1>10. VersionFollows'
  BY <1>1, <1>3, <1>4, BoundsAreNatural
     DEF SnapshotInv, SnapshotShape, Disks, VersionFollows, Workers, Copying, GoesTo, Stops, NoRecord, Recorded, Attaching, Mounted
<1>11. QED
  BY <1>5, <1>6, <1>7, <1>8, <1>9, <1>10 DEF SnapshotInv


\* The copy is journaled before it begins.
LEMMA PrepareCaptureKeeps ==
    ASSUME SnapshotInv, PrepareCapture
    PROVE  SnapshotInv'
<1>1. /\ SnapshotShape /\ worker \in Workers /\ record \in Records
      /\ worker.pc = "confirmed" /\ record.stage = "WriterRevoked" /\ log = "revoked" /\ disk.image = NoImage /\ gate.revoked
  BY DEF PrepareCapture, JournalCoversDisk, NoRecord, Unattached, Capturing, Attaching, Mounted, Stages, SnapshotInv, SnapshotShape, WorkerAt, RecordFollows, DiskFollows, LogFollows,
         GateFollows, Copying, Closed
<1>2. {"capture"} \subseteq PCs
  BY DEF PCs, Acquisition, Release, Recovery
<1>3. faults' \in 0..MaxFaults /\ UNCHANGED <<disk, source, gate, run, log, edits>>
  BY <1>1, BoundsAreNatural DEF PrepareCapture, Guarded, SnapshotShape, Claims, Faulty, Write, Erase
<1>4. \/ GoesTo("capture", worker.exit) /\ Recorded("CreatePrepared")
      \/ Stops /\ (UNCHANGED record \/ Recorded("CreatePrepared"))
  BY <1>1, <1>2, Control, Journaled DEF PrepareCapture, Guarded, Write, Erase, Exits, Stages, Unattached, Capturing, Attaching, Mounted
<1>5. SnapshotShape'
  BY <1>1, <1>3, <1>4, ShapeKept DEF GoesTo, Stops, Recorded, ResumeWriters, GateBecomes, Events
<1>6. JournalCoversDisk' /\ ReleasedIsUnmounted'
  BY <1>1, <1>3, <1>4
     DEF SnapshotInv, JournalCoversDisk, ReleasedIsUnmounted, DiskFollows, LogFollows, NoRecord, Recorded, Unattached, Capturing
<1>7. RecordFollows' /\ LogFollows'
  BY <1>1, <1>3, <1>4 DEF SnapshotInv, RecordFollows, LogFollows, Copying, GoesTo, Stops, Recorded, NoRecord
<1>8. DiskFollows'
  BY <1>1, <1>3, <1>4 DEF SnapshotInv, JournalCoversDisk, ReleasedIsUnmounted, DiskFollows, GoesTo, Stops, Recorded, NoRecord,
         Unattached, Capturing
<1>9. GateFollows'
  BY <1>1, <1>3, <1>4
     DEF SnapshotInv, SnapshotShape, Gates, GateFollows, Closed, Copying, GoesTo, Stops, ResumeWriters, GateBecomes, NoRecord, Recorded
<1>10. VersionFollows'
  BY <1>1, <1>3, <1>4, BoundsAreNatural
     DEF SnapshotInv, SnapshotShape, Disks, VersionFollows, Workers, Copying, GoesTo, Stops, NoRecord, Recorded, Attaching, Mounted
<1>11. QED
  BY <1>5, <1>6, <1>7, <1>8, <1>9, <1>10 DEF SnapshotInv


\* The copy begins.
LEMMA BeginCreateKeeps ==
    ASSUME SnapshotInv, BeginCreate
    PROVE  SnapshotInv'
<1>1. /\ SnapshotShape /\ worker \in Workers /\ record \in Records
      /\ worker.pc = "capture" /\ record.stage = "CreatePrepared" /\ log = "revoked" /\ disk.image = NoImage
  BY DEF BeginCreate, SnapshotInv, SnapshotShape, WorkerAt, RecordFollows, DiskFollows, LogFollows,
         GateFollows, Copying, Closed
<1>2. {"creating"} \subseteq PCs
  BY DEF PCs, Acquisition, Release, Recovery
<1>3. faults' \in 0..MaxFaults /\ UNCHANGED <<record, disk, source, gate, run, log, edits>>
  BY <1>1, BoundsAreNatural DEF BeginCreate, Guarded, SnapshotShape, Claims, Faulty, Write, Erase
<1>4. \/ Begun
      \/ Stops
  BY <1>1, <1>2, Control, CopyBegins DEF BeginCreate, Guarded, Write, Erase, Exits, Stages, Unattached, Capturing, Attaching, Mounted
<1>5. SnapshotShape'
  BY <1>1, <1>3, <1>4, ShapeKept DEF GoesTo, Stops, Recorded, ResumeWriters, GateBecomes, Events, Begun
<1>6. JournalCoversDisk' /\ ReleasedIsUnmounted'
  BY <1>1, <1>3, <1>4
     DEF SnapshotInv, JournalCoversDisk, ReleasedIsUnmounted, DiskFollows, LogFollows, NoRecord, Recorded, Unattached, Capturing, Begun
<1>7. RecordFollows' /\ LogFollows'
  BY <1>1, <1>3, <1>4 DEF SnapshotInv, RecordFollows, LogFollows, Copying, GoesTo, Stops, Recorded, NoRecord, Begun
<1>8. DiskFollows'
  BY <1>1, <1>3, <1>4 DEF SnapshotInv, JournalCoversDisk, ReleasedIsUnmounted, DiskFollows, GoesTo, Stops, Recorded, NoRecord,
         Unattached, Capturing, Begun
<1>9. GateFollows'
  BY <1>1, <1>3, <1>4
     DEF SnapshotInv, SnapshotShape, Gates, GateFollows, Closed, Copying, GoesTo, Stops, ResumeWriters, GateBecomes, NoRecord, Recorded, Begun
<1>10. VersionFollows'
  BY <1>1, <1>3, <1>4, BoundsAreNatural
     DEF SnapshotInv, SnapshotShape, Disks, VersionFollows, Workers, Copying, GoesTo, Stops, NoRecord, Recorded, Attaching, Mounted, Begun
<1>11. QED
  BY <1>5, <1>6, <1>7, <1>8, <1>9, <1>10 DEF SnapshotInv


\* hdiutil create ends: a whole copy of one version, a mixed one, part of one or none.
LEMMA CreateKeeps ==
    ASSUME SnapshotInv, Create
    PROVE  SnapshotInv'
<1>1. /\ SnapshotShape /\ worker \in Workers /\ record \in Records
      /\ worker.pc = "creating" /\ record.stage = "CreatePrepared" /\ log = "revoked" /\ disk.image = NoImage
  BY DEF Create, SnapshotInv, SnapshotShape, WorkerAt, RecordFollows, DiskFollows, LogFollows,
         GateFollows, Copying, Closed
<1>2. {"create_done"} \subseteq PCs
  BY DEF PCs, Acquisition, Release, Recovery
<1>i. {source, Mixed, NoImage} \subseteq 0..NoImage
  BY <1>1, BoundsAreNatural DEF SnapshotShape, Mixed, NoImage
<1>3. faults' \in 0..MaxFaults /\ UNCHANGED <<record, source, gate, run, log, edits>>
  BY <1>1, BoundsAreNatural DEF Create, SnapshotShape, Claims, Faulty, Write, Erase
<1>4. \/ GoesTo("create_done", "ok") /\ ImageBecomes(IF source = worker.began THEN source ELSE Mixed)
      \/ GoesTo("create_done", "not_started") /\ UNCHANGED disk
      \/ (GoesTo("create_done", "unknown") \/ GoesTo("create_done", "failed")) /\ (UNCHANGED disk \/ ImageBecomes(Mixed))
  BY <1>1, <1>2, Control, Journaled, Effects, <1>i DEF Create, Write, Erase, Exits, Stages, Unattached, Capturing, Attaching, Mounted
<1>5. SnapshotShape'
  BY <1>1, <1>3, <1>4, ShapeKept DEF GoesTo, Stops, Recorded, ResumeWriters, GateBecomes, Events, ImageBecomes, Mixed, NoImage
<1>6. JournalCoversDisk' /\ ReleasedIsUnmounted'
  BY <1>1, <1>3, <1>4
     DEF SnapshotInv, JournalCoversDisk, ReleasedIsUnmounted, DiskFollows, LogFollows, NoRecord, Recorded, Unattached, Capturing, ImageBecomes, Mixed, NoImage
<1>7. RecordFollows' /\ LogFollows'
  BY <1>1, <1>3, <1>4 DEF SnapshotInv, RecordFollows, LogFollows, Copying, GoesTo, Stops, Recorded, NoRecord, ImageBecomes, Mixed, NoImage
<1>8. DiskFollows'
  BY <1>1, <1>3, <1>4 DEF SnapshotInv, JournalCoversDisk, ReleasedIsUnmounted, DiskFollows, GoesTo, Stops, Recorded, NoRecord,
         Unattached, Capturing, ImageBecomes, Mixed, NoImage
<1>9. GateFollows'
  BY <1>1, <1>3, <1>4
     DEF SnapshotInv, SnapshotShape, Gates, GateFollows, Closed, Copying, GoesTo, Stops, ResumeWriters, GateBecomes, NoRecord, Recorded, ImageBecomes, Mixed, NoImage
<1>10. VersionFollows'
  BY <1>1, <1>3, <1>4, BoundsAreNatural
     DEF SnapshotInv, SnapshotShape, Disks, VersionFollows, Workers, Copying, GoesTo, Stops, NoRecord, Recorded, Attaching, Mounted, ImageBecomes, Mixed, NoImage
<1>11. QED
  BY <1>5, <1>6, <1>7, <1>8, <1>9, <1>10 DEF SnapshotInv


\* The outcome of the copy is journaled; the gate opens only when nothing may still be copying.
LEMMA CreateDoneKeeps ==
    ASSUME SnapshotInv, CreateDone
    PROVE  SnapshotInv'
<1>1. /\ SnapshotShape /\ worker \in Workers /\ record \in Records
      /\ worker.pc = "create_done" /\ record.stage = "CreatePrepared"
  BY DEF CreateDone, SnapshotInv, SnapshotShape, WorkerAt, RecordFollows, DiskFollows, LogFollows,
         GateFollows, Copying, Closed
<1>2. {"created"} \subseteq PCs
  BY DEF PCs, Acquisition, Release, Recovery
<1>3. faults' \in 0..MaxFaults /\ UNCHANGED <<disk, source, run, log, edits>>
  BY <1>1, BoundsAreNatural DEF CreateDone, SnapshotShape, Claims, Faulty, Write, Erase
<1>4. \/ worker.exit = "ok" /\ GoesTo("created", worker.exit) /\ UNCHANGED <<record, gate>>
      \/ worker.exit # "ok" /\ Stops /\ UNCHANGED <<record, gate>>
      \/ worker.exit = "not_started" /\ Stops /\ record' = NoRecord /\ (ResumeWriters \/ UNCHANGED gate)
      \/ worker.exit = "unknown" /\ Stops /\ Recorded("CreateOutcomeUnknown") /\ UNCHANGED gate
      \/ worker.exit = "failed" /\ Stops /\ Recorded("CreateCleanupRequired") /\ (ResumeWriters \/ UNCHANGED gate)
  BY <1>1, <1>2, Control, Journaled DEF CreateDone, Write, Erase, Exits, Stages, Unattached, Capturing, Attaching, Mounted
<1>5. SnapshotShape'
  BY <1>1, <1>3, <1>4, ShapeKept DEF GoesTo, Stops, Recorded, ResumeWriters, GateBecomes, Events
<1>6. JournalCoversDisk' /\ ReleasedIsUnmounted'
  BY <1>1, <1>3, <1>4
     DEF SnapshotInv, JournalCoversDisk, ReleasedIsUnmounted, DiskFollows, LogFollows, NoRecord, Recorded, Unattached, Capturing
<1>7. RecordFollows' /\ LogFollows'
  BY <1>1, <1>3, <1>4 DEF SnapshotInv, RecordFollows, LogFollows, Copying, GoesTo, Stops, Recorded, NoRecord
<1>8. DiskFollows'
  BY <1>1, <1>3, <1>4 DEF SnapshotInv, JournalCoversDisk, ReleasedIsUnmounted, DiskFollows, GoesTo, Stops, Recorded, NoRecord,
         Unattached, Capturing
<1>9. GateFollows'
  BY <1>1, <1>3, <1>4
     DEF SnapshotInv, SnapshotShape, Gates, GateFollows, Closed, Copying, GoesTo, Stops, ResumeWriters, GateBecomes, NoRecord, Recorded
<1>10. VersionFollows'
  BY <1>1, <1>3, <1>4, BoundsAreNatural
     DEF SnapshotInv, SnapshotShape, Disks, VersionFollows, Workers, Copying, GoesTo, Stops, NoRecord, Recorded, Attaching, Mounted
<1>11. QED
  BY <1>5, <1>6, <1>7, <1>8, <1>9, <1>10 DEF SnapshotInv


\* An image is admitted only of a source that is still the version observed.
LEMMA FinishCaptureKeeps ==
    ASSUME SnapshotInv, FinishCapture
    PROVE  SnapshotInv'
<1>1. /\ SnapshotShape /\ worker \in Workers /\ record \in Records
      /\ worker.pc = "created" /\ record.stage = "CreatePrepared" /\ log = "revoked"
  BY DEF FinishCapture, SnapshotInv, SnapshotShape, WorkerAt, RecordFollows, DiskFollows, LogFollows,
         GateFollows, Copying, Closed
<1>2. {"captured"} \subseteq PCs
  BY DEF PCs, Acquisition, Release, Recovery
<1>3. faults' \in 0..MaxFaults /\ UNCHANGED <<disk, source, run, log, edits>>
  BY <1>1, BoundsAreNatural DEF FinishCapture, SnapshotShape, Claims, Faulty, Write, Erase
<1>4. \/ Stops /\ UNCHANGED <<record, gate>>
      \/ SourceUnchanged /\ GoesTo("captured", worker.exit) /\ Recorded("ImageCaptured") /\ ResumeWriters
      \/ SourceUnchanged /\ Stops /\ Recorded("ImageCaptured") /\ UNCHANGED gate
      \/ Stops /\ Recorded("CreateCleanupRequired") /\ (ResumeWriters \/ UNCHANGED gate)
  BY <1>1, <1>2, Control, Journaled DEF FinishCapture, Write, Erase, Exits, Stages, Unattached, Capturing, Attaching, Mounted
<1>5. SnapshotShape'
  BY <1>1, <1>3, <1>4, ShapeKept DEF GoesTo, Stops, Recorded, ResumeWriters, GateBecomes, Events, SourceUnchanged, Mixed
<1>6. JournalCoversDisk' /\ ReleasedIsUnmounted'
  BY <1>1, <1>3, <1>4
     DEF SnapshotInv, JournalCoversDisk, ReleasedIsUnmounted, DiskFollows, LogFollows, NoRecord, Recorded, Unattached, Capturing, SourceUnchanged, Mixed
<1>7. RecordFollows' /\ LogFollows'
  BY <1>1, <1>3, <1>4 DEF SnapshotInv, RecordFollows, LogFollows, Copying, GoesTo, Stops, Recorded, NoRecord, SourceUnchanged, Mixed
<1>8. DiskFollows'
  BY <1>1, <1>3, <1>4 DEF SnapshotInv, JournalCoversDisk, ReleasedIsUnmounted, DiskFollows, GoesTo, Stops, Recorded, NoRecord,
         Unattached, Capturing, SourceUnchanged, Mixed
<1>9. GateFollows'
  BY <1>1, <1>3, <1>4
     DEF SnapshotInv, SnapshotShape, Gates, GateFollows, Closed, Copying, GoesTo, Stops, ResumeWriters, GateBecomes, NoRecord, Recorded, SourceUnchanged, Mixed
<1>10. VersionFollows'
  BY <1>1, <1>3, <1>4, BoundsAreNatural
     DEF SnapshotInv, SnapshotShape, Disks, VersionFollows, Workers, Copying, GoesTo, Stops, NoRecord, Recorded, Attaching, Mounted, SourceUnchanged, Mixed
<1>11. QED
  BY <1>5, <1>6, <1>7, <1>8, <1>9, <1>10 DEF SnapshotInv


\* The mount directory is made before it is journaled.
LEMMA MakeMountDirectoryKeeps ==
    ASSUME SnapshotInv, MakeMountDirectory
    PROVE  SnapshotInv'
<1>1. /\ SnapshotShape /\ worker \in Workers /\ record \in Records
      /\ worker.pc = "captured" /\ record.stage = "ImageCaptured" /\ log = "revoked"
  BY DEF MakeMountDirectory, SnapshotInv, SnapshotShape, WorkerAt, RecordFollows, DiskFollows, LogFollows,
         GateFollows, Copying, Closed
<1>2. {"mount_dir"} \subseteq PCs
  BY DEF PCs, Acquisition, Release, Recovery
<1>3. faults' \in 0..MaxFaults /\ UNCHANGED <<record, source, gate, run, log, edits>>
  BY <1>1, BoundsAreNatural DEF MakeMountDirectory, Guarded, Observe, SnapshotShape, Claims, Faulty, Write, Erase
<1>4. \/ GoesTo("mount_dir", worker.exit) /\ DirBecomes(TRUE)
      \/ Stops /\ DirBecomes(FALSE)
  <2>1. disk' = [disk EXCEPT !.dir = (worker'.pc = "mount_dir")]
    BY DEF MakeMountDirectory
  <2>2. CASE GoesTo("mount_dir", worker.exit)
    BY <1>1, <2>1, <2>2, Effects DEF GoesTo
  <2>3. CASE Stops
    <3>1. (worker'.pc = "mount_dir") = FALSE
      BY <2>3 DEF Stops
    <3>2. QED
      BY <1>1, <2>1, <2>3, <3>1, Effects
  <2>4. QED
    BY <1>1, <1>2, <2>2, <2>3, Control DEF MakeMountDirectory, Guarded, Observe
<1>5. SnapshotShape'
  BY <1>1, <1>3, <1>4, ShapeKept DEF GoesTo, Stops, Recorded, ResumeWriters, GateBecomes, Events, DirBecomes
<1>6. JournalCoversDisk' /\ ReleasedIsUnmounted'
  BY <1>1, <1>3, <1>4
     DEF SnapshotInv, JournalCoversDisk, ReleasedIsUnmounted, DiskFollows, LogFollows, NoRecord, Recorded, Unattached, Capturing, DirBecomes
<1>7. RecordFollows' /\ LogFollows'
  BY <1>1, <1>3, <1>4 DEF SnapshotInv, RecordFollows, LogFollows, Copying, GoesTo, Stops, Recorded, NoRecord, DirBecomes
<1>8. DiskFollows'
  BY <1>1, <1>3, <1>4 DEF SnapshotInv, JournalCoversDisk, ReleasedIsUnmounted, DiskFollows, GoesTo, Stops, Recorded, NoRecord,
         Unattached, Capturing, DirBecomes
<1>9. GateFollows'
  BY <1>1, <1>3, <1>4
     DEF SnapshotInv, SnapshotShape, Gates, GateFollows, Closed, Copying, GoesTo, Stops, ResumeWriters, GateBecomes, NoRecord, Recorded, DirBecomes
<1>10. VersionFollows'
  BY <1>1, <1>3, <1>4, BoundsAreNatural
     DEF SnapshotInv, SnapshotShape, Disks, VersionFollows, Workers, Copying, GoesTo, Stops, NoRecord, Recorded, Attaching, Mounted, DirBecomes
<1>11. QED
  BY <1>5, <1>6, <1>7, <1>8, <1>9, <1>10 DEF SnapshotInv


\* The attachment is journaled; refused, the directory may stay without a record that owns it.
LEMMA PrepareAttachKeeps ==
    ASSUME SnapshotInv, PrepareAttach
    PROVE  SnapshotInv'
<1>1. /\ SnapshotShape /\ worker \in Workers /\ record \in Records
      /\ worker.pc = "mount_dir" /\ record.stage = "ImageCaptured" /\ log = "revoked" /\ ~disk.attached
  BY DEF PrepareAttach, JournalCoversDisk, NoRecord, Unattached, Capturing, Attaching, Mounted, Stages, SnapshotInv, SnapshotShape, WorkerAt, RecordFollows, DiskFollows, LogFollows,
         GateFollows, Copying, Closed
<1>2. {"attach"} \subseteq PCs
  BY DEF PCs, Acquisition, Release, Recovery
<1>3. faults' \in 0..MaxFaults /\ UNCHANGED <<source, gate, run, log, edits>>
  BY <1>1, BoundsAreNatural DEF PrepareAttach, SnapshotShape, Claims, Faulty, Write, Erase
<1>4. \/ GoesTo("attach", worker.exit) /\ Recorded("AttachPrepared") /\ UNCHANGED disk
      \/ Stops /\ (UNCHANGED record \/ Recorded("AttachPrepared")) /\ (DirBecomes(TRUE) \/ DirBecomes(FALSE))
  BY <1>1, <1>2, Control, Journaled, Effects DEF PrepareAttach, Write, Erase, Exits, Stages, Unattached, Capturing, Attaching, Mounted
<1>5. SnapshotShape'
  BY <1>1, <1>3, <1>4, ShapeKept DEF GoesTo, Stops, Recorded, ResumeWriters, GateBecomes, Events, DirBecomes
<1>6. JournalCoversDisk' /\ ReleasedIsUnmounted'
  BY <1>1, <1>3, <1>4
     DEF SnapshotInv, JournalCoversDisk, ReleasedIsUnmounted, DiskFollows, LogFollows, NoRecord, Recorded, Unattached, Capturing, DirBecomes
<1>7. RecordFollows' /\ LogFollows'
  BY <1>1, <1>3, <1>4 DEF SnapshotInv, RecordFollows, LogFollows, Copying, GoesTo, Stops, Recorded, NoRecord, DirBecomes
<1>8. DiskFollows'
  BY <1>1, <1>3, <1>4 DEF SnapshotInv, JournalCoversDisk, ReleasedIsUnmounted, DiskFollows, GoesTo, Stops, Recorded, NoRecord,
         Unattached, Capturing, DirBecomes
<1>9. GateFollows'
  BY <1>1, <1>3, <1>4
     DEF SnapshotInv, SnapshotShape, Gates, GateFollows, Closed, Copying, GoesTo, Stops, ResumeWriters, GateBecomes, NoRecord, Recorded, DirBecomes
<1>10. VersionFollows'
  BY <1>1, <1>3, <1>4, BoundsAreNatural
     DEF SnapshotInv, SnapshotShape, Disks, VersionFollows, Workers, Copying, GoesTo, Stops, NoRecord, Recorded, Attaching, Mounted, DirBecomes
<1>11. QED
  BY <1>5, <1>6, <1>7, <1>8, <1>9, <1>10 DEF SnapshotInv


\* hdiutil attach ends: the image is mounted, or it is not, or nobody knows.
LEMMA AttachKeeps ==
    ASSUME SnapshotInv, Attach
    PROVE  SnapshotInv'
<1>1. /\ SnapshotShape /\ worker \in Workers /\ record \in Records
      /\ worker.pc = "attach" /\ record.stage = "AttachPrepared" /\ log = "revoked" /\ ~disk.attached
  BY DEF Attach, SnapshotInv, SnapshotShape, WorkerAt, RecordFollows, DiskFollows, LogFollows,
         GateFollows, Copying, Closed
<1>2. {"attach_done"} \subseteq PCs
  BY DEF PCs, Acquisition, Release, Recovery
<1>3. faults' \in 0..MaxFaults /\ UNCHANGED <<record, source, gate, run, log, edits>>
  BY <1>1, BoundsAreNatural DEF Attach, SnapshotShape, Claims, Faulty, Write, Erase
<1>4. \/ GoesTo("attach_done", "ok") /\ AttachedBecomes(TRUE)
      \/ GoesTo("attach_done", "not_started") /\ UNCHANGED disk
      \/ GoesTo("attach_done", "unknown") /\ (AttachedBecomes(TRUE) \/ AttachedBecomes(FALSE))
      \/ Stops /\ UNCHANGED disk
  BY <1>1, <1>2, Control, Journaled, Effects DEF Attach, Write, Erase, Exits, Stages, Unattached, Capturing, Attaching, Mounted
<1>5. SnapshotShape'
  BY <1>1, <1>3, <1>4, ShapeKept DEF GoesTo, Stops, Recorded, ResumeWriters, GateBecomes, Events, AttachedBecomes
<1>6. JournalCoversDisk' /\ ReleasedIsUnmounted'
  BY <1>1, <1>3, <1>4
     DEF SnapshotInv, JournalCoversDisk, ReleasedIsUnmounted, DiskFollows, LogFollows, NoRecord, Recorded, Unattached, Capturing, AttachedBecomes
<1>7. RecordFollows' /\ LogFollows'
  BY <1>1, <1>3, <1>4 DEF SnapshotInv, RecordFollows, LogFollows, Copying, GoesTo, Stops, Recorded, NoRecord, AttachedBecomes
<1>8. DiskFollows'
  BY <1>1, <1>3, <1>4 DEF SnapshotInv, JournalCoversDisk, ReleasedIsUnmounted, DiskFollows, GoesTo, Stops, Recorded, NoRecord,
         Unattached, Capturing, AttachedBecomes
<1>9. GateFollows'
  BY <1>1, <1>3, <1>4
     DEF SnapshotInv, SnapshotShape, Gates, GateFollows, Closed, Copying, GoesTo, Stops, ResumeWriters, GateBecomes, NoRecord, Recorded, AttachedBecomes
<1>10. VersionFollows'
  BY <1>1, <1>3, <1>4, BoundsAreNatural
     DEF SnapshotInv, SnapshotShape, Disks, VersionFollows, Workers, Copying, GoesTo, Stops, NoRecord, Recorded, Attaching, Mounted, AttachedBecomes
<1>11. QED
  BY <1>5, <1>6, <1>7, <1>8, <1>9, <1>10 DEF SnapshotInv


\* What came of an attach is journaled; what never started leaves no directory.
LEMMA AttachDoneKeeps ==
    ASSUME SnapshotInv, AttachDone
    PROVE  SnapshotInv'
<1>1. /\ SnapshotShape /\ worker \in Workers /\ record \in Records
      /\ worker.pc = "attach_done" /\ record.stage = "AttachPrepared" /\ log = "revoked"
  BY DEF AttachDone, JournalCoversDisk, NoRecord, Unattached, Capturing, Attaching, Mounted, Stages, SnapshotInv, SnapshotShape, WorkerAt, RecordFollows, DiskFollows, LogFollows,
         GateFollows, Copying, Closed
<1>2. {"unattach", "mounted"} \subseteq PCs
  BY DEF PCs, Acquisition, Release, Recovery
<1>3. faults' \in 0..MaxFaults /\ UNCHANGED <<source, gate, run, log, edits>>
  BY <1>1, BoundsAreNatural DEF AttachDone, SnapshotShape, Claims, Faulty, Write, Erase
<1>4. \/ worker.exit = "not_started" /\ GoesTo("unattach", worker.exit) /\ DirBecomes(FALSE) /\ UNCHANGED record
      \/ worker.exit = "unknown" /\ Stops /\ UNCHANGED disk /\ (UNCHANGED record \/ Recorded("AttachOutcomeUnknown"))
      \/ worker.exit = "ok" /\ Stops /\ UNCHANGED <<disk, record>>
      \/ worker.exit = "ok" /\ GoesTo("mounted", worker.exit) /\ UNCHANGED disk /\ Recorded("MountedDetachRequired")
      \/ worker.exit = "ok" /\ Stops /\ UNCHANGED disk /\ (Recorded("MountedDetachRequired") \/ Recorded("AttachOutcomeUnknown"))
  BY <1>1, <1>2, Control, Journaled, Effects DEF AttachDone, Write, Erase, Exits, Stages, Unattached, Capturing, Attaching, Mounted
<1>5. SnapshotShape'
  BY <1>1, <1>3, <1>4, ShapeKept DEF GoesTo, Stops, Recorded, ResumeWriters, GateBecomes, Events, DirBecomes
<1>6. JournalCoversDisk' /\ ReleasedIsUnmounted'
  BY <1>1, <1>3, <1>4
     DEF SnapshotInv, JournalCoversDisk, ReleasedIsUnmounted, DiskFollows, LogFollows, NoRecord, Recorded, Unattached, Capturing, DirBecomes
<1>7. RecordFollows' /\ LogFollows'
  BY <1>1, <1>3, <1>4 DEF SnapshotInv, RecordFollows, LogFollows, Copying, GoesTo, Stops, Recorded, NoRecord, DirBecomes
<1>8. DiskFollows'
  BY <1>1, <1>3, <1>4 DEF SnapshotInv, JournalCoversDisk, ReleasedIsUnmounted, DiskFollows, GoesTo, Stops, Recorded, NoRecord,
         Unattached, Capturing, DirBecomes
<1>9. GateFollows'
  BY <1>1, <1>3, <1>4
     DEF SnapshotInv, SnapshotShape, Gates, GateFollows, Closed, Copying, GoesTo, Stops, ResumeWriters, GateBecomes, NoRecord, Recorded, DirBecomes
<1>10. VersionFollows'
  BY <1>1, <1>3, <1>4, BoundsAreNatural
     DEF SnapshotInv, SnapshotShape, Disks, VersionFollows, Workers, Copying, GoesTo, Stops, NoRecord, Recorded, Attaching, Mounted, DirBecomes
<1>11. QED
  BY <1>5, <1>6, <1>7, <1>8, <1>9, <1>10 DEF SnapshotInv


\* An attach that never started goes back to the captured image.
LEMMA AttachNotStartedKeeps ==
    ASSUME SnapshotInv, AttachNotStarted
    PROVE  SnapshotInv'
<1>1. /\ SnapshotShape /\ worker \in Workers /\ record \in Records
      /\ worker.pc = "unattach" /\ record.stage = "AttachPrepared" /\ ~disk.attached
  BY DEF AttachNotStarted, JournalCoversDisk, NoRecord, Unattached, Capturing, Attaching, Mounted, Stages, SnapshotInv, SnapshotShape, WorkerAt, RecordFollows, DiskFollows, LogFollows,
         GateFollows, Copying, Closed
<1>3. faults' \in 0..MaxFaults /\ UNCHANGED <<disk, source, gate, run, log, edits>>
  BY <1>1, BoundsAreNatural DEF AttachNotStarted, SnapshotShape, Claims, Faulty, Write, Erase
<1>4. \/ Stops /\ (UNCHANGED record \/ Recorded("ImageCaptured"))
  BY <1>1, Control, Journaled DEF AttachNotStarted, Write, Erase, Exits, Stages, Unattached, Capturing, Attaching, Mounted
<1>5. SnapshotShape'
  BY <1>1, <1>3, <1>4, ShapeKept DEF GoesTo, Stops, Recorded, ResumeWriters, GateBecomes, Events
<1>6. JournalCoversDisk' /\ ReleasedIsUnmounted'
  BY <1>1, <1>3, <1>4
     DEF SnapshotInv, JournalCoversDisk, ReleasedIsUnmounted, DiskFollows, LogFollows, NoRecord, Recorded, Unattached, Capturing
<1>7. RecordFollows' /\ LogFollows'
  BY <1>1, <1>3, <1>4 DEF SnapshotInv, RecordFollows, LogFollows, Copying, GoesTo, Stops, Recorded, NoRecord
<1>8. DiskFollows'
  BY <1>1, <1>3, <1>4 DEF SnapshotInv, JournalCoversDisk, ReleasedIsUnmounted, DiskFollows, GoesTo, Stops, Recorded, NoRecord,
         Unattached, Capturing
<1>9. GateFollows'
  BY <1>1, <1>3, <1>4
     DEF SnapshotInv, SnapshotShape, Gates, GateFollows, Closed, Copying, GoesTo, Stops, ResumeWriters, GateBecomes, NoRecord, Recorded
<1>10. VersionFollows'
  BY <1>1, <1>3, <1>4, BoundsAreNatural
     DEF SnapshotInv, SnapshotShape, Disks, VersionFollows, Workers, Copying, GoesTo, Stops, NoRecord, Recorded, Attaching, Mounted
<1>11. QED
  BY <1>5, <1>6, <1>7, <1>8, <1>9, <1>10 DEF SnapshotInv


\* The mounted manifest is the version observed.
LEMMA ObserveMountedKeeps ==
    ASSUME SnapshotInv, ObserveMounted
    PROVE  SnapshotInv'
<1>1. /\ SnapshotShape /\ worker \in Workers /\ record \in Records
      /\ worker.pc = "mounted" /\ record.stage = "MountedDetachRequired" /\ log = "revoked"
  BY DEF ObserveMounted, SnapshotInv, SnapshotShape, WorkerAt, RecordFollows, DiskFollows, LogFollows,
         GateFollows, Copying, Closed
<1>2. {"lease"} \subseteq PCs
  BY DEF PCs, Acquisition, Release, Recovery
<1>3. faults' \in 0..MaxFaults /\ UNCHANGED <<record, disk, source, gate, run, log, edits>>
  BY <1>1, BoundsAreNatural DEF ObserveMounted, Observe, SnapshotShape, Claims, Faulty, Write, Erase
<1>4. \/ GoesTo("lease", worker.exit) /\ disk.image = worker.before
      \/ Stops
  BY <1>1, <1>2, Control, Journaled DEF ObserveMounted, Observe, Write, Erase, Exits, Stages, Unattached, Capturing, Attaching, Mounted
<1>5. SnapshotShape'
  BY <1>1, <1>3, <1>4, ShapeKept DEF GoesTo, Stops, Recorded, ResumeWriters, GateBecomes, Events
<1>6. JournalCoversDisk' /\ ReleasedIsUnmounted'
  BY <1>1, <1>3, <1>4
     DEF SnapshotInv, JournalCoversDisk, ReleasedIsUnmounted, DiskFollows, LogFollows, NoRecord, Recorded, Unattached, Capturing
<1>7. RecordFollows' /\ LogFollows'
  BY <1>1, <1>3, <1>4 DEF SnapshotInv, RecordFollows, LogFollows, Copying, GoesTo, Stops, Recorded, NoRecord
<1>8. DiskFollows'
  BY <1>1, <1>3, <1>4 DEF SnapshotInv, JournalCoversDisk, ReleasedIsUnmounted, DiskFollows, GoesTo, Stops, Recorded, NoRecord,
         Unattached, Capturing
<1>9. GateFollows'
  BY <1>1, <1>3, <1>4
     DEF SnapshotInv, SnapshotShape, Gates, GateFollows, Closed, Copying, GoesTo, Stops, ResumeWriters, GateBecomes, NoRecord, Recorded
<1>10. VersionFollows'
  BY <1>1, <1>3, <1>4, BoundsAreNatural
     DEF SnapshotInv, SnapshotShape, Disks, VersionFollows, Workers, Copying, GoesTo, Stops, NoRecord, Recorded, Attaching, Mounted
<1>11. QED
  BY <1>5, <1>6, <1>7, <1>8, <1>9, <1>10 DEF SnapshotInv


\* The lease is committed.
LEMMA AppendLeaseKeeps ==
    ASSUME SnapshotInv, AppendLease
    PROVE  SnapshotInv'
<1>1. /\ SnapshotShape /\ worker \in Workers /\ record \in Records
      /\ worker.pc = "lease" /\ record.stage = "MountedDetachRequired" /\ log = "revoked" /\ disk.image = worker.before
  BY DEF AppendLease, VersionFollows, SnapshotInv, SnapshotShape, WorkerAt, RecordFollows, DiskFollows, LogFollows,
         GateFollows, Copying, Closed
<1>2. {"leased"} \subseteq PCs
  BY DEF PCs, Acquisition, Release, Recovery
<1>3. faults' \in 0..MaxFaults /\ UNCHANGED <<record, disk, source, gate, run, edits>>
  BY <1>1, BoundsAreNatural DEF AppendLease, AppendEvent, SnapshotShape, Claims, Faulty, Write, Erase
<1>4. \/ GoesTo("leased", worker.exit) /\ log' = "leased"
      \/ Stops /\ log' \in {"revoked", "leased"}
  BY <1>1, <1>2, Control, Journaled DEF AppendLease, AppendEvent, Write, Erase, Exits, Stages, Unattached, Capturing, Attaching, Mounted
<1>5. SnapshotShape'
  BY <1>1, <1>3, <1>4, ShapeKept DEF GoesTo, Stops, Recorded, ResumeWriters, GateBecomes, Events
<1>6. JournalCoversDisk' /\ ReleasedIsUnmounted'
  BY <1>1, <1>3, <1>4
     DEF SnapshotInv, JournalCoversDisk, ReleasedIsUnmounted, DiskFollows, LogFollows, NoRecord, Recorded, Unattached, Capturing
<1>7. RecordFollows' /\ LogFollows'
  BY <1>1, <1>3, <1>4 DEF SnapshotInv, RecordFollows, LogFollows, Copying, GoesTo, Stops, Recorded, NoRecord
<1>8. DiskFollows'
  BY <1>1, <1>3, <1>4 DEF SnapshotInv, JournalCoversDisk, ReleasedIsUnmounted, DiskFollows, GoesTo, Stops, Recorded, NoRecord,
         Unattached, Capturing
<1>9. GateFollows'
  BY <1>1, <1>3, <1>4
     DEF SnapshotInv, SnapshotShape, Gates, GateFollows, Closed, Copying, GoesTo, Stops, ResumeWriters, GateBecomes, NoRecord, Recorded
<1>10. VersionFollows'
  BY <1>1, <1>3, <1>4, BoundsAreNatural
     DEF SnapshotInv, SnapshotShape, Disks, VersionFollows, Workers, Copying, GoesTo, Stops, NoRecord, Recorded, Attaching, Mounted
<1>11. QED
  BY <1>5, <1>6, <1>7, <1>8, <1>9, <1>10 DEF SnapshotInv


\* The journal follows the committed lease.
LEMMA ActivateSnapshotLeaseKeeps ==
    ASSUME SnapshotInv, ActivateSnapshotLease
    PROVE  SnapshotInv'
<1>1. /\ SnapshotShape /\ worker \in Workers /\ record \in Records
      /\ worker.pc = "leased" /\ record.stage = "MountedDetachRequired" /\ log = "leased" /\ disk.image = worker.before
  BY DEF ActivateSnapshotLease, VersionFollows, SnapshotInv, SnapshotShape, WorkerAt, RecordFollows, DiskFollows, LogFollows,
         GateFollows, Copying, Closed
<1>2. {"active"} \subseteq PCs
  BY DEF PCs, Acquisition, Release, Recovery
<1>3. faults' \in 0..MaxFaults /\ UNCHANGED <<disk, source, gate, run, log, edits>>
  BY <1>1, BoundsAreNatural DEF ActivateSnapshotLease, SnapshotShape, Claims, Faulty, Write, Erase
<1>4. \/ GoesTo("active", worker.exit) /\ Recorded("LeaseCommitted")
      \/ Stops /\ (UNCHANGED record \/ Recorded("LeaseCommitted"))
  BY <1>1, <1>2, Control, Journaled DEF ActivateSnapshotLease, Write, Erase, Exits, Stages, Unattached, Capturing, Attaching, Mounted
<1>5. SnapshotShape'
  BY <1>1, <1>3, <1>4, ShapeKept DEF GoesTo, Stops, Recorded, ResumeWriters, GateBecomes, Events
<1>6. JournalCoversDisk' /\ ReleasedIsUnmounted'
  BY <1>1, <1>3, <1>4
     DEF SnapshotInv, JournalCoversDisk, ReleasedIsUnmounted, DiskFollows, LogFollows, NoRecord, Recorded, Unattached, Capturing
<1>7. RecordFollows' /\ LogFollows'
  BY <1>1, <1>3, <1>4 DEF SnapshotInv, RecordFollows, LogFollows, Copying, GoesTo, Stops, Recorded, NoRecord
<1>8. DiskFollows'
  BY <1>1, <1>3, <1>4 DEF SnapshotInv, JournalCoversDisk, ReleasedIsUnmounted, DiskFollows, GoesTo, Stops, Recorded, NoRecord,
         Unattached, Capturing
<1>9. GateFollows'
  BY <1>1, <1>3, <1>4
     DEF SnapshotInv, SnapshotShape, Gates, GateFollows, Closed, Copying, GoesTo, Stops, ResumeWriters, GateBecomes, NoRecord, Recorded
<1>10. VersionFollows'
  BY <1>1, <1>3, <1>4, BoundsAreNatural
     DEF SnapshotInv, SnapshotShape, Disks, VersionFollows, Workers, Copying, GoesTo, Stops, NoRecord, Recorded, Attaching, Mounted
<1>11. QED
  BY <1>5, <1>6, <1>7, <1>8, <1>9, <1>10 DEF SnapshotInv


\* The detach is journaled under the claim the lease is rebound to.
LEMMA PrepareReleaseKeeps ==
    ASSUME SnapshotInv, PrepareRelease
    PROVE  SnapshotInv'
<1>1. /\ SnapshotShape /\ worker \in Workers /\ record \in Records
      /\ worker.pc = "active" /\ record.stage = "LeaseCommitted"
  BY DEF PrepareRelease, SnapshotInv, SnapshotShape, WorkerAt, RecordFollows, DiskFollows, LogFollows,
         GateFollows, Copying, Closed
<1>2. {"release"} \subseteq PCs
  BY DEF PCs, Acquisition, Release, Recovery
<1>3. /\ faults' \in 0..MaxFaults /\ UNCHANGED <<disk, source, gate, log, edits>>
      /\ run' \in Claims
  <2>1. CASE Guard /\ log = "leased"
    <3>1. PICK claim \in {run.claim, run.claim + 1} \cap 0..MaxClaims :
            /\ run' = [run EXCEPT !.claim = claim]
            /\ Faulty(0) \/ Faulty(0 + 1)
      BY <2>1 DEF PrepareRelease, Write
    <3>2. run' \in Claims
      BY <1>1, <3>1 DEF SnapshotShape, Claims
    <3>3. faults' \in 0..MaxFaults
      BY <1>1, <3>1, BoundsAreNatural DEF SnapshotShape, Faulty
    <3>4. QED
      BY <3>2, <3>3 DEF PrepareRelease
  <2>2. CASE ~(Guard /\ log = "leased")
    BY <1>1, <2>2 DEF PrepareRelease, SnapshotShape
  <2>3. QED
    BY <2>1, <2>2
<1>4. \/ GoesTo("release", worker.exit) /\ log = "leased" /\ Recorded("DetachPrepared")
      \/ Stops /\ (UNCHANGED record \/ Recorded("DetachPrepared"))
  BY <1>1, <1>2, Control, Journaled DEF PrepareRelease, Workers, GoesTo, Write, Erase, Exits, Stages, Unattached, Capturing, Attaching, Mounted
<1>5. SnapshotShape'
  BY <1>1, <1>3, <1>4, ShapeKept DEF GoesTo, Stops, Recorded, ResumeWriters, GateBecomes, Events
<1>6. JournalCoversDisk' /\ ReleasedIsUnmounted'
  BY <1>1, <1>3, <1>4
     DEF SnapshotInv, JournalCoversDisk, ReleasedIsUnmounted, DiskFollows, LogFollows, NoRecord, Recorded, Unattached, Capturing
<1>7. RecordFollows' /\ LogFollows'
  BY <1>1, <1>3, <1>4 DEF SnapshotInv, RecordFollows, LogFollows, Copying, GoesTo, Stops, Recorded, NoRecord
<1>8. DiskFollows'
  BY <1>1, <1>3, <1>4 DEF SnapshotInv, JournalCoversDisk, ReleasedIsUnmounted, DiskFollows, GoesTo, Stops, Recorded, NoRecord,
         Unattached, Capturing
<1>9. GateFollows'
  BY <1>1, <1>3, <1>4
     DEF SnapshotInv, SnapshotShape, Gates, GateFollows, Closed, Copying, GoesTo, Stops, ResumeWriters, GateBecomes, NoRecord, Recorded
<1>10. VersionFollows'
  BY <1>1, <1>3, <1>4, BoundsAreNatural
     DEF SnapshotInv, SnapshotShape, Disks, VersionFollows, Workers, Copying, GoesTo, Stops, NoRecord, Recorded, Attaching, Mounted
<1>11. QED
  BY <1>5, <1>6, <1>7, <1>8, <1>9, <1>10 DEF SnapshotInv


\* hdiutil detach ends: the mount is gone, or it is not, or nobody knows.
LEMMA DetachKeeps ==
    ASSUME SnapshotInv, Detach
    PROVE  SnapshotInv'
<1>1. /\ SnapshotShape /\ worker \in Workers /\ record \in Records
      /\ worker.pc = "release" /\ record.stage = "DetachPrepared" /\ log = "leased"
      /\ disk.attached \in BOOLEAN
  BY DEF Detach, Disks, SnapshotInv, SnapshotShape, WorkerAt, RecordFollows, DiskFollows, LogFollows,
         GateFollows, Copying, Closed
<1>2. {"detach_done"} \subseteq PCs
  BY DEF PCs, Acquisition, Release, Recovery
<1>3. faults' \in 0..MaxFaults /\ UNCHANGED <<record, source, gate, run, log, edits>>
  BY <1>1, BoundsAreNatural DEF Detach, DetachTo, SnapshotShape, Claims, Faulty, Write, Erase
<1>4. \/ GoesTo("detach_done", "ok") /\ AttachedBecomes(FALSE)
      \/ GoesTo("detach_done", "not_started") /\ UNCHANGED disk
      \/ GoesTo("detach_done", "unknown") /\ (AttachedBecomes(FALSE) \/ AttachedBecomes(disk.attached))
      \/ Stops /\ UNCHANGED disk
  BY <1>1, <1>2, Control, Journaled, Effects DEF Detach, DetachTo, Write, Erase, Exits, Stages, Unattached, Capturing, Attaching, Mounted
<1>5. SnapshotShape'
  BY <1>1, <1>3, <1>4, ShapeKept DEF GoesTo, Stops, Recorded, ResumeWriters, GateBecomes, Events, AttachedBecomes
<1>6. JournalCoversDisk' /\ ReleasedIsUnmounted'
  BY <1>1, <1>3, <1>4
     DEF SnapshotInv, JournalCoversDisk, ReleasedIsUnmounted, DiskFollows, LogFollows, NoRecord, Recorded, Unattached, Capturing, AttachedBecomes
<1>7. RecordFollows' /\ LogFollows'
  BY <1>1, <1>3, <1>4 DEF SnapshotInv, RecordFollows, LogFollows, Copying, GoesTo, Stops, Recorded, NoRecord, AttachedBecomes
<1>8. DiskFollows'
  BY <1>1, <1>3, <1>4 DEF SnapshotInv, JournalCoversDisk, ReleasedIsUnmounted, DiskFollows, GoesTo, Stops, Recorded, NoRecord,
         Unattached, Capturing, AttachedBecomes
<1>9. GateFollows'
  BY <1>1, <1>3, <1>4
     DEF SnapshotInv, SnapshotShape, Gates, GateFollows, Closed, Copying, GoesTo, Stops, ResumeWriters, GateBecomes, NoRecord, Recorded, AttachedBecomes
<1>10. VersionFollows'
  BY <1>1, <1>3, <1>4, BoundsAreNatural
     DEF SnapshotInv, SnapshotShape, Disks, VersionFollows, Workers, Copying, GoesTo, Stops, NoRecord, Recorded, Attaching, Mounted, AttachedBecomes
<1>11. QED
  BY <1>5, <1>6, <1>7, <1>8, <1>9, <1>10 DEF SnapshotInv


\* A detach is believed once the mount is seen to be gone.
LEMMA DetachDoneKeeps ==
    ASSUME SnapshotInv, DetachDone
    PROVE  SnapshotInv'
<1>1. /\ SnapshotShape /\ worker \in Workers /\ record \in Records
      /\ worker.pc = "detach_done" /\ record.stage = "DetachPrepared" /\ log = "leased"
  BY DEF DetachDone, SnapshotInv, SnapshotShape, WorkerAt, RecordFollows, DiskFollows, LogFollows,
         GateFollows, Copying, Closed
<1>2. {"detached"} \subseteq PCs
  BY DEF PCs, Acquisition, Release, Recovery
<1>3. faults' \in 0..MaxFaults /\ UNCHANGED <<disk, source, gate, run, log, edits>>
  BY <1>1, BoundsAreNatural DEF DetachDone, SnapshotShape, Claims, Faulty, Write, Erase
<1>4. \/ worker.exit = "ok" /\ GoesTo("detached", worker.exit) /\ Recorded("DetachedObserved")
      \/ worker.exit = "ok" /\ Stops /\ (UNCHANGED record \/ Recorded("DetachedObserved"))
      \/ worker.exit # "ok" /\ Stops /\ (UNCHANGED record \/ Recorded("LeaseCommitted") \/ Recorded("DetachOutcomeUnknown"))
  BY <1>1, <1>2, Control, Journaled DEF DetachDone, Write, Erase, Exits, Stages, Unattached, Capturing, Attaching, Mounted
<1>5. SnapshotShape'
  BY <1>1, <1>3, <1>4, ShapeKept DEF GoesTo, Stops, Recorded, ResumeWriters, GateBecomes, Events
<1>6. JournalCoversDisk' /\ ReleasedIsUnmounted'
  BY <1>1, <1>3, <1>4
     DEF SnapshotInv, JournalCoversDisk, ReleasedIsUnmounted, DiskFollows, LogFollows, NoRecord, Recorded, Unattached, Capturing
<1>7. RecordFollows' /\ LogFollows'
  BY <1>1, <1>3, <1>4 DEF SnapshotInv, RecordFollows, LogFollows, Copying, GoesTo, Stops, Recorded, NoRecord
<1>8. DiskFollows'
  BY <1>1, <1>3, <1>4 DEF SnapshotInv, JournalCoversDisk, ReleasedIsUnmounted, DiskFollows, GoesTo, Stops, Recorded, NoRecord,
         Unattached, Capturing
<1>9. GateFollows'
  BY <1>1, <1>3, <1>4
     DEF SnapshotInv, SnapshotShape, Gates, GateFollows, Closed, Copying, GoesTo, Stops, ResumeWriters, GateBecomes, NoRecord, Recorded
<1>10. VersionFollows'
  BY <1>1, <1>3, <1>4, BoundsAreNatural
     DEF SnapshotInv, SnapshotShape, Disks, VersionFollows, Workers, Copying, GoesTo, Stops, NoRecord, Recorded, Attaching, Mounted
<1>11. QED
  BY <1>5, <1>6, <1>7, <1>8, <1>9, <1>10 DEF SnapshotInv


\* The release is committed.
LEMMA AppendReleasedKeeps ==
    ASSUME SnapshotInv, AppendReleased
    PROVE  SnapshotInv'
<1>1. /\ SnapshotShape /\ worker \in Workers /\ record \in Records
      /\ worker.pc = "detached" /\ record.stage = "DetachedObserved" /\ log = "leased" /\ ~disk.attached
  BY DEF AppendReleased, ReleasedIsUnmounted, SnapshotInv, SnapshotShape, WorkerAt, RecordFollows, DiskFollows, LogFollows,
         GateFollows, Copying, Closed
<1>2. {"released"} \subseteq PCs
  BY DEF PCs, Acquisition, Release, Recovery
<1>3. faults' \in 0..MaxFaults /\ UNCHANGED <<record, disk, source, gate, run, edits>>
  BY <1>1, BoundsAreNatural DEF AppendReleased, AppendEvent, SnapshotShape, Claims, Faulty, Write, Erase
<1>4. \/ GoesTo("released", worker.exit) /\ log' = "released"
      \/ Stops /\ log' \in {"leased", "released"}
  BY <1>1, <1>2, Control, Journaled DEF AppendReleased, AppendEvent, Write, Erase, Exits, Stages, Unattached, Capturing, Attaching, Mounted
<1>5. SnapshotShape'
  BY <1>1, <1>3, <1>4, ShapeKept DEF GoesTo, Stops, Recorded, ResumeWriters, GateBecomes, Events
<1>6. JournalCoversDisk' /\ ReleasedIsUnmounted'
  BY <1>1, <1>3, <1>4
     DEF SnapshotInv, JournalCoversDisk, ReleasedIsUnmounted, DiskFollows, LogFollows, NoRecord, Recorded, Unattached, Capturing
<1>7. RecordFollows' /\ LogFollows'
  BY <1>1, <1>3, <1>4 DEF SnapshotInv, RecordFollows, LogFollows, Copying, GoesTo, Stops, Recorded, NoRecord
<1>8. DiskFollows'
  BY <1>1, <1>3, <1>4 DEF SnapshotInv, JournalCoversDisk, ReleasedIsUnmounted, DiskFollows, GoesTo, Stops, Recorded, NoRecord,
         Unattached, Capturing
<1>9. GateFollows'
  BY <1>1, <1>3, <1>4
     DEF SnapshotInv, SnapshotShape, Gates, GateFollows, Closed, Copying, GoesTo, Stops, ResumeWriters, GateBecomes, NoRecord, Recorded
<1>10. VersionFollows'
  BY <1>1, <1>3, <1>4, BoundsAreNatural
     DEF SnapshotInv, SnapshotShape, Disks, VersionFollows, Workers, Copying, GoesTo, Stops, NoRecord, Recorded, Attaching, Mounted
<1>11. QED
  BY <1>5, <1>6, <1>7, <1>8, <1>9, <1>10 DEF SnapshotInv


\* A released image is deleted.
LEMMA ReleasedImage ==
    ASSUME SnapshotInv, DeleteImage("released", "image_gone")
    PROVE  SnapshotInv'
<1>1. /\ SnapshotShape /\ worker \in Workers /\ record \in Records
      /\ worker.pc = "released" /\ record.stage = "DetachedObserved" /\ log = "released" /\ ~disk.attached
  BY DEF DeleteImage, ReleasedIsUnmounted, SnapshotInv, SnapshotShape, WorkerAt, RecordFollows, DiskFollows, LogFollows,
         GateFollows, Copying, Closed
<1>2. {"image_gone"} \subseteq PCs
  BY DEF PCs, Acquisition, Release, Recovery
<1>i. {source, Mixed, NoImage} \subseteq 0..NoImage
  BY <1>1, BoundsAreNatural DEF SnapshotShape, Mixed, NoImage
<1>3. faults' \in 0..MaxFaults /\ UNCHANGED <<record, source, gate, run, log, edits>>
  BY <1>1, BoundsAreNatural DEF DeleteImage, Observe, SnapshotShape, Claims, Faulty, Write, Erase
<1>4. \/ GoesTo("image_gone", worker.exit) /\ ImageBecomes(NoImage)
      \/ Stops /\ UNCHANGED disk
  <2>1. CASE GoesTo("image_gone", worker.exit)
    BY <1>1, <2>1, Effects, <1>i DEF DeleteImage, GoesTo
  <2>2. CASE Stops
    BY <1>1, <2>2 DEF DeleteImage, Stops
  <2>3. QED
    BY <1>1, <1>2, <2>1, <2>2, Control DEF DeleteImage, Observe
<1>5. SnapshotShape'
  BY <1>1, <1>3, <1>4, ShapeKept DEF GoesTo, Stops, Recorded, ResumeWriters, GateBecomes, Events, ImageBecomes, NoImage, Mixed
<1>6. JournalCoversDisk' /\ ReleasedIsUnmounted'
  BY <1>1, <1>3, <1>4
     DEF SnapshotInv, JournalCoversDisk, ReleasedIsUnmounted, DiskFollows, LogFollows, NoRecord, Recorded, Unattached, Capturing, ImageBecomes, NoImage, Mixed
<1>7. RecordFollows' /\ LogFollows'
  BY <1>1, <1>3, <1>4 DEF SnapshotInv, RecordFollows, LogFollows, Copying, GoesTo, Stops, Recorded, NoRecord, ImageBecomes, NoImage, Mixed
<1>8. DiskFollows'
  BY <1>1, <1>3, <1>4 DEF SnapshotInv, JournalCoversDisk, ReleasedIsUnmounted, DiskFollows, GoesTo, Stops, Recorded, NoRecord,
         Unattached, Capturing, ImageBecomes, NoImage, Mixed
<1>9. GateFollows'
  BY <1>1, <1>3, <1>4
     DEF SnapshotInv, SnapshotShape, Gates, GateFollows, Closed, Copying, GoesTo, Stops, ResumeWriters, GateBecomes, NoRecord, Recorded, ImageBecomes, NoImage, Mixed
<1>10. VersionFollows'
  BY <1>1, <1>3, <1>4, BoundsAreNatural
     DEF SnapshotInv, SnapshotShape, Disks, VersionFollows, Workers, Copying, GoesTo, Stops, NoRecord, Recorded, Attaching, Mounted, ImageBecomes, NoImage, Mixed
<1>11. QED
  BY <1>5, <1>6, <1>7, <1>8, <1>9, <1>10 DEF SnapshotInv


\* Its mount directory goes after it.
LEMMA ReleasedDirectory ==
    ASSUME SnapshotInv, DeleteDirectory("image_gone", "dir_gone")
    PROVE  SnapshotInv'
<1>1. /\ SnapshotShape /\ worker \in Workers /\ record \in Records
      /\ worker.pc = "image_gone" /\ record.stage = "DetachedObserved" /\ log = "released" /\ ~disk.attached /\ disk.image = NoImage
  BY DEF DeleteDirectory, ReleasedIsUnmounted, SnapshotInv, SnapshotShape, WorkerAt, RecordFollows, DiskFollows, LogFollows,
         GateFollows, Copying, Closed
<1>2. {"dir_gone"} \subseteq PCs
  BY DEF PCs, Acquisition, Release, Recovery
<1>3. faults' \in 0..MaxFaults /\ UNCHANGED <<record, source, gate, run, log, edits>>
  BY <1>1, BoundsAreNatural DEF DeleteDirectory, Observe, SnapshotShape, Claims, Faulty, Write, Erase
<1>4. \/ GoesTo("dir_gone", worker.exit) /\ DirBecomes(FALSE)
      \/ Stops /\ UNCHANGED disk
  <2>1. CASE GoesTo("dir_gone", worker.exit)
    BY <1>1, <2>1, Effects DEF DeleteDirectory, GoesTo
  <2>2. CASE Stops
    BY <1>1, <2>2 DEF DeleteDirectory, Stops
  <2>3. QED
    BY <1>1, <1>2, <2>1, <2>2, Control DEF DeleteDirectory, Observe
<1>5. SnapshotShape'
  BY <1>1, <1>3, <1>4, ShapeKept DEF GoesTo, Stops, Recorded, ResumeWriters, GateBecomes, Events, DirBecomes
<1>6. JournalCoversDisk' /\ ReleasedIsUnmounted'
  BY <1>1, <1>3, <1>4
     DEF SnapshotInv, JournalCoversDisk, ReleasedIsUnmounted, DiskFollows, LogFollows, NoRecord, Recorded, Unattached, Capturing, DirBecomes
<1>7. RecordFollows' /\ LogFollows'
  BY <1>1, <1>3, <1>4 DEF SnapshotInv, RecordFollows, LogFollows, Copying, GoesTo, Stops, Recorded, NoRecord, DirBecomes
<1>8. DiskFollows'
  BY <1>1, <1>3, <1>4 DEF SnapshotInv, JournalCoversDisk, ReleasedIsUnmounted, DiskFollows, GoesTo, Stops, Recorded, NoRecord,
         Unattached, Capturing, DirBecomes
<1>9. GateFollows'
  BY <1>1, <1>3, <1>4
     DEF SnapshotInv, SnapshotShape, Gates, GateFollows, Closed, Copying, GoesTo, Stops, ResumeWriters, GateBecomes, NoRecord, Recorded, DirBecomes
<1>10. VersionFollows'
  BY <1>1, <1>3, <1>4, BoundsAreNatural
     DEF SnapshotInv, SnapshotShape, Disks, VersionFollows, Workers, Copying, GoesTo, Stops, NoRecord, Recorded, Attaching, Mounted, DirBecomes
<1>11. QED
  BY <1>5, <1>6, <1>7, <1>8, <1>9, <1>10 DEF SnapshotInv


\* The record of a release goes last.
LEMMA ReleasedRecord ==
    ASSUME SnapshotInv, ConfirmRelease, WorkerAt("dir_gone")
    PROVE  SnapshotInv'
<1>1. /\ SnapshotShape /\ worker \in Workers /\ record \in Records
      /\ worker.pc = "dir_gone" /\ ~disk.attached /\ disk.image = NoImage /\ ~disk.dir /\ UNCHANGED <<disk, source, gate, run, log, edits>>
  BY DEF ConfirmRelease, JournalCoversDisk, ReleasedIsUnmounted, DeleteImage, DeleteDirectory, SnapshotInv, SnapshotShape, WorkerAt, RecordFollows, DiskFollows, LogFollows,
         GateFollows, Copying, Closed
<1>3. faults' \in 0..MaxFaults /\ UNCHANGED <<disk, source, gate, run, log, edits>>
  BY <1>1, BoundsAreNatural DEF ConfirmRelease, DeleteImage, DeleteDirectory, WorkerAt, SnapshotShape, Claims, Faulty, Write, Erase
<1>4. \/ Stops /\ (UNCHANGED record \/ record' = NoRecord)
  BY <1>1, Control, Journaled DEF ConfirmRelease, DeleteImage, DeleteDirectory, WorkerAt, Write, Erase, Exits, Stages, Unattached, Capturing, Attaching, Mounted
<1>5. SnapshotShape'
  BY <1>1, <1>3, <1>4, ShapeKept DEF GoesTo, Stops, Recorded, ResumeWriters, GateBecomes, Events
<1>6. JournalCoversDisk' /\ ReleasedIsUnmounted'
  BY <1>1, <1>3, <1>4
     DEF SnapshotInv, JournalCoversDisk, ReleasedIsUnmounted, DiskFollows, LogFollows, NoRecord, Recorded, Unattached, Capturing
<1>7. RecordFollows' /\ LogFollows'
  BY <1>1, <1>3, <1>4 DEF SnapshotInv, RecordFollows, LogFollows, Copying, GoesTo, Stops, Recorded, NoRecord
<1>8. DiskFollows'
  BY <1>1, <1>3, <1>4 DEF SnapshotInv, JournalCoversDisk, ReleasedIsUnmounted, DiskFollows, GoesTo, Stops, Recorded, NoRecord,
         Unattached, Capturing
<1>9. GateFollows'
  BY <1>1, <1>3, <1>4
     DEF SnapshotInv, SnapshotShape, Gates, GateFollows, Closed, Copying, GoesTo, Stops, ResumeWriters, GateBecomes, NoRecord, Recorded
<1>10. VersionFollows'
  BY <1>1, <1>3, <1>4, BoundsAreNatural
     DEF SnapshotInv, SnapshotShape, Disks, VersionFollows, Workers, Copying, GoesTo, Stops, NoRecord, Recorded, Attaching, Mounted
<1>11. QED
  BY <1>5, <1>6, <1>7, <1>8, <1>9, <1>10 DEF SnapshotInv


\* A committed lease whose image and mount are still there is taken up again.
LEMMA ResumeCommittedLeaseKeeps ==
    ASSUME SnapshotInv, ResumeCommittedLease
    PROVE  SnapshotInv'
<1>1. /\ SnapshotShape /\ worker \in Workers /\ record \in Records
      /\ worker.pc = "idle" /\ record # NoRecord
  BY DEF ResumeCommittedLease, SnapshotInv, SnapshotShape, WorkerAt, RecordFollows, DiskFollows, LogFollows,
         GateFollows, Copying, Closed
<1>2. {"recovered"} \subseteq PCs
  BY DEF PCs, Acquisition, Release, Recovery
<1>h. /\ disk.attached /\ record.stage \in Resting
      /\ disk.image # Mixed /\ disk.image # NoImage
  BY <1>1 DEF ResumeCommittedLease, Resumable, Resting, Mounted, SnapshotInv, VersionFollows
<1>k. disk.image \in 0..MaxEdits
  BY <1>1, <1>h, BoundsAreNatural DEF SnapshotShape, Disks, NoImage, Mixed
<1>3. faults' \in 0..MaxFaults /\ UNCHANGED <<disk, source, gate, run, log, edits>>
  BY <1>1, BoundsAreNatural DEF ResumeCommittedLease, SnapshotShape, Claims, Faulty, Write, Erase
<1>4. \/ GoesTo("recovered", worker.exit) /\ Recorded("LeaseCommitted")
      \/ Stops /\ (UNCHANGED record \/ Recorded("LeaseCommitted"))
  BY <1>1, <1>2, Control, Journaled DEF ResumeCommittedLease, Write, Erase, Exits, Stages, Unattached, Capturing, Attaching, Mounted
<1>5. SnapshotShape'
  BY <1>1, <1>h, <1>k, <1>3, <1>4, ShapeKept DEF GoesTo, Stops, Recorded, ResumeWriters, GateBecomes, Events, Mixed
<1>6. JournalCoversDisk' /\ ReleasedIsUnmounted'
  BY <1>1, <1>h, <1>k, <1>3, <1>4
     DEF SnapshotInv, JournalCoversDisk, ReleasedIsUnmounted, DiskFollows, LogFollows, NoRecord, Recorded, Unattached, Capturing, Mixed
<1>7. RecordFollows' /\ LogFollows'
  BY <1>1, <1>h, <1>k, <1>3, <1>4 DEF SnapshotInv, RecordFollows, LogFollows, Copying, GoesTo, Stops, Recorded, NoRecord, Mixed
<1>8. DiskFollows'
  BY <1>1, <1>h, <1>k, <1>3, <1>4 DEF SnapshotInv, JournalCoversDisk, ReleasedIsUnmounted, DiskFollows, GoesTo, Stops, Recorded, NoRecord,
         Unattached, Capturing, Mixed
<1>9. GateFollows'
  BY <1>1, <1>h, <1>k, <1>3, <1>4
     DEF SnapshotInv, SnapshotShape, Gates, GateFollows, Closed, Copying, GoesTo, Stops, ResumeWriters, GateBecomes, NoRecord, Recorded, Mixed
<1>10. VersionFollows'
  BY <1>1, <1>h, <1>k, <1>3, <1>4, BoundsAreNatural
     DEF SnapshotInv, SnapshotShape, Disks, VersionFollows, Workers, Copying, GoesTo, Stops, NoRecord, Recorded, Attaching, Mounted, Mixed
<1>11. QED
  BY <1>5, <1>6, <1>7, <1>8, <1>9, <1>10 DEF SnapshotInv


\* It is bound to the present claim.
LEMMA BindRecoveredKeeps ==
    ASSUME SnapshotInv, BindRecovered
    PROVE  SnapshotInv'
<1>1. /\ SnapshotShape /\ worker \in Workers /\ record \in Records
      /\ worker.pc = "recovered" /\ record.stage = "LeaseCommitted" /\ disk.image \in 0..MaxEdits
  BY DEF BindRecovered, SnapshotInv, SnapshotShape, WorkerAt, RecordFollows, DiskFollows, LogFollows,
         GateFollows, Copying, Closed
<1>2. {"active"} \subseteq PCs
  BY DEF PCs, Acquisition, Release, Recovery
<1>3. faults' \in 0..MaxFaults /\ UNCHANGED <<record, disk, source, gate, run, log, edits>>
  BY <1>1, BoundsAreNatural DEF BindRecovered, SnapshotShape, Claims, Faulty, Write, Erase
<1>4. \/ Rebound /\ log = "leased"
      \/ Stops
  BY <1>1, <1>2, Control, Journaled DEF BindRecovered, SnapshotShape, Claims, Workers, Rebound, Write, Erase, Exits, Stages, Unattached, Capturing, Attaching, Mounted
<1>5. SnapshotShape'
  BY <1>1, <1>3, <1>4, ShapeKept DEF GoesTo, Stops, Recorded, ResumeWriters, GateBecomes, Events, Rebound
<1>6. JournalCoversDisk' /\ ReleasedIsUnmounted'
  BY <1>1, <1>3, <1>4
     DEF SnapshotInv, JournalCoversDisk, ReleasedIsUnmounted, DiskFollows, LogFollows, NoRecord, Recorded, Unattached, Capturing, Rebound
<1>7. RecordFollows' /\ LogFollows'
  BY <1>1, <1>3, <1>4 DEF SnapshotInv, RecordFollows, LogFollows, Copying, GoesTo, Stops, Recorded, NoRecord, Rebound
<1>8. DiskFollows'
  BY <1>1, <1>3, <1>4 DEF SnapshotInv, JournalCoversDisk, ReleasedIsUnmounted, DiskFollows, GoesTo, Stops, Recorded, NoRecord,
         Unattached, Capturing, Rebound
<1>9. GateFollows'
  BY <1>1, <1>3, <1>4
     DEF SnapshotInv, SnapshotShape, Gates, GateFollows, Closed, Copying, GoesTo, Stops, ResumeWriters, GateBecomes, NoRecord, Recorded, Rebound
<1>10. VersionFollows'
  BY <1>1, <1>3, <1>4, BoundsAreNatural
     DEF SnapshotInv, SnapshotShape, Disks, VersionFollows, Workers, Copying, GoesTo, Stops, NoRecord, Recorded, Attaching, Mounted, Rebound
<1>11. QED
  BY <1>5, <1>6, <1>7, <1>8, <1>9, <1>10 DEF SnapshotInv


\* Recovery begins with what may be on disk at this stage.
LEMMA AbandonKeeps ==
    ASSUME SnapshotInv, Abandon
    PROVE  SnapshotInv'
<1>1. /\ SnapshotShape /\ worker \in Workers /\ record \in Records
      /\ worker.pc = "idle" /\ record # NoRecord
  BY DEF Abandon, SnapshotInv, SnapshotShape, WorkerAt, RecordFollows, DiskFollows, LogFollows,
         GateFollows, Copying, Closed
<1>2. {"r_prepare", "r_recheck"} \subseteq PCs
  BY DEF PCs, Acquisition, Release, Recovery
<1>3. faults' \in 0..MaxFaults /\ UNCHANGED <<record, disk, source, gate, run, log, edits>>
  BY <1>1, BoundsAreNatural DEF Abandon, Observe, Attestable, SnapshotShape, Claims, Faulty, Write, Erase
<1>4. \/ disk.attached /\ record.stage \in Resting /\ GoesTo("r_prepare", worker.exit)
      \/ ~disk.attached /\ GoesTo("r_recheck", worker.exit)
      \/ Stops
  BY <1>1, <1>2, Control, Journaled DEF Abandon, Observe, Attestable, SnapshotInv, SnapshotShape, ReleasedIsUnmounted, Resting, Write, Erase, Exits, Stages, Unattached, Capturing, Attaching, Mounted
<1>5. SnapshotShape'
  BY <1>1, <1>3, <1>4, ShapeKept DEF GoesTo, Stops, Recorded, ResumeWriters, GateBecomes, Events, Resting
<1>6. JournalCoversDisk' /\ ReleasedIsUnmounted'
  BY <1>1, <1>3, <1>4
     DEF SnapshotInv, JournalCoversDisk, ReleasedIsUnmounted, DiskFollows, LogFollows, NoRecord, Recorded, Unattached, Capturing, Resting
<1>7. RecordFollows' /\ LogFollows'
  BY <1>1, <1>3, <1>4 DEF SnapshotInv, RecordFollows, LogFollows, Copying, GoesTo, Stops, Recorded, NoRecord, Resting
<1>8. DiskFollows'
  BY <1>1, <1>3, <1>4 DEF SnapshotInv, JournalCoversDisk, ReleasedIsUnmounted, DiskFollows, GoesTo, Stops, Recorded, NoRecord,
         Unattached, Capturing, Resting
<1>9. GateFollows'
  BY <1>1, <1>3, <1>4
     DEF SnapshotInv, SnapshotShape, Gates, GateFollows, Closed, Copying, GoesTo, Stops, ResumeWriters, GateBecomes, NoRecord, Recorded, Resting
<1>10. VersionFollows'
  BY <1>1, <1>3, <1>4, BoundsAreNatural
     DEF SnapshotInv, SnapshotShape, Disks, VersionFollows, Workers, Copying, GoesTo, Stops, NoRecord, Recorded, Attaching, Mounted, Resting
<1>11. QED
  BY <1>5, <1>6, <1>7, <1>8, <1>9, <1>10 DEF SnapshotInv


\* Recovery journals the detach and keeps the record it may restore.
LEMMA RecoveryPrepareDetachKeeps ==
    ASSUME SnapshotInv, RecoveryPrepareDetach
    PROVE  SnapshotInv'
<1>1. /\ SnapshotShape /\ worker \in Workers /\ record \in Records
      /\ worker.pc = "r_prepare" /\ record.stage \in Resting
  BY DEF RecoveryPrepareDetach, SnapshotInv, SnapshotShape, WorkerAt, RecordFollows, DiskFollows, LogFollows,
         GateFollows, Copying, Closed
<1>2. {"r_confirm"} \subseteq PCs
  BY DEF PCs, Acquisition, Release, Recovery
<1>3. faults' \in 0..MaxFaults /\ UNCHANGED <<disk, source, gate, run, log, edits>>
  BY <1>1, BoundsAreNatural DEF RecoveryPrepareDetach, SnapshotShape, Claims, Faulty, Write, Erase
<1>4. \/ SavedRecord /\ Recorded("DetachPrepared")
      \/ Stops /\ (UNCHANGED record \/ Recorded("DetachPrepared"))
  BY <1>1, <1>2, Control, Journaled DEF RecoveryPrepareDetach, Workers, SavedRecord, Write, Erase, Exits, Stages, Unattached, Capturing, Attaching, Mounted
<1>5. SnapshotShape'
  BY <1>1, <1>3, <1>4, ShapeKept DEF GoesTo, Stops, Recorded, ResumeWriters, GateBecomes, Events, SavedRecord, Resting, Attaching, Mounted, Stages
<1>6. JournalCoversDisk' /\ ReleasedIsUnmounted'
  BY <1>1, <1>3, <1>4
     DEF SnapshotInv, JournalCoversDisk, ReleasedIsUnmounted, DiskFollows, LogFollows, NoRecord, Recorded, Unattached, Capturing, SavedRecord, Resting, Attaching, Mounted
<1>7. RecordFollows' /\ LogFollows'
  BY <1>1, <1>3, <1>4 DEF SnapshotInv, RecordFollows, LogFollows, Copying, GoesTo, Stops, Recorded, NoRecord, SavedRecord, Resting, Attaching, Mounted
<1>8. DiskFollows'
  BY <1>1, <1>3, <1>4 DEF SnapshotInv, JournalCoversDisk, ReleasedIsUnmounted, DiskFollows, GoesTo, Stops, Recorded, NoRecord,
         Unattached, Capturing, SavedRecord, Resting, Attaching, Mounted
<1>9. GateFollows'
  BY <1>1, <1>3, <1>4
     DEF SnapshotInv, SnapshotShape, Gates, GateFollows, Closed, Copying, GoesTo, Stops, ResumeWriters, GateBecomes, NoRecord, Recorded, SavedRecord, Resting, Attaching, Mounted
<1>10. VersionFollows'
  BY <1>1, <1>3, <1>4, BoundsAreNatural
     DEF SnapshotInv, SnapshotShape, Disks, VersionFollows, Workers, Copying, GoesTo, Stops, NoRecord, Recorded, Attaching, Mounted, SavedRecord, Resting, Attaching, Mounted
<1>11. QED
  BY <1>5, <1>6, <1>7, <1>8, <1>9, <1>10 DEF SnapshotInv


\* The topology is confirmed once more, or the record that was there is restored.
LEMMA RecoveryConfirmKeeps ==
    ASSUME SnapshotInv, RecoveryConfirm
    PROVE  SnapshotInv'
<1>1. /\ SnapshotShape /\ worker \in Workers /\ record \in Records
      /\ worker.pc = "r_confirm" /\ record.stage = "DetachPrepared" /\ worker.saved.stage \in Resting
  BY DEF RecoveryConfirm, SnapshotInv, SnapshotShape, WorkerAt, RecordFollows, DiskFollows, LogFollows,
         GateFollows, Copying, Closed
<1>2. {"r_detach"} \subseteq PCs
  BY DEF PCs, Acquisition, Release, Recovery
<1>3. faults' \in 0..MaxFaults /\ UNCHANGED <<disk, source, gate, run, log, edits>>
  BY <1>1, BoundsAreNatural DEF RecoveryConfirm, SnapshotShape, Claims, Faulty, Write, Erase
<1>4. \/ GoesTo("r_detach", worker.exit) /\ UNCHANGED record
      \/ Stops /\ (UNCHANGED record \/ (\E stage \in Resting : Recorded(stage)))
  BY <1>1, <1>2, Control, Journaled, Restored DEF RecoveryConfirm, Write, Erase, Exits, Stages, Unattached, Capturing, Attaching, Mounted
<1>5. SnapshotShape'
  BY <1>1, <1>3, <1>4, ShapeKept DEF GoesTo, Stops, Recorded, ResumeWriters, GateBecomes, Events, Resting, Attaching, Mounted
<1>6. JournalCoversDisk' /\ ReleasedIsUnmounted'
  BY <1>1, <1>3, <1>4
     DEF SnapshotInv, JournalCoversDisk, ReleasedIsUnmounted, DiskFollows, LogFollows, NoRecord, Recorded, Unattached, Capturing, Resting, Attaching, Mounted
<1>7. RecordFollows' /\ LogFollows'
  BY <1>1, <1>3, <1>4 DEF SnapshotInv, RecordFollows, LogFollows, Copying, GoesTo, Stops, Recorded, NoRecord, Resting, Attaching, Mounted
<1>8. DiskFollows'
  BY <1>1, <1>3, <1>4 DEF SnapshotInv, JournalCoversDisk, ReleasedIsUnmounted, DiskFollows, GoesTo, Stops, Recorded, NoRecord,
         Unattached, Capturing, Resting, Attaching, Mounted
<1>9. GateFollows'
  BY <1>1, <1>3, <1>4
     DEF SnapshotInv, SnapshotShape, Gates, GateFollows, Closed, Copying, GoesTo, Stops, ResumeWriters, GateBecomes, NoRecord, Recorded, Resting, Attaching, Mounted
<1>10. VersionFollows'
  BY <1>1, <1>3, <1>4, BoundsAreNatural
     DEF SnapshotInv, SnapshotShape, Disks, VersionFollows, Workers, Copying, GoesTo, Stops, NoRecord, Recorded, Attaching, Mounted, Resting, Attaching, Mounted
<1>11. QED
  BY <1>5, <1>6, <1>7, <1>8, <1>9, <1>10 DEF SnapshotInv


\* Recovery detaches as the release does.
LEMMA RecoveryDetachKeeps ==
    ASSUME SnapshotInv, RecoveryDetach
    PROVE  SnapshotInv'
<1>1. /\ SnapshotShape /\ worker \in Workers /\ record \in Records
      /\ worker.pc = "r_detach" /\ record.stage = "DetachPrepared" /\ worker.saved.stage \in Resting
      /\ disk.attached \in BOOLEAN
  BY DEF RecoveryDetach, Disks, SnapshotInv, SnapshotShape, WorkerAt, RecordFollows, DiskFollows, LogFollows,
         GateFollows, Copying, Closed
<1>2. {"r_detach_done"} \subseteq PCs
  BY DEF PCs, Acquisition, Release, Recovery
<1>3. faults' \in 0..MaxFaults /\ UNCHANGED <<record, source, gate, run, log, edits>>
  BY <1>1, BoundsAreNatural DEF RecoveryDetach, DetachTo, SnapshotShape, Claims, Faulty, Write, Erase
<1>4. \/ GoesTo("r_detach_done", "ok") /\ AttachedBecomes(FALSE)
      \/ GoesTo("r_detach_done", "not_started") /\ UNCHANGED disk
      \/ GoesTo("r_detach_done", "unknown") /\ (AttachedBecomes(FALSE) \/ AttachedBecomes(disk.attached))
  BY <1>1, <1>2, Control, Journaled, Effects DEF RecoveryDetach, DetachTo, Write, Erase, Exits, Stages, Unattached, Capturing, Attaching, Mounted
<1>5. SnapshotShape'
  BY <1>1, <1>3, <1>4, ShapeKept DEF GoesTo, Stops, Recorded, ResumeWriters, GateBecomes, Events, AttachedBecomes
<1>6. JournalCoversDisk' /\ ReleasedIsUnmounted'
  BY <1>1, <1>3, <1>4
     DEF SnapshotInv, JournalCoversDisk, ReleasedIsUnmounted, DiskFollows, LogFollows, NoRecord, Recorded, Unattached, Capturing, AttachedBecomes
<1>7. RecordFollows' /\ LogFollows'
  BY <1>1, <1>3, <1>4 DEF SnapshotInv, RecordFollows, LogFollows, Copying, GoesTo, Stops, Recorded, NoRecord, AttachedBecomes
<1>8. DiskFollows'
  BY <1>1, <1>3, <1>4 DEF SnapshotInv, JournalCoversDisk, ReleasedIsUnmounted, DiskFollows, GoesTo, Stops, Recorded, NoRecord,
         Unattached, Capturing, AttachedBecomes
<1>9. GateFollows'
  BY <1>1, <1>3, <1>4
     DEF SnapshotInv, SnapshotShape, Gates, GateFollows, Closed, Copying, GoesTo, Stops, ResumeWriters, GateBecomes, NoRecord, Recorded, AttachedBecomes
<1>10. VersionFollows'
  BY <1>1, <1>3, <1>4, BoundsAreNatural
     DEF SnapshotInv, SnapshotShape, Disks, VersionFollows, Workers, Copying, GoesTo, Stops, NoRecord, Recorded, Attaching, Mounted, AttachedBecomes
<1>11. QED
  BY <1>5, <1>6, <1>7, <1>8, <1>9, <1>10 DEF SnapshotInv


\* What came of it is journaled, or restored.
LEMMA RecoveryDetachDoneKeeps ==
    ASSUME SnapshotInv, RecoveryDetachDone
    PROVE  SnapshotInv'
<1>1. /\ SnapshotShape /\ worker \in Workers /\ record \in Records
      /\ worker.pc = "r_detach_done" /\ record.stage = "DetachPrepared" /\ worker.saved.stage \in Resting
  BY DEF RecoveryDetachDone, SnapshotInv, SnapshotShape, WorkerAt, RecordFollows, DiskFollows, LogFollows,
         GateFollows, Copying, Closed
<1>2. {"r_verify"} \subseteq PCs
  BY DEF PCs, Acquisition, Release, Recovery
<1>3. faults' \in 0..MaxFaults /\ UNCHANGED <<disk, source, gate, run, log, edits>>
  BY <1>1, BoundsAreNatural DEF RecoveryDetachDone, SnapshotShape, Claims, Faulty, Write, Erase
<1>4. \/ worker.exit = "ok" /\ GoesTo("r_verify", worker.exit) /\ UNCHANGED record
      \/ Stops /\ (UNCHANGED record \/ Recorded("DetachOutcomeUnknown") \/ (\E stage \in Resting : Recorded(stage)))
  BY <1>1, <1>2, Control, Journaled, Restored DEF RecoveryDetachDone, Write, Erase, Exits, Stages, Unattached, Capturing, Attaching, Mounted
<1>5. SnapshotShape'
  BY <1>1, <1>3, <1>4, ShapeKept DEF GoesTo, Stops, Recorded, ResumeWriters, GateBecomes, Events, Resting, Attaching, Mounted
<1>6. JournalCoversDisk' /\ ReleasedIsUnmounted'
  BY <1>1, <1>3, <1>4
     DEF SnapshotInv, JournalCoversDisk, ReleasedIsUnmounted, DiskFollows, LogFollows, NoRecord, Recorded, Unattached, Capturing, Resting, Attaching, Mounted
<1>7. RecordFollows' /\ LogFollows'
  BY <1>1, <1>3, <1>4 DEF SnapshotInv, RecordFollows, LogFollows, Copying, GoesTo, Stops, Recorded, NoRecord, Resting, Attaching, Mounted
<1>8. DiskFollows'
  BY <1>1, <1>3, <1>4 DEF SnapshotInv, JournalCoversDisk, ReleasedIsUnmounted, DiskFollows, GoesTo, Stops, Recorded, NoRecord,
         Unattached, Capturing, Resting, Attaching, Mounted
<1>9. GateFollows'
  BY <1>1, <1>3, <1>4
     DEF SnapshotInv, SnapshotShape, Gates, GateFollows, Closed, Copying, GoesTo, Stops, ResumeWriters, GateBecomes, NoRecord, Recorded, Resting, Attaching, Mounted
<1>10. VersionFollows'
  BY <1>1, <1>3, <1>4, BoundsAreNatural
     DEF SnapshotInv, SnapshotShape, Disks, VersionFollows, Workers, Copying, GoesTo, Stops, NoRecord, Recorded, Attaching, Mounted, Resting, Attaching, Mounted
<1>11. QED
  BY <1>5, <1>6, <1>7, <1>8, <1>9, <1>10 DEF SnapshotInv


\* The mount is seen to be gone.
LEMMA RecoveryVerifyKeeps ==
    ASSUME SnapshotInv, RecoveryVerify
    PROVE  SnapshotInv'
<1>1. /\ SnapshotShape /\ worker \in Workers /\ record \in Records
      /\ worker.pc = "r_verify" /\ record.stage = "DetachPrepared" /\ ~disk.attached
  BY DEF RecoveryVerify, SnapshotInv, SnapshotShape, WorkerAt, RecordFollows, DiskFollows, LogFollows,
         GateFollows, Copying, Closed
<1>2. {"r_image"} \subseteq PCs
  BY DEF PCs, Acquisition, Release, Recovery
<1>3. faults' \in 0..MaxFaults /\ UNCHANGED <<disk, source, gate, run, log, edits>>
  BY <1>1, BoundsAreNatural DEF RecoveryVerify, SnapshotShape, Claims, Faulty, Write, Erase
<1>4. \/ GoesTo("r_image", worker.exit) /\ Recorded("DetachedObserved")
      \/ Stops /\ (UNCHANGED record \/ Recorded("DetachedObserved") \/ Recorded("DetachOutcomeUnknown"))
  BY <1>1, <1>2, Control, Journaled DEF RecoveryVerify, Write, Erase, Exits, Stages, Unattached, Capturing, Attaching, Mounted
<1>5. SnapshotShape'
  BY <1>1, <1>3, <1>4, ShapeKept DEF GoesTo, Stops, Recorded, ResumeWriters, GateBecomes, Events
<1>6. JournalCoversDisk' /\ ReleasedIsUnmounted'
  BY <1>1, <1>3, <1>4
     DEF SnapshotInv, JournalCoversDisk, ReleasedIsUnmounted, DiskFollows, LogFollows, NoRecord, Recorded, Unattached, Capturing
<1>7. RecordFollows' /\ LogFollows'
  BY <1>1, <1>3, <1>4 DEF SnapshotInv, RecordFollows, LogFollows, Copying, GoesTo, Stops, Recorded, NoRecord
<1>8. DiskFollows'
  BY <1>1, <1>3, <1>4 DEF SnapshotInv, JournalCoversDisk, ReleasedIsUnmounted, DiskFollows, GoesTo, Stops, Recorded, NoRecord,
         Unattached, Capturing
<1>9. GateFollows'
  BY <1>1, <1>3, <1>4
     DEF SnapshotInv, SnapshotShape, Gates, GateFollows, Closed, Copying, GoesTo, Stops, ResumeWriters, GateBecomes, NoRecord, Recorded
<1>10. VersionFollows'
  BY <1>1, <1>3, <1>4, BoundsAreNatural
     DEF SnapshotInv, SnapshotShape, Disks, VersionFollows, Workers, Copying, GoesTo, Stops, NoRecord, Recorded, Attaching, Mounted
<1>11. QED
  BY <1>5, <1>6, <1>7, <1>8, <1>9, <1>10 DEF SnapshotInv


\* Nothing is mounted.
LEMMA RecoveryRecheckKeeps ==
    ASSUME SnapshotInv, RecoveryRecheck
    PROVE  SnapshotInv'
<1>1. /\ SnapshotShape /\ worker \in Workers /\ record \in Records
      /\ worker.pc = "r_recheck" /\ ~disk.attached
  BY DEF RecoveryRecheck, SnapshotInv, SnapshotShape, WorkerAt, RecordFollows, DiskFollows, LogFollows,
         GateFollows, Copying, Closed
<1>2. {"r_image"} \subseteq PCs
  BY DEF PCs, Acquisition, Release, Recovery
<1>3. faults' \in 0..MaxFaults /\ UNCHANGED <<record, disk, source, gate, run, log, edits>>
  BY <1>1, BoundsAreNatural DEF RecoveryRecheck, Observe, SnapshotShape, Claims, Faulty, Write, Erase
<1>4. \/ GoesTo("r_image", worker.exit)
      \/ Stops
  BY <1>1, <1>2, Control, Journaled DEF RecoveryRecheck, Observe, Write, Erase, Exits, Stages, Unattached, Capturing, Attaching, Mounted
<1>5. SnapshotShape'
  BY <1>1, <1>3, <1>4, ShapeKept DEF GoesTo, Stops, Recorded, ResumeWriters, GateBecomes, Events
<1>6. JournalCoversDisk' /\ ReleasedIsUnmounted'
  BY <1>1, <1>3, <1>4
     DEF SnapshotInv, JournalCoversDisk, ReleasedIsUnmounted, DiskFollows, LogFollows, NoRecord, Recorded, Unattached, Capturing
<1>7. RecordFollows' /\ LogFollows'
  BY <1>1, <1>3, <1>4 DEF SnapshotInv, RecordFollows, LogFollows, Copying, GoesTo, Stops, Recorded, NoRecord
<1>8. DiskFollows'
  BY <1>1, <1>3, <1>4 DEF SnapshotInv, JournalCoversDisk, ReleasedIsUnmounted, DiskFollows, GoesTo, Stops, Recorded, NoRecord,
         Unattached, Capturing
<1>9. GateFollows'
  BY <1>1, <1>3, <1>4
     DEF SnapshotInv, SnapshotShape, Gates, GateFollows, Closed, Copying, GoesTo, Stops, ResumeWriters, GateBecomes, NoRecord, Recorded
<1>10. VersionFollows'
  BY <1>1, <1>3, <1>4, BoundsAreNatural
     DEF SnapshotInv, SnapshotShape, Disks, VersionFollows, Workers, Copying, GoesTo, Stops, NoRecord, Recorded, Attaching, Mounted
<1>11. QED
  BY <1>5, <1>6, <1>7, <1>8, <1>9, <1>10 DEF SnapshotInv


\* Recovery deletes the image.
LEMMA AbandonedImage ==
    ASSUME SnapshotInv, DeleteImage("r_image", "r_mount")
    PROVE  SnapshotInv'
<1>1. /\ SnapshotShape /\ worker \in Workers /\ record \in Records
      /\ worker.pc = "r_image" /\ ~disk.attached
  BY DEF DeleteImage, SnapshotInv, SnapshotShape, WorkerAt, RecordFollows, DiskFollows, LogFollows,
         GateFollows, Copying, Closed
<1>2. {"r_mount"} \subseteq PCs
  BY DEF PCs, Acquisition, Release, Recovery
<1>i. {source, Mixed, NoImage} \subseteq 0..NoImage
  BY <1>1, BoundsAreNatural DEF SnapshotShape, Mixed, NoImage
<1>3. faults' \in 0..MaxFaults /\ UNCHANGED <<record, source, gate, run, log, edits>>
  BY <1>1, BoundsAreNatural DEF DeleteImage, Observe, SnapshotShape, Claims, Faulty, Write, Erase
<1>4. \/ GoesTo("r_mount", worker.exit) /\ ImageBecomes(NoImage)
      \/ Stops /\ UNCHANGED disk
  <2>1. CASE GoesTo("r_mount", worker.exit)
    BY <1>1, <2>1, Effects, <1>i DEF DeleteImage, GoesTo
  <2>2. CASE Stops
    BY <1>1, <2>2 DEF DeleteImage, Stops
  <2>3. QED
    BY <1>1, <1>2, <2>1, <2>2, Control DEF DeleteImage, Observe
<1>5. SnapshotShape'
  BY <1>1, <1>3, <1>4, ShapeKept DEF GoesTo, Stops, Recorded, ResumeWriters, GateBecomes, Events, ImageBecomes, NoImage, Mixed
<1>6. JournalCoversDisk' /\ ReleasedIsUnmounted'
  BY <1>1, <1>3, <1>4
     DEF SnapshotInv, JournalCoversDisk, ReleasedIsUnmounted, DiskFollows, LogFollows, NoRecord, Recorded, Unattached, Capturing, ImageBecomes, NoImage, Mixed
<1>7. RecordFollows' /\ LogFollows'
  BY <1>1, <1>3, <1>4 DEF SnapshotInv, RecordFollows, LogFollows, Copying, GoesTo, Stops, Recorded, NoRecord, ImageBecomes, NoImage, Mixed
<1>8. DiskFollows'
  BY <1>1, <1>3, <1>4 DEF SnapshotInv, JournalCoversDisk, ReleasedIsUnmounted, DiskFollows, GoesTo, Stops, Recorded, NoRecord,
         Unattached, Capturing, ImageBecomes, NoImage, Mixed
<1>9. GateFollows'
  BY <1>1, <1>3, <1>4
     DEF SnapshotInv, SnapshotShape, Gates, GateFollows, Closed, Copying, GoesTo, Stops, ResumeWriters, GateBecomes, NoRecord, Recorded, ImageBecomes, NoImage, Mixed
<1>10. VersionFollows'
  BY <1>1, <1>3, <1>4, BoundsAreNatural
     DEF SnapshotInv, SnapshotShape, Disks, VersionFollows, Workers, Copying, GoesTo, Stops, NoRecord, Recorded, Attaching, Mounted, ImageBecomes, NoImage, Mixed
<1>11. QED
  BY <1>5, <1>6, <1>7, <1>8, <1>9, <1>10 DEF SnapshotInv


\* Recovery deletes the directory.
LEMMA AbandonedDirectory ==
    ASSUME SnapshotInv, DeleteDirectory("r_mount", "r_remove")
    PROVE  SnapshotInv'
<1>1. /\ SnapshotShape /\ worker \in Workers /\ record \in Records
      /\ worker.pc = "r_mount" /\ ~disk.attached /\ disk.image = NoImage
  BY DEF DeleteDirectory, SnapshotInv, SnapshotShape, WorkerAt, RecordFollows, DiskFollows, LogFollows,
         GateFollows, Copying, Closed
<1>2. {"r_remove"} \subseteq PCs
  BY DEF PCs, Acquisition, Release, Recovery
<1>3. faults' \in 0..MaxFaults /\ UNCHANGED <<record, source, gate, run, log, edits>>
  BY <1>1, BoundsAreNatural DEF DeleteDirectory, Observe, SnapshotShape, Claims, Faulty, Write, Erase
<1>4. \/ GoesTo("r_remove", worker.exit) /\ DirBecomes(FALSE)
      \/ Stops /\ UNCHANGED disk
  <2>1. CASE GoesTo("r_remove", worker.exit)
    BY <1>1, <2>1, Effects DEF DeleteDirectory, GoesTo
  <2>2. CASE Stops
    BY <1>1, <2>2 DEF DeleteDirectory, Stops
  <2>3. QED
    BY <1>1, <1>2, <2>1, <2>2, Control DEF DeleteDirectory, Observe
<1>5. SnapshotShape'
  BY <1>1, <1>3, <1>4, ShapeKept DEF GoesTo, Stops, Recorded, ResumeWriters, GateBecomes, Events, DirBecomes
<1>6. JournalCoversDisk' /\ ReleasedIsUnmounted'
  BY <1>1, <1>3, <1>4
     DEF SnapshotInv, JournalCoversDisk, ReleasedIsUnmounted, DiskFollows, LogFollows, NoRecord, Recorded, Unattached, Capturing, DirBecomes
<1>7. RecordFollows' /\ LogFollows'
  BY <1>1, <1>3, <1>4 DEF SnapshotInv, RecordFollows, LogFollows, Copying, GoesTo, Stops, Recorded, NoRecord, DirBecomes
<1>8. DiskFollows'
  BY <1>1, <1>3, <1>4 DEF SnapshotInv, JournalCoversDisk, ReleasedIsUnmounted, DiskFollows, GoesTo, Stops, Recorded, NoRecord,
         Unattached, Capturing, DirBecomes
<1>9. GateFollows'
  BY <1>1, <1>3, <1>4
     DEF SnapshotInv, SnapshotShape, Gates, GateFollows, Closed, Copying, GoesTo, Stops, ResumeWriters, GateBecomes, NoRecord, Recorded, DirBecomes
<1>10. VersionFollows'
  BY <1>1, <1>3, <1>4, BoundsAreNatural
     DEF SnapshotInv, SnapshotShape, Disks, VersionFollows, Workers, Copying, GoesTo, Stops, NoRecord, Recorded, Attaching, Mounted, DirBecomes
<1>11. QED
  BY <1>5, <1>6, <1>7, <1>8, <1>9, <1>10 DEF SnapshotInv


\* The record of an abandoned snapshot goes last, and the gate opens.
LEMMA AbandonedRecord ==
    ASSUME SnapshotInv, RecoveryRemove, WorkerAt("r_remove")
    PROVE  SnapshotInv'
<1>1. /\ SnapshotShape /\ worker \in Workers /\ record \in Records
      /\ worker.pc = "r_remove" /\ ~disk.attached /\ disk.image = NoImage /\ ~disk.dir
  BY DEF RecoveryRemove, DeleteImage, DeleteDirectory, SnapshotInv, SnapshotShape, WorkerAt, RecordFollows, DiskFollows, LogFollows,
         GateFollows, Copying, Closed
<1>3. faults' \in 0..MaxFaults /\ UNCHANGED <<disk, source, run, log, edits>>
  BY <1>1, BoundsAreNatural DEF RecoveryRemove, DeleteImage, DeleteDirectory, ResumeWriters, WorkerAt, SnapshotShape, Claims, Faulty, Write, Erase
<1>4. \/ Stops /\ UNCHANGED <<record, gate>>
      \/ Stops /\ record' = NoRecord /\ (ResumeWriters \/ UNCHANGED gate)
  BY <1>1, Control, Journaled DEF RecoveryRemove, DeleteImage, DeleteDirectory, ResumeWriters, WorkerAt, Write, Erase, Exits, Stages, Unattached, Capturing, Attaching, Mounted
<1>5. SnapshotShape'
  BY <1>1, <1>3, <1>4, ShapeKept DEF GoesTo, Stops, Recorded, ResumeWriters, GateBecomes, Events
<1>6. JournalCoversDisk' /\ ReleasedIsUnmounted'
  BY <1>1, <1>3, <1>4
     DEF SnapshotInv, JournalCoversDisk, ReleasedIsUnmounted, DiskFollows, LogFollows, NoRecord, Recorded, Unattached, Capturing
<1>7. RecordFollows' /\ LogFollows'
  BY <1>1, <1>3, <1>4 DEF SnapshotInv, RecordFollows, LogFollows, Copying, GoesTo, Stops, Recorded, NoRecord
<1>8. DiskFollows'
  BY <1>1, <1>3, <1>4 DEF SnapshotInv, JournalCoversDisk, ReleasedIsUnmounted, DiskFollows, GoesTo, Stops, Recorded, NoRecord,
         Unattached, Capturing
<1>9. GateFollows'
  BY <1>1, <1>3, <1>4
     DEF SnapshotInv, SnapshotShape, Gates, GateFollows, Closed, Copying, GoesTo, Stops, ResumeWriters, GateBecomes, NoRecord, Recorded
<1>10. VersionFollows'
  BY <1>1, <1>3, <1>4, BoundsAreNatural
     DEF SnapshotInv, SnapshotShape, Disks, VersionFollows, Workers, Copying, GoesTo, Stops, NoRecord, Recorded, Attaching, Mounted
<1>11. QED
  BY <1>5, <1>6, <1>7, <1>8, <1>9, <1>10 DEF SnapshotInv


\* The process ends; a copy that was under way leaves what it had written.
LEMMA CrashManagerKeeps ==
    ASSUME SnapshotInv, CrashManager
    PROVE  SnapshotInv'
<1>1. /\ SnapshotShape /\ worker \in Workers /\ record \in Records
  BY DEF CrashManager, SnapshotInv, SnapshotShape, WorkerAt, RecordFollows, DiskFollows, LogFollows,
         GateFollows, Copying, Closed
<1>i. {source, Mixed, NoImage} \subseteq 0..NoImage
  BY <1>1, BoundsAreNatural DEF SnapshotShape, Mixed, NoImage
<1>3. faults' \in 0..MaxFaults /\ UNCHANGED <<record, source, run, log, edits>>
  BY <1>1, BoundsAreNatural DEF CrashManager, SnapshotShape, Claims, Faulty, Write, Erase
<1>4. \/ Gone /\ GateBecomes(FALSE, 0) /\ UNCHANGED disk
      \/ Gone /\ GateBecomes(FALSE, 0) /\ worker.pc = "creating" /\ record.stage = "CreatePrepared" /\ ImageBecomes(Mixed)
  BY <1>1, Processes, GateEffects, Effects, <1>i DEF CrashManager, SnapshotInv, RecordFollows, Copying, WorkerAt, Write, Erase, Exits, Stages, Unattached, Capturing, Attaching, Mounted
<1>5. SnapshotShape'
  BY <1>1, <1>3, <1>4, ShapeKept DEF GoesTo, Stops, Recorded, ResumeWriters, GateBecomes, Events, Gone, ImageBecomes
<1>6. JournalCoversDisk' /\ ReleasedIsUnmounted'
  <2>1. CASE UNCHANGED disk
    BY <1>3, <2>1 DEF SnapshotInv, JournalCoversDisk, ReleasedIsUnmounted
  <2>2. CASE record.stage = "CreatePrepared" /\ ImageBecomes(Mixed)
    <3>1. /\ record # NoRecord /\ record.stage \in Unattached
          /\ disk'.attached = disk.attached /\ disk'.dir = disk.dir
      BY <2>2 DEF NoRecord, Unattached, Capturing, ImageBecomes
    <3>2. QED
      BY <1>3, <2>2, <3>1 DEF SnapshotInv, JournalCoversDisk, ReleasedIsUnmounted
  <2>3. QED
    BY <1>4, <2>1, <2>2
<1>7. RecordFollows' /\ LogFollows'
  BY <1>1, <1>3, <1>4 DEF SnapshotInv, RecordFollows, LogFollows, Copying, GoesTo, Stops, Recorded, NoRecord, Gone, ImageBecomes
<1>8. DiskFollows'
  BY <1>1, <1>3, <1>4 DEF SnapshotInv, JournalCoversDisk, ReleasedIsUnmounted, DiskFollows, GoesTo, Stops, Recorded, NoRecord,
         Unattached, Capturing, Gone, ImageBecomes
<1>9. GateFollows'
  BY <1>1, <1>3, <1>4
     DEF SnapshotInv, SnapshotShape, Gates, GateFollows, Closed, Copying, GoesTo, Stops, ResumeWriters, GateBecomes, NoRecord, Recorded, Gone, ImageBecomes
<1>10. VersionFollows'
  BY <1>1, <1>3, <1>4, BoundsAreNatural
     DEF SnapshotInv, SnapshotShape, Disks, VersionFollows, Workers, Copying, GoesTo, Stops, NoRecord, Recorded, Attaching, Mounted, Gone, ImageBecomes
<1>11. QED
  BY <1>5, <1>6, <1>7, <1>8, <1>9, <1>10 DEF SnapshotInv


\* The source is edited, the image is detached, the claim is renewed or the run ends.
LEMMA WorldKeeps ==
    ASSUME SnapshotInv, World
    PROVE  SnapshotInv'
<1>1. SnapshotShape
  BY DEF SnapshotInv
<1>2. CASE UNCHANGED <<record, disk, gate, worker, log, faults>> /\ edits' = edits + 1 /\ source' = source + 1
           /\ UNCHANGED run /\ edits < MaxEdits
  <2>1. SnapshotShape'
    BY <1>1, <1>2, BoundsAreNatural DEF SnapshotShape
  <2>2. VersionFollows'
    <3>1. source \in Nat /\ worker.before \in Nat /\ worker.began \in Nat
      BY <1>1, BoundsAreNatural DEF SnapshotShape, Workers
    <3>2. VersionFollows
      BY DEF SnapshotInv
    <3>3. worker.pc \in {"created", "create_done"} => worker.before <= source
      BY <3>2 DEF VersionFollows, Copying
    <3>4. QED
      BY <1>2, <3>1, <3>2, <3>3 DEF VersionFollows
  <2>3. QED
    BY <1>2, <2>1, <2>2 DEF SnapshotInv, JournalCoversDisk, ReleasedIsUnmounted, RecordFollows, DiskFollows, LogFollows, GateFollows
<1>3. CASE UNCHANGED <<record, source, gate, worker, run, log, faults>> /\ edits' = edits + 1 /\ edits < MaxEdits
           /\ disk' = [disk EXCEPT !.attached = FALSE]
  <2>1. AttachedBecomes(FALSE) /\ disk' \in Disks
    BY <1>1, <1>3, Effects DEF AttachedBecomes
  <2>2. disk'.image = disk.image /\ disk'.dir = disk.dir /\ ~disk'.attached
    BY <2>1 DEF AttachedBecomes
  <2>3. SnapshotShape'
    BY <1>1, <1>3, <2>1, BoundsAreNatural DEF SnapshotShape
  <2>4. JournalCoversDisk' /\ ReleasedIsUnmounted'
    BY <1>3, <2>2 DEF SnapshotInv, JournalCoversDisk, ReleasedIsUnmounted
  <2>5. DiskFollows' /\ VersionFollows'
    BY <1>3, <2>2 DEF SnapshotInv, DiskFollows, VersionFollows
  <2>6. QED
    BY <1>3, <2>3, <2>4, <2>5 DEF SnapshotInv, RecordFollows, LogFollows, GateFollows
<1>4. CASE UNCHANGED <<record, disk, source, gate, worker, log, edits, faults>>
           /\ run' \in Claims
  BY <1>1, <1>4 DEF SnapshotInv, SnapshotShape, JournalCoversDisk, ReleasedIsUnmounted, RecordFollows, DiskFollows, LogFollows,
       GateFollows, VersionFollows
<1>5. CASE run' \in {[run EXCEPT !.live = FALSE]} \cup (IF run.claim < MaxClaims THEN {[run EXCEPT !.claim = @ + 1]} ELSE {})
  <2>1. run' \in Claims
    <3>1. run \in Claims /\ (run.claim < MaxClaims => run.claim + 1 \in 0..MaxClaims) /\ FALSE \in BOOLEAN
      BY <1>1, BoundsAreNatural DEF SnapshotShape, Claims
    <3>2. CASE run' = [run EXCEPT !.live = FALSE]
      BY <3>1, <3>2 DEF Claims
    <3>3. CASE run.claim < MaxClaims /\ run' = [run EXCEPT !.claim = @ + 1]
      BY <3>1, <3>3 DEF Claims
    <3>4. QED
      BY <1>5, <3>2, <3>3
  <2>2. QED
    BY <1>2, <1>3, <1>4, <2>1 DEF World
<1>6. QED
  BY <1>2, <1>3, <1>5 DEF World

\* It holds at first.
LEMMA SnapshotStarts == SnapshotInit => SnapshotInv
<1> SUFFICES ASSUME SnapshotInit PROVE SnapshotInv
  OBVIOUS
<1>1. /\ record = NoRecord /\ record.stage = "none" /\ worker.pc = "off" /\ ~disk.attached /\ ~disk.dir
      /\ disk.image = NoImage /\ log = "none" /\ gate.writers = 0 /\ gate.revoked = FALSE
  BY DEF SnapshotInit, NoRecord, Off, ClosedGate
<1>2. SnapshotShape
  <2>1. record \in Records /\ worker.saved = NoRecord
    BY NoRecordIsRecord DEF SnapshotInit, Off
  <2>2. "off" \in PCs /\ "none" \in Exits /\ NoImage \in 0..NoImage /\ 0 \in 0..1 /\ FALSE \in BOOLEAN
    BY BoundsAreNatural DEF PCs, Exits, NoImage
  <2>3. worker \in Workers
    BY <2>2, NoRecordIsRecord, BoundsAreNatural DEF SnapshotInit, Off, Workers
  <2>4. disk \in Disks
    BY <2>2 DEF SnapshotInit, Disks
  <2>5. gate \in Gates
    BY <2>2 DEF SnapshotInit, ClosedGate, Gates
  <2>6. run \in Claims
    BY BoundsAreNatural DEF SnapshotInit, Claims
  <2>7. QED
    BY <1>1, <2>1, <2>3, <2>4, <2>5, <2>6, BoundsAreNatural DEF SnapshotInit, SnapshotShape, Events
<1>3. JournalCoversDisk /\ ReleasedIsUnmounted
  BY <1>1 DEF JournalCoversDisk, ReleasedIsUnmounted
<1>4. RecordFollows /\ DiskFollows /\ LogFollows /\ GateFollows /\ VersionFollows
  BY <1>1 DEF RecordFollows, DiskFollows, LogFollows, GateFollows, VersionFollows, Closed, Copying, Attaching, Mounted
<1>5. QED
  BY <1>2, <1>3, <1>4 DEF SnapshotInv

\* Every step keeps it.
LEMMA SnapshotSteps == SnapshotInv /\ [SnapshotNext]_snapshotVars => SnapshotInv'
<1> SUFFICES ASSUME SnapshotInv, [SnapshotNext]_snapshotVars PROVE SnapshotInv'
  OBVIOUS
<1>1. CASE UNCHANGED snapshotVars
  BY <1>1 DEF snapshotVars, SnapshotInv, SnapshotShape, JournalCoversDisk, ReleasedIsUnmounted, RecordFollows, DiskFollows,
       LogFollows, GateFollows, VersionFollows
<1>2. CASE OpenManager \/ AcquireWriter \/ ReleaseWriter \/ CrashManager \/ World \/ ResumeCommittedLease \/ BindRecovered
  BY <1>2, OpenManagerKeeps, AcquireWriterKeeps, ReleaseWriterKeeps, CrashManagerKeeps, WorldKeeps,
     ResumeCommittedLeaseKeeps, BindRecoveredKeeps
<1>3. CASE Acquire
  BY <1>3, PrepareSnapshotKeeps, RevokeWritersKeeps, RevokeWritersInnerKeeps, AppendRevokedKeeps, PrepareCaptureKeeps,
     BeginCreateKeeps, CreateKeeps, CreateDoneKeeps, FinishCaptureKeeps, MakeMountDirectoryKeeps, PrepareAttachKeeps,
     AttachKeeps, AttachDoneKeeps, AttachNotStartedKeeps, ObserveMountedKeeps, AppendLeaseKeeps,
     ActivateSnapshotLeaseKeeps DEF Acquire
<1>4. CASE ReleaseStep
  <2>1. CASE ConfirmRelease
    <3>1. CASE WorkerAt("dir_gone")
      BY <2>1, <3>1, ReleasedRecord
    <3>2. CASE ~WorkerAt("dir_gone")
      BY <2>1, <3>2, ReleasedImage, ReleasedDirectory DEF ConfirmRelease
    <3>3. QED
      BY <3>1, <3>2
  <2>2. QED
    BY <1>4, <2>1, PrepareReleaseKeeps, DetachKeeps, DetachDoneKeeps, AppendReleasedKeeps DEF ReleaseStep
<1>5. CASE Recover
  <2>1. CASE RecoveryRemove
    <3>1. CASE WorkerAt("r_remove")
      BY <2>1, <3>1, AbandonedRecord
    <3>2. CASE ~WorkerAt("r_remove")
      BY <2>1, <3>2, AbandonedImage, AbandonedDirectory DEF RecoveryRemove
    <3>3. QED
      BY <3>1, <3>2
  <2>2. QED
    BY <1>5, <2>1, AbandonKeeps, RecoveryPrepareDetachKeeps, RecoveryConfirmKeeps, RecoveryDetachKeeps,
       RecoveryDetachDoneKeeps, RecoveryVerifyKeeps, RecoveryRecheckKeeps DEF Recover
<1>6. QED
  BY <1>1, <1>2, <1>3, <1>4, <1>5 DEF SnapshotNext

-----------------------------------------------------------------------------
(* Theorems                                                                *)

\* It holds throughout.
LEMMA SnapshotInvariant == SnapshotSpec => []SnapshotInv
BY SnapshotStarts, SnapshotSteps, PTL DEF SnapshotSpec

\* The invariant says what is promised.
LEMMA SnapshotPromises == SnapshotInv => SnapshotIsSound
<1> SUFFICES ASSUME SnapshotInv PROVE SnapshotIsSound
  OBVIOUS
<1>1. SnapshotTypeOK
  BY BoundsAreNatural DEF SnapshotInv, SnapshotShape, SnapshotTypeOK, Disks, Gates, Claims, Events, Workers, PCs, Exits
<1>2. WritersStayOut
  BY DEF SnapshotInv, WritersStayOut, GateFollows, Closed, Copying, WorkerAt
<1>3. LeasedIsOneVersion
  BY DEF SnapshotInv, LeasedIsOneVersion, VersionFollows, WorkerAt
<1>4. QED
  BY <1>1, <1>2, <1>3 DEF SnapshotInv, SnapshotIsSound

\* The journal, the disk, the gate and the Store agree after every call, crash and
\* recovery: nothing is on disk that the journal cannot find, no writer is inside while the
\* source is copied, a lease is of the version that was observed, and a release is true.
THEOREM SnapshotSound == SnapshotSpec => []SnapshotIsSound
BY SnapshotInvariant, SnapshotPromises, PTL

\* A step that makes an image disappear is the deletion after a committed release, or
\* recovery's.
LEMMA ImageGoes ==
    ASSUME SnapshotInv, [SnapshotNext]_snapshotVars, disk.image # NoImage, disk'.image = NoImage, ~WorkerAt("r_image")
    PROVE  log = "released"
<1>1. SnapshotShape
  BY DEF SnapshotInv
<1>2. disk'.image # disk.image
  OBVIOUS
<1>3. \A there \in BOOLEAN : disk' # [disk EXCEPT !.attached = there] /\ disk' # [disk EXCEPT !.dir = there]
  BY <1>1, <1>2 DEF SnapshotShape, Disks, Disks
<1>4. disk' # disk
  BY <1>2
<1>5. disk.attached \in BOOLEAN /\ \A x, y : (x = y) \in BOOLEAN
  BY <1>1 DEF SnapshotShape, Disks
<1>6. ~Create /\ ~CrashManager
  BY <1>2, <1>4 DEF SnapshotInv, DiskFollows, Create, CrashManager, WorkerAt
<1>7. ~World /\ ~MakeMountDirectory /\ ~PrepareAttach /\ ~Attach /\ ~AttachDone
  BY <1>3, <1>4, <1>5 DEF World, MakeMountDirectory, PrepareAttach, Attach, AttachDone, Write
<1>8. ~Detach /\ ~RecoveryDetach
  BY <1>3, <1>4, <1>5 DEF Detach, RecoveryDetach, DetachTo
<1>9. \A pc, next : ~DeleteDirectory(pc, next)
  BY <1>3, <1>4, <1>5 DEF DeleteDirectory
<1>10. /\ ~OpenManager /\ ~AcquireWriter /\ ~ReleaseWriter /\ ~ResumeCommittedLease /\ ~BindRecovered
       /\ ~PrepareSnapshot /\ ~RevokeWriters /\ ~RevokeWritersInner /\ ~AppendRevoked /\ ~PrepareCapture /\ ~BeginCreate
       /\ ~CreateDone /\ ~FinishCapture /\ ~AttachNotStarted /\ ~ObserveMounted /\ ~AppendLease /\ ~ActivateSnapshotLease
  BY <1>4 DEF OpenManager, AcquireWriter, ReleaseWriter, ResumeCommittedLease, BindRecovered, PrepareSnapshot, RevokeWriters,
       RevokeWritersInner, AppendRevoked, PrepareCapture, BeginCreate, CreateDone, FinishCapture, AttachNotStarted,
       ObserveMounted, AppendLease, ActivateSnapshotLease
<1>11. /\ ~PrepareRelease /\ ~DetachDone /\ ~AppendReleased /\ ~Abandon /\ ~RecoveryPrepareDetach /\ ~RecoveryConfirm
       /\ ~RecoveryDetachDone /\ ~RecoveryVerify /\ ~RecoveryRecheck /\ ~UNCHANGED snapshotVars
  BY <1>4 DEF PrepareRelease, DetachDone, AppendReleased, Abandon, RecoveryPrepareDetach, RecoveryConfirm,
       RecoveryDetachDone, RecoveryVerify, RecoveryRecheck, snapshotVars
<1>12. ConfirmRelease \/ RecoveryRemove
  BY <1>6, <1>7, <1>8, <1>10, <1>11 DEF SnapshotNext, Acquire, ReleaseStep, Recover
<1>13. DeleteImage("released", "image_gone") \/ DeleteImage("r_image", "r_mount")
  BY <1>4, <1>9, <1>12 DEF ConfirmRelease, RecoveryRemove
<1>14. worker.pc = "released"
  BY <1>13 DEF DeleteImage, WorkerAt
<1>15. QED
  BY <1>14 DEF SnapshotInv, LogFollows

\* Outside recovery's abandonment the image is deleted only after the Store has committed
\* the release (confirm_release, after append_released).
THEOREM ImageIsKept == SnapshotSpec => ImageOutlivesLease
<1>1. SnapshotInv /\ [SnapshotNext]_snapshotVars =>
         [disk.image # NoImage /\ disk'.image = NoImage /\ ~WorkerAt("r_image") => log = "released"]_snapshotVars
  BY ImageGoes
<1>2. QED
  BY <1>1, SnapshotInvariant, PTL DEF SnapshotSpec, ImageOutlivesLease
=============================================================================
