---------------------------- MODULE StoreUpgrade ----------------------------
(***************************************************************************)
(* What a BirdCode database file holds between two transactions of the     *)
(* migration code (crates/store/src/lib.rs, schema_validation.rs,          *)
(* projection_validation.rs, schema_support.rs): the schema version, the   *)
(* schema objects, the rows, the projections and the migration marker.     *)
(*                                                                         *)
(* A table is a sequence of rows in rowid order.  A row is what its JSON   *)
(* says; `ok' is false when the JSON is malformed, contradicts its key     *)
(* columns or exceeds a size limit.  A workspace path is "Text" (a JSON    *)
(* string) or "Wire"; the two run-specification fields introduced by       *)
(* schema v8 are "Absent" or have a value.                                 *)
(*                                                                         *)
(* The migrations of a Store file: crates/store/src/legacy_migration.rs    *)
(* (schema v0 or v1 to v2, one committed batch at a time), store_upgrade.rs *)
(* and the one-transaction migrations of migration_coordinator.rs (v2 to   *)
(* v10).  An operator maps the database before a transaction to the set of *)
(* databases after it: one, or none when the transaction fails and is      *)
(* rolled back.                                                            *)
(***************************************************************************)
EXTENDS Integers, FiniteSets, Sequences, SequencesExt, FiniteSetsExt

CONSTANT RowBatch    \* MIGRATION_ROW_BATCH_SIZE; MIGRATION_EVENT_BATCH_SIZE is 1

RowBatchPositive == RowBatch \in Nat \ {0}

Legacy == 1
Immutable == 2
Indexed == 3
EventSize == 4
HealthCanary == 5
PathWire == 6
RunStateProjection == 7
SemanticReview == 8
ChildReconnaissance == 9
Current == 10

None == <<"none", 0>>
Missing == <<"missing", 0>>      \* the JSON has no causal_parent key

Queued == "queued"
ValidRunTransition(from, to) ==
  \/ from \in {Queued, "waiting"} /\ to \in {"running", "failed", "cancelled"}
  \/ from = "running" /\ to \in {"waiting", "completed", "failed", "cancelled"}

-----------------------------------------------------------------------------
(* Schema objects beyond the three core tables, by the version that adds them. *)

ImmutabilityTriggers == {"immutability triggers"}
ConflictGuard == {"conflict guard"}
RunIndex == {"run index"}
SizeGuard == {"size guard"}
Canary == {"canary"}
RunProjection == {"run projection"}
RunProjectionTriggers == {"run projection triggers"}
IdentityProjection == {"identity projection"}

Since(version, first, objects) == IF version >= first THEN objects ELSE {}
Tables(version) ==
  Since(version, HealthCanary, Canary) \union Since(version, RunStateProjection, RunProjection)
    \union Since(version, Current, IdentityProjection)
Triggers(version) ==
  Since(version, Immutable, ImmutabilityTriggers) \union Since(version, Indexed, ConflictGuard)
    \union Since(version, EventSize, SizeGuard)
    \union Since(version, RunStateProjection, RunProjectionTriggers)
Indexes(version) == Since(version, Indexed, RunIndex)
Objects(version) == Tables(version) \union Triggers(version) \union Indexes(version)

CoreTablesIntact(d) == d.tables = "all" /\ d.parentColumn

ValidSchema(d, version) ==
  /\ d.version = version
  /\ CoreTablesIntact(d)
  /\ d.marker = "none"
  /\ d.objects = Objects(version)

ValidHealthCanary(d) == Canary \subseteq d.objects

ValidRunStateProjection(d) ==
  RunProjection \subseteq d.objects /\ d.health.materialized = d.health.projected

Identities(events) == {<<e.id, e.session, e.seq>> : e \in Range(events)}

\* mutant: the projected identities are not compared with the events
IdentityTableExists(d) == IdentityProjection \subseteq d.objects

ValidEventIdentityProjection(d) ==
  IdentityProjection \subseteq d.objects /\ d.identity = Identities(d.events)

ValidCurrentSchema(d) ==
  /\ ValidSchema(d, Current)
  /\ ValidHealthCanary(d)
  /\ ValidRunStateProjection(d)
  /\ ValidEventIdentityProjection(d)

-----------------------------------------------------------------------------
(* Rows. *)

RowsOf(rows, id) == {r \in Range(rows) : r.id = id}
Row(rows, id) == CHOOSE r \in Range(rows) : r.id = id
Ids(rows) == {r.id : r \in Range(rows)}
DistinctIds(rows) == Cardinality(Ids(rows)) = Len(rows)

\* bounded_legacy_metadata_rows, bounded_event_json_rows: the rows after the cursor.
Batch(rows, cursor) == SubSeq(rows, cursor + 1, Min({cursor + RowBatch, Len(rows)}))

\* insert_pre_v8_run_spec_fields: the meaning of the fields a pre-v8 row lacks.
HistoricalPurpose(r) == IF r.purpose = "Absent" THEN "execute" ELSE r.purpose
HistoricalAcceptance(r) ==
  IF HistoricalPurpose(r) = "plan_only" THEN "legacy_mechanical_only" ELSE "not_applicable"
PreV8Valid(r) ==
  /\ HistoricalPurpose(r) \in {"plan_only", "execute"}
  /\ r.acceptance \in {"Absent", HistoricalAcceptance(r)}
PreV8Run(r) ==
  [r EXCEPT !.purpose = HistoricalPurpose(r), !.acceptance = HistoricalAcceptance(r)]

\* canonicalize_workspace_root
CanonicalSession(s) == [s EXCEPT !.path = "Wire"]

\* decode_pre_v8_stored_event_value: a creation must embed the row it creates.
PreV8EventValid(e) ==
  /\ e.type = "session_created" => e.form = "row" /\ e.row.path = "Wire"
  /\ e.type = "run_created" => e.form = "row" /\ PreV8Valid(e.row)
PreV8Event(e) ==
  IF e.type = "run_created" THEN [e EXCEPT !.row = PreV8Run(@)] ELSE e
CanonicalEvent(e) ==
  IF e.type = "session_created" /\ e.form = "row" THEN [e EXCEPT !.row = CanonicalSession(@)] ELSE e

\* The columns of an event row repeat its envelope.
ColumnsAgree(e) == e.ok /\ e.parent = e.column

\* The event after the cursor, by session and then by sequence.
NextInOrder(events, cursor) ==
  {e \in Range(events) :
     /\ e.session > cursor.session \/ (e.session = cursor.session /\ e.seq > cursor.seq)
     /\ \A o \in Range(events) :
          (o.session > cursor.session \/ (o.session = cursor.session /\ o.seq > cursor.seq))
            => e.session < o.session \/ (e.session = o.session /\ e.seq <= o.seq)}

PriorParent(events, e) ==
  e.parent # None =>
    \E p \in Range(events) : p.id = e.parent /\ p.session = e.session /\ p.seq < e.seq

-----------------------------------------------------------------------------
(* The marker: store_migration_progress or store_upgrade_progress. *)

Start == [row |-> 0, session |-> 0, seq |-> 0]
SetPhase(d, phase) == [d EXCEPT !.phase = phase, !.cursor = Start]
AdvanceRow(d, count) == [d EXCEPT !.cursor.row = @ + count]
AdvanceEvent(d, e) == [d EXCEPT !.cursor.session = e.session, !.cursor.seq = e.seq]
Marked(d, marker, phase) ==
  [d EXCEPT !.marker = marker, !.source = d.version, !.phase = phase, !.cursor = Start,
            !.sessionInventory = <<>>, !.runInventory = <<>>]
Unmarked(d, version) ==
  [d EXCEPT !.marker = "none", !.source = 0, !.phase = "none", !.cursor = Start,
            !.sessionInventory = <<>>, !.runInventory = <<>>, !.staged = <<>>,
            !.version = version]

-----------------------------------------------------------------------------
(* v0 and v1 to v2. *)

BeginLegacyMigration(d, hasParent) ==
  IF d.tables # "all" \/ d.parentColumn # hasParent THEN {}
  ELSE {[Marked(d, "legacy", "copy_sessions") EXCEPT
           !.hasParent = hasParent,
           !.parentColumn = TRUE,
           !.objects = {},
           !.old = [sessions |-> d.sessions, runs |-> d.runs, events |-> d.events],
           !.sessions = <<>>, !.runs = <<>>, !.events = <<>>]}

NewSession == [count |-> 0, synthesized |-> FALSE, seen |-> FALSE]
NewRun(r) == [session |-> r.session, state |-> r.state, seq |-> 0,
              count |-> 0, synthesized |-> FALSE, seen |-> FALSE]

CopySessions(d) ==
  LET rows == Batch(d.old.sessions, d.cursor.row)
      copies == d.sessions \o [i \in 1..Len(rows) |-> CanonicalSession(rows[i])]
  IN  IF rows = <<>> THEN {SetPhase(d, "copy_runs")}
      ELSE IF (\E r \in Range(rows) : ~r.ok) \/ ~DistinctIds(copies) THEN {}
      ELSE {AdvanceRow([d EXCEPT !.sessions = copies,
                                 !.sessionInventory = [s \in Ids(copies) |-> NewSession]],
                       Len(rows))}

CopyRuns(d) ==
  LET rows == Batch(d.old.runs, d.cursor.row)
      copies == d.runs \o [i \in 1..Len(rows) |-> PreV8Run(rows[i])]
  IN  IF rows = <<>> THEN {SetPhase(d, "scan_events")}
      ELSE IF \/ ~DistinctIds(copies)
              \/ \E r \in Range(rows) :
                   ~r.ok \/ ~PreV8Valid(r) \/ r.session \notin Ids(d.sessions) THEN {}
      ELSE {AdvanceRow([d EXCEPT !.runs = copies,
                                 !.runInventory = [r \in Ids(copies) |-> NewRun(Row(copies, r))]],
                       Len(rows))}

-----------------------------------------------------------------------------
(* scan_legacy_event_batch: decode against the current protocol and stage. *)

ScalarParent(d, e) == IF d.hasParent THEN e.column ELSE None
LegacyParent(d, e) == IF e.parent = Missing THEN ScalarParent(d, e) ELSE e.parent
ParentsAgree(d, e) == e.parent = Missing \/ ~d.hasParent \/ e.parent = e.column

\* upgrade_legacy_creation_payload: an old creation event takes the materialized row.
CreatedRows(d, e) ==
  IF e.form = "row" THEN {e.row}
  ELSE RowsOf(IF e.type = "session_created" THEN d.sessions ELSE d.runs,
              IF e.type = "session_created" THEN e.session ELSE e.run)

\* validate_legacy_payload_semantics
SpecAgrees(d, e) ==
  e.form = "spec" => \E r \in RowsOf(d.runs, e.run) :
                       /\ PreV8Valid(e.row)
                       /\ [PreV8Run(e.row) EXCEPT !.id = r.id, !.state = r.state] = r

LegacyCreationAgrees(d, e) ==
  CASE e.type = "session_created" ->
         e.run = 0 /\ \E s \in CreatedRows(d, e) : CanonicalSession(s) \in RowsOf(d.sessions, e.session)
    [] e.type = "run_created" ->
         /\ e.run # 0
         /\ SpecAgrees(d, e)
         /\ \E r \in CreatedRows(d, e) :
              PreV8Valid(r) /\ r.session = e.session /\ PreV8Run(r) \in RowsOf(d.runs, e.run)
    [] OTHER -> TRUE

Scanned(d, e) ==
  LET parent == LegacyParent(d, e)
      bare == [e EXCEPT !.parent = parent, !.column = parent]
  IN  CASE e.type = "session_created" ->
             [bare EXCEPT !.form = "row", !.row = Row(d.sessions, e.session)]
        [] e.type = "run_created" -> [bare EXCEPT !.form = "row", !.row = Row(d.runs, e.run)]
        [] OTHER -> bare

Places(events) == {<<e.session, e.seq>> : e \in Range(events)}
Creations(events, type, key(_), id) ==
  Cardinality({i \in 1..Len(events) : events[i].type = type /\ key(events[i]) = id})

ScanEvents(d) ==
  LET rows == Batch(d.old.events, d.cursor.row)
      staged == d.staged \o [i \in 1..Len(rows) |-> Scanned(d, rows[i])]
  IN  IF rows = <<>> THEN {SetPhase(d, "emit_events")}
      ELSE IF \/ \E e \in Range(rows) : ~e.ok \/ ~ParentsAgree(d, e) \/ ~LegacyCreationAgrees(d, e)
              \/ Cardinality(Places(staged)) # Len(staged) THEN {}
      ELSE {AdvanceRow(
              [d EXCEPT !.staged = staged,
                 !.sessionInventory = [s \in DOMAIN @ |-> [@[s] EXCEPT !.count =
                    Creations(staged, "session_created", LAMBDA e : e.session, s)]],
                 !.runInventory = [r \in DOMAIN @ |-> [@[r] EXCEPT !.count =
                    Creations(staged, "run_created", LAMBDA e : e.run, r)]]],
              Len(rows))}

-----------------------------------------------------------------------------
(* emit_legacy_event_batch: one event, after the creations it depends on.  *)

NextSequence(d, session) == 1 + Max({0} \union {e.seq : e \in {x \in Range(d.events) : x.session = session}})
LastEvent(d, session) ==
  LET mine == {e \in Range(d.events) : e.session = session}
  IN  IF mine = {} THEN None ELSE (CHOOSE e \in mine : \A o \in mine : o.seq <= e.seq).id

InsertMigrated(d, e) ==
  IF e.id \in Ids(d.events) THEN {} ELSE {[d EXCEPT !.events = Append(@, e)]}

Synthetic(d, id, session, run, type, row) ==
  [id |-> id, session |-> session, run |-> run, parent |-> LastEvent(d, session),
   column |-> LastEvent(d, session), seq |-> NextSequence(d, session), type |-> type,
   form |-> "row", row |-> row, from |-> "none", to |-> "none", refs |-> TRUE, ok |-> TRUE]

SynthesizeSession(d, s) ==
  IF s \notin DOMAIN d.sessionInventory THEN {}
  ELSE IF d.sessionInventory[s].seen THEN {d}
  ELSE IF d.sessionInventory[s].count # 0 \/ d.sessionInventory[s].synthesized THEN {}
  ELSE {[n EXCEPT !.sessionInventory[s].synthesized = TRUE, !.sessionInventory[s].seen = TRUE] :
          n \in InsertMigrated(d, Synthetic(d, <<"session", s>>, s, 0, "session_created",
                                            Row(d.sessions, s)))}

SynthesizeRun(d, r, session) ==
  IF r \notin DOMAIN d.runInventory \/ d.runInventory[r].session # session THEN {}
  ELSE IF d.runInventory[r].seen THEN {d}
  ELSE IF \/ d.runInventory[r].count # 0 \/ d.runInventory[r].synthesized
          \/ Row(d.runs, r).state # Queued \/ ~Row(d.runs, r).inputs THEN {}
  ELSE {[n EXCEPT !.runInventory[r].synthesized = TRUE, !.runInventory[r].seen = TRUE,
                  !.runInventory[r].seq = NextSequence(d, session)] :
          n \in InsertMigrated(d, Synthetic(d, <<"run", r>>, session, r, "run_created",
                                            Row(d.runs, r)))}

\* What the emitted event does to the inventory; no result when it may not come here.
Emit(d, e) ==
  CASE e.type = "session_created" ->
         IF d.sessionInventory[e.session] = [count |-> 1, synthesized |-> FALSE, seen |-> FALSE]
         THEN {[d EXCEPT !.sessionInventory[e.session].seen = TRUE]} ELSE {}
    [] e.type = "run_created" ->
         IF d.runInventory[e.run] = [NewRun(e.row) EXCEPT !.count = 1, !.state = Queued]
         THEN {[d EXCEPT !.runInventory[e.run].seen = TRUE, !.runInventory[e.run].seq = e.seq]} ELSE {}
    [] e.type = "run_state_changed" ->
         IF /\ e.run # 0 /\ ValidRunTransition(e.from, e.to)
            /\ d.runInventory[e.run].state = e.from /\ d.runInventory[e.run].seen
            /\ d.runInventory[e.run].seq < e.seq
         THEN {[d EXCEPT !.runInventory[e.run].state = e.to, !.runInventory[e.run].seq = e.seq]} ELSE {}
    [] e.type = "backend_event" -> IF e.run # 0 THEN {d} ELSE {}
    [] OTHER -> {d}

EmitEvents(d) ==
  LET next == NextInOrder(d.staged, d.cursor)
      staged == CHOOSE e \in next : TRUE
      rooted == IF staged.type = "session_created" THEN {d} ELSE SynthesizeSession(d, staged.session)
      placed == IF staged.run = 0 \/ staged.type = "run_created" THEN rooted
                ELSE UNION {SynthesizeRun(n, staged.run, staged.session) : n \in rooted}
      moved(n) == [staged EXCEPT !.seq = NextSequence(n, staged.session)]
      emitted(n) == IF PriorParent(n.events, moved(n)) THEN Emit(n, moved(n)) ELSE {}
  IN  IF next = {} THEN {SetPhase(d, "synthesize_sessions")}
      ELSE IF ~staged.refs THEN {}
      ELSE {AdvanceEvent(x, staged) :
              x \in UNION {UNION {InsertMigrated(m, moved(n)) : m \in emitted(n)} : n \in placed}}

-----------------------------------------------------------------------------
(* Creations for what no event names, and the end. *)

Orphans(inventory) == {x \in DOMAIN inventory : inventory[x].count = 0 /\ ~inventory[x].synthesized}
Ordered(S) == SetToSortSeq(S, LAMBDA x, y : x < y)

SynthesizeSessions(d) ==
  LET batch == Batch(Ordered(Orphans(d.sessionInventory)), 0)
  IN  IF batch = <<>> THEN {SetPhase(d, "synthesize_runs")}
      ELSE FoldLeft(LAMBDA acc, s : UNION {SynthesizeSession(n, s) : n \in acc}, {d}, batch)

SynthesizeRuns(d) ==
  LET orphans == Orphans(d.runInventory)
      first == {r \in orphans : \A o \in orphans :
                  \/ d.runInventory[r].session < d.runInventory[o].session
                  \/ d.runInventory[r].session = d.runInventory[o].session /\ r <= o}
  IN  IF orphans = {} THEN {SetPhase(d, "validate")}
      ELSE UNION {SynthesizeRun(d, r, d.runInventory[r].session) : r \in first}

InventoryComplete(inventory) ==
  \A x \in DOMAIN inventory :
    /\ inventory[x].count + (IF inventory[x].synthesized THEN 1 ELSE 0) = 1
    /\ inventory[x].seen

ValidateLegacyInventory(d) ==
  IF InventoryComplete(d.sessionInventory) /\ InventoryComplete(d.runInventory)
  THEN {SetPhase(d, "finalize")} ELSE {}

FinalizeLegacy(d) ==
  {[Unmarked(d, Immutable) EXCEPT !.objects = Objects(Immutable), !.hasParent = FALSE,
      !.old = [sessions |-> <<>>, runs |-> <<>>, events |-> <<>>]]}

\* resume_legacy_migration_batch
LegacyBatch(d) ==
  CASE d.phase = "copy_sessions" -> CopySessions(d)
    [] d.phase = "copy_runs" -> CopyRuns(d)
    [] d.phase = "scan_events" -> ScanEvents(d)
    [] d.phase = "emit_events" -> EmitEvents(d)
    [] d.phase = "synthesize_sessions" -> SynthesizeSessions(d)
    [] d.phase = "synthesize_runs" -> SynthesizeRuns(d)
    [] d.phase = "validate" -> ValidateLegacyInventory(d)
    [] d.phase = "finalize" -> FinalizeLegacy(d)
    [] OTHER -> {}

-----------------------------------------------------------------------------
(* v2 to v10. *)

Only(condition, d) == IF condition THEN {d} ELSE {}

WithRunStateProjection(d) ==
  [d EXCEPT !.objects = @ \union RunProjection, !.projection = <<>>,
            !.health = [materialized |-> 0, projected |-> 0]]

BeginStoreUpgrade(d) ==
  LET marked(phase) == Marked(d, "upgrade", phase)
      mutable(n) == [n EXCEPT !.objects = @ \ ImmutabilityTriggers]
  IN  IF ~ValidSchema(d, d.version) \/ ~ValidHealthCanary(d) THEN {}
      ELSE IF d.version = HealthCanary THEN {mutable(marked("path_sessions"))}
      ELSE IF d.version = PathWire THEN {WithRunStateProjection(marked("replay_sessions"))}
      ELSE Only(ValidRunStateProjection(d), mutable(marked("acceptance_runs")))

-----------------------------------------------------------------------------
(* v5: workspace paths get their wire form. *)

\* A rewritten row keeps its place: only value_json is updated.
Rewrite(table, cursor, rows, value(_)) ==
  [i \in 1..Len(table) |->
     IF i \in (cursor + 1)..(cursor + Len(rows)) THEN value(table[i]) ELSE table[i]]

PathSessions(d) ==
  LET rows == Batch(d.sessions, d.cursor.row)
  IN  IF rows = <<>> THEN {SetPhase(d, "path_events")}
      ELSE Only(\A r \in Range(rows) : r.ok,
                AdvanceRow([d EXCEPT !.sessions = Rewrite(@, d.cursor.row, rows, CanonicalSession)],
                           Len(rows)))

PathEvents(d) ==
  LET rows == Batch(d.events, d.cursor.row)
      value(e) == PreV8Event(CanonicalEvent(e))
  IN  IF rows = <<>> THEN {SetPhase(WithRunStateProjection(d), "replay_sessions")}
      ELSE Only(\A e \in Range(rows) : ColumnsAgree(e) /\ PreV8EventValid(CanonicalEvent(e)),
                AdvanceRow([d EXCEPT !.events = Rewrite(@, d.cursor.row, rows, value)], Len(rows)))

-----------------------------------------------------------------------------
(* v5 and v6: replay every event against what is materialized. *)

ReplaySessions(d) ==
  LET rows == Batch(d.sessions, d.cursor.row)
  IN  IF rows = <<>> THEN {SetPhase(d, "replay_runs")}
      ELSE Only(\A r \in Range(rows) : r.ok /\ r.path = "Wire",
                AdvanceRow([d EXCEPT !.sessionInventory =
                              [s \in DOMAIN @ \union Ids(rows) |-> 0]], Len(rows)))

Replayed(r) == [session |-> r.session, state |-> r.state, seq |-> 0, count |-> 0]

ReplayRuns(d) ==
  LET rows == Batch(d.runs, d.cursor.row)
  IN  IF rows = <<>> THEN {SetPhase(d, "replay_events")}
      ELSE Only(\A r \in Range(rows) :
                  r.ok /\ PreV8Valid(r) /\ r.state = Queued /\ r.session \in DOMAIN d.sessionInventory,
                AdvanceRow([d EXCEPT
                  !.runInventory = [r \in DOMAIN @ \union Ids(rows) |->
                                      IF r \in DOMAIN @ THEN @[r] ELSE Replayed(Row(rows, r))],
                  !.health.materialized = @ + Len(rows)], Len(rows)))

RunOf(d, e) ==
  {r \in DOMAIN d.runInventory : r = e.run /\ d.runInventory[r].session = e.session}

\* Creations come first: an event follows its session's and its run's.
FollowsCreations(d, e) ==
  /\ e.session \in DOMAIN d.sessionInventory
  /\ e.type # "session_created" => d.sessionInventory[e.session] = 1
  /\ e.run # 0 /\ e.type # "run_created" => \E r \in RunOf(d, e) : d.runInventory[r].count = 1

Replay(d, e) ==
  CASE e.type = "session_created" ->
         Only(e.run = 0 /\ e.row \in RowsOf(d.sessions, e.session) /\ d.sessionInventory[e.session] = 0,
              [d EXCEPT !.sessionInventory[e.session] = 1])
    [] e.type = "run_created" ->
         UNION {Only(/\ e.row.state = Queued
                     /\ \E m \in RowsOf(d.runs, r) : PreV8Run(m) = PreV8Run(e.row)
                     /\ d.runInventory[r].count = 0 /\ d.runInventory[r].state = Queued
                     /\ d.runInventory[r].seq = 0,
                     [d EXCEPT !.runInventory[r].count = 1, !.runInventory[r].seq = e.seq]) :
                r \in RunOf(d, e)}
    [] e.type = "run_state_changed" ->
         UNION {Only(/\ ValidRunTransition(e.from, e.to) /\ d.runInventory[r].state = e.from
                     /\ d.runInventory[r].count = 1 /\ d.runInventory[r].seq < e.seq,
                     [d EXCEPT !.runInventory[r].state = e.to, !.runInventory[r].seq = e.seq]) :
                r \in RunOf(d, e)}
    [] e.type = "backend_event" -> Only(e.run # 0, d)
    [] OTHER -> {d}

ReplayEvents(d) ==
  LET next == NextInOrder(d.events, d.cursor)
      e == CHOOSE x \in next : TRUE
  IN  IF next = {} THEN {SetPhase(d, "replay_validate")}
      ELSE IF /\ ColumnsAgree(e) /\ PreV8EventValid(e) /\ PriorParent(d.events, e)
              /\ FollowsCreations(d, e) /\ e.refs
           THEN {AdvanceEvent(n, e) : n \in Replay(d, e)}
           ELSE {}

ValidateReplay(d) ==
  Only(/\ \A s \in DOMAIN d.sessionInventory : d.sessionInventory[s] = 1
       /\ \A r \in DOMAIN d.runInventory : d.runInventory[r].count = 1 /\ d.runInventory[r].seq >= 1,
       SetPhase(d, "project_runs"))

\* run_state_projection_validate_before_insert
Authoritative(d, r) ==
  \E e \in Range(d.events) :
    /\ e.run = r /\ e.session = d.runInventory[r].session /\ e.seq = d.runInventory[r].seq
    /\ \/ e.type = "run_created" /\ d.runInventory[r].state = Queued
       \/ e.type = "run_state_changed" /\ e.to = d.runInventory[r].state

ProjectRuns(d) ==
  LET left == SetToSortSeq({r \in DOMAIN d.runInventory : r > d.cursor.session}, LAMBDA x, y : x < y)
      batch == Batch(left, 0)
  IN  IF batch = <<>> THEN {SetPhase(d, "finalize")}
      ELSE Only(\A r \in Range(batch) : Authoritative(d, r),
                [d EXCEPT !.projection = [r \in DOMAIN @ \union Range(batch) |->
                             IF r \in DOMAIN @ THEN @[r]
                             ELSE [session |-> d.runInventory[r].session,
                                   state |-> d.runInventory[r].state, seq |-> d.runInventory[r].seq]],
                          !.health.projected = @ + Len(batch),
                          !.cursor.session = Last(batch)])

-----------------------------------------------------------------------------
(* v7: runs get their acceptance contract. *)

HistoricalContract(r) ==
  <<r.purpose, r.acceptance>> \in {<<"plan_only", "legacy_mechanical_only">>, <<"execute", "not_applicable">>}

AcceptanceRuns(d) ==
  LET rows == Batch(d.runs, d.cursor.row)
  IN  IF rows = <<>> THEN {SetPhase(d, "acceptance_events")}
      ELSE Only(\A r \in Range(rows) :
                  r.ok /\ PreV8Valid(r) /\ r.state = Queued /\ HistoricalContract(PreV8Run(r)),
                AdvanceRow([d EXCEPT !.runs = Rewrite(@, d.cursor.row, rows, PreV8Run)], Len(rows)))

AcceptanceEvents(d) ==
  LET rows == Batch(d.events, d.cursor.row)
  IN  IF rows = <<>> THEN {SetPhase(d, "acceptance_validate_runs")}
      ELSE Only(\A e \in Range(rows) :
                  /\ ColumnsAgree(e) /\ PreV8EventValid(e)
                  /\ e.type = "run_created" => HistoricalContract(PreV8Run(e.row)),
                AdvanceRow([d EXCEPT !.events = Rewrite(@, d.cursor.row, rows, PreV8Event)], Len(rows)))

ValidateAcceptance(d) ==
  LET rows == Batch(d.runs, d.cursor.row)
      created(r) == {e \in Range(d.events) : e.run = r.id /\ e.session = r.session /\ e.type = "run_created"}
  IN  IF rows = <<>> THEN {SetPhase(d, "finalize")}
      ELSE Only(\A r \in Range(rows) :
                  /\ r.state = Queued /\ HistoricalContract(r)
                  /\ Cardinality(created(r)) = 1 /\ \A e \in created(r) : e.row = r,
                AdvanceRow(d, Len(rows)))

-----------------------------------------------------------------------------

FinalizeUpgrade(d) ==
  LET target == IF d.source < RunStateProjection THEN RunStateProjection ELSE ChildReconnaissance
      triggers == IF d.source < RunStateProjection THEN RunProjectionTriggers ELSE {}
      immutable == IF d.source \in {HealthCanary, RunStateProjection}
                   THEN ImmutabilityTriggers ELSE {}
      n == [Unmarked(d, target) EXCEPT !.objects = @ \union triggers \union immutable]
  IN  Only(ValidSchema(n, target) /\ ValidHealthCanary(n) /\ ValidRunStateProjection(n), n)

\* resume_store_upgrade_batch
UpgradeBatch(d) ==
  CASE d.phase = "path_sessions" -> PathSessions(d)
    [] d.phase = "path_events" -> PathEvents(d)
    [] d.phase = "replay_sessions" -> ReplaySessions(d)
    [] d.phase = "replay_runs" -> ReplayRuns(d)
    [] d.phase = "replay_events" -> ReplayEvents(d)
    [] d.phase = "replay_validate" -> ValidateReplay(d)
    [] d.phase = "project_runs" -> ProjectRuns(d)
    [] d.phase = "acceptance_runs" -> AcceptanceRuns(d)
    [] d.phase = "acceptance_events" -> AcceptanceEvents(d)
    [] d.phase = "acceptance_validate_runs" -> ValidateAcceptance(d)
    [] d.phase = "finalize" -> FinalizeUpgrade(d)
    [] OTHER -> {}

Migrate(d, version, objects) ==
  Only(ValidSchema(d, d.version), [d EXCEPT !.version = version, !.objects = @ \union objects])

MigrateV2(d) == Migrate(d, Indexed, ConflictGuard \union RunIndex)
MigrateV3(d) == Migrate(d, EventSize, SizeGuard)
MigrateV4(d) == Migrate(d, HealthCanary, Canary)
MigrateV8(d) ==
  UNION {Only(ValidHealthCanary(d) /\ ValidRunStateProjection(d), n) :
         n \in Migrate(d, ChildReconnaissance, {})}
MigrateV9(d) ==
  UNION {Only(ValidHealthCanary(d) /\ ValidRunStateProjection(d) /\ ValidEventIdentityProjection(n), n) :
         n \in {[m EXCEPT !.identity = Identities(m.events)] :
                m \in Migrate(d, Current, IdentityProjection)}}

CreateCurrent(d) ==
  {[d EXCEPT !.tables = "all", !.parentColumn = TRUE, !.objects = Objects(Current), !.version = Current,
             !.projection = <<>>, !.health = [materialized |-> 0, projected |-> 0], !.identity = {}]}
=============================================================================
