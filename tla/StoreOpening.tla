---------------------------- MODULE StoreOpening ----------------------------
(***************************************************************************)
(* Store::open and initialize_or_migrate_schema: several processes open    *)
(* one database file of any age.  Each loop iteration looks for a marker   *)
(* outside any transaction and then runs one immediate transaction that    *)
(* looks again, so openers interleave between any two transactions; an     *)
(* opener may stop anywhere (killed, or SQLITE_BUSY after five seconds)    *)
(* and the next one continues from the committed marker.                   *)
(***************************************************************************)
EXTENDS StoreUpgrade

CONSTANTS Openers,
          Sources,     \* the databases found on disk
          MaxStops     \* bound: how often openers stop before they are done

VARIABLES db,          \* the committed database
          opener,      \* per process: where its open call is
          origin,      \* the database as it was found
          stops

vars == <<db, opener, origin, stops>>

InitFrom(files) ==
  /\ origin \in files
  /\ db = origin
  /\ opener = [o \in Openers |-> "closed"]
  /\ stops = 0

Init == InitFrom(Sources)

Go(o, place) == opener' = [opener EXCEPT ![o] = place]

Open(o) == opener[o] = "closed" /\ Go(o, "look") /\ UNCHANGED <<db, origin, stops>>

Look(o) ==
  /\ opener[o] = "look"
  /\ Go(o, IF db.marker = "none" THEN "begin" ELSE db.marker)
  /\ UNCHANGED <<db, origin, stops>>

\* One transaction whose result is in `results', or a rollback and a failed open.
Commit(o, results, place) ==
  /\ IF results = {} THEN db' = db /\ Go(o, "refused") ELSE db' \in results /\ Go(o, place)
  /\ UNCHANGED <<origin, stops>>

ResumeLegacy(o) ==
  /\ opener[o] = "legacy"
  /\ Commit(o, IF db.marker = "legacy" THEN LegacyBatch(db) ELSE {db}, "look")

ResumeUpgrade(o) ==
  /\ opener[o] = "upgrade"
  /\ Commit(o, IF db.marker = "upgrade" THEN UpgradeBatch(db) ELSE {db}, "look")

\* The transaction that moves a database without a marker by one version.
BeginUnversioned(d) ==
  CASE d.tables = "none" -> {n \in CreateCurrent(d) : ValidCurrentSchema(n)}
    [] d.tables = "all"  -> BeginLegacyMigration(d, d.parentColumn)
    [] OTHER             -> {}

BeginVersion(d) ==
  CASE d.version = ChildReconnaissance -> MigrateV9(d)
    [] d.version = SemanticReview -> MigrateV8(d)
    [] d.version \in {HealthCanary, PathWire, RunStateProjection} -> BeginStoreUpgrade(d)
    [] d.version = EventSize -> MigrateV4(d)
    [] d.version = Indexed -> MigrateV3(d)
    [] d.version = Immutable -> MigrateV2(d)
    [] d.version = Legacy -> BeginLegacyMigration(d, FALSE)
    [] d.version = 0 -> BeginUnversioned(d)
    [] OTHER -> {}

Begin(o) ==
  /\ opener[o] = "begin"
  /\ IF db.marker # "none" THEN Commit(o, {db}, "look")
     ELSE IF db.version = Current THEN Commit(o, {d \in {db} : ValidCurrentSchema(d)}, "served")
     ELSE Commit(o, BeginVersion(db), IF db.version = 0 /\ db.tables = "none" THEN "served" ELSE "look")

Stop(o) ==
  /\ opener[o] \in {"look", "begin", "legacy", "upgrade"} /\ stops < MaxStops
  /\ stops' = stops + 1
  /\ Go(o, "closed") /\ UNCHANGED <<db, origin>>

Next ==
  \E o \in Openers : Open(o) \/ Look(o) \/ ResumeLegacy(o) \/ ResumeUpgrade(o) \/ Begin(o) \/ Stop(o)

\* A process that is not stopped keeps running its open call.
Continues(o) == Look(o) \/ ResumeLegacy(o) \/ ResumeUpgrade(o) \/ Begin(o)
Fairness == \A o \in Openers : WF_vars(Continues(o))
Spec == Init /\ [][Next]_vars /\ Fairness

-----------------------------------------------------------------------------

OpenerPlaces == {"closed", "look", "begin", "legacy", "upgrade", "served", "refused"}

\* Every opener is at a known place, and the marker, its phase and the source
\* version it records agree: `initialize_or_migrate_schema' never finds an
\* unknown phase or two markers.
TypeOK ==
  /\ opener \in [Openers -> OpenerPlaces] /\ stops \in 0..MaxStops
  /\ db.version \in 0..(Current + 1) /\ db.objects \subseteq Objects(Current)
  /\ db.marker = "none" <=> db.phase = "none"
  /\ db.marker = "legacy" => db.version \in {0, Legacy} /\ db.source = db.version
  /\ db.marker = "upgrade" => db.version \in {HealthCanary, PathWire, RunStateProjection}
                              /\ db.source = db.version

Served == \E o \in Openers : opener[o] = "served"

EventsOf(d, session) == SetToSortSeq({e \in Range(d.events) : e.session = session},
                                     LAMBDA x, y : x.seq < y.seq)
StateEvents(d, r) == {e \in Range(d.events) : e.run = r /\ e.type \in {"run_created", "run_state_changed"}}
Latest(events) == CHOOSE e \in events : \A o \in events : o.seq <= e.seq

\* Store is not constructed until the marker is gone and the complete target
\* schema validates: a served database has every guard, its run-state projection
\* holds the last state event of every run and its identity projection every event.
ServedIsComplete ==
  Served =>
    /\ db.marker = "none" /\ db.version = Current /\ db.objects = Objects(Current)
    /\ DOMAIN db.projection = Ids(db.runs)
    /\ \A r \in Ids(db.runs) :
         LET last == Latest(StateEvents(db, r))
         IN  db.projection[r] = [session |-> last.session, seq |-> last.seq,
                                 state |-> IF last.type = "run_created" THEN Queued ELSE last.to]
    /\ db.identity = {<<e.id, e.session, e.seq>> : e \in Range(db.events)}

\* What is served is the history that was found: every event found is there
\* once, the events of a session keep their order, links and states, and what was
\* added is one creation for each session and run that had none, before everything
\* that depends on it.  (emit_legacy_event_batch renumbers sequences.)
HistoryIsKept ==
  Served =>
    /\ \A s \in Ids(origin.sessions) :
         LET kept == SelectSeq(EventsOf(db, s), LAMBDA e : e.id[1] = "event")
             found == EventsOf(origin, s)
         IN  /\ Len(kept) = Len(found)
             /\ \A i \in 1..Len(found) :
                  /\ kept[i].id = found[i].id /\ kept[i].type = found[i].type
                  /\ kept[i].run = found[i].run /\ kept[i].to = found[i].to
                  /\ kept[i].parent \in {found[i].parent, found[i].column}
    /\ Ids(db.sessions) = Ids(origin.sessions) /\ Ids(db.runs) = Ids(origin.runs)
    /\ \A e \in Range(db.events) :
         /\ \E c \in Range(db.events) :
              c.type = "session_created" /\ c.session = e.session /\ (c = e \/ c.seq < e.seq)
         /\ e.run # 0 => \E c \in Range(db.events) :
              c.type = "run_created" /\ c.run = e.run /\ (c = e \/ c.seq < e.seq)

\* No row keeps a form the current decoder cannot read (decode_stored_run,
\* decode_canonical_event): paths have their wire form, runs their acceptance
\* contract, and the creation event of a run says what the run row says.
ServedIsReadable ==
  Served =>
    /\ \A s \in Range(db.sessions) : s.path = "Wire"
    /\ \A r \in Range(db.runs) : "Absent" \notin {r.purpose, r.acceptance}
    /\ \A e \in Range(db.events) :
         /\ e.type = "session_created" => e.row \in Range(db.sessions)
         /\ e.type = "run_created" => e.row \in Range(db.runs)

\* Events are protected whenever no marker excuses it: a stop at any point never
\* leaves the log of an intact file both unmarked and mutable (schema v2 and later).
UnmarkedIsImmutable ==
  origin.objects = Objects(origin.version) /\ db.marker = "none" /\ db.version >= Immutable => "immutability triggers" \in db.objects

-----------------------------------------------------------------------------
(* When a database found on disk can be migrated, said of the whole history. *)

Parents(d, e) ==
  IF d.version > Legacy THEN {e.parent}
  ELSE {IF e.parent # Missing THEN e.parent ELSE IF d.parentColumn THEN e.column ELSE None}

SoundRow(d, e) ==
  LET created == IF e.type = "session_created" THEN RowsOf(d.sessions, e.session) ELSE RowsOf(d.runs, e.run)
  IN  /\ e.ok /\ e.refs
      /\ e.parent # e.column => d.version <= Legacy /\ (e.parent = Missing \/ ~d.parentColumn)
      /\ \A p \in Parents(d, e) \ {None} :
           \E f \in Range(d.events) : f.id = p /\ f.session = e.session /\ f.seq < e.seq
      /\ e.type \in {"session_created", "run_created"} =>
           \E row \in created :
             IF e.form = "row" THEN e.row.id = row.id
                                    /\ (e.type = "run_created" => PreV8Valid(e.row) /\ PreV8Run(e.row) = PreV8Run(row))
             ELSE d.version <= Legacy

SoundStates(d, r) ==
  LET events == SetToSortSeq({e \in Range(d.events) : e.run = r /\ e.type = "run_state_changed"},
                             LAMBDA x, y : x.seq < y.seq)
  IN  \A i \in 1..Len(events) :
        /\ ValidRunTransition(events[i].from, events[i].to)
        /\ events[i].from = IF i = 1 THEN Queued ELSE events[i - 1].to

\* At most one creation (exactly one from schema v2 on), before everything else.
SoundCreation(d, mine, type) ==
  LET created == {e \in mine : e.type = type}
  IN  /\ Cardinality(created) <= 1
      /\ d.version > Legacy => created # {}
      /\ \A c \in created : \A e \in mine : c.seq <= e.seq

WellFormed(d) ==
  IF d.tables = "none" THEN d.version = 0
  ELSE /\ d.version \in 0..PathWire /\ d.tables = "all"
       /\ d.version # 0 => d.parentColumn = (d.version > Legacy)
       /\ \A s \in Range(d.sessions) : s.ok /\ (d.version = PathWire => s.path = "Wire")
       /\ \A r \in Range(d.runs) :
            r.ok /\ PreV8Valid(r) /\ r.state = Queued /\ r.inputs /\ r.session \in Ids(d.sessions)
       /\ \A e \in Range(d.events) : SoundRow(d, e) /\ e.session \in Ids(d.sessions)
                                     /\ (e.run # 0 => e.run \in Ids(d.runs))
       /\ \A s \in Ids(d.sessions) :
            SoundCreation(d, {e \in Range(d.events) : e.session = s}, "session_created")
       /\ \A r \in Ids(d.runs) :
            /\ SoundCreation(d, {e \in Range(d.events) : e.run = r}, "run_created")
            /\ SoundStates(d, r)

\* A database of schema v0 to v6 whose history is sound is never refused, however
\* the openers interleave and stop: no batch of the legacy migration produces
\* rows a later upgrade rejects, and no batch fails because another opener ran it.
SoundIsNeverRefused ==
  (\E o \in Openers : opener[o] = "refused") => ~WellFormed(origin)

\* A database that is served was sound when it was found (schema v0 to v6).
ServedWasSound == Served /\ origin.version <= PathWire => WellFormed(origin)

\* What the opened Store hands out is whole: complete, readable and the history found.
ServedIsWhole == TypeOK /\ ServedIsComplete /\ HistoryIsKept /\ ServedIsReadable

\* A file is served exactly when it was sound, and is protected while it is not migrated.
OnlySoundIsServed == SoundIsNeverRefused /\ ServedWasSound /\ UnmarkedIsImmutable

\* An open call that is not stopped ends: batches make progress whoever runs them.
OpenEnded(o) == opener[o] \in {"served", "refused", "closed"}
EveryOpenEnds == \A o \in Openers : opener[o] # "closed" ~> OpenEnded(o)

-----------------------------------------------------------------------------
(* Databases as every version of the daemon may have left them, for the    *)
(* checks of this module.                                                  *)

Found(n) == <<"event", n>>
NoRow == [id |-> 0]
SessionRow(s, path) == [id |-> s, path |-> path, ok |-> TRUE]
RunRow(spec) ==
  [id |-> 1, session |-> 1, state |-> Queued, purpose |-> spec[1], acceptance |-> spec[2],
   inputs |-> TRUE, ok |-> TRUE]

Event(n, session, run, type, form, row, from, to) ==
  [id |-> Found(n), session |-> session, run |-> run, type |-> type, form |-> form, row |-> row,
   from |-> from, to |-> to, refs |-> TRUE, ok |-> TRUE]

\* Five events of two sessions and a run; `form' is how creations are written.
Template(n, path, spec, form) ==
  CASE n = 1 -> Event(1, 1, 0, "session_created", form, SessionRow(1, path), "none", "none")
    [] n = 2 -> Event(2, 1, 1, "run_created", form, RunRow(spec), "none", "none")
    [] n = 3 -> Event(3, 1, 1, "run_state_changed", "row", NoRow, Queued, "running")
    [] n = 4 -> Event(4, 1, 1, "run_state_changed", "row", NoRow, "running", "completed")
    [] n = 5 -> Event(5, 2, 0, "user_input", "row", NoRow, "none", "none")
    [] n = 6 -> Event(6, 2, 0, "session_created", form, SessionRow(2, path), "none", "none")

\* An order of events; rows are stored in that order or in the reverse one.
Log(order, backwards, parents, path, spec, form) ==
  LET n == Len(order)
      place(i) == IF backwards THEN n + 1 - i ELSE i
      parent(i) == IF parents = "chain" /\ order[place(i)] = 4 THEN Found(3) ELSE None
      \* an old row may lack the key in its JSON
      json(i) == IF parents = "missing" THEN Missing ELSE parent(i)
      event(i) == Template(order[place(i)], path, spec, form)
  IN  [i \in 1..n |-> [id |-> event(i).id, session |-> event(i).session, run |-> event(i).run,
                       type |-> event(i).type, form |-> event(i).form, row |-> event(i).row,
                       from |-> event(i).from, to |-> event(i).to, refs |-> event(i).refs,
                       ok |-> event(i).ok, parent |-> json(i), column |-> parent(i),
                       seq |-> place(i)]]

Empty == [sessions |-> <<>>, runs |-> <<>>, events |-> <<>>]
File(version, tables, parentColumn, sessions, runs, events) ==
  [version |-> version, tables |-> tables, parentColumn |-> parentColumn,
   objects |-> Objects(version), marker |-> "none", source |-> 0, phase |-> "none", cursor |-> Start,
   hasParent |-> FALSE, sessions |-> sessions, runs |-> runs, events |-> events, old |-> Empty,
   staged |-> <<>>, sessionInventory |-> <<>>, runInventory |-> <<>>,
   projection |-> IF version >= RunStateProjection /\ runs # <<>>
                  THEN [r \in {1} |-> [session |-> 1, state |-> "completed", seq |-> 5]] ELSE <<>>,
   health |-> [materialized |-> IF version >= RunStateProjection THEN Len(runs) ELSE 0,
               projected |-> IF version >= RunStateProjection THEN Len(runs) ELSE 0],
   identity |-> IF version >= Current THEN Identities(events) ELSE {}]

SessionsFile(path) == <<SessionRow(2, path), SessionRow(1, path)>>
FileOf(version, column, order, backwards, parents, path, spec, form) ==
  File(version, "all", column, SessionsFile(path), <<RunRow(spec)>>,
       Log(order, backwards, parents, path, spec, form))

Bare == <<"Absent", "Absent">>
Planned == <<"plan_only", "Absent">>
Contracted == <<"plan_only", "legacy_mechanical_only">>
Semantic == <<"plan_only", "independent_semantic_review">>
Full == <<6, 5, 1, 2, 3, 4>>

\* Every order of up to four of the events that is found in a v1 file.
Orders == {o \in UNION {[1..n -> 1..5] : n \in 0..4} : IsInjective(o)}
PartialV1 == {FileOf(Legacy, FALSE, o, b, "chain", "Text", Bare, "none") : o \in Orders, b \in BOOLEAN}
OldForms == {FileOf(v, v = 0, o, FALSE, p, "Text", spec, f) :
               v \in {0, Legacy}, o \in {Full, <<1, 2, 3, 4>>, <<3, 4>>},
               p \in {"chain", "missing"}, spec \in {Bare, Planned, Semantic}, f \in {"none", "spec", "row"}}
Versions == {FileOf(v, TRUE, o, b, "chain", p, spec, "row") :
               v \in Immutable..PathWire, o \in {Full, <<5, 6, 1, 2, 3, 4>>, <<6, 1, 3, 2, 4>>, <<6, 1, 2, 4, 3>>, <<6, 1, 2>>, <<1, 2, 3>>},
               b \in BOOLEAN, p \in {"Text", "Wire"}, spec \in {Bare, Semantic}}
Projected == {FileOf(v, TRUE, <<6, 1, 2, 3, 4>>, FALSE, "chain", "Wire", Contracted, "row") :
                v \in RunStateProjection..(Current + 1)}
             \union {FileOf(RunStateProjection, TRUE, <<6, 1, 2, 3, 4>>, FALSE, "chain", "Wire", spec, "row") :
                       spec \in {Bare, Planned, Semantic}}
Damaged == {[f EXCEPT !.parentColumn = ~@] : f \in {FileOf(Legacy, FALSE, Full, FALSE, "chain", "Text", Bare, "none")}}
           \union {[f EXCEPT !.objects = @ \ {"immutability triggers"}] : f \in Projected}
           \union {[f EXCEPT !.health.projected = 0, !.projection = <<>>] : f \in Projected}
           \union {[f EXCEPT !.identity = {}] : f \in Projected}
           \union {File(0, "some", FALSE, <<>>, <<>>, <<>>)}
Fresh == {File(0, "none", FALSE, <<>>, <<>>, <<>>)}

AllSources == PartialV1 \union OldForms \union Versions \union Projected \union Damaged \union Fresh

\* One file for each of the three migrations, and none.
LiveSources ==
  {FileOf(v, FALSE, <<1, 2, 3>>, TRUE, "chain", "Text", Bare, "none") : v \in {0, Legacy}}
  \union {FileOf(HealthCanary, TRUE, Full, FALSE, "chain", "Text", Planned, "row")} \union Fresh
=============================================================================
