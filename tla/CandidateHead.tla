--------------------------- MODULE CandidateHead ---------------------------
(***************************************************************************)
(* The registry of candidate heads: which accepted candidate the           *)
(* controllers most recently selected for each track                       *)
(* (apps/daemon/src/repository_candidate_head.rs).  Controllers read a     *)
(* head, keep the binding they were given, and later select a successor    *)
(* by naming that binding as the expected head; a controller that lost     *)
(* the answer repeats its request unchanged.  Each call holds the          *)
(* registry's mutex from its first look at the state to its last, so a     *)
(* call is one step and what interleaves is the time between the read and  *)
(* the selection.                                                          *)
(***************************************************************************)
EXTENDS Naturals, Sequences, FiniteSets

CONSTANTS Controllers, Tracks, SelectionIds, Candidates,
          NoSelection,      \* no head: the None of an empty track
          ScopeOf,          \* the work order a track, or a candidate, belongs to
          MaxGeneration     \* the largest generation number, u64::MAX in the code

ASSUME RegistryAssumption ==
    /\ DOMAIN ScopeOf = Tracks \cup Candidates
    /\ MaxGeneration \in Nat \ {0}
    /\ NoSelection \notin SelectionIds

VARIABLES opened,      \* tracks opened so far, each with its authority handed out
          current,     \* the head of each track
          selections,  \* the recorded request and result of each selection id
          view,        \* the binding each controller holds for each track
          sent,        \* the last request of each controller, which it may repeat
          reply        \* what the last call of each controller returned

registry == <<opened, current, selections>>
headVars == <<registry, view, sent, reply>>

NoHead == [track |-> NoSelection, generation |-> 0, id |-> NoSelection,
           previous |-> NoSelection, candidate |-> NoSelection]

Bindings == [track : Tracks, generation : 1..MaxGeneration, id : SelectionIds,
             previous : SelectionIds \cup {NoSelection}, candidate : Candidates]
Heads == Bindings \cup {NoHead}

Requests == [track : Tracks, expected : Heads, candidate : Candidates, id : SelectionIds]
NoRequest == [track |-> NoSelection, expected |-> NoHead, candidate |-> NoSelection, id |-> NoSelection]
SelectionRecords == [request : Requests, selected : Bindings]
NoRecord == [request |-> NoRequest, selected |-> NoHead]

Answers == [outcome : {"none", "selected", "replay", "stale", "conflict", "exhausted", "scope"},
            recorded : Heads, current : Heads]
NoAnswer == [outcome |-> "none", recorded |-> NoHead, current |-> NoHead]

\* The type of the registry's state and of what its callers hold.
HeadTypeOK ==
    /\ opened \subseteq Tracks
    /\ current \in [Tracks -> Heads]
    /\ selections \in [SelectionIds -> SelectionRecords \cup {NoRecord}]
    /\ view \in [Controllers -> [Tracks -> Heads]]
    /\ sent \in [Controllers -> Requests \cup {NoRequest}]
    /\ reply \in [Controllers -> Answers]

HeadInit ==
    /\ opened = {}
    /\ current = [t \in Tracks |-> NoHead]
    /\ selections = [s \in SelectionIds |-> NoRecord]
    /\ view = [c \in Controllers |-> [t \in Tracks |-> NoHead]]
    /\ sent = [c \in Controllers |-> NoRequest]
    /\ reply = [c \in Controllers |-> NoAnswer]

-----------------------------------------------------------------------------
(* The registry                                                            *)

\* The loop that draws a fresh track id is the choice of one not yet opened.
OpenTrack(t) ==
    /\ t \notin opened
    /\ opened' = opened \cup {t}
    /\ UNCHANGED <<current, selections, view, sent, reply>>

\* The head is returned by value: from here on the controller's view may be stale.
Current(c, t) ==
    /\ t \in opened
    /\ view' = [view EXCEPT ![c][t] = current[t]]
    /\ UNCHANGED <<registry, sent, reply>>

\* Mutant of NextGeneration: only the first generation is counted.
NextGenerationStuck(head) == IF head = NoHead THEN 1 ELSE head.generation

NextGeneration(head) == head.generation + 1

BindHead(r) ==
    [track |-> r.track, generation |-> NextGeneration(current[r.track]), id |-> r.id,
     previous |-> current[r.track].id, candidate |-> r.candidate]

AnswerCall(c, outcome, recorded, head) ==
    reply' = [reply EXCEPT ![c] = [outcome |-> outcome, recorded |-> recorded, current |-> head]]

Refuse(c, outcome) == AnswerCall(c, outcome, NoHead, NoHead) /\ UNCHANGED registry

Select(c, r) ==
    LET selected == BindHead(r)
    IN  /\ selections' = [selections EXCEPT ![r.id] = [request |-> r, selected |-> selected]]
        /\ current' = [current EXCEPT ![r.track] = selected]
        /\ AnswerCall(c, "selected", selected, selected)
        /\ UNCHANGED opened

\* A selection id already recorded: the same request replays, another one conflicts.
RecordedSelection(c, r) ==
    /\ selections[r.id] # NoRecord
    /\ IF selections[r.id].request = r
         THEN /\ AnswerCall(c, "replay", selections[r.id].selected, current[r.track])
              /\ UNCHANGED registry
         ELSE Refuse(c, "conflict")

\* Mutant of FreshSelection: without the comparison with the head.
FreshSelectionWithoutCompare(c, r) ==
    /\ selections[r.id] = NoRecord
    /\ \/ current[r.track].generation = MaxGeneration /\ Refuse(c, "exhausted")
       \/ current[r.track].generation < MaxGeneration /\ Select(c, r)

\* Not recorded yet: compare with the head, count the generation, and swap.
FreshSelection(c, r) ==
    /\ selections[r.id] = NoRecord
    /\ \/ r.expected # current[r.track] /\ Refuse(c, "stale")
       \/ /\ r.expected = current[r.track]
          /\ current[r.track].generation = MaxGeneration
          /\ Refuse(c, "exhausted")
       \/ /\ r.expected = current[r.track]
          /\ current[r.track].generation < MaxGeneration
          /\ Select(c, r)

SelectSuccessor(c, r) ==
    /\ r.track \in opened
    /\ sent' = [sent EXCEPT ![c] = r]
    /\ \/ ScopeOf[r.candidate] # ScopeOf[r.track] /\ Refuse(c, "scope")
       \/ /\ ScopeOf[r.candidate] = ScopeOf[r.track]
          /\ RecordedSelection(c, r) \/ FreshSelection(c, r)
    /\ view' = [view EXCEPT ![c][r.track] = IF reply'[c].outcome \in {"selected", "replay"}
                                             THEN reply'[c].current ELSE @]

-----------------------------------------------------------------------------
(* The controllers                                                         *)

\* A controller selects a candidate as the successor of the head it last saw.
Propose(c, t, candidate, id) ==
    SelectSuccessor(c, [track |-> t, expected |-> view[c][t], candidate |-> candidate, id |-> id])

\* A request whose answer was lost is made again, however late.
Repeat(c) == sent[c] # NoRequest /\ SelectSuccessor(c, sent[c])

HeadNext ==
    \/ \E t \in Tracks : OpenTrack(t)
    \/ \E c \in Controllers, t \in Tracks : Current(c, t)
    \/ \E c \in Controllers, t \in Tracks, candidate \in Candidates, id \in SelectionIds :
          Propose(c, t, candidate, id)
    \/ \E c \in Controllers : Repeat(c)

HeadSpec == HeadInit /\ [][HeadNext]_headVars

-----------------------------------------------------------------------------
(* Properties                                                              *)

Selected(t) == {s \in SelectionIds : /\ selections[s] # NoRecord
                                     /\ selections[s].selected.track = t}

SelectionAt(t, g) == CHOOSE s \in Selected(t) : selections[s].selected.generation = g

Link(s) == [id |-> s, basis |-> selections[s].request.expected.id,
            candidate |-> selections[s].request.candidate]

\* The registry is a set of chains: a selection only ever enters at the end of its
\* track's chain, on top of the head its controller had read (select_successor's
\* comparison of the whole binding), and under an identity used nowhere before, however
\* reads, selections and repeated requests of several controllers interleave.
Chain == INSTANCE SelectionChain
    WITH chain <- [t \in Tracks |-> [g \in 1..current[t].generation |-> Link(SelectionAt(t, g))]]
ImplementsSelectionChain == Chain!Spec

\* The generations of a track have no gap and no duplicate, the recorded selections are
\* exactly those up to the head, and each names its predecessor (bind_head).
GenerationsContiguous ==
    \A t \in Tracks :
        /\ {selections[s].selected.generation : s \in Selected(t)} = 1..current[t].generation
        /\ Cardinality(Selected(t)) = current[t].generation
        /\ \A s \in Selected(t) :
              selections[s].selected.previous =
                  IF selections[s].selected.generation = 1 THEN NoSelection
                  ELSE SelectionAt(t, selections[s].selected.generation - 1)

\* A repeated request is answered with the binding recorded the first time, beside a head
\* of the same track that is no older: a replay is never taken for a new selection
\* (the ExactReplay outcome).
ReplayIsHistorical ==
    \A c \in Controllers : reply[c].outcome = "replay" =>
        /\ reply[c].recorded = selections[reply[c].recorded.id].selected
        /\ reply[c].current.track = reply[c].recorded.track
        /\ reply[c].current.generation >= reply[c].recorded.generation

\* What a selection id stands for never changes once it is recorded.
SelectionsImmutable ==
    [][\A s \in SelectionIds : selections[s] # NoRecord => selections'[s] = selections[s]]_headVars

\* However reads, selections, repetitions and refusals of several controllers interleave,
\* the registry's records and its answers agree with each other.
HeadIsSound == HeadTypeOK /\ GenerationsContiguous /\ ReplayIsHistorical
=============================================================================

