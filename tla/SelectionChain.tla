--------------------------- MODULE SelectionChain ---------------------------
(***************************************************************************)
(* What the candidate-head registry promises, without its requests,        *)
(* bindings and replays: every track is one growing chain of selections.   *)
(* A selection enters a chain at its end, names the selection its          *)
(* controller had seen as the head, and its identity is used once in the   *)
(* whole registry.  Module CandidateHead implements this specification.    *)
(***************************************************************************)
EXTENDS Naturals, Sequences

CONSTANTS Tracks, SelectionIds, Candidates, NoSelection

VARIABLE chain  \* for each track, its selections in the order of their generations

\* The selections of one track, and of all of them.
UsedBy(t) == {chain[t][g].id : g \in 1..Len(chain[t])}
UsedIds == UNION {UsedBy(t) : t \in Tracks}

HeadOf(t) == IF chain[t] = <<>> THEN NoSelection ELSE chain[t][Len(chain[t])].id

Init == chain = [t \in Tracks |-> <<>>]

\* A controller that saw the head of the track puts a candidate on top of it.
Extend(t, id, candidate) ==
    chain' = [chain EXCEPT ![t] = Append(@, [id |-> id, basis |-> HeadOf(t), candidate |-> candidate])]

Next == \E t \in Tracks, id \in SelectionIds \ UsedIds, candidate \in Candidates :
            Extend(t, id, candidate)

Spec == Init /\ [][Next]_chain
=============================================================================
