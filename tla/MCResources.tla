---------------------------- MODULE MCResources ----------------------------
(***************************************************************************)
(* What the daemon keeps and touches on disk.  A behaviour exercises one   *)
(* subject: repository-tool brokers (two epochs with two threads and one   *)
(* call, two epochs with two calls, or one broker with every kind of       *)
(* parameters and alteration); the walkers on a changing tree; the opening *)
(* of a Store file by two processes; one repository snapshot; one attempt  *)
(* of the read-only agent through all its limits, or two that share its    *)
(* lane; or the projection of what such an attempt read.                   *)
(***************************************************************************)
EXTENDS ToolBroker, SnapshotLifecycle, ExplorerAttempt, TLC

VARIABLES subject,                                        \* what this behaviour exercises
          tree, call, stack, pending, acc, status, seen,  \* RepositoryWalk
          db, opener, origin, stops,                      \* StoreOpening
          window, whole, shown                            \* Utf8Projection

walkVars == <<tree, call, stack, pending, acc, status, seen>>
storeVars == <<db, opener, origin, stops>>
projectionVars == <<window, whole, shown>>
others == <<walkVars, storeVars, snapshotVars, explorerVars, projectionVars>>

Alike == Permutations(Threads) \cup Permutations(Brokers)

Names == {"calls", "request_bytes", "path_components", "component_bytes", "path_bytes",
          "tree_depth", "tree_entries", "read_offset", "read_bytes", "pattern_bytes",
          "search_depth", "search_files", "search_matches", "search_bytes_per_file",
          "search_total_bytes", "artifact_bytes"}
MCHard == [n \in Names |-> 5]
MCBounds == [n \in Names |-> IF n = "calls" THEN 1 ELSE 3]
GrantCeiling == [n \in Names |-> 2]
MCGrants == <<[id |-> "g1", kind |-> "Tree", max |-> GrantCeiling],
              [id |-> "g2", kind |-> "Read", max |-> GrantCeiling],
              [id |-> "g3", kind |-> "Search", max |-> GrantCeiling]>>

Ask(c, k, g, p, v, s, f) ==
  [call |-> c, kind |-> k, grant |-> g, path |-> p, max |-> [n \in Names |-> v],
   size |-> s, receipt_fits |-> f]

MCParams ==
  {Ask("c1", "Tree", "g1", <<>>, 1, 2, TRUE), Ask("c2", "Search", "g3", <<"ok">>, 1, 2, TRUE)}

(* The parameters that reach each stage of the denial order. *)
MCDenials ==
  {Ask("c1", "Read", "g2", <<"dot">>, 1, 2, TRUE), Ask("c1", "Read", "g2", <<>>, 1, 2, TRUE),
   Ask("c1", "Read", "g2", <<"long">>, 1, 2, TRUE),
   Ask("c1", "Read", "g1", <<"ok">>, 1, 2, TRUE), Ask("c1", "Read", "g2", <<"ok">>, 2, 2, TRUE),
   Ask("c1", "Search", "g3", <<>>, 0, 2, TRUE), Ask("c1", "Tree", "g1", <<>>, 3, 2, TRUE),
   Ask("c1", "Tree", "g1", <<>>, 0, 2, TRUE), Ask("c1", "Tree", "g1", <<>>, 1, 4, TRUE),
   Ask("c1", "Tree", "g1", <<>>, 1, 2, FALSE), Ask("c1", "Read", "g2", <<"ok", "ok">>, 1, 2, TRUE)}

MCOne == {Ask("c1", "Tree", "g1", <<>>, 1, 2, TRUE)}
MCAll == MCParams \cup MCDenials

(* Two threads that race for one call, and calls of two kinds; the module  *)
(* itself has every kind, altered in every way.                            *)
Raced == INSTANCE ToolBroker WITH
           Params <- MCOne, Altered <- {}, Stoppable <- {}, Boundaries <- {"RuntimeRestart"}
Epochs == INSTANCE ToolBroker WITH
            Params <- MCParams, Altered <- {}, Stoppable <- {}, Boundaries <- {"RuntimeRestart"}

OneAtMost(S) == Cardinality(S) <= 1
BrokersStep ==
  \/ subject = "brokers" /\ Raced!Next
  \/ /\ subject = "epochs" /\ Epochs!Next
     /\ OneAtMost({t \in Threads : thread'[t] # None})
  \/ /\ subject = "broker" /\ Next
     /\ OneAtMost({t \in Threads : thread'[t] # None})
     /\ OneAtMost(Range(epoch'.closed) \cup {epoch'.active})

---------------------------------------------------------------------------
(* A tree of two directories, three files, a symbolic link, a socket and a   *)
(* mount point, and the requests that reach each limit of the walkers.       *)
WalkBounds == [path_components |-> 3, path_bytes |-> 6, artifact_bytes |-> 16,
             entries_scanned |-> 7, name_bytes_scanned |-> 7]

File(b) == [kind |-> "RegularFile", dev |-> 0, ver |-> 0, bytes |-> b, names |-> <<>>]
Dir(n) == [kind |-> "Directory", dev |-> 0, ver |-> 0, bytes |-> <<>>, names |-> n]
Node(k, d) == [kind |-> k, dev |-> d, ver |-> 0, bytes |-> <<>>, names |-> <<>>]

WalkDisk == <<
  Dir((1 :> 3) @@ (2 :> 2) @@ (3 :> 4)),      \* 1, the root
  Dir((1 :> 4) @@ (2 :> 5) @@ (4 :> 8)),      \* 2
  File(<<0, 1, 0, 1, 0>>),                    \* 3
  File(<<1, 0, 1>>),                          \* 4
  Node("Symlink", 0),                         \* 5
  Node("Directory", 1),                       \* 6, another device
  Dir((1 :> 3)),                              \* 7, not linked at first
  Node("Other", 0) >>                         \* 8

WalkChanges == {
  <<1, Dir((1 :> 3) @@ (2 :> 7) @@ (3 :> 4))>>,
  <<1, Dir((1 :> 5) @@ (2 :> 2) @@ (3 :> 6))>>,
  <<2, Dir((1 :> 4) @@ (3 :> 3))>>,
  <<2, Dir((1 :> 5) @@ (2 :> 4) @@ (4 :> 8))>>,
  <<3, File(<<1, 1>>)>>,
  <<4, File(<<0, 1, 0, 0>>)>> }

Blank == [kind |-> "Tree", root |-> <<>>, prefix |-> <<>>, pattern |-> <<>>, path |-> <<>>,
          max_depth |-> 0, max_entries |-> 1, max_files |-> 1, max_matches |-> 1,
          max_bytes_per_file |-> 1, max_total_bytes |-> 1, offset_bytes |-> 0, max_bytes |-> 1]

Trees == {[Blank EXCEPT !.path = p, !.max_depth = d, !.max_entries = n] :
            p \in {<<>>, <<2>>, <<2, 2>>, <<1>>}, d \in 0..2, n \in {1, 3, 6}}
Searches == {[Blank EXCEPT !.kind = "Search", !.path = p, !.max_depth = d, !.pattern = pat,
                           !.max_files = f, !.max_matches = m, !.max_bytes_per_file = b,
                           !.max_total_bytes = t] :
               p \in {<<>>, <<2>>}, d \in 1..2, pat \in {<<>>, <<0, 1, 0>>, <<1>>},
               f \in {1, 3}, m \in {1, 4}, b \in {4, 5}, t \in {5, 13}}
Reads == {[Blank EXCEPT !.kind = "Read", !.path = p, !.offset_bytes = o, !.max_bytes = m] :
            p \in {<<>>, <<1>>, <<2, 1>>, <<2, 2>>, <<2, 4>>}, o \in {0, 2, 4}, m \in {1, 5}}

WalkRequests == Trees \cup Searches \cup Reads

Walk == INSTANCE RepositoryWalk WITH
          Disk0 <- WalkDisk, Changes <- WalkChanges, Requests <- WalkRequests,
          Bounds <- WalkBounds, MaxChanges <- 2, disk <- tree

---------------------------------------------------------------------------
Store == INSTANCE StoreOpening WITH
           Openers <- {"o1", "o2"}, Sources <- {}, MaxStops <- 1, RowBatch <- 2

(* One attempt of the agent alone, or two that use a tool once each; the   *)
(* second does not ask again.                                              *)
Pair == INSTANCE ExplorerAttempt WITH
          MaxModelCalls <- 2, MaxActionRejections <- 0, TokensPerCall <- 1, MaxOutputTokens <- 2,
          MaxToolCalls <- 1, ReadSizes <- {2}, Usages <- {1}
ExplorersStep ==
  \/ subject = "solo" /\ (ExplorerStep("x") \/ Drop("x"))
  \/ subject = "pair" /\ Pair!ExplorerNext /\ attempt'["y"].calls <= 1

View == INSTANCE Utf8Projection WITH MaxWindow <- 7, Slack <- 2

ASSUME Pair!PolicyValid /\ Store!RowBatchPositive

SomeFile == Store!FileOf(1, FALSE, <<>>, FALSE, "chain", "Text", Store!Bare, "none")

NothingRead == window = <<>> /\ whole = {} /\ shown = [form |-> "none", start |-> 0, end |-> 0]

ResourcesInit ==
  /\ subject \in {"brokers", "epochs", "broker", "walk", "store", "snapshot", "solo", "pair", "view"}
  /\ Init /\ SnapshotInit
  /\ IF subject = "pair" THEN Pair!ExplorerInit ELSE ExplorerInit
  /\ Walk!Init
  /\ Store!InitFrom(IF subject = "store" THEN Store!AllSources ELSE {SomeFile})
  /\ IF subject = "view" THEN View!ProjectionInit ELSE NothingRead

ResourcesNext ==
  /\ UNCHANGED subject
  /\ \/ BrokersStep /\ UNCHANGED others
     \/ /\ subject = "walk" /\ Walk!Next
        /\ UNCHANGED <<vars, storeVars, snapshotVars, explorerVars, projectionVars>>
     \/ /\ subject = "store" /\ Store!Next
        /\ UNCHANGED <<vars, walkVars, snapshotVars, explorerVars, projectionVars>>
     \/ /\ subject = "snapshot" /\ SnapshotNext
        /\ UNCHANGED <<vars, walkVars, storeVars, explorerVars, projectionVars>>
     \/ /\ ExplorersStep
        /\ UNCHANGED <<vars, walkVars, storeVars, snapshotVars, projectionVars>>
     \/ /\ subject = "view" /\ View!Project
        /\ UNCHANGED <<vars, walkVars, storeVars, snapshotVars, explorerVars>>

ResourcesSpec == ResourcesInit /\ [][ResourcesNext]_<<subject, vars, others>>

(* What is shown of the disk is what was there (modules RepositoryWalk and *)
(* Utf8Projection): an observation holds at some moment of the walk, and   *)
(* the model sees the bytes that were read.                                *)
ObservationsAreTrue ==
    /\ subject = "walk" => Walk!ObservationsAreTrue
    /\ View!ProjectionIsFaithful

(* ServedIsWhole and OnlySoundIsServed of module StoreOpening: what an     *)
(* opener gets is a whole and sound file.                                  *)
StoreIsSound == subject = "store" => Store!ServedIsWhole /\ Store!OnlySoundIsServed
=============================================================================
