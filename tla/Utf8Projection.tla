--------------------------- MODULE Utf8Projection ---------------------------
(***************************************************************************)
(* How the repository agent shows the bytes of a file read to its model    *)
(* (model_visible_result of apps/daemon/src/repository_agent_worker.rs):   *)
(* as text with the cut characters at both ends set apart, or in base64.   *)
(*                                                                         *)
(* A byte is its class: "a" plain, "e" escaped in two, "z" escaped in six, *)
(* "c" a continuation, "2".."4" the lead of a character of that width,     *)
(* "x" never valid.  The stricter second bytes of some leads are left out. *)
(***************************************************************************)
EXTENDS Integers, Sequences, FiniteSets, SequencesExt, FiniteSetsExt

CONSTANTS MaxWindow,   \* bytes of a window
          Slack        \* the 512 bytes by which text may be longer than base64

VARIABLES window,      \* the bytes a read returned
          whole,       \* where they come from a valid text: the offsets of its whole characters
          shown        \* how the model sees them

projectionVars == <<window, whole, shown>>

Width(b) == CASE b \in {"a", "e", "z"} -> 1 [] b = "2" -> 2 [] b = "3" -> 3 [] b = "4" -> 4 [] OTHER -> 0

\* std::str::from_utf8: how far the bytes are valid, and whether they only lack an end
FromUtf8(bytes) ==
    LET Continues(i) == Cardinality({k \in (i + 1)..Min({i + Width(bytes[i]) - 1, Len(bytes)}) :
                                        \A n \in (i + 1)..k : bytes[n] = "c"})
        Scan[i \in 1..(Len(bytes) + 1)] ==
            IF i > Len(bytes) THEN [upTo |-> Len(bytes), incomplete |-> FALSE]
            ELSE IF Width(bytes[i]) = 0 THEN [upTo |-> i - 1, incomplete |-> FALSE]
            ELSE IF Continues(i) = Width(bytes[i]) - 1 THEN Scan[i + Width(bytes[i])]
            ELSE [upTo |-> i - 1, incomplete |-> i + Continues(i) = Len(bytes)]
    IN  Scan[1]

From(bytes, start) == SubSeq(bytes, start + 1, Len(bytes))
Fits(bytes, start) ==
    LET r == FromUtf8(From(bytes, start))
        left == Len(bytes) - start - r.upTo
    IN  left = 0 \/ (r.incomplete /\ left <= 3)

\* model_visible_utf8_range: up to three continuation bytes are skipped
Starts(bytes) == {s \in 0..Min({3, Len(bytes)}) :
                    (\A i \in 1..s : bytes[i] = "c") /\ Fits(bytes, s)}
EscapedLength(bytes) ==
    FoldLeft(LAMBDA n, b : n + (CASE b = "e" -> 2 [] b = "z" -> 6 [] OTHER -> 1), 0, bytes)
Base64Length(n) == 4 * ((n + 2) \div 3)

ModelVisibleResult(bytes) ==
    IF Starts(bytes) = {} THEN [form |-> "base64", start |-> 0, end |-> 0]
    ELSE LET start == Min(Starts(bytes))
             end == start + FromUtf8(From(bytes, start)).upTo
         IN  IF EscapedLength(SubSeq(bytes, start + 1, end)) > Base64Length(Len(bytes)) + Slack
             THEN [form |-> "base64", start |-> 0, end |-> 0]
             ELSE [form |-> "text", start |-> start, end |-> end]

---------------------------------------------------------------------------
Characters == {<<"a">>, <<"z">>, <<"2", "c">>, <<"3", "c", "c">>, <<"4", "c", "c", "c">>}
Classes == {"a", "z", "c", "2", "3", "4", "x"}
NotText == {-1}

\* A window of a text of three characters, or any bytes at all.
ProjectionInit ==
    /\ \/ \E x, y, z \in Characters : \E text \in {x \o y \o z} :
             \E i \in 1..Len(text), n \in 0..MaxWindow :
                LET last == Min({i + n - 1, Len(text)})
                    ends == {Len(x), Len(x) + Len(y), Len(text)}
                IN  /\ window = SubSeq(text, i, last)
                    /\ whole = {e - i + 1 : e \in {e \in ends \cup {0} : e >= i - 1 /\ e <= last}}
       \/ window \in UNION {[1..n -> Classes] : n \in 0..4} /\ whole = NotText
    /\ shown = [form |-> "none", start |-> 0, end |-> 0]

Project ==
    /\ shown.form = "none"
    /\ shown' = ModelVisibleResult(window)
    /\ UNCHANGED <<window, whole>>

ProjectionSpec == ProjectionInit /\ [][Project]_projectionVars

\* Wherever a read cuts a text, the model sees exactly its whole characters as text, unless the text
\* is mostly control characters; a window that holds none shows an empty text.
TextStaysText ==
    shown.form # "none" /\ whole # NotText /\ whole # {} =>
        LET start == Min(whole)
            end == Max(whole)
        IN  IF EscapedLength(SubSeq(window, start + 1, end)) > Base64Length(Len(window)) + Slack
            THEN shown.form = "base64"
            ELSE shown = [form |-> "text", start |-> start, end |-> end]

\* What is shown as text is valid, and what is set apart at its ends could not begin or end a character.
ShownTextIsValid ==
    shown.form = "text" =>
        /\ FromUtf8(SubSeq(window, shown.start + 1, shown.end)).upTo = shown.end - shown.start
        /\ \A i \in 1..shown.start : window[i] = "c"
        /\ shown.start <= 3 /\ Len(window) - shown.end <= 3

ProjectionIsFaithful == TextStaysText /\ ShownTextIsValid
=============================================================================

