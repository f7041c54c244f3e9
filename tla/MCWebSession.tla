---------------------------- MODULE MCWebSession ----------------------------
(***************************************************************************)
(* Instances of WebSession.                                                *)
(***************************************************************************)
EXTENDS WebSession, TLC

CONSTANTS s1, s2, m1, m2, e1

KindOf(starts, messages, ends) ==
    [c \in starts \cup messages \cup ends |->
        IF c \in starts THEN "start" ELSE IF c \in messages THEN "message" ELSE "end"]

\* A session that is ended and restarted under its id, and two messages.
Restart == {s1, s2, m1, m2, e1}
RestartKind == KindOf({s1, s2}, {m1, m2}, {e1})
RestartSymmetry == Permutations({s1, s2}) \cup Permutations({m1, m2})

\* One session, two messages.
Dialogue == {s1, m1, m2}
DialogueKind == KindOf({s1}, {m1, m2}, {})

=============================================================================
