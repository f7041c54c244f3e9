--------------------------- MODULE MCSpeechStack ---------------------------
(***************************************************************************)
(* Instances of SpeechStack.                                               *)
(***************************************************************************)
EXTENDS SpeechStack

\* A session that greets and answers, and one that greets.  Every session of the web
\* adapter greets under the same turn id.
TwoSessions == {"a", "b"}
TwoSessionRequests == {"greetA", "answerA", "greetB"}
TwoSessionSession == [r \in TwoSessionRequests |-> IF r = "greetB" THEN "b" ELSE "a"]
TwoSessionTurns == {"greeting", "t1"}
TwoSessionTurn == [r \in TwoSessionRequests |-> IF r = "answerA" THEN "t1" ELSE "greeting"]

\* One session: turn ids are not reused.
OneSession == {"a"}
OneSessionRequests == {"greetA", "answerA"}
OneSessionSession == [r \in OneSessionRequests |-> "a"]
OneSessionTurns == {"greeting", "t1"}
OneSessionTurn == [r \in OneSessionRequests |-> IF r = "answerA" THEN "t1" ELSE "greeting"]
=============================================================================
