-------------------------- MODULE AcceptanceRecord --------------------------
(***************************************************************************)
(* What VM-JEV-LIVE-001 promises (docs/jev-live-001.md): one specimen is   *)
(* frozen, once; at most one verdict is sealed, after it, about it; and    *)
(* neither is ever replaced.  Honest(s, v) says that the sealed bundle v   *)
(* is the evidence of specimen s and that its status follows from it.      *)
(***************************************************************************)
CONSTANT Honest(_, _)

VARIABLES
    frozen,   \* <<>>, or <<specimen>>
    verdict   \* <<>>, or <<sealed bundle>>

Init == frozen = <<>> /\ verdict = <<>>

Freeze ==
    /\ frozen = <<>>
    /\ frozen' # <<>>
    /\ UNCHANGED verdict

Seal ==
    /\ frozen # <<>>
    /\ verdict = <<>>
    /\ verdict' # <<>>
    /\ Honest(frozen[1], verdict'[1])
    /\ UNCHANGED frozen

Next == Freeze \/ Seal

Spec == Init /\ [][Next]_<<frozen, verdict>>
=============================================================================
