---------------------------- MODULE CommandResponse ----------------------------
(***************************************************************************)
(* What the host may count on: the device takes one command at a time,     *)
(* from one of its media, and answers it once, on that media, before it    *)
(* takes another; or it fails, and starts again with nothing owed.         *)
(***************************************************************************)
CONSTANTS Media, NoMedia

VARIABLES phase, media

vars == <<phase, media>>

Init == phase = "free" /\ media = NoMedia

Take == phase = "free" /\ phase' = "taken" /\ media' \in Media

Answer == phase = "taken" /\ phase' = "answering" /\ UNCHANGED media

Close == phase = "answering" /\ phase' = "free" /\ media' = NoMedia

Fail == phase # "down" /\ phase' = "down" /\ media' = NoMedia

Recover == phase = "down" /\ phase' = "free" /\ UNCHANGED media

Next == Take \/ Answer \/ Close \/ Fail \/ Recover

Spec == Init /\ [][Next]_vars
=============================================================================
