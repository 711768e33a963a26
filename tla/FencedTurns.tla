---------------------------- MODULE FencedTurns ----------------------------
(***************************************************************************)
(* What a fenced lease promises: turns are numbered without gap or repeat, *)
(* a turn belongs to one worker for ever, and the protected resource takes *)
(* one write per turn, never one of a turn before a turn it has served.    *)
(***************************************************************************)
EXTENDS Integers, Sequences

CONSTANT Worker

VARIABLES turns,    \* the worker of each turn, in the order they were granted
          accepted  \* the last turn whose write was taken, 0 before

Init == turns = <<>> /\ accepted = 0

Grant == \E w \in Worker : turns' = Append(turns, w) /\ UNCHANGED accepted

Accept == accepted' \in accepted + 1 .. Len(turns) /\ UNCHANGED turns

Spec == Init /\ [][Grant \/ Accept]_<<turns, accepted>>
=============================================================================
