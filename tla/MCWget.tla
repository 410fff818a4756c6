------------------------------- MODULE MCWget -------------------------------
(* The environments Wget is checked in: none, one or two kinds of trouble. *)
EXTENDS Wget

Calm(n) == [kills |-> FALSE, drops |-> FALSE, bad |-> FALSE, stuck |-> FALSE, parallel |-> n]

MCEnvs ==
    {Calm(3), [Calm(2) EXCEPT !.stuck = TRUE], [Calm(1) EXCEPT !.kills = TRUE], [Calm(3) EXCEPT !.kills = TRUE],
     [Calm(2) EXCEPT !.drops = TRUE],
     [Calm(2) EXCEPT !.bad = TRUE, !.drops = TRUE],
     [Calm(1) EXCEPT !.kills = TRUE, !.drops = TRUE, !.bad = TRUE]}
KillEnvs == {[Calm(3) EXCEPT !.kills = TRUE]}
=============================================================================
