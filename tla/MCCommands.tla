------------------------------ MODULE MCCommands ------------------------------
EXTENDS Commands

CONSTANTS c1, c2, k1, k2

(* Below a second, above a wave, with a fraction, and in between. *)
SleepValues == {500, 7000, 15000, 15900, 45000, 400000, 900000}

(* Nothing, a context, and more flags than one way in needs. *)
NoFlags == [server |-> "none", ca |-> FALSE, token |-> FALSE, arn |-> "none", context |-> "none"]
FlagValues ==
    {NoFlags,
     [NoFlags EXCEPT !.context = c1],
     [NoFlags EXCEPT !.context = c1, !.arn = k2],
     [NoFlags EXCEPT !.context = c1, !.arn = k1, !.server = k2, !.ca = TRUE],
     [NoFlags EXCEPT !.context = c1, !.arn = k1, !.server = k2, !.ca = TRUE, !.token = TRUE]}
=============================================================================
