--------------------------- MODULE MCMatchupWeek ---------------------------
(***************************************************************************)
(* A week of two matchups and a team with a game that ends late: the       *)
(* constants that a configuration file cannot write.                       *)
(***************************************************************************)
EXTENDS MatchupWeek

CONSTANTS t1, t2, t3, t4

MCMatchups == {{t1, t2}, {t3, t4}}
MCGamesOver == [t \in UNION MCMatchups |-> IF t = t1 THEN Ends + 1 ELSE Ends]
============================================================================
