----------------------------- MODULE MCRaceDay ------------------------------
(* Race day over two drive programs: one that ends and one that follows it,  *)
(* which the app may signal or not.                                          *)
EXTENDS RaceDay

CONSTANTS c1, c2
=============================================================================
