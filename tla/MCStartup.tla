----------------------------- MODULE MCStartup ------------------------------
(***************************************************************************)
(* A small instance of Startup: two instances of one deployment and one    *)
(* that was given a single database connection.                            *)
(***************************************************************************)
EXTENDS Startup, TLC

CONSTANTS i1, i2, i3

MCPool == (i1 :> 2) @@ (i2 :> 2) @@ (i3 :> 1)
=============================================================================
