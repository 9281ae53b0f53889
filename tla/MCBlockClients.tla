--------------------------- MODULE MCBlockClients ---------------------------
(* Chunks of two and three blocks on a medium that holds a few of them: the *)
(* managers exhaust and refill their chunks in every order.                 *)
EXTENDS BlockClients

MCBulks == [m \in Managers |-> IF m = "dinode" THEN 3 ELSE 2]
=============================================================================
