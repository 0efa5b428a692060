---------------------------- MODULE MCWebClient -----------------------------
(* Two servers: one is asked twice, the other once.                        *)
EXTENDS WebClient

CONSTANTS twice, once

MCRequests == [r \in Remotes |-> IF r = twice THEN 2 ELSE 1]
=============================================================================
