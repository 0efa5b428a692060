--------------------------- MODULE MCHttpSession ---------------------------
(* Two sockets: the client of one pipelines, the other's sends one request. *)
EXTENDS HttpSession

CONSTANTS pipelined, single

MCRequests == [s \in Slots |-> IF s = pipelined THEN 2 ELSE 1]
=============================================================================
