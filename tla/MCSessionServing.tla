--------------------------- MODULE MCSessionServing ---------------------------
(* TLC instances of SessionServing. *)
EXTENDS SessionServing

CONSTANTS s1, s2, r1, r2

MCMotis == {s2}
MCNoPatch == {"archived"}
MCPatch == {"configured", "serving"}
=============================================================================
