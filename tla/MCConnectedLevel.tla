--------------------------- MODULE MCConnectedLevel ---------------------------
(* The code's threshold and three losses of a link, in all three modes. *)
EXTENDS ConnectedLevel, TLC
=============================================================================
