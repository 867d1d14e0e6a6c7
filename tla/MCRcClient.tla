----------------------------- MODULE MCRcClient -----------------------------
(* RcClient with a few messages and two group ids. *)
EXTENDS RcClient

=============================================================================
