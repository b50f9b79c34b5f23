----------------------------- MODULE MCLifetime -----------------------------
(***************************************************************************)
(* Lifetime with a few clients, and with two places in memory so that a    *)
(* new instance can be where the last one was, or elsewhere.               *)
(***************************************************************************)
EXTENDS Lifetime

=============================================================================
