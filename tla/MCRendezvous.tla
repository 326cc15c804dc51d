---------------------------- MODULE MCRendezvous ----------------------------
(* Rendezvous with a few senders and receivers that share keys.            *)
EXTENDS Rendezvous, TLC
=============================================================================
