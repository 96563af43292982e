------------------------------ MODULE MCDaemon ------------------------------
(* Instances of Daemon for TLC: see the configurations MCDaemon*.cfg.      *)
EXTENDS Daemon, TLC

TicketSymmetry == Permutations(Ticket)
=============================================================================
