---- MODULE MCDataBridge ----
EXTENDS DataBridge, TLC

Peers == Permutations(Clients)
====
