---------------------------- MODULE MCIqBalancer ----------------------------
(* IqBalancer for TLC: two optimal points, so that windows can be gathered *)
(* for different ones; fewer and as many windows asked for as fit.         *)
EXTENDS IqBalancer
=============================================================================
