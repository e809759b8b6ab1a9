---------------------------- MODULE MCController ----------------------------
(* Controller with three outcomes in batches of two, and two signals.      *)
EXTENDS Controller

MCModes == {"kafka", "http", "off"}
MCSignals == {1, 2}

=============================================================================
