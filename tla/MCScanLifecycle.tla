-------------------------- MODULE MCScanLifecycle --------------------------
(* An instance of ScanLifecycle.                                            *)
EXTENDS ScanLifecycle

CONSTANTS stop1

OneStop == {stop1}
=============================================================================
