-------------------------- MODULE MCRequestQueue --------------------------
(* Small instances of RequestQueue for TLC; the configurations differ in   *)
(* who calls what.                                                         *)
EXTENDS RequestQueueProps

=============================================================================
