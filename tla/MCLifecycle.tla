----------------------------- MODULE MCLifecycle -----------------------------
(* Lifecycle with an Install that looks three times.                       *)
EXTENDS Lifecycle

MCTries == 3

=============================================================================
