--------------------------- MODULE MCBackendNextUp ---------------------------
EXTENDS BackendNextUp

(* One calendar event, urgent from time 0 and over after time 1. *)
MCEvents == <<[id |-> "e1", start |-> 1, end |-> 1]>>

=============================================================================
