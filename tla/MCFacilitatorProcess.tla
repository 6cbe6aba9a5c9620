------------------------ MODULE MCFacilitatorProcess ------------------------
(* Three requests, so that two can meet a connection that a third one makes. *)
EXTENDS FacilitatorProcess

=============================================================================
