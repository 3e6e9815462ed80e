----------------------------- MODULE MCWebForms -----------------------------
(* Two records and the administrator's own account. *)
EXTENDS WebForms

MCForms == DefaultForms \cup AirForms \cup BerryForms
=============================================================================
