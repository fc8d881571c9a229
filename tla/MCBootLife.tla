------------------------------ MODULE MCBootLife ------------------------------
(* Small instances of BootLife: two or three boots in a row ask for provisioning. *)
EXTENDS BootLife
==============================================================================
