----------------------------- MODULE MCProvision -----------------------------
(* Small instances of Provision: a right and a wrong password. *)
EXTENDS Provision
==============================================================================
