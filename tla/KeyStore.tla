------------------------------- MODULE KeyStore -------------------------------
(***************************************************************************)
(* What a caller may expect of the settings store (easyflash.h:            *)
(* ef_set_env, ef_get_env): a set takes effect at once and as a whole, it  *)
(* has taken effect when it returns, nothing else changes a value, and a   *)
(* reset leaves every value as it was.  The last is more than the code     *)
(* keeps: a reset may damage one key.                                      *)
(***************************************************************************)
CONSTANTS Keys, Vals, None

VARIABLES
    cur,        \* the value of each key, None if it has none
    req,        \* the set under way, if any
    damaged     \* keys about which nothing is promised any more

vars == <<cur, req, damaged>>

NoReq == [key |-> None, val |-> None]

Init ==
    /\ cur = [k \in Keys |-> None]
    /\ req = NoReq
    /\ damaged = {}

\* Only what is damaged changes.
OthersStay == /\ cur' \in [Keys -> Vals \cup {None}]
              /\ \A k \in Keys \ damaged : cur'[k] = cur[k]

\* ef_set_env is called,
Call == /\ req = NoReq
        /\ req' \in [key : Keys, val : Vals]
        /\ UNCHANGED <<cur, damaged>>

\* takes effect,
Effect == /\ req # NoReq
          /\ cur' = [cur EXCEPT ![req.key] = req.val]
          /\ UNCHANGED <<req, damaged>>

\* and returns.
Return == /\ req # NoReq
          /\ cur[req.key] = req.val \/ req.key \in damaged
          /\ req' = NoReq
          /\ OthersStay
          /\ UNCHANGED damaged

\* The caller's value changes before it has.
Spoil == /\ req # NoReq
         /\ damaged' = damaged \cup {req.key}
         /\ \E v \in Vals : req' = [req EXCEPT !.val = v]
         /\ UNCHANGED cur

\* A reset ends the set under way and damages at most one key.
Reset == /\ req' = NoReq
         /\ \E k \in Keys : damaged' \in {damaged, damaged \cup {k}}
         /\ OthersStay

\* What is damaged may change at any time.
Decay == OthersStay /\ UNCHANGED <<req, damaged>>

Next == Call \/ Effect \/ Return \/ Spoil \/ Reset \/ Decay

Spec == Init /\ [][Next]_vars
=============================================================================
