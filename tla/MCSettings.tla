------------------------------ MODULE MCSettings ------------------------------
EXTENDS Settings
CONSTANTS str, num, loop, http
OrderDef == <<str, num>>
ChangesDef(t) == IF t = loop THEN {num} ELSE {str}
=============================================================================
