----------------------------- MODULE MCHousehold -----------------------------
(***************************************************************************)
(* Instances of Household for TLC.                                         *)
(***************************************************************************)
EXTENDS Household

(* Two requests can meet on any database; a third one where starting up    *)
(* does not take part.                                                     *)
Requests == [initSql \in BOOLEAN |-> IF initSql THEN 3 ELSE 2]

ThreeRequests == [initSql \in BOOLEAN |-> 3]
NoRequests == [initSql \in BOOLEAN |-> 0]
=============================================================================
