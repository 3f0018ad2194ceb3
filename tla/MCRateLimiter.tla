---------------------------- MODULE MCRateLimiter ----------------------------
(***************************************************************************)
(* Instances of RateLimiter for TLC.                                       *)
(***************************************************************************)
EXTENDS RateLimiter

User(id) == [kind |-> "user", id |-> id]
Address(id) == [kind |-> "address", id |-> id]

(* A user and the address it signs in from.                                *)
UserAndAddress == {User(1), Address(1)}

OneUser == {User(1)}
=============================================================================
