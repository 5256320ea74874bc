------------------------------ MODULE MCAccess ------------------------------
(* Access with calls that meet at the key cache and at the rows of two keys. *)
EXTENDS Access, TLC

Jwt(id, work, target) == [by |-> "jwt", id |-> id, work |-> work, target |-> target]
Key(id, work, target) == [by |-> "key", id |-> id, work |-> work, target |-> target]

CONSTANTS old, new, k1, k2, r1, r2, r3

\* The first meets the second at the key rows, and all three meet at the key cache.
MCCalls == [r \in {r1, r2, r3} |->
    IF r = r1 THEN {Jwt(old, "read", k1), Key(k1, "begin", k1),
                    Key(k1, "revoke", k1), Key(k1, "revoke", k2)}
    ELSE IF r = r2 THEN {Jwt(old, "begin", k1), Key(k2, "revoke", k1), Key(k1, "commit", k1)}
    ELSE {Jwt(new, "forbidden", k1)}]
=============================================================================
