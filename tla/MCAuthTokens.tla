---------------------------- MODULE MCAuthTokens ----------------------------
(* AuthTokens for TLC: which identifiers are interchangeable, and a bound:   *)
(* a user's password is changed or he is deactivated, not both.              *)
EXTENDS AuthTokens, TLC

Interchangeable == Permutations(Token) \cup Permutations(Family) \cup Permutations(Request)

NotBoth ==
    \A u \in User : \/ account[u].active
                    \/ account[u].password = 0

MCSpec == Init /\ [][Next /\ NotBoth']_vars
=============================================================================
