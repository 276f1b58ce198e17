---------------------------- MODULE MCAuthTokens -----------------------------
(* TLC instance of AuthTokens: tokens and requests are interchangeable.     *)
EXTENDS AuthTokens, TLC

Interchangeable ==
    Permutations(Links) \cup Permutations(Sessions) \cup Permutations(Requests)

\* An account that has a password and never had a link was added by an admin.
Added == account.password /\ \A l \in Links : link[l].state = "unused"

\* The admin site's forms and the links are looked at apart: an account that an
\* admin has added is edited there and gets no links and one session, one that
\* came into being otherwise is not edited there.
Apart ==
    IF Added
    THEN link' = link /\ Cardinality({s \in Sessions : session'[s].state # "unused"}) <= 1
    ELSE \A r \in Requests : req'[r].stage \notin {"edit", "admin_reset"}
=============================================================================
