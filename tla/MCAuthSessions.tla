--------------------------- MODULE MCAuthSessions ---------------------------
(* Two clients of one user, for TLC.                                         *)
EXTENDS AuthSessions, TLC

CONSTANTS c1, c2, r1, r2, u1

OneUser == [c \in Clients |-> u1]
Symmetries == Permutations({c1, c2}) \cup Permutations({r1, r2})
=============================================================================
