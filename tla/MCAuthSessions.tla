--------------------------- MODULE MCAuthSessions ----------------------------
(* AuthSessions on small sets.  Sessions and requests are each               *)
(* interchangeable, and so are the users outside Watched: Init treats every  *)
(* user alike and no property names one.                                     *)
EXTENDS AuthSessions, TLC

Interchangeable == Permutations(User \ Watched) \cup Permutations(Session) \cup Permutations(Request)
=============================================================================
