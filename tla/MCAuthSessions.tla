--------------------------- MODULE MCAuthSessions ---------------------------
(* Small instances of AuthSessions for TLC: one in which requests overlap    *)
(* and one in which they do not.                                             *)
EXTENDS AuthSessions, TLC

VARIABLE part

Interchangeable == Permutations(Tokens) \cup Permutations(Users) \cup Permutations(Requests)

Serial == INSTANCE AuthSessions WITH Serialized <- TRUE

PartsInit == Init /\ part \in {"overlapping", "serial"}
PartsNext ==
  /\ \/ part = "overlapping" /\ Next
     \/ part = "serial" /\ Serial!Next
  /\ UNCHANGED part
PartsSpec == PartsInit /\ [][PartsNext]_<<vars, part>>

\* Rotation, when requests do not overlap, even if they die half-way: of the
\* tokens of one login that a client has been sent, at most one is usable.
OneUsableSerially == part = "serial" => OneUsablePerFamily

\* Reuse detection is final, when requests do not overlap: when a used token has
\* come back, no token of its family can be exchanged again.
ReuseIsFinalSerially == part = "serial" => ReuseIsFinal
=============================================================================
