------------------------------- MODULE MCPool -------------------------------
(* The connection pool with two or three clients.                            *)
EXTENDS Pool, TLC

CONSTANTS s1, s2, s3

ThreeSessions == {s1, s2, s3}

\* Sessions are interchangeable: no definition compares two of them.
SessionSymmetry == Permutations(Sessions)
=============================================================================
