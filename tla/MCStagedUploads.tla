--------------------------- MODULE MCStagedUploads ---------------------------
(* One file name, at most two multipart uploads of it, two part numbers. *)
EXTENDS StagedUploads, TLC

CONSTANTS r1, r2, r3, k, s1, s2

OneSession == {s1}
TwoSessions == {s1, s2}
OneKeyOf == (s1 :> k)
TwoKeyOf == (s1 :> k) @@ (s2 :> k)
TwoParts == 1..2
OnePart == 1..1

=============================================================================
