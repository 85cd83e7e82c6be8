----------------------------- MODULE AuthSessionsMC -----------------------------
EXTENDS AuthSessions, TLC

(* Rotations differ only by name, and so do the other requests, since the *)
(* initial states range over what each of them asks for.                  *)
AnyOrder == Permutations(Rotations) \cup Permutations(Others)
=============================================================================
