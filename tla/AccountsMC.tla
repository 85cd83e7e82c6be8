------------------------------- MODULE AccountsMC -------------------------------
EXTENDS Accounts, TLC

Form(username, email, phone) == [username |-> username, email |-> email, phone |-> phone]

(* Two of them are the same, or share the e-mail, the phone, the name, or *)
(* nothing, and a registration and an update may come with any.           *)
SomeForms ==
    {Form("ana", "a@", "1"), Form("bea", "a@", "2"), Form("ana", "b@", "2"), Form("eva", "e@", "3")}

(* Registrations differ only by name, and so do the other requests, since the *)
(* initial states range over what each of them asks for.                      *)
AnyOrder == Permutations(Registrations) \cup Permutations(Others)

(* Nothing an admin does is repeated when it fails, so one failure beside it *)
(* is enough; two are for the e-mails.  Bounds the run that uses it.         *)
FewFailuresWithAdmins ==
    (\E p \in Others : kind[p] \in {"adminActivate", "adminDeactivate"}) => faults <= 1
=============================================================================
