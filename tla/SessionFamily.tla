------------------------------ MODULE SessionFamily ------------------------------
(***************************************************************************)
(* What refresh-token rotation promises about a session, whose tokens form *)
(* a family.  A login opens it.  One holder of its only usable token may   *)
(* renew it, which takes a moment, and gets the next token.  Once closed,  *)
(* by whatever means, it never opens again and never gets another token.   *)
(***************************************************************************)
CONSTANTS Families, Tokens

VARIABLES
    state,   \* of each family: "none", "open", "renewing" or "closed"
    issued   \* the tokens each family ever got

Init ==
    /\ state = [f \in Families |-> "none"]
    /\ issued = [f \in Families |-> {}]

(* A family gets a token that no family has had. *)
Issue(f) ==
    \E t \in Tokens :
        /\ \A other \in Families : t \notin issued[other]
        /\ issued' = [issued EXCEPT ![f] = @ \cup {t}]

Open(f) ==
    /\ state[f] = "none"
    /\ state' = [state EXCEPT ![f] = "open"]
    /\ Issue(f)

Claim(f) ==
    /\ state[f] = "open"
    /\ state' = [state EXCEPT ![f] = "renewing"]
    /\ UNCHANGED issued

Renew(f) ==
    /\ state[f] = "renewing"
    /\ state' = [state EXCEPT ![f] = "open"]
    /\ Issue(f)

(* One revocation, deletion or clean-up may close several sessions. *)
Close(F) ==
    /\ \A f \in F : state[f] \in {"open", "renewing"}
    /\ state' = [f \in Families |-> IF f \in F THEN "closed" ELSE state[f]]
    /\ UNCHANGED issued

Next ==
    \/ \E f \in Families : Open(f) \/ Claim(f) \/ Renew(f)
    \/ \E F \in SUBSET Families : Close(F)

Spec == Init /\ [][Next]_<<state, issued>>
=============================================================================
