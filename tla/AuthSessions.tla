------------------------------ MODULE AuthSessions ------------------------------
(***************************************************************************)
(* The sessions of one user: the rows of the tokens table and every        *)
(* request that reads or writes them, one action per await.  A login or a  *)
(* rotation saves at most one token, so the request names the token, and a *)
(* login also names the family it starts.  Nothing holds a lock: what      *)
(* orders two rotations is the conditional update that claims a token.     *)
(*                                                                         *)
(* Whether a password matches is a choice.  A rejected await has had no    *)
(* effect: one that had is the step and a later rejection.  A restart of   *)
(* the API is a rejected await of every request under way.                 *)
(***************************************************************************)
EXTENDS Naturals

CONSTANTS
    Logins,     \* POST /auth/login
    Rotations,  \* POST /auth/refresh
    Others,     \* any other request, see Kind
    NoToken,    \* no token is held, no family is known
    MaxFaults   \* bound: awaits that reject

Ids == Logins \cup Rotations
Requests == Ids \cup Others

ASSUME SessionsAssumption ==
    /\ Logins \cap Rotations = {}
    /\ Ids \cap Others = {}
    /\ NoToken \notin Requests
    /\ MaxFaults \in Nat

(* The handlers the other requests run; an admin deactivates or reactivates. *)
Kind ==
    {"logout", "logoutEverywhere", "changePassword", "deleteAccount",
     "deactivate", "reactivate", "activateAccount"}

VARIABLES
    kind,         \* what each of the other requests asks for
    user,         \* the users row: does it exist, is it active
    stored,       \* tokens: the rows the table has
    isUsed,       \* tokens.isUsed
    isRevoked,    \* tokens.isRevoked
    tokenFamily,  \* tokens.tokenFamily, which outlives the row here
    expired,      \* the tokens whose expiresAt is over
    pc,           \* next await of each request
    held,         \* the tokenRecord a rotation or a logout holds
    faults        \* awaits that have rejected

tokens == <<stored, isUsed, isRevoked, tokenFamily>>
vars   == <<kind, user, tokens, expired, pc, held, faults>>

Init ==
    /\ kind \in [Others -> Kind]
    /\ user \in [exists : {TRUE}, isActive : BOOLEAN]
    /\ stored = {} /\ isUsed = {} /\ isRevoked = {} /\ expired = {}
    /\ tokenFamily = [t \in Ids |-> NoToken]
    /\ pc = [p \in Requests |-> "idle"]
    /\ held = [p \in Rotations \cup Others |-> NoToken]
    /\ faults = 0

Goto(p, next) == pc' = [pc EXCEPT ![p] = next]

usable == stored \ (isUsed \cup isRevoked)

(* The tokens an answer has handed to the client.  A login whose save failed *)
(* hands one over too, which no row stands for, so that it is refused.       *)
Issued == {t \in Ids : pc[t] = "done"}

family(f) == {t \in stored : tokenFamily[t] = f}

(* tokensRepository.update(..., { isRevoked: true, isUsed: true }) *)
Revoke(rows) ==
    /\ isRevoked' = isRevoked \cup rows
    /\ isUsed' = isUsed \cup rows

(* The insert of a token; the foreign key refuses one without a user. *)
SaveToken(p, f) ==
    /\ IF user.exists
       THEN /\ stored' = stored \cup {p}
            /\ tokenFamily' = [tokenFamily EXCEPT ![p] = f]
            /\ Goto(p, "done")
       ELSE Goto(p, "denied") /\ UNCHANGED <<stored, tokenFamily>>
    /\ UNCHANGED <<kind, user, isUsed, isRevoked, expired, held, faults>>

-----------------------------------------------------------------------------
(* login *)

LoginFind(l) ==
    /\ pc[l] = "idle"
    /\ \E isPasswordValid \in BOOLEAN :
         Goto(l, IF user.exists /\ user.isActive /\ isPasswordValid
                 THEN "save" ELSE "denied")
    /\ UNCHANGED <<kind, user, tokens, expired, held, faults>>

LoginSave(l) == pc[l] = "save" /\ SaveToken(l, l)

login(l) == LoginFind(l) \/ LoginSave(l)

-----------------------------------------------------------------------------
(* rotateRefreshToken: the client presents any token it ever got, the same  *)
(* one twice when an answer was lost.                                       *)

RotateFind(r) ==
    /\ pc[r] = "idle"
    /\ \E t \in Issued :
         IF t \in stored \ (expired \cup isRevoked)
         THEN Goto(r, "claim") /\ held' = [held EXCEPT ![r] = t]
         ELSE Goto(r, "denied") /\ UNCHANGED held
    /\ UNCHANGED <<kind, user, tokens, expired, faults>>

(* Mutant of Claimable: the update does not ask whether the token was used. *)
ClaimsUsed(t) == t \in stored \ isRevoked

Claimable(t) == t \in usable

(* Mutant of AfterClaim: the number of affected rows is not looked at. *)
GoesOn(claimed) == "user"

AfterClaim(claimed) == IF claimed THEN "user" ELSE "revoke_family"

(* Mutant of RotateClaim: the token is looked at, not claimed. *)
ChecksOnly(r) ==
    /\ pc[r] = "claim"
    /\ Goto(r, AfterClaim(Claimable(held[r])))
    /\ UNCHANGED <<kind, user, tokens, expired, held, faults>>

RotateClaim(r) ==
    /\ pc[r] = "claim"
    /\ isUsed' = isUsed \cup {t \in {held[r]} : Claimable(t)}
    /\ Goto(r, AfterClaim(Claimable(held[r])))
    /\ UNCHANGED <<kind, user, stored, isRevoked, tokenFamily, expired, held, faults>>

RotateUser(r) ==
    /\ pc[r] = "user"
    /\ Goto(r, IF user.exists /\ user.isActive THEN "save" ELSE "revoke_family")
    /\ UNCHANGED <<kind, user, tokens, expired, held, faults>>

RotateSave(r) == pc[r] = "save" /\ SaveToken(r, tokenFamily[held[r]])

RevokeFamily(p, answer) ==
    /\ pc[p] = "revoke_family"
    /\ Revoke(family(tokenFamily[held[p]]))
    /\ Goto(p, answer)
    /\ UNCHANGED <<kind, user, stored, tokenFamily, expired, held, faults>>

rotateRefreshToken(r) ==
    \/ RotateFind(r) \/ RotateClaim(r) \/ RotateUser(r) \/ RotateSave(r)
    \/ RevokeFamily(r, "denied")

-----------------------------------------------------------------------------
(* The requests that end sessions.  Those of the user pass JwtStrategy with *)
(* an access token, which is no row and may outlive the session it is from. *)

Authenticate(p, next) ==
    /\ pc[p] = "idle"
    /\ Goto(p, IF user.exists /\ user.isActive THEN next ELSE "denied")
    /\ UNCHANGED <<kind, user, tokens, expired, held, faults>>

(* Mutant of AfterLookup: a token without a row is not told apart. *)
AnyRecord(found) == "revoke_family"

AfterLookup(found) == IF found THEN "revoke_family" ELSE "done"

(* The cookie may hold no token, or one whose row has been deleted. *)
LogoutFind(p) ==
    /\ pc[p] = "find"
    /\ \E t \in Issued \cup {NoToken} :
         /\ held' = [held EXCEPT ![p] = IF t \in stored THEN t ELSE NoToken]
         /\ Goto(p, AfterLookup(t \in stored))
    /\ UNCHANGED <<kind, user, tokens, expired, faults>>

logout(p) == Authenticate(p, "find") \/ LogoutFind(p) \/ RevokeFamily(p, "done")

(* revokeAllSessions, and the update of logoutEverywhere. *)
RevokeAll(p, next) ==
    /\ pc[p] = "revoke_all"
    /\ Revoke(stored)
    /\ Goto(p, next)
    /\ UNCHANGED <<kind, user, stored, tokenFamily, expired, held, faults>>

logoutEverywhere(p) == Authenticate(p, "revoke_all") \/ RevokeAll(p, "done")

(* The password is checked, then updated, which no session depends on. *)
PasswordFind(p) ==
    /\ pc[p] = "find"
    /\ \E isValid \in BOOLEAN :
         Goto(p, IF user.exists /\ isValid THEN "revoke_all" ELSE "denied")
    /\ UNCHANGED <<kind, user, tokens, expired, held, faults>>

changePassword(p) ==
    Authenticate(p, "find") \/ PasswordFind(p) \/ RevokeAll(p, "done")

(* An admin may delete the account too, so the user's own token is not asked. *)
DeleteStart(p) ==
    /\ pc[p] = "idle"
    /\ Goto(p, "revoke_all")
    /\ UNCHANGED <<kind, user, tokens, expired, held, faults>>

(* The foreign key of tokens cascades. *)
DeleteUser(p) ==
    /\ pc[p] = "delete"
    /\ IF user.exists
       THEN user' = [user EXCEPT !.exists = FALSE] /\ stored' = {} /\ Goto(p, "done")
       ELSE Goto(p, "denied") /\ UNCHANGED <<user, stored>>
    /\ UNCHANGED <<kind, isUsed, isRevoked, tokenFamily, expired, held, faults>>

deleteAccount(p) == DeleteStart(p) \/ RevokeAll(p, "delete") \/ DeleteUser(p)

AdminUpdate(p) ==
    /\ pc[p] = "idle"
    /\ user' = [user EXCEPT !.isActive = kind[p] = "reactivate"]
    /\ Goto(p, "find")
    /\ UNCHANGED <<kind, tokens, expired, held, faults>>

AdminFind(p) ==
    /\ pc[p] = "find"
    /\ Goto(p, CASE ~user.exists           -> "denied"
                 [] kind[p] = "deactivate" -> "revoke_all"
                 [] OTHER                  -> "done")
    /\ UNCHANGED <<kind, user, tokens, expired, held, faults>>

adminUpdateUser(p) == AdminUpdate(p) \/ AdminFind(p) \/ RevokeAll(p, "done")

ActivateFind(p) ==
    /\ pc[p] = "idle"
    /\ Goto(p, CASE ~user.exists   -> "denied"
                 [] user.isActive  -> "done"
                 [] OTHER          -> "activate")
    /\ UNCHANGED <<kind, user, tokens, expired, held, faults>>

ActivateUpdate(p) ==
    /\ pc[p] = "activate"
    /\ user' = [user EXCEPT !.isActive = TRUE]
    /\ Goto(p, "done")
    /\ UNCHANGED <<kind, tokens, expired, held, faults>>

activateAccount(p) == ActivateFind(p) \/ ActivateUpdate(p)

other(p) ==
    \/ kind[p] = "logout" /\ logout(p)
    \/ kind[p] = "logoutEverywhere" /\ logoutEverywhere(p)
    \/ kind[p] = "changePassword" /\ changePassword(p)
    \/ kind[p] = "deleteAccount" /\ deleteAccount(p)
    \/ kind[p] \in {"deactivate", "reactivate"} /\ adminUpdateUser(p)
    \/ kind[p] = "activateAccount" /\ activateAccount(p)

-----------------------------------------------------------------------------
(* Time, the daily clean-up and failures. *)

Expire(t) ==
    /\ t \in Issued \ expired
    /\ expired' = expired \cup {t}
    /\ UNCHANGED <<kind, user, tokens, pc, held, faults>>

TokenCleanup ==
    /\ stored \cap expired # {}
    /\ stored' = stored \ expired
    /\ UNCHANGED <<kind, user, isUsed, isRevoked, tokenFamily, expired, pc, held, faults>>

(* The answer is an error, but for a logout, which swallows it. *)
Fails(p) ==
    /\ faults < MaxFaults
    /\ pc[p] \notin {"idle", "done", "denied"}
    /\ Goto(p, IF p \in Others /\ kind[p] = "logout" THEN "done" ELSE "denied")
    /\ faults' = faults + 1
    /\ UNCHANGED <<kind, user, tokens, expired, held>>

Next ==
    \/ \E l \in Logins : login(l)
    \/ \E r \in Rotations : rotateRefreshToken(r)
    \/ \E p \in Others : other(p)
    \/ \E t \in Ids : Expire(t)
    \/ TokenCleanup
    \/ \E p \in Requests : Fails(p)

Spec == Init /\ [][Next]_vars

-----------------------------------------------------------------------------
(* Rotations that hold the claim to their family's next token. *)
Claims == {r \in Rotations : pc[r] \in {"user", "save"}}

Steps ==
    {"idle", "find", "claim", "user", "save", "revoke_family", "revoke_all",
     "delete", "activate", "done", "denied"}

(* The steps that use the record a request holds. *)
Holding == {"claim", "user", "save", "revoke_family"}

(* The variables stay within their types, and no request is about to use the *)
(* record of a token it has not found.                                       *)
TypeOK ==
    /\ kind \in [Others -> Kind]
    /\ user \in [exists : BOOLEAN, isActive : BOOLEAN]
    /\ stored \subseteq Ids /\ isUsed \subseteq Ids /\ isRevoked \subseteq Ids
    /\ expired \subseteq Ids
    /\ tokenFamily \in [Ids -> Logins \cup {NoToken}]
    /\ pc \in [Requests -> Steps]
    /\ held \in [Rotations \cup Others -> Ids \cup {NoToken}]
    /\ \A p \in Rotations \cup Others :
         pc[p] \in Holding => held[p] \in Issued /\ tokenFamily[held[p]] # NoToken
    /\ faults \in 0..MaxFaults

(* Whoever may give a family its next token: its usable tokens, and the      *)
(* rotations that hold a claim.                                              *)
Bearers(f) ==
    {t \in usable : tokenFamily[t] = f} \cup {r \in Claims : tokenFamily[held[r]] = f}

(* A family never forks: with any number of rotations, some of them of the   *)
(* same token, at most one of them or one token carries the session on.      *)
OneBearer == \A f \in Logins : \A x, y \in Bearers(f) : x = y

(* No token is exchanged twice, although the client may present it again and *)
(* again and rows are deleted meanwhile.                                     *)
TokenUsedOnce ==
    \A r, s \in Rotations :
        pc[r] = "done" /\ pc[s] = "done" /\ held[r] = held[s] => r = s

(* Why: the claim of a token is exclusive from the moment it is taken, only  *)
(* tokens that were saved carry flags or a family, and a family begins with  *)
(* the token of its login.                                                   *)
Passed == {r \in Rotations : pc[r] \in {"user", "save", "done"}}

SessionInv ==
    /\ OneBearer
    /\ \A r, s \in Passed : held[r] = held[s] => r = s
    /\ \A r \in Passed : held[r] \in Issued /\ held[r] \in isUsed
    /\ \A t \in Ids : pc[t] = "done" <=> tokenFamily[t] # NoToken
    /\ \A t \in Ids : tokenFamily[t] # NoToken => tokenFamily[t] \in Issued
    /\ stored \cup isUsed \cup isRevoked \subseteq Issued

(* What user.controller.ts says of a password change: it revokes every        *)
(* session on success.  A rotation that took its claim before saves its token *)
(* after.                                                                    *)
PasswordChangeEndsSessions ==
    \A p \in Others, t \in usable, s \in isRevoked :
        kind[p] = "changePassword" /\ pc[p] = "done" => tokenFamily[t] # tokenFamily[s]

-----------------------------------------------------------------------------
(* The session each family is, as SessionFamily sees it. *)
issuedTo == [f \in Logins |-> {t \in Ids : tokenFamily[t] = f}]

sessionState ==
    [f \in Logins |->
       IF issuedTo[f] = {} THEN "none"
       ELSE IF \E r \in Claims : tokenFamily[held[r]] = f THEN "renewing"
       ELSE IF \E t \in usable : tokenFamily[t] = f THEN "open"
       ELSE "closed"]

Family == INSTANCE SessionFamily WITH
            Families <- Logins, Tokens <- Ids, state <- sessionState, issued <- issuedTo

(* Every step of the requests is a step of the sessions or changes none: a   *)
(* closed session stays closed and gets no token, and only a renewal that    *)
(* was claimed before may outlast a revocation.                              *)
SessionsAreFamilies == Family!Spec
=============================================================================
