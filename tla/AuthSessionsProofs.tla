--------------------------- MODULE AuthSessionsProofs ---------------------------
(***************************************************************************)
(* The sessions, for any number of logins, rotations and other requests: a *)
(* family never forks, a token is exchanged once, and AuthSessions         *)
(* implements SessionFamily.  Only a save and a successful claim move a    *)
(* session forward; every other step narrows: it may take tokens and       *)
(* claims away and adds none.                                              *)
(***************************************************************************)
EXTENDS AuthSessions, TLAPS

IInv == TypeOK /\ SessionInv

(* What every step but a save and a successful claim does. *)
TokensNarrow ==
    /\ tokenFamily' = tokenFamily
    /\ stored' \subseteq stored
    /\ isUsed \subseteq isUsed' /\ isUsed' \subseteq isUsed \cup stored
    /\ isRevoked \subseteq isRevoked' /\ isRevoked' \subseteq isRevoked \cup stored

Narrows ==
    /\ TokensNarrow
    /\ Issued' = Issued
    /\ Passed' \subseteq Passed
    /\ Claims' \subseteq Claims
    /\ \A r \in Passed : held'[r] = held[r]

(* A request that moves on without passing a claim or saving a token narrows. *)
LEMMA MovesNarrow ==
  ASSUME TypeOK, NEW p \in Requests, NEW next,
         pc[p] # "done", p \in Ids => next \in {"save", "claim", "revoke_family", "denied"},
         next = "save" => (p \in Logins \/ pc[p] = "user"),
         Goto(p, next),
         TokensNarrow, \A r \in Passed : held'[r] = held[r]
  PROVE  Narrows
  <1>1. \A q \in Requests : pc'[q] = IF q = p THEN next ELSE pc[q]
    BY DEF Goto, TypeOK
  <1>2. Issued' = Issued
    BY <1>1 DEF Issued, Ids, Requests
  <1>3. p \in Rotations => next # "done" /\ next # "user"
    BY DEF Ids
  <1>4. p \in Rotations /\ next = "save" => pc[p] = "user"
    BY SessionsAssumption
  <1>5. Passed' \subseteq Passed /\ Claims' \subseteq Claims
    BY <1>1, <1>3, <1>4 DEF Passed, Claims, Requests, Ids
  <1> QED
    BY <1>2, <1>5 DEF Narrows

(* Narrowing keeps SessionInv: what was exclusive stays so. *)
LEMMA NarrowingKeeps ==
  ASSUME TypeOK, SessionInv, Narrows
  PROVE  SessionInv'
  <1>1. usable' \subseteq usable
    BY DEF Narrows, TokensNarrow, usable
  <1>2. \A r \in Claims' : r \in Passed /\ held'[r] = held[r]
    BY DEF Narrows, TokensNarrow, Claims, Passed
  <1>3. \A f \in Logins : Bearers(f)' \subseteq Bearers(f)
    BY <1>1, <1>2 DEF Narrows, TokensNarrow, Bearers
  <1>4. OneBearer'
    BY <1>3 DEF SessionInv, OneBearer
  <1>5. \A r, s \in Passed' : held'[r] = held'[s] => r = s
    BY DEF SessionInv, Narrows, TokensNarrow
  <1>6. \A r \in Passed' : held'[r] \in Issued' /\ held'[r] \in isUsed'
    BY DEF SessionInv, Narrows, TokensNarrow
  <1>7. \A t \in Ids : pc'[t] = "done" <=> tokenFamily'[t] # NoToken
    <2>1. \A t \in Ids : pc'[t] = "done" <=> pc[t] = "done"
      BY DEF Narrows, Issued
    <2> QED
      BY <2>1 DEF SessionInv, Narrows, TokensNarrow
  <1>8. (stored \cup isUsed \cup isRevoked)' \subseteq Issued'
    BY DEF SessionInv, Narrows, TokensNarrow
  <1>9. \A t \in Ids : tokenFamily'[t] # NoToken => tokenFamily'[t] \in Issued'
    BY DEF SessionInv, Narrows, TokensNarrow
  <1> QED
    BY <1>4, <1>5, <1>6, <1>7, <1>8, <1>9 DEF SessionInv

(* A rotation that claims is the only bearer of its family from then on.     *)
LEMMA ClaimKeeps ==
  ASSUME IInv, NEW r \in Rotations, RotateClaim(r), Claimable(held[r])
  PROVE  SessionInv'
  <1> DEFINE t == held[r]
  <1>1. /\ pc[r] = "claim" /\ t \in usable /\ t \in Issued /\ r \notin Passed
        /\ isUsed' = isUsed \cup {t}
        /\ UNCHANGED <<stored, isRevoked, tokenFamily, held>>
        /\ \A q \in Requests : pc'[q] = IF q = r THEN "user" ELSE pc[q]
    BY DEF IInv, TypeOK, Holding, RotateClaim, Claimable, AfterClaim, Goto, Passed,
       Requests, Ids
  <1>2. Issued' = Issued
    BY <1>1 DEF Issued, Ids, Requests
  <1>3. Passed' = Passed \cup {r} /\ Claims' = Claims \cup {r}
    BY <1>1 DEF Passed, Claims, Ids, Requests
  <1>4. \A s \in Passed : held[s] # t
    BY <1>1 DEF IInv, SessionInv, usable
  <1>5. usable' = usable \ {t}
    BY <1>1 DEF usable
  <1>6. ASSUME NEW f \in Logins, NEW x \in Bearers(f)', NEW y \in Bearers(f)'
        PROVE  x = y
    <2>1. Bearers(f)' \subseteq (Bearers(f) \ {t}) \cup {r}
      <3>1. t \notin Claims
        BY <1>1 DEF Issued, Claims
      <3> QED
        BY <1>1, <1>3, <1>5, <3>1 DEF Bearers
    <2>2. CASE tokenFamily[t] = f
      <3>1. t \in Bearers(f)
        BY <1>1, <2>2 DEF Bearers
      <3> QED
        BY <2>1, <3>1 DEF IInv, SessionInv, OneBearer
    <2>3. CASE tokenFamily[t] # f
      <3>1. r \notin Bearers(f)'
        <4>1. r \notin usable'
          BY <1>1, <1>5 DEF IInv, SessionInv, usable, Issued, TypeOK, RotateClaim
        <4> QED
          BY <1>1, <2>3, <4>1 DEF Bearers
      <3> QED
        BY <2>1, <3>1 DEF IInv, SessionInv, OneBearer
    <2> QED
      BY <2>2, <2>3
  <1>7. OneBearer'
    BY <1>6 DEF OneBearer
  <1>8. \A s, q \in Passed' : held'[s] = held'[q] => s = q
    BY <1>1, <1>3, <1>4 DEF IInv, SessionInv
  <1>9. \A s \in Passed' : held'[s] \in Issued' /\ held'[s] \in isUsed'
    BY <1>1, <1>2, <1>3 DEF IInv, SessionInv
  <1>10. \A q \in Ids : pc'[q] = "done" <=> tokenFamily'[q] # NoToken
    BY <1>1, <1>2 DEF IInv, SessionInv, Issued
  <1>11. (stored \cup isUsed \cup isRevoked)' \subseteq Issued'
    BY <1>1, <1>2 DEF IInv, SessionInv
  <1>12. \A q \in Ids : tokenFamily'[q] # NoToken => tokenFamily'[q] \in Issued'
    BY <1>1, <1>2 DEF IInv, SessionInv
  <1> QED
    BY <1>7, <1>8, <1>9, <1>10, <1>11, <1>12 DEF SessionInv

(* A saved token takes the place of the claim it was saved for, or is the    *)
(* first of its family.                                                      *)
Saves(p, f) ==
    /\ pc[p] = "save" /\ user.exists /\ SaveToken(p, f)
    /\ \/ p \in Claims /\ tokenFamily[held[p]] = f
       \/ p \in Logins /\ f = p

(* The save of a token keeps SessionInv. *)
LEMMA SaveKeeps ==
  ASSUME IInv, NEW p \in Ids, NEW f \in Logins, Saves(p, f)
  PROVE  SessionInv'
  <1>1. /\ p \notin Issued /\ tokenFamily[p] = NoToken
        /\ p \notin stored /\ p \notin isUsed /\ p \notin isRevoked
    BY DEF Saves, IInv, SessionInv, Issued
  <1>2. /\ stored' = stored \cup {p}
        /\ UNCHANGED <<isUsed, isRevoked, held>>
        /\ \A t \in Ids : tokenFamily'[t] = IF t = p THEN f ELSE tokenFamily[t]
        /\ \A q \in Requests : pc'[q] = IF q = p THEN "done" ELSE pc[q]
    BY DEF Saves, IInv, TypeOK, SaveToken, Goto
  <1>3. Issued' = Issued \cup {p} /\ Claims' = Claims \ {p}
    BY <1>2 DEF Issued, Claims, Ids, Requests
  <1>4. Passed' = Passed
    <2>1. \A q \in Rotations : pc'[q] \in {"user", "save", "done"}
                              <=> pc[q] \in {"user", "save", "done"}
      BY <1>2 DEF Saves, Ids, Requests
    <2> QED
      BY <2>1 DEF Passed
  <1>5. usable' = usable \cup {p}
    BY <1>1, <1>2 DEF usable
  <1>6. \A r \in Claims' : held'[r] = held[r] /\ tokenFamily'[held[r]] = tokenFamily[held[r]]
    <2>1. \A r \in Claims' : r \in Passed /\ held[r] \in Issued
      BY <1>3 DEF Claims, Passed, IInv, SessionInv
    <2> QED
      BY <1>1, <1>2, <2>1 DEF Issued
  <1>7. \A t \in usable : t \in Ids /\ t # p
    BY <1>1 DEF IInv, TypeOK, usable
  <1>8. ASSUME NEW g \in Logins, NEW x \in Bearers(g)', NEW y \in Bearers(g)'
        PROVE  x = y
    <2>1. CASE g # f
      <3>1. Bearers(g)' \subseteq Bearers(g)
        BY <1>2, <1>3, <1>5, <1>6, <1>7, <2>1 DEF Bearers
      <3> QED
        BY <3>1 DEF IInv, SessionInv, OneBearer
    <2>2. CASE g = f
      <3>1. Bearers(f)' \subseteq Bearers(f) \cup {p}
        BY <1>2, <1>3, <1>5, <1>6, <1>7 DEF Bearers
      <3>2. Bearers(f) \subseteq {p}
        <4>1. CASE p \in Claims /\ tokenFamily[held[p]] = f
          <5>1. p \in Bearers(f)
            BY <4>1 DEF Bearers
          <5> QED
            BY <5>1 DEF IInv, SessionInv, OneBearer
        <4>2. CASE p \in Logins /\ f = p
          <5>1. \A t \in Issued : t \in Ids /\ tokenFamily[t] # f
            BY <1>1, <4>2 DEF Issued, IInv, SessionInv
          <5>2. \A r \in Claims : held[r] \in Issued
            BY DEF Claims, Passed, IInv, SessionInv
          <5>3. usable \subseteq Issued
            BY DEF usable, IInv, SessionInv
          <5> QED
            BY <5>1, <5>2, <5>3 DEF Bearers
        <4> QED
          BY <4>1, <4>2 DEF Saves
      <3> QED
        BY <2>2, <3>1, <3>2
    <2> QED
      BY <2>1, <2>2
  <1>9. OneBearer'
    BY <1>8 DEF OneBearer
  <1>10. \A r, s \in Passed' : held'[r] = held'[s] => r = s
    BY <1>2, <1>4 DEF IInv, SessionInv
  <1>11. \A r \in Passed' : held'[r] \in Issued' /\ held'[r] \in isUsed'
    BY <1>2, <1>3, <1>4 DEF IInv, SessionInv
  <1>12. \A t \in Ids : pc'[t] = "done" <=> tokenFamily'[t] # NoToken
    <2>1. f # NoToken
      BY SessionsAssumption DEF Requests, Ids
    <2> QED
      BY <1>2, <2>1 DEF IInv, SessionInv, Requests
  <1>13. (stored \cup isUsed \cup isRevoked)' \subseteq Issued'
    BY <1>2, <1>3 DEF IInv, SessionInv
  <1>14. \A t \in Ids : tokenFamily'[t] # NoToken => tokenFamily'[t] \in Issued'
    <2>1. f \in Issued'
      <3>1. CASE p \in Claims /\ tokenFamily[held[p]] = f
        <4>1. held[p] \in Ids /\ tokenFamily[held[p]] # NoToken
          BY <3>1 DEF Claims, Issued, IInv, TypeOK, Holding
        <4> QED
          BY <1>3, <3>1, <4>1 DEF IInv, SessionInv
      <3>2. CASE p \in Logins /\ f = p
        BY <1>3, <3>2
      <3> QED
        BY <3>1, <3>2 DEF Saves
    <2> QED
      BY <1>2, <1>3, <2>1 DEF IInv, SessionInv
  <1> QED
    BY <1>9, <1>10, <1>11, <1>12, <1>13, <1>14 DEF SessionInv

(* A narrowing move keeps the types, when what it goes on to use is found.   *)
LEMMA MovesTyped ==
  ASSUME IInv, NEW p \in Requests, NEW next \in Steps,
         Goto(p, next), Narrows,
         UNCHANGED <<kind, expired>>, faults' \in 0..MaxFaults,
         user' \in [exists : BOOLEAN, isActive : BOOLEAN],
         held' \in [Rotations \cup Others -> Ids \cup {NoToken}],
         \A q \in Rotations \cup Others : q # p => held'[q] = held[q],
         p \in Rotations \cup Others /\ next \in Holding =>
             \/ held'[p] \in stored
             \/ held'[p] = held[p] /\ pc[p] \in Holding
  PROVE  TypeOK'
  <1>1. \A q \in Requests : pc'[q] = IF q = p THEN next ELSE pc[q]
    BY DEF Goto, IInv, TypeOK
  <1>2. pc' \in [Requests -> Steps]
    BY <1>1 DEF Goto, IInv, TypeOK
  <1>3. /\ stored' \subseteq Ids /\ isUsed' \subseteq Ids /\ isRevoked' \subseteq Ids
        /\ expired' \subseteq Ids /\ kind' \in [Others -> Kind]
        /\ tokenFamily' \in [Ids -> Logins \cup {NoToken}]
    BY DEF IInv, TypeOK, Narrows, TokensNarrow
  <1>4. \A t \in stored : t \in Issued /\ tokenFamily[t] # NoToken
    BY DEF IInv, SessionInv, Issued
  <1>5. ASSUME NEW q \in Rotations \cup Others, pc'[q] \in Holding
        PROVE  held'[q] \in Issued' /\ tokenFamily'[held'[q]] # NoToken
    <2>1. held'[q] \in Issued /\ tokenFamily[held'[q]] # NoToken
      <3>1. q \in Requests
        BY DEF Requests, Ids
      <3>2. CASE q = p
        BY <1>1, <1>4, <1>5, <3>1, <3>2 DEF IInv, TypeOK
      <3>3. CASE q # p
        BY <1>1, <1>5, <3>1, <3>3 DEF IInv, TypeOK
      <3> QED
        BY <3>2, <3>3
    <2> QED
      BY <2>1 DEF Narrows, TokensNarrow
  <1> QED
    BY <1>2, <1>3, <1>5 DEF TypeOK

(* A request that moves on in one of these ways narrows and keeps the types. *)
LEMMA Moves ==
  ASSUME IInv, NEW p \in Requests, NEW next \in Steps,
         Goto(p, next), TokensNarrow, UNCHANGED <<kind, expired>>,
         faults' \in 0..MaxFaults, user' \in [exists : BOOLEAN, isActive : BOOLEAN],
         pc[p] # "done",
         p \in Ids => next \in {"save", "claim", "revoke_family", "denied"},
         next = "save" => (p \in Logins \/ pc[p] = "user"),
         \/ held' = held
         \/ /\ p \in Rotations \cup Others /\ pc[p] \in {"idle", "find"}
            /\ \E t \in Ids \cup {NoToken} : held' = [held EXCEPT ![p] = t],
         p \in Rotations \cup Others /\ next \in Holding =>
             \/ held'[p] \in stored
             \/ held'[p] = held[p] /\ pc[p] \in Holding
  PROVE  TypeOK' /\ Narrows
  <1>1. held' \in [Rotations \cup Others -> Ids \cup {NoToken}]
    BY DEF IInv, TypeOK
  <1>2. \A q \in Rotations \cup Others : q # p => held'[q] = held[q]
    BY DEF IInv, TypeOK
  <1>3. \A r \in Passed : held'[r] = held[r]
    BY <1>2 DEF Passed
  <1>4. Narrows
    BY <1>3, MovesNarrow DEF IInv
  <1> QED
    BY <1>1, <1>2, <1>4, MovesTyped

(* The save of a token keeps the types. *)
LEMMA SaveTyped ==
  ASSUME IInv, NEW p \in Ids, NEW f \in Logins, Saves(p, f)
  PROVE  TypeOK'
  <1>1. p \in Requests
    BY DEF Requests
  <1>2. pc' \in [Requests -> Steps] /\ stored' \subseteq Ids
        /\ tokenFamily' \in [Ids -> Logins \cup {NoToken}]
    BY <1>1 DEF Saves, SaveToken, Goto, Steps, IInv, TypeOK
  <1>3. UNCHANGED <<kind, user, isUsed, isRevoked, expired, held, faults>>
    BY DEF Saves, SaveToken
  <1>4. /\ \A t \in Ids : tokenFamily'[t] = IF t = p THEN f ELSE tokenFamily[t]
        /\ \A q \in Requests : pc'[q] = IF q = p THEN "done" ELSE pc[q]
    BY DEF Saves, SaveToken, Goto, IInv, TypeOK
  <1>5. ASSUME NEW q \in Rotations \cup Others, pc'[q] \in Holding
        PROVE  held'[q] \in Issued' /\ tokenFamily'[held'[q]] # NoToken
    <2>1. held[q] \in Issued /\ tokenFamily[held[q]] # NoToken
      BY <1>4, <1>5 DEF IInv, TypeOK, Requests, Ids, Holding
    <2>2. f # NoToken
      BY SessionsAssumption DEF Requests, Ids
    <2> QED
      BY <1>3, <1>4, <2>1, <2>2 DEF Issued, Requests
  <1> QED
    BY <1>2, <1>3, <1>5 DEF IInv, TypeOK

(* A step that only goes on to the next await. *)
LEMMA GoesOnOnly ==
  ASSUME IInv, NEW p \in Requests, NEW next \in Steps,
         Goto(p, next), UNCHANGED <<kind, user, tokens, expired, held, faults>>,
         pc[p] # "done",
         p \in Ids => next \in {"save", "claim", "revoke_family", "denied"},
         next = "save" => (p \in Logins \/ pc[p] = "user"),
         p \in Rotations \cup Others /\ next \in Holding => pc[p] \in Holding
  PROVE  TypeOK' /\ Narrows
  <1>1. TokensNarrow
    BY DEF TokensNarrow, tokens
  <1>2. faults' \in 0..MaxFaults /\ user' \in [exists : BOOLEAN, isActive : BOOLEAN]
    BY DEF IInv, TypeOK
  <1> QED
    BY <1>1, <1>2, Moves

(* A revocation, of a family or of all, narrows. *)
LEMMA RevokesNarrow ==
  ASSUME IInv, NEW p \in Requests, NEW rows, rows \subseteq stored, NEW next \in Steps,
         Revoke(rows), Goto(p, next),
         UNCHANGED <<kind, user, stored, tokenFamily, expired, held, faults>>,
         pc[p] # "done", next \notin Holding, p \in Ids => next = "denied"
  PROVE  TypeOK' /\ Narrows
  <1>1. TokensNarrow
    BY DEF TokensNarrow, Revoke
  <1>2. faults' \in 0..MaxFaults /\ user' \in [exists : BOOLEAN, isActive : BOOLEAN]
    BY DEF IInv, TypeOK
  <1>3. next \notin Holding /\ next # "save"
    BY DEF Holding
  <1> QED
    BY <1>1, <1>2, <1>3, Moves

(* A login narrows until it saves its token. *)
LEMMA LoginSteps ==
  ASSUME IInv, NEW l \in Logins, login(l)
  PROVE  TypeOK' /\ (Narrows \/ Saves(l, l))
  <1>1. l \in Requests /\ l \in Ids /\ l \notin Rotations \cup Others
    BY SessionsAssumption DEF Requests, Ids
  <1>2. CASE LoginFind(l)
    <2>1. PICK next \in {"save", "denied"} : Goto(l, next)
      BY <1>2 DEF LoginFind
    <2> QED
      BY <1>1, <1>2, <2>1, GoesOnOnly DEF LoginFind, Steps
  <1>3. CASE LoginSave(l) /\ ~user.exists
    BY <1>1, <1>3, GoesOnOnly DEF LoginSave, SaveToken, Steps, tokens
  <1>4. CASE LoginSave(l) /\ user.exists
    <2>1. Saves(l, l)
      BY <1>4 DEF LoginSave, Saves
    <2>2. TypeOK'
      BY <1>1, <2>1, SaveTyped
    <2> QED
      BY <2>1, <2>2
  <1> QED
    BY <1>2, <1>3, <1>4 DEF login

(* Revoking a family revokes rows of the table. *)
LEMMA FamilyNarrows ==
  ASSUME IInv, NEW p \in Rotations \cup Others, NEW answer \in {"done", "denied"},
         RevokeFamily(p, answer), p \in Rotations => answer = "denied"
  PROVE  TypeOK' /\ Narrows
  <1> DEFINE rows == family(tokenFamily[held[p]])
  <1>1. rows \subseteq stored
    BY DEF family
  <1>2. p \in Requests /\ (p \in Ids => answer = "denied")
    BY SessionsAssumption DEF Requests, Ids
  <1>3. answer \in Steps /\ answer \notin Holding
    BY DEF Steps, Holding
  <1>4. /\ Revoke(rows) /\ Goto(p, answer) /\ pc[p] = "revoke_family"
        /\ UNCHANGED <<kind, user, stored, tokenFamily, expired, held, faults>>
    BY DEF RevokeFamily
  <1> QED
    BY <1>1, <1>2, <1>3, <1>4, RevokesNarrow

(* A rotation narrows, claims, or saves. *)
LEMMA RotationSteps ==
  ASSUME IInv, NEW r \in Rotations, rotateRefreshToken(r)
  PROVE  \/ TypeOK' /\ Narrows
         \/ TypeOK' /\ RotateClaim(r) /\ Claimable(held[r])
         \/ TypeOK' /\ \E f \in Logins : Saves(r, f)
  <1>1. r \in Requests /\ r \in Ids /\ r \in Rotations \cup Others
    BY DEF Requests, Ids
  <1>2. CASE RotateFind(r)
    <2>1. CASE Goto(r, "denied") /\ held' = held
      BY <1>1, <1>2, <2>1, GoesOnOnly DEF RotateFind, Steps, Holding
    <2>2. ASSUME NEW t \in stored, Goto(r, "claim"), held' = [held EXCEPT ![r] = t]
          PROVE  TypeOK' /\ Narrows
      <3>1. TokensNarrow /\ faults' \in 0..MaxFaults
            /\ user' \in [exists : BOOLEAN, isActive : BOOLEAN] /\ t \in Ids
        BY <1>2 DEF RotateFind, TokensNarrow, tokens, IInv, TypeOK
      <3>2. held'[r] \in stored
        BY <2>2 DEF IInv, TypeOK
      <3> QED
        BY <1>1, <1>2, <2>2, <3>1, <3>2, Moves DEF RotateFind, Steps
    <2> QED
      BY <1>2, <2>1, <2>2 DEF RotateFind
  <1>3. CASE RotateClaim(r) /\ Claimable(held[r])
    <2>1. /\ UNCHANGED <<kind, user, stored, isRevoked, tokenFamily, expired, held, faults>>
          /\ pc' = [pc EXCEPT ![r] = "user"] /\ pc[r] = "claim"
          /\ isUsed' = isUsed \cup {held[r]} /\ held[r] \in Ids
      BY <1>3 DEF RotateClaim, Goto, AfterClaim, Claimable, usable, IInv, TypeOK
    <2>2. Issued' = Issued
      BY <2>1 DEF Issued, IInv, TypeOK, Requests, Ids
    <2> QED
      BY <1>1, <1>3, <2>1, <2>2 DEF IInv, TypeOK, Steps, Holding
  <1>4. CASE RotateClaim(r) /\ ~Claimable(held[r])
    <2>1. Goto(r, "revoke_family") /\ isUsed' = isUsed /\ pc[r] = "claim"
      BY <1>4 DEF RotateClaim, AfterClaim
    <2> QED
      BY <1>1, <1>4, <2>1, GoesOnOnly DEF RotateClaim, Steps, Holding, tokens
  <1>5. CASE RotateUser(r)
    <2>1. PICK next \in {"save", "revoke_family"} : Goto(r, next)
      BY <1>5 DEF RotateUser
    <2> QED
      BY <1>1, <1>5, <2>1, GoesOnOnly DEF RotateUser, Steps, Holding
  <1>6. CASE RotateSave(r) /\ ~user.exists
    BY <1>1, <1>6, GoesOnOnly DEF RotateSave, SaveToken, Steps, Holding, tokens
  <1>7. CASE RotateSave(r) /\ user.exists
    <2>1. tokenFamily[held[r]] \in Logins
      BY <1>1, <1>7 DEF RotateSave, IInv, TypeOK, Holding, Issued
    <2>2. Saves(r, tokenFamily[held[r]])
      BY <1>7 DEF RotateSave, Saves, Claims
    <2>3. TypeOK'
      BY <1>1, <2>1, <2>2, SaveTyped
    <2> QED
      BY <2>1, <2>2, <2>3
  <1>8. CASE RevokeFamily(r, "denied")
    BY <1>1, <1>8, FamilyNarrows
  <1> QED
    BY <1>2, <1>3, <1>4, <1>5, <1>6, <1>7, <1>8 DEF rotateRefreshToken

(* A request that authenticates, or revokes everything, narrows. *)
LEMMA CommonNarrow ==
  ASSUME IInv, NEW p \in Others, NEW next \in {"find", "revoke_all", "delete", "done"},
         Authenticate(p, next) \/ (RevokeAll(p, next) /\ next \in {"delete", "done"})
  PROVE  TypeOK' /\ Narrows
  <1>1. p \in Requests /\ p \notin Ids /\ next \in Steps /\ next \notin Holding
    BY SessionsAssumption DEF Requests, Ids, Steps, Holding
  <1>2. CASE Authenticate(p, next)
    <2>1. PICK to \in {next, "denied"} : Goto(p, to)
      BY <1>2 DEF Authenticate
    <2> QED
      BY <1>1, <1>2, <2>1, GoesOnOnly DEF Authenticate, Steps, Holding
  <1>3. CASE RevokeAll(p, next) /\ next \in {"delete", "done"}
    <2>1. /\ Revoke(stored) /\ Goto(p, next) /\ pc[p] = "revoke_all"
          /\ UNCHANGED <<kind, user, stored, tokenFamily, expired, held, faults>>
      BY <1>3 DEF RevokeAll
    <2> QED
      BY <1>1, <1>3, <2>1, RevokesNarrow
  <1> QED
    BY <1>2, <1>3

(* A step of another request that only chooses where to go on. *)
LEMMA ChoiceNarrows ==
  ASSUME IInv, NEW p \in Others, pc[p] # "done",
         NEW next \in {"done", "denied", "find", "revoke_all", "activate"}, Goto(p, next),
         UNCHANGED <<kind, user, tokens, expired, held, faults>>
  PROVE  TypeOK' /\ Narrows
  <1>1. p \in Requests /\ p \notin Ids /\ next \in Steps /\ next \notin Holding
        /\ next # "save"
    BY SessionsAssumption DEF Requests, Ids, Steps, Holding
  <1> QED
    BY <1>1, GoesOnOnly

(* A logout narrows. *)
LEMMA LogoutSteps ==
  ASSUME IInv, NEW p \in Others, logout(p)
  PROVE  TypeOK' /\ Narrows
  <1>1. p \in Requests /\ p \notin Ids /\ p \notin Rotations /\ p \in Rotations \cup Others
    BY SessionsAssumption DEF Requests, Ids
  <1>2. CASE LogoutFind(p)
    <2>1. PICK t \in Issued \cup {NoToken} :
            /\ held' = [held EXCEPT ![p] = IF t \in stored THEN t ELSE NoToken]
            /\ Goto(p, AfterLookup(t \in stored))
      BY <1>2 DEF LogoutFind
    <2> DEFINE found == IF t \in stored THEN t ELSE NoToken
               next  == AfterLookup(t \in stored)
    <2>2. /\ pc[p] = "find" /\ TokensNarrow /\ UNCHANGED <<kind, expired>>
          /\ faults' \in 0..MaxFaults /\ user' \in [exists : BOOLEAN, isActive : BOOLEAN]
      BY <1>2 DEF LogoutFind, TokensNarrow, tokens, IInv, TypeOK
    <2>3. found \in Ids \cup {NoToken} /\ held' = [held EXCEPT ![p] = found]
      BY <2>1 DEF IInv, TypeOK
    <2>4. held'[p] = found
      BY <1>1, <2>3 DEF IInv, TypeOK
    <2>5. next \in Steps /\ next # "save" /\ (next \in Holding => held'[p] \in stored)
      BY <2>4 DEF AfterLookup, Steps, Holding
    <2>6. Goto(p, next)
      BY <2>1
    <2> HIDE DEF found, next
    <2> QED
      BY <1>1, <2>2, <2>3, <2>5, <2>6, Moves
  <1> QED
    BY <1>1, <1>2, CommonNarrow, FamilyNarrows DEF logout

(* A deletion narrows: the rows go with the user. *)
LEMMA DeleteSteps ==
  ASSUME IInv, NEW p \in Others, deleteAccount(p)
  PROVE  TypeOK' /\ Narrows
  <1>1. p \in Requests /\ p \notin Ids /\ {"done", "denied"} \subseteq Steps
        /\ {"done", "denied"} \cap Holding = {}
    BY SessionsAssumption DEF Requests, Ids, Steps, Holding
  <1>2. CASE DeleteStart(p)
    BY <1>2, ChoiceNarrows DEF DeleteStart
  <1>3. CASE DeleteUser(p)
    <2>1. PICK next \in {"done", "denied"} : Goto(p, next)
      BY <1>3 DEF DeleteUser
    <2>2. /\ TokensNarrow /\ UNCHANGED <<kind, expired, held>> /\ pc[p] = "delete"
          /\ faults' \in 0..MaxFaults /\ user' \in [exists : BOOLEAN, isActive : BOOLEAN]
      BY <1>3 DEF DeleteUser, TokensNarrow, IInv, TypeOK
    <2> QED
      BY <1>1, <2>1, <2>2, Moves
  <1> QED
    BY <1>2, <1>3, CommonNarrow DEF deleteAccount

(* The requests that change whether the account is active narrow. *)
LEMMA ActivitySteps ==
  ASSUME IInv, NEW p \in Others, adminUpdateUser(p) \/ activateAccount(p)
  PROVE  TypeOK' /\ Narrows
  <1>1. p \in Requests /\ p \notin Ids /\ {"done", "find"} \subseteq Steps
        /\ {"done", "find"} \cap Holding = {}
    BY SessionsAssumption DEF Requests, Ids, Steps, Holding
  <1>2. CASE AdminUpdate(p) \/ ActivateUpdate(p)
    <2>1. PICK next \in {"done", "find"} : Goto(p, next)
      BY <1>2 DEF AdminUpdate, ActivateUpdate
    <2>2. /\ TokensNarrow /\ UNCHANGED <<kind, expired, held>> /\ pc[p] # "done"
          /\ faults' \in 0..MaxFaults /\ user' \in [exists : BOOLEAN, isActive : BOOLEAN]
      BY <1>2 DEF AdminUpdate, ActivateUpdate, TokensNarrow, tokens, IInv, TypeOK
    <2> QED
      BY <1>1, <2>1, <2>2, Moves
  <1>3. CASE AdminFind(p) \/ ActivateFind(p)
    <2>1. PICK next \in {"done", "denied", "revoke_all", "activate"} : Goto(p, next)
      BY <1>3 DEF AdminFind, ActivateFind
    <2> QED
      BY <1>3, <2>1, ChoiceNarrows DEF AdminFind, ActivateFind
  <1> QED
    BY <1>2, <1>3, CommonNarrow DEF adminUpdateUser, activateAccount

(* Every other request narrows. *)
LEMMA OtherSteps ==
  ASSUME IInv, NEW p \in Others, other(p)
  PROVE  TypeOK' /\ Narrows
  <1>1. CASE logoutEverywhere(p)
    BY <1>1, CommonNarrow DEF logoutEverywhere
  <1>2. CASE changePassword(p)
    <2>1. CASE PasswordFind(p)
      <3>1. PICK next \in {"revoke_all", "denied"} : Goto(p, next)
        BY <2>1 DEF PasswordFind
      <3> QED
        BY <2>1, <3>1, ChoiceNarrows DEF PasswordFind
    <2> QED
      BY <1>2, <2>1, CommonNarrow DEF changePassword
  <1> QED
    BY <1>1, <1>2, LogoutSteps, DeleteSteps, ActivitySteps DEF other

(* Time, the clean-up and a rejected await narrow. *)
LEMMA EnvironmentSteps ==
  ASSUME IInv, (\E t \in Ids : Expire(t)) \/ TokenCleanup \/ (\E p \in Requests : Fails(p))
  PROVE  TypeOK' /\ Narrows
  <1>1. CASE (\E t \in Ids : Expire(t)) \/ TokenCleanup
    <2>1. /\ UNCHANGED <<kind, user, isUsed, isRevoked, tokenFamily, pc, held, faults>>
          /\ stored' \subseteq stored /\ expired' \subseteq Ids
      BY <1>1 DEF Expire, TokenCleanup, tokens, IInv, TypeOK
    <2>2. Issued' = Issued /\ Passed' = Passed /\ Claims' = Claims
      BY <2>1 DEF Issued, Passed, Claims
    <2>3. Narrows
      BY <2>1, <2>2 DEF Narrows, TokensNarrow
    <2> QED
      BY <2>1, <2>2, <2>3 DEF IInv, TypeOK
  <1>2. ASSUME NEW p \in Requests, Fails(p)
        PROVE  TypeOK' /\ Narrows
    <2>1. PICK next \in {"done", "denied"} :
            Goto(p, next) /\ (p \in Ids => next = "denied")
      BY <1>2, SessionsAssumption DEF Fails
    <2>2. /\ TokensNarrow /\ UNCHANGED <<kind, expired, held>> /\ pc[p] # "done"
          /\ user' \in [exists : BOOLEAN, isActive : BOOLEAN]
      BY <1>2 DEF Fails, TokensNarrow, tokens, IInv, TypeOK
    <2>3. faults' \in 0..MaxFaults
      BY <1>2, SessionsAssumption DEF Fails, IInv, TypeOK
    <2>4. next \in Steps /\ next \notin Holding /\ next # "save"
      BY DEF Steps, Holding
    <2> QED
      BY <1>2, <2>1, <2>2, <2>3, <2>4, Moves
  <1> QED
    BY <1>1, <1>2

-----------------------------------------------------------------------------
(* The invariant. *)

(* Every step narrows, or a rotation claims, or a token is saved. *)
Advances ==
    \/ Narrows
    \/ \E r \in Rotations : RotateClaim(r) /\ Claimable(held[r])
    \/ \E p \in Ids, f \in Logins : Saves(p, f)

(* Every step of the system is one of the three and keeps the types. *)
LEMMA Steppings ==
  ASSUME IInv, Next
  PROVE  TypeOK' /\ Advances
  <1>1. ASSUME NEW l \in Logins, login(l)  PROVE TypeOK' /\ Advances
    BY <1>1, LoginSteps DEF Advances, Ids
  <1>2. ASSUME NEW r \in Rotations, rotateRefreshToken(r)  PROVE TypeOK' /\ Advances
    BY <1>2, RotationSteps DEF Advances, Ids
  <1>3. ASSUME NEW p \in Others, other(p)  PROVE TypeOK' /\ Advances
    BY <1>3, OtherSteps DEF Advances
  <1>4. CASE (\E t \in Ids : Expire(t)) \/ TokenCleanup \/ (\E p \in Requests : Fails(p))
    BY <1>4, EnvironmentSteps DEF Advances
  <1> QED
    BY <1>1, <1>2, <1>3, <1>4 DEF Next

(* Initially there is no token, so nothing to share. *)
LEMMA InitIInv == Init => IInv
  <1> SUFFICES ASSUME Init PROVE IInv
    OBVIOUS
  <1>1. \A p \in Requests : pc[p] = "idle"
    BY DEF Init
  <1>2. Passed = {} /\ Claims = {} /\ usable = {} /\ Issued = {}
    BY <1>1 DEF Init, Passed, Claims, usable, Issued, Requests, Ids
  <1>3. SessionInv
    BY <1>1, <1>2 DEF Init, SessionInv, OneBearer, Bearers, Requests, Ids
  <1>4. TypeOK
    <2>1. \A p \in Rotations \cup Others : pc[p] \notin Holding
      BY <1>1 DEF Holding, Requests, Ids
    <2>2. user \in [exists : BOOLEAN, isActive : BOOLEAN]
      BY DEF Init
    <2>3. faults \in 0..MaxFaults
      BY SessionsAssumption DEF Init
    <2>4. pc \in [Requests -> Steps]
      BY DEF Init, Steps
    <2> QED
      BY <2>1, <2>2, <2>3, <2>4 DEF Init, TypeOK
  <1> QED
    BY <1>3, <1>4 DEF IInv

(* Nothing changes when no variable does. *)
LEMMA StutterIInv == IInv /\ UNCHANGED vars => IInv'
  BY DEF IInv, TypeOK, SessionInv, OneBearer, Bearers, Passed, Claims, Issued, usable,
     vars, tokens

(* The types and the exclusive claims hold always: auth.service.ts and        *)
(* user.service.ts never use a record they have not found, and a family never *)
(* has two bearers.                                                           *)
THEOREM SessionsCorrect == Spec => [](TypeOK /\ SessionInv)
  <1>1. IInv /\ [Next]_vars => IInv'
    <2> SUFFICES ASSUME IInv, Next PROVE IInv'
      BY StutterIInv
    <2>1. TypeOK' /\ Advances
      BY Steppings
    <2>2. CASE Narrows
      BY <2>1, <2>2, NarrowingKeeps DEF IInv
    <2>3. ASSUME NEW r \in Rotations, RotateClaim(r), Claimable(held[r])  PROVE IInv'
      BY <2>1, <2>3, ClaimKeeps DEF IInv
    <2>4. ASSUME NEW p \in Ids, NEW f \in Logins, Saves(p, f)  PROVE IInv'
      BY <2>1, <2>4, SaveKeeps DEF IInv
    <2> QED
      BY <2>1, <2>2, <2>3, <2>4 DEF Advances
  <1> QED
    BY <1>1, InitIInv, PTL DEF Spec, IInv

(* No request keeps a record, a claim or a token that was never there.        *)
THEOREM SessionTypes == Spec => []TypeOK
  <1> QED
    BY SessionsCorrect, PTL

(* No token is ever exchanged for two, whatever is presented twice, revoked,  *)
(* deleted or cleaned up meanwhile.                                           *)
THEOREM ExchangedOnce == Spec => []TokenUsedOnce
  <1>1. SessionInv => TokenUsedOnce
    BY DEF SessionInv, TokenUsedOnce, Passed
  <1> QED
    BY <1>1, SessionsCorrect, PTL

-----------------------------------------------------------------------------
(* The refinement. *)

(* What narrows closes sessions or leaves them as they are. *)
LEMMA NarrowingCloses ==
  ASSUME IInv, Narrows
  PROVE  \E F \in SUBSET Logins : Family!Close(F)
  <1>1. issuedTo' = issuedTo
    BY DEF Narrows, TokensNarrow, issuedTo
  <1>2. usable' \subseteq usable /\ tokenFamily' = tokenFamily
    BY DEF Narrows, TokensNarrow, usable
  <1>3. \A r \in Claims' : r \in Claims /\ held'[r] = held[r]
    BY DEF Narrows, Claims, Passed
  <1>4. ASSUME NEW f \in Logins, sessionState'[f] # sessionState[f]
        PROVE  sessionState[f] \in {"open", "renewing"} /\ sessionState'[f] = "closed"
    <2>1. ASSUME NEW r \in Claims, tokenFamily[held[r]] = f,
                 NEW t \in usable, tokenFamily[t] = f
          PROVE  FALSE
      <3>1. r = t
        BY <2>1 DEF IInv, SessionInv, OneBearer, Bearers
      <3> QED
        BY <3>1 DEF IInv, SessionInv, usable, Issued, Claims
    <2> QED
      BY <1>1, <1>2, <1>3, <1>4, <2>1 DEF sessionState
  <1> DEFINE F == {f \in Logins : sessionState'[f] # sessionState[f]}
  <1>5. sessionState' = [f \in Logins |-> IF f \in F THEN "closed" ELSE sessionState[f]]
    BY <1>4 DEF sessionState
  <1>6. F \in SUBSET Logins /\ \A f \in F : sessionState[f] \in {"open", "renewing"}
    BY <1>4
  <1> HIDE DEF F
  <1> QED
    BY <1>1, <1>5, <1>6 DEF Family!Close

(* A successful claim makes an open session renewing. *)
LEMMA ClaimClaims ==
  ASSUME IInv, NEW r \in Rotations, RotateClaim(r), Claimable(held[r])
  PROVE  \E f \in Logins : Family!Claim(f)
  <1> DEFINE t == held[r]
             f == tokenFamily[t]
  <1>1. /\ pc[r] = "claim" /\ t \in usable /\ t \in Ids /\ f \in Logins
        /\ isUsed' = isUsed \cup {t}
        /\ UNCHANGED <<stored, isRevoked, tokenFamily, held>>
        /\ \A q \in Requests : pc'[q] = IF q = r THEN "user" ELSE pc[q]
    BY DEF IInv, TypeOK, Holding, RotateClaim, Claimable, AfterClaim, Goto, Issued
  <1>2. Claims' = Claims \cup {r} /\ usable' = usable \ {t} /\ t \notin Claims
    <2>1. t \notin Claims
      BY <1>1 DEF IInv, SessionInv, usable, Issued, Claims
    <2> QED
      BY <1>1, <2>1 DEF Claims, usable, Requests, Ids
  <1>3. issuedTo' = issuedTo /\ t \in issuedTo[f]
    BY <1>1 DEF issuedTo
  <1>4. \A s \in Claims : tokenFamily[held[s]] # f
    <2> SUFFICES ASSUME NEW s \in Claims, tokenFamily[held[s]] = f PROVE FALSE
      OBVIOUS
    <2>1. s \in Bearers(f) /\ t \in Bearers(f)
      BY <1>1 DEF Bearers
    <2> QED
      BY <1>1, <1>2, <2>1 DEF IInv, SessionInv, OneBearer
  <1>5. sessionState[f] = "open"
    BY <1>1, <1>3, <1>4 DEF sessionState
  <1>6. \A g \in Logins :
          sessionState'[g] = IF g = f THEN "renewing" ELSE sessionState[g]
    <2>1. sessionState'[f] = "renewing"
      BY <1>1, <1>2, <1>3 DEF sessionState
    <2>2. ASSUME NEW g \in Logins, g # f PROVE sessionState'[g] = sessionState[g]
      BY <1>1, <1>2, <1>3, <2>2 DEF sessionState
    <2> QED
      BY <2>1, <2>2
  <1>7. sessionState' = [sessionState EXCEPT ![f] = "renewing"]
    BY <1>6 DEF sessionState
  <1> HIDE DEF t, f
  <1> QED
    BY <1>1, <1>3, <1>5, <1>7 DEF Family!Claim

(* A saved token opens a session, or renews the one that was claimed. *)
LEMMA SaveIssues ==
  ASSUME IInv, NEW p \in Ids, NEW f \in Logins, Saves(p, f)
  PROVE  Family!Open(f) \/ Family!Renew(f)
  <1>1. /\ pc[p] = "save" /\ p \notin Issued /\ tokenFamily[p] = NoToken
        /\ p \notin stored /\ p \notin isUsed /\ p \notin isRevoked /\ f # NoToken
    BY SessionsAssumption DEF Saves, IInv, SessionInv, Issued, Requests, Ids
  <1>2. /\ stored' = stored \cup {p}
        /\ UNCHANGED <<isUsed, isRevoked, held>>
        /\ \A t \in Ids : tokenFamily'[t] = IF t = p THEN f ELSE tokenFamily[t]
        /\ \A q \in Requests : pc'[q] = IF q = p THEN "done" ELSE pc[q]
    BY DEF Saves, IInv, TypeOK, SaveToken, Goto
  <1>3. Claims' = Claims \ {p} /\ usable' = usable \cup {p}
    BY <1>1, <1>2 DEF Claims, usable, Ids, Requests
  <1>4. \A r \in Claims : held[r] \in Ids /\ held[r] # p
    BY <1>1 DEF IInv, SessionInv, Issued, Claims, Passed
  <1>5. \A t \in usable : t \in Ids /\ t # p
    BY <1>1 DEF IInv, TypeOK, usable
  <1>6. \A g \in Logins : issuedTo'[g] = IF g = f THEN issuedTo[g] \cup {p} ELSE issuedTo[g]
    <2> SUFFICES ASSUME NEW g \in Logins
                 PROVE  issuedTo'[g] = IF g = f THEN issuedTo[g] \cup {p} ELSE issuedTo[g]
      OBVIOUS
    <2>1. /\ issuedTo[g] = {t \in Ids : tokenFamily[t] = g}
          /\ issuedTo'[g] = {t \in Ids : tokenFamily'[t] = g}
      BY DEF issuedTo
    <2>2. NoToken # g
      BY SessionsAssumption DEF Requests, Ids
    <2>3. CASE g = f
      BY <1>2, <2>1, <2>3
    <2>4. CASE g # f
      BY <1>1, <1>2, <2>1, <2>2, <2>4
    <2> QED
      BY <2>3, <2>4
  <1>7. issuedTo' = [issuedTo EXCEPT ![f] = @ \cup {p}]
    BY <1>6 DEF issuedTo
  <1>8. \A g \in Logins : p \notin issuedTo[g]
    BY <1>1, SessionsAssumption DEF issuedTo, Requests, Ids
  <1>9. Family!Issue(f)
    BY <1>7, <1>8 DEF Family!Issue
  <1>10. ASSUME NEW r \in Claims, tokenFamily[held[r]] = f PROVE r = p
    <2>1. CASE p \in Claims /\ tokenFamily[held[p]] = f
      BY <1>10, <2>1 DEF Bearers, IInv, SessionInv, OneBearer
    <2>2. CASE p \in Logins /\ f = p
      BY <1>1, <1>10, <2>2, <1>4 DEF IInv, SessionInv
    <2> QED
      BY <2>1, <2>2 DEF Saves
  <1>11. sessionState' = [sessionState EXCEPT ![f] = "open"]
    <2>1. sessionState'[f] = "open"
      BY <1>2, <1>3, <1>4, <1>5, <1>6, <1>10 DEF sessionState
    <2>2. ASSUME NEW g \in Logins, g # f PROVE sessionState'[g] = sessionState[g]
      <3>1. p \in Claims => tokenFamily[held[p]] = f
        BY SessionsAssumption DEF Saves, Claims
      <3>2. \A r \in Claims : tokenFamily'[held'[r]] = tokenFamily[held[r]]
        BY <1>2, <1>4
      <3>3. (\E r \in Claims' : tokenFamily'[held'[r]] = g)
              <=> (\E r \in Claims : tokenFamily[held[r]] = g)
        BY <1>3, <2>2, <3>1, <3>2
      <3>4. (\E t \in usable' : tokenFamily'[t] = g) <=> (\E t \in usable : tokenFamily[t] = g)
        BY <1>2, <1>3, <1>5, <2>2
      <3> QED
        BY <1>6, <2>2, <3>3, <3>4 DEF sessionState
    <2>3. \A g \in Logins :
            sessionState'[g] = IF g = f THEN "open" ELSE sessionState[g]
      BY <2>1, <2>2
    <2>4. /\ sessionState = [g \in Logins |-> sessionState[g]]
          /\ sessionState' = [g \in Logins |-> sessionState'[g]]
      BY DEF sessionState
    <2> QED
      BY <2>3, <2>4
  <1>12. sessionState[f] \in {"none", "renewing"}
    <2>1. CASE p \in Claims /\ tokenFamily[held[p]] = f
      BY <1>4, <2>1 DEF sessionState, issuedTo
    <2>2. CASE p \in Logins /\ f = p
      <3>1. issuedTo[f] = {}
        BY <1>1, <2>2 DEF issuedTo, IInv, SessionInv
      <3> QED
        BY <3>1 DEF sessionState
    <2> QED
      BY <2>1, <2>2 DEF Saves
  <1> QED
    BY <1>9, <1>11, <1>12 DEF Family!Open, Family!Renew

(* AuthSessions implements SessionFamily: whatever requests run and fail at   *)
(* whatever moment, a closed session stays closed and gets no token.          *)
THEOREM SessionsImplementFamilies == Spec => SessionsAreFamilies
  <1>1. Init => Family!Init
    <2> SUFFICES ASSUME Init PROVE Family!Init
      OBVIOUS
    <2>1. \A f \in Logins : issuedTo[f] = {}
      BY SessionsAssumption DEF Init, issuedTo, Requests, Ids
    <2> QED
      BY <2>1 DEF Family!Init, sessionState, issuedTo
  <1>2. IInv /\ [Next]_vars => [Family!Next]_<<sessionState, issuedTo>>
    <2> SUFFICES ASSUME IInv, [Next]_vars
                 PROVE  Family!Next \/ UNCHANGED <<sessionState, issuedTo>>
      OBVIOUS
    <2>1. CASE UNCHANGED vars
      BY <2>1 DEF vars, tokens, sessionState, issuedTo, Claims, usable
    <2>2. CASE Next
      <3>1. Advances
        BY <2>2, Steppings
      <3> QED
        BY <3>1, NarrowingCloses, ClaimClaims, SaveIssues DEF Advances, Family!Next
    <2> QED
      BY <2>1, <2>2
  <1>3. Spec => []IInv
    BY SessionsCorrect DEF IInv
  <1> QED
    BY <1>1, <1>2, <1>3, PTL DEF Spec, SessionsAreFamilies, Family!Spec
=============================================================================
