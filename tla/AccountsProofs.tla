----------------------------- MODULE AccountsProofs -----------------------------
(***************************************************************************)
(* The invariants of Accounts, for any number of requests of every kind,   *)
(* any forms and any number of attempts and failures.                      *)
(***************************************************************************)
EXTENDS Accounts, TLAPS

(* Before and without its row, a registration has no account; a request that *)
(* works for a user holds one that was saved, and what it came with.         *)
RequestInv ==
    /\ \A r \in Registrations :
         /\ pc[r] \in {"idle", "save", "conflict", "error"} => account[r] = None
         /\ pc[r] \notin {"find", "update", "read"}
    /\ \A r \in Registrations : pc[r] = "save" => wanted[r] \in Forms
    /\ \A p \in Requests :
         pc[p] \in {"mail", "find", "update", "read"} =>
           held[p] \in Registrations /\ account[held[p]] # None
    /\ \A p \in Others :
         pc[p] \in {"find", "update"} /\ kind[p] = "updateProfile" => wanted[p] \in Forms
    /\ \A p \in Others :
         pc[p] = "update" /\ kind[p] = "activateAccount" => held[p] \in mailed

(* Rows that were deleted included. *)
TokenInv ==
    \A u \in Registrations :
      account[u] # None /\ account[u].isActive => u \in mailed \/ ActivatedByAdmin(u)

(* Users whose e-mail has arrived, will be sent or has failed for good. *)
Covered ==
    {u \in Registrations :
       \/ u \in mailed
       \/ \E q \in Requests : held[q] = u /\ mail[q].state \in {"waiting", "failed"}}

(* A job is there only once its request has been answered, which keeps the   *)
(* user it is for; every key stands on a job.                                *)
JobInv ==
    /\ \A p \in Requests :
         mail[p].state # "none" =>
           pc[p] = "done" /\ held[p] \in Registrations /\ account[held[p]] # None
    /\ \A p \in Requests :
       mail[p].state \in {"none", "waiting"} => mail[p].attempts < MaxAttempts

CoverInv ==
    /\ keys \subseteq Covered
    /\ \A p \in Requests : Asked(p) /\ held[p] # None => held[p] \in Covered

IInv == TypeOK /\ UsersAreDistinct /\ RequestInv /\ TokenInv /\ JobInv /\ CoverInv

-----------------------------------------------------------------------------
PcType == Answers \cup {"idle", "save", "mail", "find", "update", "read"}

(* A step of request p that touches neither accounts nor the queue: where it *)
(* goes, the user it then holds and the form.  Rows may be deleted.          *)
Moves(p, next, u, f) ==
    /\ pc[p] \notin Answers
    /\ next \in PcType /\ u \in Registrations \cup {None} /\ f \in Forms \cup {None}
    /\ pc' = [pc EXCEPT ![p] = next]
    /\ held' = [held EXCEPT ![p] = u]
    /\ wanted' = [wanted EXCEPT ![p] = f]
    /\ users' \subseteq users /\ faults' \in 0..MaxFaults
    /\ UNCHANGED <<kind, account, queue>>
    /\ p \in Registrations =>
         /\ next \in {"idle", "save", "conflict", "error"} => account[p] = None
         /\ next \notin {"find", "update", "read"}
         /\ next = "save" => f \in Forms
    /\ next \in {"mail", "find", "update", "read"} => u \in Registrations /\ account[u] # None
    /\ p \in Others /\ next \in {"find", "update"} /\ kind[p] = "updateProfile" => f \in Forms
    /\ p \in Others /\ next = "update" /\ kind[p] = "activateAccount" => u \in mailed
    /\ next = "done" /\ (p \in Registrations \/ kind[p] = "resendActivation") => u = None
    /\ p \in Others /\ kind[p] = "adminActivate" => u = held[p] /\ next # "idle"

(* A step that only moves keeps the invariant.                               *)
LEMMA MovesKeep ==
  ASSUME IInv, NEW p \in Requests, NEW next, NEW u, NEW f, Moves(p, next, u, f)
  PROVE  IInv'
  <1>1. /\ \A q \in Requests :
             /\ pc'[q] = IF q = p THEN next ELSE pc[q]
             /\ held'[q] = IF q = p THEN u ELSE held[q]
             /\ wanted'[q] = IF q = p THEN f ELSE wanted[q]
        /\ UNCHANGED <<kind, account, mail, keys, mailed>>
        /\ mail[p].state = "none"
    <2>1. mail[p].state = "none"
      BY DEF IInv, JobInv, Moves, Answers
    <2> QED
      BY <2>1 DEF IInv, TypeOK, Moves, queue
  <1>2. TypeOK'
    BY DEF IInv, TypeOK, Moves, PcType, queue
  <1>3. UsersAreDistinct'
    BY <1>1 DEF IInv, UsersAreDistinct, Moves
  <1>4. RequestInv'
    BY <1>1 DEF IInv, RequestInv, Moves, Requests
  <1>5. TokenInv'
    <2>1. \A v \in Registrations : ActivatedByAdmin(v) => ActivatedByAdmin(v)'
      BY <1>1 DEF ActivatedByAdmin, Moves, Requests
    <2> QED
      BY <1>1, <2>1 DEF IInv, TokenInv
  <1>6. JobInv'
    BY <1>1 DEF IInv, JobInv
  <1>7. Covered \subseteq Covered'
    BY <1>1 DEF Covered
  <1>8. CoverInv'
    <2>1. keys' \subseteq Covered'
      BY <1>1, <1>7 DEF IInv, CoverInv
    <2>2. ASSUME NEW q \in Requests, Asked(q)', held'[q] # None PROVE held'[q] \in Covered'
      <3>1. CASE q = p
        BY <1>1, <2>2, <3>1 DEF Moves, Asked
      <3>2. CASE q # p
        <4>1. Asked(q) /\ held'[q] = held[q]
          BY <1>1, <2>2, <3>2 DEF Asked
        <4> QED
          BY <1>7, <2>2, <4>1 DEF IInv, CoverInv
      <3> QED
        BY <3>1, <3>2
    <2> QED
      BY <2>1, <2>2 DEF CoverInv
  <1> QED
    BY <1>2, <1>3, <1>4, <1>5, <1>6, <1>8 DEF IInv

(* Of register, the check for a taken e-mail or phone only moves.            *)
LEMMA RegistrationMoves ==
  ASSUME IInv, NEW r \in Registrations, RegisterFind(r)
  PROVE  IInv'
  <1>1. PICK f \in Forms, next \in {"conflict", "save"} : Want(r, f) /\ Goto(r, next)
    BY DEF RegisterFind, AfterCheck
  <1>2. /\ pc[r] = "idle" /\ account[r] = None /\ r \in Requests
        /\ UNCHANGED <<kind, users, account, held, queue, faults>> /\ faults \in 0..MaxFaults
    BY DEF RegisterFind, IInv, TypeOK, RequestInv, Requests, table
  <1>3. held[r] \in Registrations \cup {None} /\ held' = [held EXCEPT ![r] = held[r]]
    BY <1>2 DEF IInv, TypeOK
  <1>4. Moves(r, next, held[r], f)
    BY <1>1, <1>2, <1>3, AccountsAssumption DEF Moves, Requests, Goto, Want, Answers, PcType
  <1> QED
    BY <1>2, <1>4, MovesKeep

(* Finding the user of a resend only moves, and keeps the invariant.         *)
LEMMA ResendMoves ==
  ASSUME IInv, NEW p \in Others, kind[p] = "resendActivation", ResendFind(p)
  PROVE  IInv'
  <1>1. PICK u \in users \cup {None} :
          /\ Hold(p, u)
          /\ IF u = None THEN Goto(p, "done") ELSE ~account[u].isActive /\ Goto(p, "mail")
    BY DEF ResendFind
  <1> DEFINE next == IF u = None THEN "done" ELSE "mail"
  <1>2. Moves(p, next, u, wanted[p])
    BY <1>1, AccountsAssumption
    DEF ResendFind, Moves, IInv, TypeOK, RequestInv, Requests, Goto, Hold, table, queue,
        Answers, PcType
  <1> QED
    BY <1>2, MovesKeep DEF Requests

(* Finding the user a token names only moves.                                *)
LEMMA ActivateMoves ==
  ASSUME IInv, NEW p \in Others, kind[p] = "activateAccount", ActivateFind(p)
  PROVE  IInv'
  <1>1. PICK next \in {"done", "update", "error"}, u \in Registrations \cup {None} :
          Moves(p, next, u, wanted[p])
    <2>1. PICK token \in mailed :
            \/ \E u \in TokenUser(token) :
                 /\ Hold(p, u)
                 /\ Goto(p, IF account[u].isActive THEN "done" ELSE "update")
            \/ TokenUser(token) = {} /\ Goto(p, "error") /\ UNCHANGED held
      BY DEF ActivateFind
    <2>2. CASE TokenUser(token) = {} /\ Goto(p, "error") /\ UNCHANGED held
      <3>1. Moves(p, "error", held[p], wanted[p])
        BY <2>2, AccountsAssumption
        DEF ActivateFind, Moves, IInv, TypeOK, RequestInv, Requests, Goto, table, queue,
            Answers, PcType
      <3> QED
        BY <3>1 DEF IInv, TypeOK, Requests
    <2>3. ASSUME NEW u \in TokenUser(token), Hold(p, u),
                 Goto(p, IF account[u].isActive THEN "done" ELSE "update")
          PROVE  \E next \in {"done", "update", "error"} : Moves(p, next, u, wanted[p])
      <3> DEFINE next == IF account[u].isActive THEN "done" ELSE "update"
      <3>1. u \in users /\ u \in mailed /\ u \in Registrations /\ account[u] # None
        BY <2>1, <2>3 DEF TokenUser, IInv, TypeOK
      <3>2. Moves(p, next, u, wanted[p])
        BY <2>3, <3>1, AccountsAssumption
        DEF ActivateFind, Moves, IInv, TypeOK, RequestInv, Requests, Goto, Hold, table, queue,
            Answers, PcType
      <3> QED
        BY <3>2
    <2> QED
      BY <2>1, <2>2, <2>3 DEF TokenUser, IInv, TypeOK
  <1> QED
    BY <1>1, MovesKeep DEF Requests

(* Of updateProfile, what precedes and follows the update only moves.        *)
LEMMA UpdateMoves ==
  ASSUME IInv, NEW p \in Others, kind[p] = "updateProfile",
         UpdateAuthenticate(p) \/ UpdateFind(p) \/ UpdateRead(p)
  PROVE  IInv'
  <1>1. CASE UpdateAuthenticate(p)
    <2>1. PICK u \in users, f \in Forms : account[u].isActive /\ Hold(p, u) /\ Want(p, f)
      BY <1>1 DEF UpdateAuthenticate
    <2>2. Moves(p, "find", u, f)
      BY <1>1, <2>1, AccountsAssumption
      DEF UpdateAuthenticate, Moves, IInv, TypeOK, Requests, Goto, Hold, Want, table, queue,
          Answers, PcType
    <2> QED
      BY <2>2, MovesKeep DEF Requests
  <1>2. CASE UpdateFind(p)
    <2>1. PICK next \in {"conflict", "update"} : Moves(p, next, held[p], wanted[p])
      BY <1>2, AccountsAssumption
      DEF UpdateFind, Moves, IInv, TypeOK, RequestInv, Requests, Goto, table, queue,
          Answers, PcType
    <2> QED
      BY <2>1, MovesKeep DEF Requests
  <1>3. CASE UpdateRead(p)
    <2>1. PICK next \in {"done", "error"} : Moves(p, next, held[p], wanted[p])
      BY <1>3, AccountsAssumption
      DEF UpdateRead, Moves, IInv, TypeOK, RequestInv, Requests, Goto, table, queue,
          Answers, PcType
    <2> QED
      BY <2>1, MovesKeep DEF Requests
  <1> QED
    BY <1>1, <1>2, <1>3

(* A deleted row leaves the other users as they were.                        *)
LEMMA DeleteMoves ==
  ASSUME IInv, NEW p \in Others, kind[p] = "deleteAccount", deleteAccount(p)
  PROVE  IInv'
  <1>1. PICK u \in users : users' = users \ {u} /\ Hold(p, u)
    BY DEF deleteAccount
  <1>2. Moves(p, "done", u, wanted[p])
    BY <1>1, AccountsAssumption
    DEF deleteAccount, Moves, IInv, TypeOK, Requests, Goto, Hold, queue, Answers, PcType
  <1> QED
    BY <1>2, MovesKeep DEF Requests

(* An await that rejects, or a stop, only moves: no error after a save.      *)
LEMMA FailMoves ==
  ASSUME IInv, NEW p \in Requests, Fails(p)
  PROVE  IInv'
  <1>1. PICK next \in {"error", "unsent", "stopped"} :
          /\ Goto(p, next)
          /\ p \in Registrations /\ next = "error" => pc[p] # "mail"
    BY DEF Fails, AfterFailure
  <1>2. p \in Registrations /\ next = "error" => account[p] = None
    BY <1>1 DEF Fails, IInv, TypeOK, RequestInv, Answers, Requests
  <1>3. /\ pc[p] \notin Answers
        /\ UNCHANGED <<kind, users, account, queue, held, wanted>>
        /\ faults' \in 0..MaxFaults
    BY AccountsAssumption DEF Fails, Fault, IInv, TypeOK, table
  <1>4. /\ held[p] \in Registrations \cup {None} /\ wanted[p] \in Forms \cup {None}
        /\ held' = [held EXCEPT ![p] = held[p]] /\ wanted' = [wanted EXCEPT ![p] = wanted[p]]
    BY <1>3 DEF IInv, TypeOK
  <1>5. Moves(p, next, held[p], wanted[p])
    BY <1>1, <1>2, <1>3, <1>4 DEF Moves, Goto, Answers, PcType
  <1> QED
    BY <1>5, MovesKeep

-----------------------------------------------------------------------------
(* A step of request p that writes a row for user u, whom it then holds:     *)
(* what the row has to be.                                                   *)
Writes(p, next, u, row) ==
    /\ pc[p] \notin Answers
    /\ next \in {"mail", "done", "read"} /\ u \in Registrations /\ row \in Rows
    /\ pc' = [pc EXCEPT ![p] = next]
    /\ held' = [held EXCEPT ![p] = u]
    /\ account' = [account EXCEPT ![u] = row]
    /\ users' \subseteq users \cup {u}
    /\ UNCHANGED <<kind, wanted, queue, faults>>
    /\ p \in Registrations => next = "mail"
    /\ next = "done" => kind[p] # "resendActivation"
    /\ u = p \/ account[u] # None
    /\ \/ ~row.isActive \/ u \in mailed \/ ActivatedByAdmin(u)
       \/ p \in Others /\ kind[p] = "adminActivate"
    /\ p \in Others /\ kind[p] = "adminActivate" => pc[p] = "idle"
    /\ \A v \in users \ {u} :
         u \in users' =>
           account[v].email # row.email /\ account[v].username # row.username
             /\ account[v].phone # row.phone

(* A step that writes such a row keeps the invariant.                        *)
LEMMA WritesKeep ==
  ASSUME IInv, NEW p \in Requests, NEW next, NEW u, NEW row, Writes(p, next, u, row)
  PROVE  IInv'
  <1>0. row # None
    BY AccountsAssumption DEF Writes
  <1>1. /\ \A q \in Requests :
             /\ pc'[q] = IF q = p THEN next ELSE pc[q]
             /\ held'[q] = IF q = p THEN u ELSE held[q]
        /\ \A v \in Registrations : account'[v] = IF v = u THEN row ELSE account[v]
        /\ UNCHANGED <<kind, wanted, mail, keys, mailed>>
        /\ mail[p].state = "none"
    <2>1. mail[p].state = "none"
      BY DEF IInv, JobInv, Writes, Answers
    <2> QED
      BY <2>1 DEF IInv, TypeOK, Writes, queue
  <1>2. TypeOK'
    BY <1>0, <1>1 DEF IInv, TypeOK, Writes, Answers, queue
  <1>3. UsersAreDistinct'
    <2> SUFFICES ASSUME NEW v \in users', NEW w \in users', v # w
                 PROVE  /\ account'[v].email # account'[w].email
                        /\ account'[v].username # account'[w].username
                        /\ account'[v].phone # account'[w].phone
      BY DEF UsersAreDistinct
    <2>1. v \in users \cup {u} /\ w \in users \cup {u} /\ users \subseteq Registrations
          /\ u \in Registrations
      BY DEF Writes, IInv, TypeOK
    <2>2. CASE v # u /\ w # u
      BY <1>1, <2>1, <2>2 DEF IInv, UsersAreDistinct
    <2>3. CASE v = u \/ w = u
      BY <1>1, <2>1, <2>3 DEF Writes
    <2> QED
      BY <2>2, <2>3
  <1>4. RequestInv'
    BY <1>0, <1>1, AccountsAssumption DEF IInv, RequestInv, Writes, Requests
  <1>5. TokenInv'
    <2>1. \A v \in Registrations : ActivatedByAdmin(v) => ActivatedByAdmin(v)'
      BY <1>1 DEF ActivatedByAdmin, Writes, Requests
    <2>2. account'[u].isActive => u \in mailed \/ ActivatedByAdmin(u)'
      <3>1. p \in Others /\ kind[p] = "adminActivate" => ActivatedByAdmin(u)'
        BY <1>1 DEF ActivatedByAdmin, Writes
      <3> QED
        BY <1>1, <2>1, <3>1 DEF Writes
    <2>3. \A v \in Registrations \ {u} : account'[v] = account[v]
      BY <1>1
    <2> QED
      BY <1>1, <2>1, <2>2, <2>3 DEF IInv, TokenInv
  <1>6. JobInv'
    BY <1>0, <1>1 DEF IInv, JobInv
  <1>7. Covered \subseteq Covered'
    BY <1>1 DEF Covered
  <1>8. CoverInv'
    <2>1. keys' \subseteq Covered'
      BY <1>1, <1>7 DEF IInv, CoverInv
    <2>2. ASSUME NEW q \in Requests, Asked(q)', held'[q] # None PROVE held'[q] \in Covered'
      <3>1. q # p
        BY <1>1, <2>2 DEF Writes, Asked
      <3>2. Asked(q) /\ held'[q] = held[q]
        BY <1>1, <2>2, <3>1 DEF Asked
      <3> QED
        BY <1>7, <2>2, <3>2 DEF IInv, CoverInv
    <2> QED
      BY <2>1, <2>2 DEF CoverInv
  <1> QED
    BY <1>2, <1>3, <1>4, <1>5, <1>6, <1>8 DEF IInv

(* The save of a registration, refused or done, keeps the invariant.         *)
LEMMA SaveKeeps ==
  ASSUME IInv, NEW r \in Registrations, RegisterSave(r)
  PROVE  IInv'
  <1>0. r \in Requests /\ wanted[r] \in Forms /\ account[r] = None /\ pc[r] = "save"
        /\ held[r] \in Registrations \cup {None}
    BY DEF RegisterSave, IInv, RequestInv, TypeOK, Requests
  <1>1. CASE Taken(wanted[r])
    <2>1. Moves(r, "error", held[r], wanted[r])
      BY <1>0, <1>1
      DEF RegisterSave, Moves, IInv, TypeOK, Goto, table, queue, Answers, PcType
    <2> QED
      BY <1>0, <2>1, MovesKeep
  <1>2. CASE ~Taken(wanted[r])
    <2>1. Row(wanted[r]) \in Rows /\ ~Row(wanted[r]).isActive
      BY <1>0 DEF Row, Rows
    <2>2. \A v \in users :
            /\ account[v].email # Row(wanted[r]).email
            /\ account[v].username # Row(wanted[r]).username
            /\ account[v].phone # Row(wanted[r]).phone
      BY <1>2 DEF Taken, HasPhone, Row
    <2>3. r \notin Others
      BY AccountsAssumption
    <2>4. Writes(r, "mail", r, Row(wanted[r]))
      BY <1>0, <1>2, <2>1, <2>2, <2>3 DEF RegisterSave, Writes, Goto, Hold, queue, Answers
    <2> QED
      BY <1>0, <2>4, WritesKeep
  <1> QED
    BY <1>1, <1>2

(* The update that activates a user who holds a token keeps the invariant.   *)
LEMMA ActivateKeeps ==
  ASSUME IInv, NEW p \in Others, kind[p] = "activateAccount", ActivateUpdate(p)
  PROVE  IInv'
  <1> DEFINE u == held[p]
             row == [account[u] EXCEPT !.isActive = TRUE]
  <1>1. p \in Requests /\ p \notin Registrations /\ u \in Registrations /\ u \in mailed
        /\ account[u] # None /\ account[u] \in Rows
    BY AccountsAssumption DEF ActivateUpdate, IInv, RequestInv, TypeOK, Requests
  <1>2. /\ row \in Rows
        /\ row.email = account[u].email /\ row.username = account[u].username
        /\ row.phone = account[u].phone
    BY <1>1 DEF Rows
  <1>3. users' \subseteq users \cup {u} /\ (u \in users' => u \in users)
    BY DEF ActivateUpdate
  <1>4. held' = [held EXCEPT ![p] = u]
    BY <1>1 DEF ActivateUpdate, IInv, TypeOK
  <1>5. account' = [account EXCEPT ![u] = row]
    BY DEF ActivateUpdate
  <1>6. \A v \in users \ {u} :
          u \in users' =>
            account[v].email # row.email /\ account[v].username # row.username
              /\ account[v].phone # row.phone
    BY <1>2, <1>3 DEF IInv, UsersAreDistinct
  <1>7. Writes(p, "done", u, row)
    <2> HIDE DEF u, row
    <2> QED
      BY <1>1, <1>2, <1>3, <1>4, <1>5, <1>6 DEF ActivateUpdate, Writes, Goto, Answers
  <1> QED
    BY <1>1, <1>7, WritesKeep

(* The update of a phone, refused by the index or done, keeps the invariant. *)
LEMMA PhoneKeeps ==
  ASSUME IInv, NEW p \in Others, kind[p] = "updateProfile", UpdateRow(p)
  PROVE  IInv'
  <1> DEFINE u == held[p]
             row == [account[u] EXCEPT !.phone = wanted[p].phone]
  <1>1. p \in Requests /\ p \notin Registrations /\ u \in Registrations /\ wanted[p] \in Forms
        /\ account[u] # None /\ account[u] \in Rows /\ pc[p] = "update"
    BY AccountsAssumption DEF UpdateRow, IInv, RequestInv, TypeOK, Requests
  <1>2. CASE u \in users /\ PhoneOfAnother(p)
    <2>1. Moves(p, "error", held[p], wanted[p])
      BY <1>1, <1>2 DEF UpdateRow, Moves, IInv, TypeOK, Goto, queue, Answers, PcType
    <2> QED
      BY <1>1, <2>1, MovesKeep
  <1>3. CASE ~(u \in users /\ PhoneOfAnother(p))
    <2>1. /\ row \in Rows
          /\ row.email = account[u].email /\ row.username = account[u].username
          /\ row.phone = wanted[p].phone /\ row.isActive = account[u].isActive
      BY <1>1 DEF Rows
    <2>2. held' = [held EXCEPT ![p] = u]
      BY <1>1 DEF UpdateRow, IInv, TypeOK
    <2>3. account' = [account EXCEPT ![u] = row] /\ Goto(p, "read") /\ users' = users
          /\ UNCHANGED <<kind, wanted, queue, faults>>
      BY <1>3 DEF UpdateRow
    <2>4. row.isActive => u \in mailed \/ ActivatedByAdmin(u)
      BY <1>1, <2>1 DEF IInv, TokenInv
    <2>5. \A v \in users \ {u} :
            u \in users =>
              account[v].email # row.email /\ account[v].username # row.username
                /\ account[v].phone # row.phone
      BY <1>3, <2>1 DEF IInv, UsersAreDistinct, PhoneOfAnother, HasPhone
    <2>6. Writes(p, "read", u, row)
      <3> HIDE DEF u, row
      <3> QED
        BY <1>1, <2>1, <2>2, <2>3, <2>4, <2>5 DEF Writes, Goto, Answers
    <2> QED
      BY <1>1, <2>6, WritesKeep
  <1> QED
    BY <1>2, <1>3

-----------------------------------------------------------------------------
(* What an admin makes of isActive leaves the rest of the row as it was.     *)
LEMMA AdminKeeps ==
  ASSUME IInv, NEW p \in Others, kind[p] \in {"adminActivate", "adminDeactivate"},
         adminUpdateUser(p)
  PROVE  IInv'
  <1>1. CASE UpdateRead(p)
    <2>1. PICK next \in {"done", "error"} : Moves(p, next, held[p], wanted[p])
      BY <1>1, AccountsAssumption
      DEF UpdateRead, Moves, IInv, TypeOK, RequestInv, Requests, Goto, table, queue,
          Answers, PcType
    <2> QED
      BY <2>1, MovesKeep DEF Requests
  <1>2. CASE AdminUpdate(p)
    <2>1. PICK u \in Registrations :
            /\ account[u] # None /\ Hold(p, u)
            /\ account' = [account EXCEPT ![u].isActive = (kind[p] = "adminActivate")]
      BY <1>2 DEF AdminUpdate
    <2> DEFINE row == [account[u] EXCEPT !.isActive = (kind[p] = "adminActivate")]
    <2>2. account[u] \in Rows /\ p \in Requests /\ p \notin Registrations
      BY <2>1, AccountsAssumption DEF IInv, TypeOK, Requests
    <2>3. /\ row \in Rows
          /\ row.email = account[u].email /\ row.username = account[u].username
          /\ row.phone = account[u].phone /\ row.isActive = (kind[p] = "adminActivate")
      BY <2>2 DEF Rows
    <2>4. \A v \in users \ {u} :
            u \in users =>
              account[v].email # row.email /\ account[v].username # row.username
                /\ account[v].phone # row.phone
      BY <2>3 DEF IInv, UsersAreDistinct
    <2>5. account' = [account EXCEPT ![u] = row] /\ held' = [held EXCEPT ![p] = u]
      BY <2>1 DEF Hold
    <2>6. pc[p] = "idle" /\ Goto(p, "read") /\ UNCHANGED <<kind, users, wanted, queue, faults>>
      BY <1>2 DEF AdminUpdate
    <2>7. Writes(p, "read", u, row)
      <3> HIDE DEF row
      <3> QED
        BY <2>1, <2>2, <2>3, <2>4, <2>5, <2>6 DEF Writes, Goto, Answers
    <2> QED
      BY <2>2, <2>7, WritesKeep
  <1> QED
    BY <1>1, <1>2 DEF adminUpdateUser

(* The add of a job, or the key that drops it, keeps the invariant.          *)
LEMMA SendKeeps ==
  ASSUME IInv, NEW p \in Requests, SendMail(p)
  PROVE  IInv'
  <1> DEFINE u == held[p]
  <1>1. u \in Registrations /\ account[u] # None /\ pc[p] = "mail" /\ mail[p].state = "none"
    BY DEF SendMail, IInv, RequestInv, JobInv, Answers
  <1>2. /\ \A q \in Requests : pc'[q] = IF q = p THEN "done" ELSE pc[q]
        /\ UNCHANGED <<kind, users, account, held, wanted, mailed, faults>>
        /\ \/ u \in keys /\ UNCHANGED <<mail, keys>>
           \/ /\ mail' = [mail EXCEPT ![p].state = "waiting"]
              /\ keys' = keys \cup {u}
    BY <1>1 DEF SendMail, KeyOf, Goto, table, IInv, TypeOK
  <1>3. /\ \A q \in Requests \ {p} : mail'[q] = mail[q]
        /\ mail'[p].state \in {"none", "waiting"} /\ mail'[p].attempts = mail[p].attempts
        /\ keys' \subseteq keys \cup {u}
        /\ keys' = keys \/ mail'[p].state = "waiting"
        /\ u \in keys'
    BY <1>1, <1>2 DEF IInv, TypeOK
  <1>4. TypeOK'
    <2>1. pc' \in [Requests -> Answers \cup {"idle", "save", "mail", "find", "update", "read"}]
      BY DEF SendMail, Goto, IInv, TypeOK, Answers
    <2>2. mail' \in [Requests -> [state : {"none", "waiting", "completed", "failed"},
                                  attempts : 0..MaxAttempts, stalled : BOOLEAN]]
      BY <1>2 DEF IInv, TypeOK
    <2> QED
      BY <1>1, <1>2, <1>3, <2>1, <2>2 DEF IInv, TypeOK
  <1>5. UsersAreDistinct' /\ TokenInv'
    <2>1. \A v \in Registrations : ActivatedByAdmin(v) => ActivatedByAdmin(v)'
      BY <1>2 DEF ActivatedByAdmin, Requests
    <2> QED
      BY <1>2, <2>1 DEF IInv, UsersAreDistinct, TokenInv
  <1>6. RequestInv'
    BY <1>2, <1>1 DEF IInv, RequestInv, Requests
  <1>7. JobInv'
    <2> SUFFICES ASSUME NEW q \in Requests
                 PROVE  /\ mail'[q].state # "none" =>
                             pc'[q] = "done" /\ held'[q] \in Registrations
                               /\ account'[held'[q]] # None
                        /\ mail'[q].state \in {"none", "waiting"} =>
                             mail'[q].attempts < MaxAttempts
      BY DEF JobInv
    <2>1. CASE q = p
      BY <1>1, <1>2, <1>3, <2>1 DEF IInv, JobInv
    <2>2. CASE q # p
      BY <1>2, <1>3, <2>2 DEF IInv, JobInv
    <2> QED
      BY <2>1, <2>2
  <1>8. Covered \subseteq Covered'
    BY <1>1, <1>2, <1>3 DEF Covered
  <1>9. keys' \subseteq Covered'
    BY <1>1, <1>2, <1>3, <1>8 DEF IInv, CoverInv, Covered
  <1>10. ASSUME NEW q \in Requests, Asked(q)', held'[q] # None PROVE held'[q] \in Covered'
    <2>1. CASE q = p
      BY <1>2, <1>3, <1>9, <2>1
    <2>2. CASE q # p
      BY <1>2, <1>8, <1>10, <2>2 DEF Asked, IInv, CoverInv
    <2> QED
      BY <2>1, <2>2
  <1>11. CoverInv'
    BY <1>9, <1>10 DEF CoverInv
  <1> QED
    BY <1>4, <1>5, <1>6, <1>7, <1>11 DEF IInv

(* An attempt that keeps the job, or delivers, keeps the invariant.          *)
LEMMA AttemptKeeps ==
  ASSUME IInv, NEW p \in Requests, NEW job, NEW arrives \in BOOLEAN,
         Attempt(p, job, arrives), faults' \in 0..MaxFaults,
         job \in [state : {"waiting", "completed", "failed"}, attempts : 0..MaxAttempts,
                  stalled : BOOLEAN],
         job.state = "waiting" => job.attempts < MaxAttempts,
         arrives \/ job.state # "completed"
  PROVE  IInv'
  <1>1. /\ \A q \in Requests : mail'[q] = IF q = p THEN job ELSE mail[q]
        /\ UNCHANGED <<kind, users, account, pc, held, wanted, keys>>
        /\ mail[p].state = "waiting"
    BY DEF Attempt, table, request, IInv, TypeOK
  <1>2. held[p] \in Registrations /\ account[held[p]] # None /\ pc[p] = "done"
    BY <1>1 DEF IInv, JobInv
  <1>3. mailed' = IF arrives THEN mailed \cup {held[p]} ELSE mailed
    BY DEF Attempt
  <1>4. TypeOK'
    <2>1. mail' \in [Requests -> [state : {"none", "waiting", "completed", "failed"},
                                  attempts : 0..MaxAttempts, stalled : BOOLEAN]]
      BY DEF Attempt, IInv, TypeOK
    <2> QED
      BY <1>1, <1>2, <1>3, <2>1 DEF IInv, TypeOK
  <1>5. UsersAreDistinct' /\ TokenInv'
    BY <1>1, <1>3 DEF IInv, UsersAreDistinct, TokenInv, ActivatedByAdmin
  <1>6. RequestInv'
    BY <1>1, <1>3 DEF IInv, RequestInv
  <1>7. JobInv'
    BY <1>1, <1>2 DEF IInv, JobInv
  <1>8. Covered \subseteq Covered'
    BY <1>1, <1>2, <1>3 DEF Covered
  <1>9. CoverInv'
    BY <1>1, <1>8 DEF IInv, CoverInv, Asked
  <1> QED
    BY <1>4, <1>5, <1>6, <1>7, <1>9 DEF IInv

(* However an attempt ends, the invariant holds.                             *)
LEMMA ProcessKeeps ==
  ASSUME IInv, NEW p \in Requests, process(p)
  PROVE  IInv'
  <1>1. /\ mail[p] \in [state : {"none", "waiting", "completed", "failed"},
                         attempts : 0..MaxAttempts, stalled : BOOLEAN]
        /\ faults \in 0..MaxFaults
        /\ MaxAttempts \in Nat \ {0} /\ MaxFaults \in Nat
    BY AccountsAssumption DEF IInv, TypeOK
  <1>2. mail[p].state = "waiting" => mail[p].attempts \in 0..MaxAttempts - 1
    BY <1>1 DEF IInv, JobInv
  <1>3. CASE MailSent(p)
    <2> DEFINE job == [mail[p] EXCEPT !.state = "completed"]
    <2>1. Attempt(p, job, TRUE) /\ faults' \in 0..MaxFaults
      BY <1>1, <1>3 DEF MailSent
    <2>2. /\ job \in [state : {"waiting", "completed", "failed"}, attempts : 0..MaxAttempts,
                       stalled : BOOLEAN]
          /\ job.state = "completed"
      BY <1>1
    <2> HIDE DEF job
    <2> QED
      BY <2>1, <2>2, AttemptKeeps
  <1>4. CASE MailRefused(p)
    <2> DEFINE job == [mail[p] EXCEPT !.state = "failed"]
    <2>1. Attempt(p, job, FALSE) /\ faults' \in 0..MaxFaults
      BY <1>1, <1>4 DEF MailRefused
    <2>2. /\ job \in [state : {"waiting", "completed", "failed"}, attempts : 0..MaxAttempts,
                       stalled : BOOLEAN]
          /\ job.state = "failed"
      BY <1>1
    <2> HIDE DEF job
    <2> QED
      BY <2>1, <2>2, AttemptKeeps
  <1>5. CASE MailFails(p)
    <2> DEFINE attempts == mail[p].attempts + 1
               end == Again(attempts)
               job == [mail[p] EXCEPT !.state = end, !.attempts = attempts]
    <2>1. PICK arrives \in BOOLEAN : Attempt(p, job, arrives)
      BY <1>5 DEF MailFails
    <2>2. faults' \in 0..MaxFaults
      BY <1>1, <1>5 DEF MailFails, Fault
    <2>3. attempts \in 0..MaxAttempts
      BY <1>1, <1>2, <2>1 DEF Attempt
    <2>4. end \in {"waiting", "failed"} /\ (end = "waiting" => attempts < MaxAttempts)
      BY DEF Again
    <2> HIDE DEF attempts, end
    <2>5. /\ job \in [state : {"waiting", "completed", "failed"}, attempts : 0..MaxAttempts,
                       stalled : BOOLEAN]
          /\ job.state = end /\ job.attempts = attempts
      BY <1>1, <2>3, <2>4
    <2> HIDE DEF job
    <2> QED
      BY <2>1, <2>2, <2>4, <2>5, AttemptKeeps
  <1>6. CASE MailStalls(p)
    <2> DEFINE end == IF mail[p].stalled THEN "failed" ELSE "waiting"
               job == [mail[p] EXCEPT !.state = end, !.stalled = TRUE]
    <2>1. PICK arrives \in BOOLEAN : Attempt(p, job, arrives)
      BY <1>6 DEF MailStalls
    <2>2. faults' \in 0..MaxFaults
      BY <1>1, <1>6 DEF MailStalls, Fault
    <2>3. mail[p].attempts < MaxAttempts
      BY <1>1, <1>2, <2>1 DEF Attempt
    <2>4. end \in {"waiting", "failed"}
      OBVIOUS
    <2> HIDE DEF end
    <2>5. /\ job \in [state : {"waiting", "completed", "failed"}, attempts : 0..MaxAttempts,
                       stalled : BOOLEAN]
          /\ job.state = end /\ job.attempts = mail[p].attempts
      BY <1>1, <2>4
    <2> HIDE DEF job
    <2> QED
      BY <2>1, <2>2, <2>3, <2>4, <2>5, AttemptKeeps
  <1> QED
    BY <1>3, <1>4, <1>5, <1>6 DEF process

(* A key that expires covers less, and a stuttering step changes nothing.    *)
LEMMA IdleKeeps ==
  ASSUME IInv, (\E u \in Registrations : KeyExpires(u)) \/ UNCHANGED vars
  PROVE  IInv'
  <1>1. /\ UNCHANGED <<kind, users, account, pc, held, wanted, mail, mailed, faults>>
        /\ keys' \subseteq keys
    BY DEF KeyExpires, vars, table, request, queue
  <1>2. TypeOK'
    BY <1>1 DEF IInv, TypeOK
  <1>3. UsersAreDistinct' /\ TokenInv' /\ RequestInv' /\ JobInv'
    BY <1>1 DEF IInv, UsersAreDistinct, TokenInv, ActivatedByAdmin, RequestInv, JobInv
  <1>4. CoverInv'
    BY <1>1 DEF IInv, CoverInv, Covered, Asked
  <1> QED
    BY <1>2, <1>3, <1>4 DEF IInv

(* The invariant holds at first.                                             *)
LEMMA InitIInv == Init => IInv
  <1> SUFFICES ASSUME Init PROVE IInv
    OBVIOUS
  <1>1. TypeOK
    BY AccountsAssumption DEF Init, TypeOK, NoJob, Answers
  <1>2. UsersAreDistinct /\ RequestInv /\ TokenInv
    BY DEF Init, UsersAreDistinct, RequestInv, TokenInv, Requests
  <1>3. JobInv
    BY AccountsAssumption DEF Init, JobInv, NoJob
  <1>4. CoverInv
    BY DEF Init, CoverInv, Asked
  <1> QED
    BY <1>1, <1>2, <1>3, <1>4 DEF IInv

(* Every step keeps the invariant.                                           *)
LEMMA NextIInv == IInv /\ [Next]_vars => IInv'
  <1> SUFFICES ASSUME IInv, [Next]_vars PROVE IInv'
    OBVIOUS
  <1>1. ASSUME NEW r \in Registrations, register(r) PROVE IInv'
    BY <1>1, RegistrationMoves, SaveKeeps, SendKeeps DEF register, Requests
  <1>2. ASSUME NEW p \in Others, other(p) PROVE IInv'
    <2>1. CASE kind[p] = "resendActivation" /\ resendActivation(p)
      BY <2>1, ResendMoves, SendKeeps DEF resendActivation, Requests
    <2>2. CASE kind[p] = "activateAccount" /\ activateAccount(p)
      BY <2>2, ActivateMoves, ActivateKeeps DEF activateAccount
    <2>3. CASE kind[p] = "updateProfile" /\ updateProfile(p)
      BY <2>3, UpdateMoves, PhoneKeeps DEF updateProfile
    <2>4. CASE kind[p] = "deleteAccount" /\ deleteAccount(p)
      BY <2>4, DeleteMoves
    <2>5. CASE kind[p] \in {"adminActivate", "adminDeactivate"} /\ adminUpdateUser(p)
      BY <2>5, AdminKeeps
    <2> QED
      BY <1>2, <2>1, <2>2, <2>3, <2>4, <2>5 DEF other
  <1>3. ASSUME NEW p \in Requests, process(p) \/ Fails(p) PROVE IInv'
    BY <1>3, ProcessKeeps, FailMoves
  <1> QED
    BY <1>1, <1>2, <1>3, IdleKeeps DEF Next

-----------------------------------------------------------------------------
(* The types, and that no two users share an e-mail, a username or a phone,  *)
(* whatever registrations, updates and deletions overlap.                    *)
THEOREM AccountsCorrect == Spec => [](TypeOK /\ UsersAreDistinct)
  <1>1. IInv => TypeOK /\ UsersAreDistinct
    BY DEF IInv
  <1> QED
    BY <1>1, InitIInv, NextIInv, PTL DEF Spec

(* Rows, requests, jobs and keys stay what they are said to be.              *)
THEOREM AccountTypes == Spec => []TypeOK
  <1> QED
    BY AccountsCorrect, PTL

(* A registration answered with an error, whichever await it was that        *)
(* rejected, left no row behind.                                             *)
THEOREM RefusalsLeaveNoUser == Spec => []RefusedLeavesNoUser
  <1>1. IInv => RefusedLeavesNoUser
    BY DEF IInv, RequestInv, TypeOK, RefusedLeavesNoUser
  <1> QED
    BY <1>1, InitIInv, NextIInv, PTL DEF Spec

(* Nobody becomes active without a token that was mailed for that very row,  *)
(* or an admin who activates it.                                             *)
THEOREM ActiveUsersHadToken == Spec => []ActiveHasToken
  <1>1. IInv => ActiveHasToken
    BY DEF IInv, TokenInv, TypeOK, ActiveHasToken
  <1> QED
    BY <1>1, InitIInv, NextIInv, PTL DEF Spec

(* An activation e-mail that was promised has arrived, or a job for it is    *)
(* there, also when the add was dropped as a duplicate.                      *)
THEOREM PromisedMailIsUnderWay == Spec => []MailIsUnderWay
  <1>1. IInv => MailIsUnderWay
    BY DEF IInv, CoverInv, Covered, MailIsUnderWay
  <1> QED
    BY <1>1, InitIInv, NextIInv, PTL DEF Spec
=============================================================================
