-------------------------------- MODULE Accounts --------------------------------
(***************************************************************************)
(* The users table and the e-mails that activate accounts: registrations,  *)
(* requests to send the e-mail again, activations by token or by an admin, *)
(* changes of a phone number and deletions, await by await, and the jobs   *)
(* of the mail queue.  Every check for a taken e-mail or phone is made     *)
(* before the write it is for; what keeps users apart is the table's       *)
(* unique indexes.                                                         *)
(*                                                                         *)
(* A user, and the job a request adds, are named by that request.  The     *)
(* sessions that an admin's update and a deletion end are in AuthSessions. *)
(***************************************************************************)
EXTENDS Naturals

CONSTANTS
    Registrations,  \* POST /auth/register
    Others,         \* any other request, see Kind
    Forms,          \* what they ask for: [username, email, phone]
    None,           \* no user, no form, no phone
    MaxAttempts,    \* attempts of a mail job
    MaxFaults       \* bound: awaits that reject, processes that stop

Requests == Registrations \cup Others

(* The columns a rule depends on. *)
Rows ==
    [username : {f.username : f \in Forms}, email : {f.email : f \in Forms},
     phone : {f.phone : f \in Forms}, isActive : BOOLEAN]

ASSUME AccountsAssumption ==
    /\ Registrations \cap Others = {}
    /\ None \notin Requests \cup Forms \cup Rows
    /\ MaxAttempts \in Nat \ {0}
    /\ MaxFaults \in Nat

(* The handlers the other requests run. *)
Kind == {"resendActivation", "activateAccount", "updateProfile", "deleteAccount",
         "adminActivate", "adminDeactivate"}

VARIABLES
    kind,      \* what each of the other requests asks for
    users,     \* the rows of the users table
    account,   \* username, email, phone and isActive of each row
    pc,        \* next await of each request, or its answer
    held,      \* the user a request works for
    wanted,    \* the form a registration or an update comes with
    mail,      \* the job each request added: its state, attemptsMade, stalled
    keys,      \* users whose deduplication key is in Redis
    mailed,    \* users an activation token has been delivered to
    faults     \* awaits that have rejected, processes that have stopped

table   == <<users, account>>
request == <<pc, held, wanted>>
queue   == <<mail, keys, mailed>>
vars    == <<kind, table, request, queue, faults>>

NoJob == [state |-> "none", attempts |-> 0, stalled |-> FALSE]

Init ==
    /\ kind \in [Others -> Kind]
    /\ users = {} /\ account = [r \in Registrations |-> None]
    /\ pc = [p \in Requests |-> "idle"]
    /\ held = [p \in Requests |-> None]
    /\ wanted = [p \in Requests |-> None]
    /\ mail = [p \in Requests |-> NoJob] /\ keys = {} /\ mailed = {}
    /\ faults = 0

Goto(p, next) == pc' = [pc EXCEPT ![p] = next]
Hold(p, u) == held' = [held EXCEPT ![p] = u]
Want(p, data) == wanted' = [wanted EXCEPT ![p] = data]

HasPhone(u, phone) == u \in users /\ account[u].phone = phone

(* Mutant of Taken: no index on the phone. *)
TakenWithoutPhone(f) ==
    \E u \in users : account[u].email = f.email \/ account[u].username = f.username

(* The unique indexes of the table. *)
Taken(f) ==
    \E u \in users :
        account[u].email = f.email \/ account[u].username = f.username \/ HasPhone(u, f.phone)

-----------------------------------------------------------------------------
(* register *)

(* Mutant of AfterCheck: the e-mail goes out before the user is saved. *)
MailsFirst(exists) == IF exists THEN "conflict" ELSE "mail"

AfterCheck(exists) == IF exists THEN "conflict" ELSE "save"

RegisterFind(r) ==
    /\ pc[r] = "idle"
    /\ \E f \in Forms :
         /\ Want(r, f)
         /\ Goto(r, AfterCheck(\E u \in users :
                         account[u].email = f.email \/ HasPhone(u, f.phone)))
    /\ UNCHANGED <<kind, table, held, queue, faults>>

Row(f) == [username |-> f.username, email |-> f.email, phone |-> f.phone, isActive |-> FALSE]

RegisterSave(r) ==
    /\ pc[r] = "save"
    /\ IF Taken(wanted[r])
       THEN Goto(r, "error") /\ UNCHANGED <<table, held>>
       ELSE /\ users' = users \cup {r}
            /\ account' = [account EXCEPT ![r] = Row(wanted[r])]
            /\ Hold(r, r) /\ Goto(r, "mail")
    /\ UNCHANGED <<kind, wanted, queue, faults>>

(* Mutant of KeyOf: the deduplication id is the same for every user. *)
KeyOfAll(u) == Registrations

(* The keys that make an add for the user a no-op. *)
KeyOf(u) == {u}

(* sendActivationEmail: the add of a job, unless a key says that there was *)
(* one a moment ago.                                                        *)
SendMail(p) ==
    /\ pc[p] = "mail"
    /\ IF keys \cap KeyOf(held[p]) # {}
       THEN UNCHANGED <<mail, keys>>
       ELSE /\ mail' = [mail EXCEPT ![p].state = "waiting"]
            /\ keys' = keys \cup {held[p]}
    /\ Goto(p, "done")
    /\ UNCHANGED <<kind, table, held, wanted, mailed, faults>>

register(r) == RegisterFind(r) \/ RegisterSave(r) \/ SendMail(r)

-----------------------------------------------------------------------------
(* resendActivation *)

ResendFind(s) ==
    /\ pc[s] = "idle"
    /\ \E u \in users \cup {None} :
         /\ Hold(s, u)
         /\ IF u = None
            THEN Goto(s, "done")
            ELSE ~account[u].isActive /\ Goto(s, "mail")
    /\ UNCHANGED <<kind, table, wanted, queue, faults>>

resendActivation(s) == ResendFind(s) \/ SendMail(s)

-----------------------------------------------------------------------------
(* activateAccount, with a token that was delivered and is not over.        *)

(* Mutant of TokenUser: the token names its user by the e-mail. *)
TokenUserByEmail(u) == {v \in users : account[v].email = account[u].email}

(* The user a token names. *)
TokenUser(u) == {u} \cap users

ActivateFind(a) ==
    /\ pc[a] = "idle"
    /\ \E token \in mailed :
         \/ \E u \in TokenUser(token) :
              /\ Hold(a, u)
              /\ Goto(a, IF account[u].isActive THEN "done" ELSE "update")
         \/ TokenUser(token) = {} /\ Goto(a, "error") /\ UNCHANGED held
    /\ UNCHANGED <<kind, table, wanted, queue, faults>>

ActivateUpdate(a) ==
    /\ pc[a] = "update"
    /\ account' = [account EXCEPT ![held[a]].isActive = TRUE]
    /\ Goto(a, "done")
    /\ UNCHANGED <<kind, users, held, wanted, queue, faults>>

activateAccount(a) == ActivateFind(a) \/ ActivateUpdate(a)

-----------------------------------------------------------------------------
(* updateProfile, behind JwtStrategy; fields other than the phone touch     *)
(* nothing that is modelled.                                                *)

UpdateAuthenticate(c) ==
    /\ pc[c] = "idle"
    /\ \E u \in users : account[u].isActive /\ Hold(c, u)
    /\ \E f \in Forms : Want(c, f)
    /\ Goto(c, "find")
    /\ UNCHANGED <<kind, table, queue, faults>>

PhoneOfAnother(c) == \E u \in users \ {held[c]} : HasPhone(u, wanted[c].phone)

UpdateFind(c) ==
    /\ pc[c] = "find"
    /\ Goto(c, IF PhoneOfAnother(c) THEN "conflict" ELSE "update")
    /\ UNCHANGED <<kind, table, held, wanted, queue, faults>>

(* An update of a row that is gone affects none. *)
UpdateRow(c) ==
    /\ pc[c] = "update"
    /\ IF held[c] \in users /\ PhoneOfAnother(c)
       THEN Goto(c, "error") /\ UNCHANGED account
       ELSE account' = [account EXCEPT ![held[c]].phone = wanted[c].phone] /\ Goto(c, "read")
    /\ UNCHANGED <<kind, users, held, wanted, queue, faults>>

UpdateRead(c) ==
    /\ pc[c] = "read"
    /\ Goto(c, IF held[c] \in users THEN "done" ELSE "error")
    /\ UNCHANGED <<kind, table, held, wanted, queue, faults>>

updateProfile(c) == UpdateAuthenticate(c) \/ UpdateFind(c) \/ UpdateRow(c) \/ UpdateRead(c)

-----------------------------------------------------------------------------
(* deleteAccount, of which AuthSessions has the rest. *)
deleteAccount(d) ==
    /\ pc[d] = "idle"
    /\ \E u \in users : users' = users \ {u} /\ Hold(d, u)
    /\ Goto(d, "done")
    /\ UNCHANGED <<kind, account, wanted, queue, faults>>

-----------------------------------------------------------------------------
(* adminUpdateUser with isActive, for the id of a row that is or was there.  *)
(* It checks nothing first, and an update of a row that is gone affects none. *)
AdminUpdate(p) ==
    /\ pc[p] = "idle"
    /\ \E u \in {v \in Registrations : account[v] # None} :
         /\ Hold(p, u)
         /\ account' = [account EXCEPT ![u].isActive = (kind[p] = "adminActivate")]
    /\ Goto(p, "read")
    /\ UNCHANGED <<kind, users, wanted, queue, faults>>

adminUpdateUser(p) == AdminUpdate(p) \/ UpdateRead(p)

other(p) ==
    \/ kind[p] = "resendActivation" /\ resendActivation(p)
    \/ kind[p] = "activateAccount" /\ activateAccount(p)
    \/ kind[p] = "updateProfile" /\ updateProfile(p)
    \/ kind[p] = "deleteAccount" /\ deleteAccount(p)
    \/ kind[p] \in {"adminActivate", "adminDeactivate"} /\ adminUpdateUser(p)

-----------------------------------------------------------------------------
(* The mail queue and its worker.  Nobody looks at a job but the worker, so *)
(* that taking it and what the attempt comes to are one step.  The e-mail   *)
(* may be on its way although Mailgun's answer was lost.                    *)

Fault == faults < MaxFaults /\ faults' = faults + 1

Attempt(p, job, arrives) ==
    /\ mail[p].state = "waiting"
    /\ mail' = [mail EXCEPT ![p] = job]
    /\ mailed' = mailed \cup {u \in {held[p]} : arrives}
    /\ UNCHANGED <<kind, table, request, keys>>

MailSent(p) ==
    Attempt(p, [mail[p] EXCEPT !.state = "completed"], TRUE) /\ UNCHANGED faults

(* UnrecoverableError: a 4xx answer other than 429. *)
MailRefused(p) ==
    Attempt(p, [mail[p] EXCEPT !.state = "failed"], FALSE) /\ UNCHANGED faults

Again(attempts) == IF attempts < MaxAttempts THEN "waiting" ELSE "failed"

MailFails(p) ==
    /\ Fault
    /\ \E arrives \in BOOLEAN :
         Attempt(p, [mail[p] EXCEPT !.state = Again(mail[p].attempts + 1), !.attempts = @ + 1],
                 arrives)

(* The worker stops; a job that stalls twice is failed. *)
MailStalls(p) ==
    /\ Fault
    /\ \E arrives \in BOOLEAN :
         Attempt(p, [mail[p] EXCEPT !.state = IF mail[p].stalled THEN "failed" ELSE "waiting",
                                    !.stalled = TRUE], arrives)

process(p) == MailSent(p) \/ MailRefused(p) \/ MailFails(p) \/ MailStalls(p)

(* The ttl of the deduplication. *)
KeyExpires(u) ==
    /\ u \in keys
    /\ keys' = keys \ {u}
    /\ UNCHANGED <<kind, table, request, mail, mailed, faults>>

-----------------------------------------------------------------------------
Answers == {"done", "conflict", "error", "unsent", "stopped"}

(* Mutant of AfterFailure: register does not catch what the e-mail throws. *)
ErrorAlways(p) == "error"

(* register answers with success although the e-mail was not added. *)
AfterFailure(p) == IF p \in Registrations /\ pc[p] = "mail" THEN "unsent" ELSE "error"

(* An await rejects, or the API stops and the request gets no answer. *)
Fails(p) ==
    /\ Fault
    /\ pc[p] \notin Answers \cup {"idle"}
    /\ \E end \in {AfterFailure(p), "stopped"} : Goto(p, end)
    /\ UNCHANGED <<kind, table, held, wanted, queue>>

Next ==
    \/ \E r \in Registrations : register(r) \/ KeyExpires(r)
    \/ \E p \in Others : other(p)
    \/ \E p \in Requests : process(p) \/ Fails(p)

Spec == Init /\ [][Next]_vars

-----------------------------------------------------------------------------
(* The variables stay within their types; whoever got an e-mail has been a   *)
(* user.                                                                     *)
TypeOK ==
    /\ kind \in [Others -> Kind]
    /\ users \subseteq Registrations
    /\ account \in [Registrations -> Rows \cup {None}]
    /\ pc \in [Requests -> Answers \cup {"idle", "save", "mail", "find", "update", "read"}]
    /\ held \in [Requests -> Registrations \cup {None}]
    /\ wanted \in [Requests -> Forms \cup {None}]
    /\ mail \in [Requests -> [state : {"none", "waiting", "completed", "failed"},
                              attempts : 0..MaxAttempts, stalled : BOOLEAN]]
    /\ keys \subseteq Registrations /\ mailed \subseteq Registrations
    /\ \A u \in users \cup keys \cup mailed : account[u] # None
    /\ faults \in 0..MaxFaults

(* Users stay apart, whatever registrations and changes of a phone overlap.  *)
UsersAreDistinct ==
    \A u, v \in users :
        \/ u = v
        \/ /\ account[u].email # account[v].email
           /\ account[u].username # account[v].username
           /\ account[u].phone # account[v].phone

(* A registration answered with an error left no account behind, so that its *)
(* owner may send it again.                                                  *)
RefusedLeavesNoUser ==
    \A r \in Registrations : pc[r] \in {"conflict", "error"} => r \notin users

ActivatedByAdmin(u) ==
    \E p \in Others : kind[p] = "adminActivate" /\ pc[p] # "idle" /\ held[p] = u

(* An account is active only if the owner of its e-mail got a token for this *)
(* very account, not for one that was deleted and registered again, or if an *)
(* admin has activated it.                                                   *)
ActiveHasToken ==
    \A u \in users : account[u].isActive => u \in mailed \/ ActivatedByAdmin(u)

(* Requests whose add of an e-mail was answered. *)
Asked(p) == pc[p] = "done" /\ (p \in Registrations \/ kind[p] = "resendActivation")

(* Who is told that an e-mail comes gets one: it has arrived, a job is there *)
(* that will send it, or a failed job is kept that says why not (for a week). *)
(* An add that was dropped as a duplicate stands on another request's job.   *)
MailIsUnderWay ==
    \A p \in Requests :
        Asked(p) /\ held[p] # None =>
            \/ held[p] \in mailed
            \/ \E q \in Requests : held[q] = held[p] /\ mail[q].state \in {"waiting", "failed"}
=============================================================================
