------------------------------ MODULE Accounts ------------------------------
(***************************************************************************)
(* The users table and everything that writes it: AuthService.register,    *)
(* UsersService (profile, e-mail change, password, deletion) and           *)
(* AccountService (e-mail verification, e-mail change, password reset),    *)
(* with the tokens these mail out and the events in between.               *)
(*                                                                         *)
(* An action is one statement with the synchronous code after it; hashing  *)
(* is part of the step before it.  Users are loaded, changed and saved as  *)
(* whole rows; a row is the fields whose loss matters, the profile fields  *)
(* are left out.  The sessions that a credential change revokes are in     *)
(* Sessions (CredentialChanged, RevokeAll).                                *)
(***************************************************************************)
EXTENDS FiniteSets

CONSTANTS
    User,       \* user ids, each given out by one registration
    Email,      \* e-mail addresses, in lower case
    Password,   \* passwords; a hash tells them apart
    Token,      \* bound: the tokens ever issued
    Req,        \* slots for handlers in flight
    Forms,      \* bound: the registrations made
    Calls,      \* bound: the other calls made, by slot
    None        \* SQL NULL, no row

Purpose == {"email_verify", "email_change", "password_reset"}

ASSUME AccountsAssumption ==
    /\ None \notin Email \cup Password \cup User \cup Token
    /\ Forms \subseteq Req \X User \X Email \X Password
    /\ Calls \subseteq Req \X (Purpose \cup {"redeem", "profile", "password",
                                           "remove", "listen"}) \X User

VARIABLES
    user,       \* table `users`
    token,      \* tables `verification_tokens` and `password_reset_tokens`
    stash,      \* Redis email-change:<hash>: the new address, by token
    mailed,     \* addresses the links were enqueued for, by token
    events,     \* events emitted, their listeners not yet run
    req         \* handlers in flight

\* History, read by the properties and by nothing else.
VARIABLES
    born,       \* user ids and tokens given out
    stale,      \* handlers whose loaded row was saved or removed meanwhile
    proven,     \* <<user, address>>: a link sent to the address was redeemed
    spent,      \* tokens that took effect
    excused     \* tokens redeemed twice at a time, or by a handler that died

acctVars == <<user, token, stash, mailed, events, req,
              born, stale, proven, spent, excused>>

-----------------------------------------------------------------------------
UserRow == [email : Email, verified : BOOLEAN, password : Password \cup {None}]
TokenRow == [u : User, purpose : Purpose, state : {"fresh", "used", "expired"}]
Event == ({"registered"} \X User) \cup ({"change"} \X Token \X Email)

Handler ==
         [pc : {"idle"}]
    \cup [pc : {"insert"}, u : User, row : UserRow]
    \cup [pc : {"taken?", "issue"}, purpose : Purpose, u : User, e : Email]
    \cup [pc : {"stash", "mail"}, k : Token, e : Email]
    \cup [pc : {"markUsed", "loadUser"}, k : Token, u : User,
            purpose : Purpose \ {"email_change"}, e : {None}]
    \cup [pc : {"markUsed", "getNew"}, k : Token, u : User, purpose : {"email_change"}, e : {None}]
    \cup [pc : {"delNew", "loadUser"}, k : Token, u : User, purpose : {"email_change"}, e : Email]
    \cup [pc : {"markReset"}, k : Token, u : User]
    \cup [pc : {"free?"}, k : Token, e : Email, u : User, row : UserRow]
    \cup [pc : {"saveUser"}, for : {"profile", "password"}, k : {None}, u : User, row : UserRow]
    \cup [pc : {"saveUser"}, for : Purpose, k : Token, u : User, row : UserRow]
    \cup [pc : {"remove"}, u : User]

Idle == [pc |-> "idle"]
Goto(r, h) == req' = [req EXCEPT ![r] = h]
EmailFree(u, e) == \A v \in User \ {u} : user[v] # None => user[v].email # e
Known(e) == \E u \in User : user[u] # None /\ user[u].email = e

\* Handlers that carry a loaded row of u.
Holders(u) == {r \in Req : req[r].pc \in {"free?", "saveUser"} /\ req[r].u = u}

Init ==
    /\ user = [u \in User |-> None]
    /\ token = [k \in Token |-> None]
    /\ stash = [k \in Token |-> None]
    /\ mailed = [k \in Token |-> None]
    /\ events = {}
    /\ req = [r \in Req |-> Idle]
    /\ born = {} /\ stale = {} /\ proven = {} /\ spent = {} /\ excused = {}

tables == <<user, token, stash, mailed, events>>
history == <<born, stale, proven, spent, excused>>

-----------------------------------------------------------------------------
(***************************************************************************)
(* register                                                                *)
(***************************************************************************)

\* register: users.exist, and the hash.
Register(r, u, e, p) ==
    /\ req[r] = Idle
    /\ u \notin born
    /\ ~Known(e)                                    \* else 409 email_taken
    /\ Goto(r, [pc |-> "insert", u |-> u,
                row |-> [email |-> e, verified |-> FALSE, password |-> p]])
    /\ born' = born \cup {u}
    /\ UNCHANGED <<tables, stale, proven, spent, excused>>

\* register: users.save, refused if the address was taken meanwhile; then
\* the event.  The session it goes on to issue is in Sessions.
Insert(r) ==
    LET h == req[r] IN
    /\ h.pc = "insert"
    /\ EmailFree(h.u, h.row.email)
    /\ user' = [user EXCEPT ![h.u] = h.row]
    /\ events' = events \cup {<<"registered", h.u>>}
    /\ Goto(r, Idle)
    /\ UNCHANGED <<token, stash, mailed, history>>

-----------------------------------------------------------------------------
(***************************************************************************)
(* Issuing tokens                                                          *)
(***************************************************************************)

\* requestEmailVerification, called by the user or by the listener of
\* user.registered: users.findOne; verified already is the answer.
RequestVerification(r, u) ==
    /\ req[r] = Idle
    /\ user[u] # None
    /\ Goto(r, IF user[u].verified THEN Idle
               ELSE [pc |-> "issue", purpose |-> "email_verify", u |-> u,
                     e |-> user[u].email])
    /\ UNCHANGED <<tables, history>>

\* requestPasswordReset: users.findOne by address; silent for accounts
\* without a password.
RequestReset(r, u) ==
    /\ req[r] = Idle
    /\ user[u] # None
    /\ user[u].password # None
    /\ Goto(r, [pc |-> "issue", purpose |-> "password_reset", u |-> u, e |-> user[u].email])
    /\ UNCHANGED <<tables, history>>

\* requestEmailChange: users.findOne; the same address is a 400.
RequestChange(r, u, e) ==
    /\ req[r] = Idle
    /\ user[u] # None /\ user[u].email # e
    /\ Goto(r, [pc |-> "taken?", purpose |-> "email_change", u |-> u, e |-> e])
    /\ UNCHANGED <<tables, history>>

\* requestEmailChange: users.exist.
CheckTaken(r) ==
    /\ req[r].pc = "taken?"
    /\ Goto(r, IF Known(req[r].e) THEN Idle ELSE [req[r] EXCEPT !.pc = "issue"])
    /\ UNCHANGED <<tables, history>>

\* issueVerification, requestEmailChange, requestPasswordReset: the save of
\* a fresh token, refused if the user is gone.
Issue(r) ==
    LET h == req[r] IN
    /\ h.pc = "issue"
    /\ user[h.u] # None
    /\ \E k \in Token :
        /\ k \notin born
        /\ born' = born \cup {k}
        /\ token' = [token EXCEPT ![k] = [u |-> h.u, purpose |-> h.purpose, state |-> "fresh"]]
        /\ Goto(r, [pc |-> IF h.purpose = "email_change" THEN "stash" ELSE "mail",
                    k |-> k, e |-> h.e])
    /\ UNCHANGED <<user, stash, mailed, events, stale, proven, spent, excused>>

\* requestEmailChange: redis.set of the new address; then the event.
Stash(r) ==
    LET h == req[r] IN
    /\ h.pc = "stash"
    /\ stash' = [stash EXCEPT ![h.k] = h.e]
    /\ events' = events \cup {<<"change", h.k, h.e>>}
    /\ Goto(r, Idle)
    /\ UNCHANGED <<user, token, mailed, history>>

\* queue.enqueueMail to the address of the user row loaded at the start.
EnqueueMail(r) ==
    LET h == req[r] IN
    /\ h.pc = "mail"
    /\ mailed' = [mailed EXCEPT ![h.k] = h.e]
    /\ Goto(r, Idle)
    /\ UNCHANGED <<user, token, stash, events, history>>

\* AccountListener: user.registered asks for a verification mail.
OnRegistered(r, u) ==
    /\ <<"registered", u>> \in events
    /\ events' = events \ {<<"registered", u>>}
    /\ req[r] = Idle
    /\ Goto(r, IF user[u] = None \/ user[u].verified THEN Idle
               ELSE [pc |-> "issue", purpose |-> "email_verify", u |-> u,
                     e |-> user[u].email])
    /\ UNCHANGED <<user, token, stash, mailed, history>>

\* Mutation: the link goes to the address the account has.
OnChangeRequestedOld(k, e) ==
    /\ <<"change", k, e>> \in events
    /\ token[k] # None
    /\ events' = events \ {<<"change", k, e>>}
    /\ mailed' = [mailed EXCEPT ![k] = user[token[k].u].email]
    /\ UNCHANGED <<user, token, stash, req, history>>

\* AccountListener: user.email_change_requested enqueues the mail to the new
\* address (dispatchEmailChangeMail).
OnChangeRequested(k, e) ==
    /\ <<"change", k, e>> \in events
    /\ events' = events \ {<<"change", k, e>>}
    /\ mailed' = [mailed EXCEPT ![k] = e]
    /\ UNCHANGED <<user, token, stash, req, history>>

\* The listener's error is only logged, or the process dies.
LoseEvent(ev) ==
    /\ ev \in events
    /\ events' = events \ {ev}
    /\ UNCHANGED <<user, token, stash, mailed, req, history>>

-----------------------------------------------------------------------------
(***************************************************************************)
(* Redeeming tokens                                                        *)
(***************************************************************************)

Redeeming(k) ==
    {r \in Req : /\ req[r].pc \in {"markUsed", "getNew", "markReset", "delNew", "loadUser",
                                   "free?", "saveUser"}
                 /\ req[r].k = k}

\* Mutation: the used mark is not looked at.
RedeemableUsed(k) == token[k] # None /\ token[k].state # "expired"
\* redeemVerification, resetPassword: the checks of the row found.
Redeemable(k) == token[k] # None /\ token[k].state = "fresh"

\* The owner of the mailbox opens the link: the token's row is found.
Redeem(r, k) ==
    /\ req[r] = Idle
    /\ mailed[k] # None
    /\ Redeemable(k)                                \* else 400 or 401
    /\ Goto(r, [pc |-> IF token[k].purpose = "password_reset" THEN "loadUser" ELSE "markUsed",
                k |-> k, u |-> token[k].u, purpose |-> token[k].purpose, e |-> None])
    /\ proven' = proven \cup {<<token[k].u, mailed[k]>>}
    /\ excused' = IF Redeeming(k) = {} THEN excused ELSE excused \cup {k}
    /\ UNCHANGED <<tables, born, stale, spent>>

\* redeemVerification: the save of the used row, inserted again if a removal
\* of the user took it; refused if the user is gone.
MarkUsed(r) ==
    LET h == req[r] IN
    /\ h.pc = "markUsed"
    /\ user[h.u] # None
    /\ token' = [token EXCEPT ![h.k] = [u |-> h.u, purpose |-> h.purpose, state |-> "used"]]
    /\ Goto(r, [h EXCEPT !.pc = IF h.purpose = "email_change" THEN "getNew" ELSE "loadUser"])
    /\ UNCHANGED <<user, stash, mailed, events, history>>

WithNew(h) ==
    [pc |-> "delNew", k |-> h.k, u |-> h.u, purpose |-> h.purpose, e |-> stash[h.k]]

\* Mutation: an address that Redis no longer holds is not refused.
GetNewUnchecked(r) ==
    /\ req[r].pc = "getNew"
    /\ Goto(r, WithNew(req[r]))
    /\ UNCHANGED <<tables, history>>

\* confirmEmailChange: redis.get, or 401.
GetNew(r) ==
    /\ req[r].pc = "getNew"
    /\ Goto(r, IF stash[req[r].k] = None THEN Idle ELSE WithNew(req[r]))
    /\ UNCHANGED <<tables, history>>

\* confirmEmailChange: redis.del.
DelNew(r) ==
    /\ req[r].pc = "delNew"
    /\ stash' = [stash EXCEPT ![req[r].k] = None]
    /\ Goto(r, [req[r] EXCEPT !.pc = "loadUser"])
    /\ UNCHANGED <<user, token, mailed, events, history>>

\* confirmEmailVerification, confirmEmailChange, resetPassword:
\* users.findOne, and the change to the loaded row.
LoadUser(r) ==
    LET h == req[r]
        row == user[h.u]
        Save(new) == [pc |-> "saveUser", for |-> h.purpose, k |-> h.k, u |-> h.u, row |-> new]
    IN
    /\ h.pc = "loadUser"
    /\ row # None                                   \* else 401
    /\ CASE h.purpose = "email_verify" ->
              Goto(r, IF row.verified THEN Idle ELSE Save([row EXCEPT !.verified = TRUE]))
         [] h.purpose = "email_change" ->
              Goto(r, [pc |-> "free?", k |-> h.k, e |-> h.e, u |-> h.u, row |-> row])
         [] h.purpose = "password_reset" ->
              \E p \in Password : Goto(r, Save([row EXCEPT !.password = p]))
    /\ UNCHANGED <<tables, history>>

NewAddress(row, e) == [row EXCEPT !.email = e, !.verified = TRUE]

\* confirmEmailChange: users.exist; taken by another account is a 409, with
\* the token used up.
CheckFree(r) ==
    LET h == req[r] IN
    /\ h.pc = "free?"
    /\ Goto(r, IF Known(h.e) /\ h.row.email # h.e THEN Idle
               ELSE [pc |-> "saveUser", for |-> "email_change", k |-> h.k, u |-> h.u,
                     row |-> NewAddress(h.row, h.e)])
    /\ stale' = IF Known(h.e) /\ h.row.email # h.e THEN stale \ {r} ELSE stale
    /\ UNCHANGED <<tables, born, proven, spent, excused>>

\* resetPassword: the save of the used row, after the new password is stored.
MarkReset(r) ==
    LET h == req[r] IN
    /\ h.pc = "markReset"
    /\ user[h.u] # None
    /\ token' = [token EXCEPT ![h.k] = [u |-> h.u, purpose |-> "password_reset", state |-> "used"]]
    /\ Goto(r, Idle)
    /\ UNCHANGED <<user, stash, mailed, events, history>>

-----------------------------------------------------------------------------
(***************************************************************************)
(* The users table                                                         *)
(***************************************************************************)

\* updateProfile: users.findOne.
UpdateProfile(r, u) ==
    /\ req[r] = Idle
    /\ user[u] # None
    /\ Goto(r, [pc |-> "saveUser", for |-> "profile", k |-> None, u |-> u, row |-> user[u]])
    /\ UNCHANGED <<tables, history>>

\* changePassword: users.findOne; the current password is verified, so an
\* account has one.
ChangePassword(r, u, p) ==
    /\ req[r] = Idle
    /\ user[u] # None /\ user[u].password # None
    /\ Goto(r, [pc |-> "saveUser", for |-> "password", k |-> None, u |-> u,
                row |-> [user[u] EXCEPT !.password = p]])
    /\ UNCHANGED <<tables, history>>

\* deleteAccount: users.findOne; the password is verified.
DeleteAccount(r, u) ==
    /\ req[r] = Idle
    /\ user[u] # None /\ user[u].password # None
    /\ Goto(r, [pc |-> "remove", u |-> u])
    /\ UNCHANGED <<tables, history>>

\* Mutation: a save takes the verification back.
SavedBlank(h) == [h.row EXCEPT !.verified = FALSE]
\* The row save writes: the loaded one, every column of it.
Saved(h) == h.row

\* users.save of a loaded and changed row; it inserts the row again if it was
\* removed meanwhile.  Other handlers with a loaded row are stale then.
SaveUser(r) ==
    LET h == req[r] IN
    /\ h.pc = "saveUser"
    /\ EmailFree(h.u, h.row.email)
    /\ user' = [user EXCEPT ![h.u] = Saved(h)]
    /\ stale' = (stale \cup Holders(h.u)) \ {r}
    /\ spent' = spent \cup ({h.k} \ {None})
    /\ Goto(r, IF h.for = "password_reset" THEN [pc |-> "markReset", k |-> h.k, u |-> h.u] ELSE Idle)
    /\ UNCHANGED <<token, stash, mailed, events, born, proven, excused>>

\* deleteAccount: users.remove; the cascade takes the user's tokens.
RemoveUser(r) ==
    LET u == req[r].u IN
    /\ req[r].pc = "remove"
    /\ user' = [user EXCEPT ![u] = None]
    /\ token' = [k \in Token |-> IF token[k] # None /\ token[k].u = u THEN None ELSE token[k]]
    /\ stale' = stale \cup Holders(u)
    /\ Goto(r, Idle)
    /\ UNCHANGED <<stash, mailed, events, born, proven, spent, excused>>

\* A handler ends with an error (a refused save, a missing user), a statement
\* that fails, or the death of the process.
Abort(r) ==
    LET h == req[r] IN
    /\ h # Idle
    /\ Goto(r, Idle)
    /\ stale' = stale \ {r}
    /\ excused' = IF h.pc = "markReset" THEN excused \cup {h.k} ELSE excused
    /\ UNCHANGED <<tables, born, proven, spent>>

\* The time of a token passes; that of a used one makes no difference.
Expire(k) ==
    /\ token[k] # None /\ token[k].state = "fresh"
    /\ token' = [token EXCEPT ![k].state = "expired"]
    /\ UNCHANGED <<user, stash, mailed, events, req, history>>

\* So does the time of its Redis entry.
ExpireStash(k) ==
    /\ stash[k] # None
    /\ stash' = [stash EXCEPT ![k] = None]
    /\ UNCHANGED <<user, token, mailed, events, req, history>>

-----------------------------------------------------------------------------
Arrive(r) ==
    \E u \in User :
        \/ \E e \in Email, p \in Password : <<r, u, e, p>> \in Forms /\ Register(r, u, e, p)
        \/ <<r, "email_verify", u>> \in Calls /\ RequestVerification(r, u)
        \/ <<r, "password_reset", u>> \in Calls /\ RequestReset(r, u)
        \/ <<r, "email_change", u>> \in Calls /\ \E e \in Email : RequestChange(r, u, e)
        \/ <<r, "listen", u>> \in Calls /\ OnRegistered(r, u)
        \/ /\ <<r, "redeem", u>> \in Calls
           /\ \E k \in Token : token[k] # None /\ token[k].u = u /\ Redeem(r, k)
        \/ <<r, "profile", u>> \in Calls /\ UpdateProfile(r, u)
        \/ <<r, "password", u>> \in Calls /\ \E p \in Password : ChangePassword(r, u, p)
        \/ <<r, "remove", u>> \in Calls /\ DeleteAccount(r, u)

Continue(r) ==
    \/ Insert(r)
    \/ CheckTaken(r) \/ Issue(r) \/ Stash(r) \/ EnqueueMail(r)
    \/ MarkUsed(r) \/ GetNew(r) \/ DelNew(r) \/ LoadUser(r) \/ CheckFree(r) \/ MarkReset(r)
    \/ SaveUser(r) \/ RemoveUser(r)
    \/ Abort(r)

Next ==
    \/ \E r \in Req : Arrive(r) \/ Continue(r)
    \/ \E k \in Token : Expire(k) \/ ExpireStash(k) \/ \E e \in Email : OnChangeRequested(k, e)
    \/ \E ev \in events : LoseEvent(ev)

Spec == Init /\ [][Next]_acctVars

-----------------------------------------------------------------------------
(***************************************************************************)
(* Properties                                                              *)
(***************************************************************************)

TypeOK ==
    /\ user \in [User -> UserRow \cup {None}]
    /\ token \in [Token -> TokenRow \cup {None}]
    /\ stash \in [Token -> Email \cup {None}] /\ mailed \in [Token -> Email \cup {None}]
    /\ events \subseteq Event
    /\ req \in [Req -> Handler]
    /\ born \subseteq User \cup Token /\ stale \subseteq Req
    /\ proven \subseteq User \X Email
    /\ spent \subseteq Token /\ excused \subseteq Token

\* What an operation may make of the stored row old, given the row it saves;
\* a row that was removed stays removed.
Intended(for, old, new) ==
    CASE old = None -> None
      [] for = "profile" -> old
      [] for \in {"password", "password_reset"} -> [old EXCEPT !.password = new.password]
      [] for = "email_verify" -> [old EXCEPT !.verified = TRUE]
      [] for = "email_change" -> NewAddress(old, new.email)

\* A save of a user row changes no more than its operation is about - it puts
\* back no older password or address, takes back no verification and brings
\* back no deleted account - unless the row was saved or removed between the
\* handler's load and its save (updateProfile 60-71, changePassword 129-148,
\* deleteAccount 155-170, the confirms of account.service.ts).
NoLostUpdate ==
    [][\A r \in Req :
         LET h == req[r] IN
         h.pc = "saveUser" /\ req'[r].pc # "saveUser" /\ user' # user =>
            r \in stale \/ user'[h.u] = Intended(h.for, user[h.u], h.row)]_acctVars

\* An address counts as verified only if a link mailed to that very address
\* was opened for that account, whatever changes, stale saves and late links
\* come together: nothing in the row or the token ties the mark to the
\* address (confirmEmailVerification 82-95, confirmEmailChange 117-147).
VerifiedEmailProven ==
    \A u \in User :
        user[u] # None /\ user[u].verified => <<u, user[u].email>> \in proven

\* A link takes effect twice only if two handlers redeemed it at once or one
\* died after a reset and before it marked the token (redeemVerification
\* 261-288, resetPassword 194-231).
TokenOnce ==
    [][\A r \in Req :
         LET h == req[r] IN
         h.pc = "saveUser" /\ h.k \in spent /\ user' # user /\ req'[r].pc # "saveUser" =>
            h.k \in excused]_acctVars
=============================================================================
