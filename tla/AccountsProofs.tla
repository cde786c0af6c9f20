--------------------------- MODULE AccountsProofs ---------------------------
(***************************************************************************)
(* Theorems about Accounts for any users, addresses, tokens and handlers:  *)
(* its typing, that no save of a user row undoes more than a row saved     *)
(* under it, that an address counts as verified only if its mailbox was    *)
(* shown, and that a link takes effect once.                               *)
(***************************************************************************)
EXTENDS Accounts, TLAPS

-----------------------------------------------------------------------------
\* What the program counter of a handler says about the fields it carries.
LEMMA HandlerFields ==
    ASSUME NEW h \in Handler
    PROVE  /\ h.pc \in {"insert", "taken?", "issue", "markUsed", "getNew", "delNew", "loadUser",
                        "markReset", "free?", "saveUser", "remove"} => h.u \in User
           /\ h.pc \in {"insert", "free?", "saveUser"} => h.row \in UserRow
           /\ h.pc \in {"taken?", "issue", "stash", "mail", "free?"} => h.e \in Email
           /\ h.pc \in {"taken?", "issue", "markUsed", "getNew", "delNew", "loadUser"} =>
                h.purpose \in Purpose
           /\ h.pc \in {"getNew", "delNew"} => h.purpose = "email_change"
           /\ h.pc \in {"stash", "mail", "markUsed", "getNew", "delNew", "loadUser", "markReset",
                        "free?"} => h.k \in Token
           /\ h.pc \in {"markUsed", "getNew"} => h.e = None
           /\ h.pc = "delNew" => h.e \in Email
           /\ h.pc = "loadUser" => IF h.purpose = "email_change" THEN h.e \in Email ELSE h.e = None
           /\ h.pc = "saveUser" =>
                \/ h.for \in {"profile", "password"} /\ h.k = None
                \/ h.for \in Purpose /\ h.k \in Token
  BY DEF Handler, Purpose

\* The handler records that the steps make.
LEMMA HandlerMade ==
    /\ Idle \in Handler /\ Idle.pc = "idle"
    /\ \A u \in User, row \in UserRow : [pc |-> "insert", u |-> u, row |-> row] \in Handler
    /\ \A pc \in {"taken?", "issue"}, p \in Purpose, u \in User, e \in Email :
            [pc |-> pc, purpose |-> p, u |-> u, e |-> e] \in Handler
    /\ \A pc \in {"stash", "mail"}, k \in Token, e \in Email :
            [pc |-> pc, k |-> k, e |-> e] \in Handler
    /\ \A k \in Token, u \in User, p \in Purpose :
            /\ [pc |-> "markUsed", k |-> k, u |-> u, purpose |-> p, e |-> None] \in Handler
            /\ p # "email_change" =>
                [pc |-> "loadUser", k |-> k, u |-> u, purpose |-> p, e |-> None] \in Handler
    /\ \A k \in Token, u \in User :
            [pc |-> "getNew", k |-> k, u |-> u, purpose |-> "email_change", e |-> None] \in Handler
    /\ \A pc \in {"delNew", "loadUser"}, k \in Token, u \in User, e \in Email :
            [pc |-> pc, k |-> k, u |-> u, purpose |-> "email_change", e |-> e] \in Handler
    /\ \A k \in Token, u \in User : [pc |-> "markReset", k |-> k, u |-> u] \in Handler
    /\ \A k \in Token, e \in Email, u \in User, row \in UserRow :
            [pc |-> "free?", k |-> k, e |-> e, u |-> u, row |-> row] \in Handler
    /\ \A w \in {"profile", "password"}, u \in User, row \in UserRow :
            [pc |-> "saveUser", for |-> w, k |-> None, u |-> u, row |-> row] \in Handler
    /\ \A p \in Purpose, k \in Token, u \in User, row \in UserRow :
            [pc |-> "saveUser", for |-> p, k |-> k, u |-> u, row |-> row] \in Handler
    /\ \A u \in User : [pc |-> "remove", u |-> u] \in Handler
<1>1. \A k \in Token, u \in User, p \in Purpose :
            [pc |-> "markUsed", k |-> k, u |-> u, purpose |-> p, e |-> None] \in Handler
  <2> SUFFICES ASSUME NEW k \in Token, NEW u \in User, NEW p \in Purpose
               PROVE  [pc |-> "markUsed", k |-> k, u |-> u, purpose |-> p, e |-> None] \in Handler
    OBVIOUS
  <2>1. CASE p = "email_change"
    BY <2>1 DEF Handler
  <2>2. CASE p # "email_change"
    BY <2>2 DEF Handler
  <2> QED
    BY <2>1, <2>2
<1> QED
  BY <1>1 DEF Handler, Idle

\* A handler that moves on keeps its fields, but for an address it reads.
LEMMA CheckTakenMoved ==
    ASSUME NEW h \in Handler, h.pc = "taken?"
    PROVE  /\ [h EXCEPT !.pc = "issue"] =
                    [pc |-> "issue", purpose |-> h.purpose, u |-> h.u, e |-> h.e]
           /\ [h EXCEPT !.pc = "issue"] \in Handler
<1>1. h \in [pc : {"taken?", "issue"}, purpose : Purpose, u : User, e : Email]
  BY DEF Handler
<1>2. [h EXCEPT !.pc = "issue"] = [pc |-> "issue", purpose |-> h.purpose, u |-> h.u, e |-> h.e]
  BY <1>1
<1> QED
  BY <1>1, <1>2, HandlerMade

LEMMA MarkUsedMoved ==
    ASSUME NEW h \in Handler, h.pc = "markUsed"
    PROVE  LET pc == IF h.purpose = "email_change" THEN "getNew" ELSE "loadUser" IN
           /\ [h EXCEPT !.pc = pc] =
                    [pc |-> pc, k |-> h.k, u |-> h.u, purpose |-> h.purpose, e |-> None]
           /\ [h EXCEPT !.pc = pc] \in Handler
<1> DEFINE pc == IF h.purpose = "email_change" THEN "getNew" ELSE "loadUser"
<1>1. h \in [pc : {"markUsed", "getNew", "loadUser"}, k : Token, u : User, purpose : Purpose,
             e : {None}]
  BY DEF Handler, Purpose
<1>2. [h EXCEPT !.pc = pc] = [pc |-> pc, k |-> h.k, u |-> h.u, purpose |-> h.purpose, e |-> None]
  BY <1>1
<1>3. CASE h.purpose = "email_change"
  BY <1>1, <1>2, <1>3, HandlerMade
<1>4. CASE h.purpose # "email_change"
  BY <1>1, <1>2, <1>4, HandlerMade
<1> QED
  BY <1>2, <1>3, <1>4

LEMMA DelNewMoved ==
    ASSUME NEW h \in Handler, h.pc = "delNew"
    PROVE  /\ [h EXCEPT !.pc = "loadUser"] =
                    [pc |-> "loadUser", k |-> h.k, u |-> h.u, purpose |-> "email_change", e |-> h.e]
           /\ [h EXCEPT !.pc = "loadUser"] \in Handler
<1>1. h \in [pc : {"delNew", "loadUser"}, k : Token, u : User, purpose : {"email_change"}, e : Email]
  BY DEF Handler
<1>2. [h EXCEPT !.pc = "loadUser"] =
            [pc |-> "loadUser", k |-> h.k, u |-> h.u, purpose |-> "email_change", e |-> h.e]
  BY <1>1
<1> QED
  BY <1>1, <1>2, HandlerMade

\* Setting the columns an operation is about leaves a user row.
LEMMA RowMade ==
    ASSUME NEW row \in UserRow
    PROVE  /\ [row EXCEPT !.verified = TRUE] \in UserRow
           /\ \A p \in Password : [row EXCEPT !.password = p] \in UserRow
           /\ \A e \in Email : /\ NewAddress(row, e) \in UserRow
                              /\ NewAddress(row, e).email = e /\ NewAddress(row, e).verified
  BY DEF UserRow, NewAddress

\* A handler's step leaves the other handlers alone.
LEMMA GotoEffect ==
    ASSUME TypeOK, NEW r \in Req, NEW h \in Handler, Goto(r, h)
    PROVE  /\ req' \in [Req -> Handler]
           /\ req'[r] = h
           /\ \A q \in Req : q # r => req'[q] = req[q]
  BY DEF TypeOK, Goto

\* Where a confirmation goes on to after it loaded the user, and after it
\* found the address free.
LEMMA LoadUserGoes ==
    ASSUME TypeOK, NEW r \in Req, LoadUser(r)
    PROVE  \E g \in Handler :
            /\ Goto(r, g)
            /\ \/ g = Idle
               \/ g.pc = "free?" /\ g.k = req[r].k /\ g.u = req[r].u /\ g.e = req[r].e
                  /\ g.row = user[req[r].u] /\ req[r].purpose = "email_change"
               \/ /\ g.pc = "saveUser" /\ g.for = req[r].purpose /\ g.k = req[r].k
                  /\ g.u = req[r].u
                  /\ \/ g.for = "email_verify" /\ ~user[req[r].u].verified
                        /\ g.row = [user[req[r].u] EXCEPT !.verified = TRUE]
                     \/ g.for = "password_reset" /\ \E p \in Password :
                            g.row = [user[req[r].u] EXCEPT !.password = p]
<1> DEFINE h == req[r]
<1>0. h \in Handler
  BY DEF TypeOK
<1>1. /\ h.pc = "loadUser" /\ h.k \in Token /\ h.u \in User /\ h.purpose \in Purpose
      /\ user[h.u] \in UserRow
      /\ IF h.purpose = "email_change" THEN h.e \in Email ELSE h.e = None
  BY <1>0, HandlerFields DEF LoadUser, TypeOK
<1>2. CASE h.purpose = "email_verify"
  <2>1. CASE user[h.u].verified
    BY <1>1, <1>2, <2>1, HandlerMade DEF LoadUser
  <2>2. CASE ~user[h.u].verified
    <3> DEFINE g == [pc |-> "saveUser", for |-> h.purpose, k |-> h.k, u |-> h.u,
                     row |-> [user[h.u] EXCEPT !.verified = TRUE]]
    <3>1. Goto(r, g) /\ g \in Handler
      BY <1>1, <1>2, <2>2, HandlerMade, RowMade DEF LoadUser
    <3> QED
      BY <1>2, <2>2, <3>1
  <2> QED
    BY <2>1, <2>2
<1>3. CASE h.purpose = "email_change"
  <2> DEFINE g == [pc |-> "free?", k |-> h.k, e |-> h.e, u |-> h.u, row |-> user[h.u]]
  <2>1. Goto(r, g) /\ g \in Handler
    BY <1>1, <1>3, HandlerMade DEF LoadUser
  <2> QED
    BY <1>3, <2>1
<1>4. CASE h.purpose = "password_reset"
  <2>1. PICK p \in Password :
            Goto(r, [pc |-> "saveUser", for |-> h.purpose, k |-> h.k, u |-> h.u,
                     row |-> [user[h.u] EXCEPT !.password = p]])
    BY <1>4 DEF LoadUser
  <2> DEFINE g == [pc |-> "saveUser", for |-> h.purpose, k |-> h.k, u |-> h.u,
                   row |-> [user[h.u] EXCEPT !.password = p]]
  <2>2. g \in Handler
    BY <1>1, HandlerMade, RowMade
  <2> QED
    BY <1>4, <2>1, <2>2
<1> QED
  BY <1>1, <1>2, <1>3, <1>4 DEF Purpose

LEMMA CheckFreeGoes ==
    ASSUME TypeOK, NEW r \in Req, CheckFree(r)
    PROVE  \E g \in Handler :
            /\ Goto(r, g)
            /\ \/ g = Idle
               \/ /\ g.pc = "saveUser" /\ g.for = "email_change" /\ g.k = req[r].k
                  /\ g.u = req[r].u /\ stale' = stale
                  /\ g.row = NewAddress(req[r].row, req[r].e)
<1> DEFINE h == req[r]
<1>1. /\ h.k \in Token /\ h.u \in User /\ h.e \in Email /\ h.row \in UserRow
      /\ "email_change" \in Purpose
  BY HandlerFields DEF CheckFree, Purpose, TypeOK
<1>2. CASE Known(h.e) /\ h.row.email # h.e
  BY <1>2, HandlerMade DEF CheckFree
<1>3. CASE ~(Known(h.e) /\ h.row.email # h.e)
  <2> DEFINE g == [pc |-> "saveUser", for |-> "email_change", k |-> h.k, u |-> h.u,
                   row |-> NewAddress(h.row, h.e)]
  <2>1. Goto(r, g) /\ g \in Handler /\ stale' = stale
    BY <1>1, <1>3, HandlerMade, RowMade DEF CheckFree
  <2> QED
    BY <2>1
<1> QED
  BY <1>2, <1>3

LEMMA GetNewGoes ==
    ASSUME TypeOK, NEW r \in Req, GetNew(r)
    PROVE  \E g \in Handler :
            /\ Goto(r, g)
            /\ \/ g = Idle
               \/ /\ g.pc = "delNew" /\ g.k = req[r].k /\ g.u = req[r].u
                  /\ g.purpose = "email_change" /\ g.e = stash[g.k] /\ g.e # None
<1>1. /\ req[r].k \in Token /\ req[r].u \in User /\ req[r].purpose = "email_change"
      /\ stash[req[r].k] \in Email \cup {None}
  BY HandlerFields DEF GetNew, TypeOK
<1>2. CASE stash[req[r].k] = None
  BY <1>2, HandlerMade DEF GetNew
<1>3. CASE stash[req[r].k] # None
  <2>1. Goto(r, WithNew(req[r])) /\ WithNew(req[r]) \in Handler
    BY <1>1, <1>3, HandlerMade DEF GetNew, WithNew
  <2> QED
    BY <1>1, <1>3, <2>1 DEF WithNew
<1> QED
  BY <1>2, <1>3

LEMMA SaveUserGoes ==
    ASSUME TypeOK, NEW r \in Req, SaveUser(r)
    PROVE  \E g \in Handler :
            /\ Goto(r, g)
            /\ \/ g = Idle /\ req[r].for # "password_reset"
               \/ /\ g.pc = "markReset" /\ g.k = req[r].k /\ g.u = req[r].u /\ g.k \in Token
                  /\ req[r].for = "password_reset"
<1>1. CASE req[r].for = "password_reset"
  <2>1. req[r].k \in Token /\ req[r].u \in User
    BY <1>1, HandlerFields DEF SaveUser, TypeOK
  <2> QED
    BY <1>1, <2>1, HandlerMade DEF SaveUser
<1>2. CASE req[r].for # "password_reset"
  BY <1>2, HandlerMade DEF SaveUser
<1> QED
  BY <1>1, <1>2

LEMMA RedeemGoes ==
    ASSUME TypeOK, NEW r \in Req, NEW k \in Token, Redeem(r, k)
    PROVE  \E g \in Handler :
            /\ Goto(r, g)
            /\ g.pc = IF token[k].purpose = "password_reset" THEN "loadUser" ELSE "markUsed"
            /\ g.k = k /\ g.u = token[k].u /\ g.purpose = token[k].purpose /\ g.e = None
<1>1. token[k].u \in User /\ token[k].purpose \in Purpose
  BY DEF Redeem, Redeemable, TokenRow, TypeOK
<1> DEFINE g == [pc |-> IF token[k].purpose = "password_reset" THEN "loadUser" ELSE "markUsed",
                 k |-> k, u |-> token[k].u, purpose |-> token[k].purpose, e |-> None]
<1>2. g \in Handler
  <2>1. CASE token[k].purpose = "password_reset"
    BY <1>1, <2>1, HandlerMade
  <2>2. CASE token[k].purpose # "password_reset"
    BY <1>1, <2>2, HandlerMade
  <2> QED
    BY <2>1, <2>2
<1>3. Goto(r, g)
  BY DEF Redeem
<1> QED
  BY <1>2, <1>3

\* A call that only reads: what its handler carries is about a user it found.
Reads(r) ==
    \/ \E u \in User : \/ RequestVerification(r, u) \/ RequestReset(r, u) \/ OnRegistered(r, u)
                       \/ UpdateProfile(r, u) \/ DeleteAccount(r, u)
                       \/ \E e \in Email : RequestChange(r, u, e)
                       \/ \E p \in Password : ChangePassword(r, u, p)

LEMMA ReadsGoes ==
    ASSUME TypeOK, NEW r \in Req, Reads(r)
    PROVE  /\ req[r] = Idle
           /\ events' \subseteq events /\ \A ev \in events \ events' : ev[1] = "registered"
           /\ UNCHANGED <<user, token, stash, mailed, history>>
           /\ \E g \in Handler :
                /\ Goto(r, g)
                /\ \/ g = Idle
                   \/ /\ g.u \in User /\ user[g.u] # None
                      /\ \/ g.pc = "issue" /\ g.purpose = "email_verify"
                            /\ ~user[g.u].verified /\ g.e = user[g.u].email
                         \/ g.pc = "issue" /\ g.purpose = "password_reset"
                         \/ g.pc = "taken?" /\ g.purpose = "email_change"
                         \/ g.pc = "saveUser" /\ g.for = "profile" /\ g.k = None
                            /\ g.row = user[g.u]
                         \/ g.pc = "saveUser" /\ g.for = "password" /\ g.k = None
                            /\ \E p \in Password : g.row = [user[g.u] EXCEPT !.password = p]
                         \/ g.pc = "remove"
<1> DEFINE About(g) ==
        \/ g = Idle
        \/ /\ g.u \in User /\ user[g.u] # None
           /\ \/ g.pc = "issue" /\ g.purpose = "email_verify"
                 /\ ~user[g.u].verified /\ g.e = user[g.u].email
              \/ g.pc = "issue" /\ g.purpose = "password_reset"
              \/ g.pc = "taken?" /\ g.purpose = "email_change"
              \/ g.pc = "saveUser" /\ g.for = "profile" /\ g.k = None /\ g.row = user[g.u]
              \/ g.pc = "saveUser" /\ g.for = "password" /\ g.k = None
                 /\ \E p \in Password : g.row = [user[g.u] EXCEPT !.password = p]
              \/ g.pc = "remove"
<1>1. /\ req[r] = Idle
      /\ events' \subseteq events /\ \A ev \in events \ events' : ev[1] = "registered"
      /\ UNCHANGED <<user, token, stash, mailed, history>>
  <2>1. ASSUME NEW u \in User, OnRegistered(r, u)
        PROVE  /\ req[r] = Idle
               /\ events' \subseteq events /\ \A ev \in events \ events' : ev[1] = "registered"
               /\ UNCHANGED <<user, token, stash, mailed, history>>
    BY <2>1 DEF OnRegistered
  <2>2. ASSUME NEW u \in User,
               \/ RequestVerification(r, u) \/ RequestReset(r, u) \/ UpdateProfile(r, u)
               \/ DeleteAccount(r, u) \/ \E e \in Email : RequestChange(r, u, e)
               \/ \E p \in Password : ChangePassword(r, u, p)
        PROVE  req[r] = Idle /\ UNCHANGED <<tables, history>>
    BY <2>2 DEF RequestVerification, RequestReset, UpdateProfile, DeleteAccount, RequestChange,
                ChangePassword
  <2> QED
    BY <2>1, <2>2 DEF Reads, tables
<1>2. \E g \in Handler : Goto(r, g) /\ About(g)
  <2>0. PICK u \in User : \/ RequestVerification(r, u) \/ OnRegistered(r, u)
                          \/ RequestReset(r, u) \/ UpdateProfile(r, u) \/ DeleteAccount(r, u)
                          \/ \E e \in Email : RequestChange(r, u, e)
                          \/ \E p \in Password : ChangePassword(r, u, p)
    BY DEF Reads
  <2>1. user[u] # None => user[u] \in UserRow /\ user[u].email \in Email
    BY DEF TypeOK, UserRow
  <2>2. Idle \in Handler /\ About(Idle)
    BY HandlerMade
  <2>3. CASE RequestVerification(r, u) \/ OnRegistered(r, u)
    <3>1. CASE user[u] = None \/ user[u].verified
      <4>1. Goto(r, Idle)
        BY <2>3, <3>1 DEF RequestVerification, OnRegistered
      <4> QED
        BY <4>1, <2>2
    <3>2. CASE user[u] # None /\ ~user[u].verified
      <4> DEFINE g == [pc |-> "issue", purpose |-> "email_verify", u |-> u, e |-> user[u].email]
      <4>1. Goto(r, g) /\ g \in Handler
        BY <2>1, <2>3, <3>2, HandlerMade DEF RequestVerification, OnRegistered, Purpose
      <4> QED
        BY <3>2, <4>1
    <3> QED
      BY <3>1, <3>2
  <2>4. CASE RequestReset(r, u)
    <3> DEFINE g == [pc |-> "issue", purpose |-> "password_reset", u |-> u, e |-> user[u].email]
    <3>1. Goto(r, g) /\ g \in Handler /\ user[u] # None
      BY <2>1, <2>4, HandlerMade DEF RequestReset, Purpose
    <3> QED
      BY <3>1
  <2>5. CASE \E e \in Email : RequestChange(r, u, e)
    <3>0. PICK e \in Email : RequestChange(r, u, e)
      BY <2>5
    <3> DEFINE g == [pc |-> "taken?", purpose |-> "email_change", u |-> u, e |-> e]
    <3>1. Goto(r, g) /\ g \in Handler /\ user[u] # None
      BY <3>0, HandlerMade DEF RequestChange, Purpose
    <3> QED
      BY <3>1
  <2>6. CASE UpdateProfile(r, u)
    <3> DEFINE g == [pc |-> "saveUser", for |-> "profile", k |-> None, u |-> u, row |-> user[u]]
    <3>1. Goto(r, g) /\ g \in Handler /\ user[u] # None
      BY <2>1, <2>6, HandlerMade DEF UpdateProfile
    <3> QED
      BY <3>1
  <2>7. CASE \E p \in Password : ChangePassword(r, u, p)
    <3>0. PICK p \in Password : ChangePassword(r, u, p)
      BY <2>7
    <3> DEFINE g == [pc |-> "saveUser", for |-> "password", k |-> None, u |-> u,
                     row |-> [user[u] EXCEPT !.password = p]]
    <3>1. Goto(r, g) /\ g \in Handler /\ user[u] # None
      BY <2>1, <3>0, HandlerMade, RowMade DEF ChangePassword
    <3> QED
      BY <3>1
  <2>8. CASE DeleteAccount(r, u)
    <3> DEFINE g == [pc |-> "remove", u |-> u]
    <3>1. Goto(r, g) /\ g \in Handler /\ user[u] # None
      BY <2>8, HandlerMade DEF DeleteAccount
    <3> QED
      BY <3>1
  <2> QED
    BY <2>0, <2>3, <2>4, <2>5, <2>6, <2>7, <2>8
<1> QED
  BY <1>1, <1>2

\* The other two calls.
LEMMA ArriveSplit ==
    ASSUME NEW r \in Req, Arrive(r)
    PROVE  \/ Reads(r)
           \/ \E u \in User, e \in Email, p \in Password : Register(r, u, e, p)
           \/ \E k \in Token : Redeem(r, k)
  BY DEF Arrive, Reads

-----------------------------------------------------------------------------
(***************************************************************************)
(* Types                                                                   *)
(***************************************************************************)

LEMMA InitTypes == Init => TypeOK
  BY HandlerMade DEF Init, TypeOK

\* Steps that make a handler of what they read from the tables.
LEMMA ArriveTypes == ASSUME TypeOK, NEW r \in Req, Arrive(r) PROVE TypeOK'
<1> USE DEF TypeOK
<1>1. ASSUME NEW u \in User, NEW e \in Email, NEW p \in Password, Register(r, u, e, p)
      PROVE  TypeOK'
  <2>1. [email |-> e, verified |-> FALSE, password |-> p] \in UserRow
    BY DEF UserRow
  <2> QED
    BY <1>1, <2>1, HandlerMade, GotoEffect DEF Register, tables
<1>2. ASSUME NEW k \in Token, Redeem(r, k) PROVE TypeOK'
  <2>1. /\ token[k] # None /\ token[k].u \in User /\ token[k].purpose \in Purpose
        /\ mailed[k] \in Email
    BY <1>2 DEF Redeem, Redeemable, TokenRow
  <2>2. \E g \in Handler : Goto(r, g)
    <3>1. CASE token[k].purpose = "password_reset"
      BY <1>2, <2>1, <3>1, HandlerMade DEF Redeem
    <3>2. CASE token[k].purpose # "password_reset"
      BY <1>2, <2>1, <3>2, HandlerMade DEF Redeem
    <3> QED
      BY <3>1, <3>2
  <2> QED
    BY <1>2, <2>1, <2>2, GotoEffect DEF Redeem, tables
<1>3. CASE Reads(r)
  <2>1. PICK g \in Handler : Goto(r, g)
    BY <1>3, ReadsGoes
  <2>2. /\ UNCHANGED <<user, token, stash, mailed, history>> /\ events' \subseteq events
    BY <1>3, ReadsGoes
  <2> QED
    BY <2>1, <2>2, GotoEffect DEF history
<1> QED
  BY <1>1, <1>2, <1>3, ArriveSplit

\* Steps of a handler in flight.
LEMMA ContinueTypes == ASSUME TypeOK, NEW r \in Req, Continue(r) PROVE TypeOK'
<1> USE DEF TypeOK
<1> DEFINE h == req[r]
<1>0. h \in Handler
  OBVIOUS
<1>1. CASE Insert(r)
  BY <1>0, <1>1, HandlerFields, HandlerMade, GotoEffect DEF Insert, Event, history
<1>2. CASE CheckTaken(r)
  BY <1>0, <1>2, CheckTakenMoved, HandlerMade, GotoEffect DEF CheckTaken, tables, history
<1>3. CASE Issue(r)
  <2>1. /\ h.u \in User /\ h.e \in Email /\ h.purpose \in Purpose
    BY <1>0, <1>3, HandlerFields DEF Issue
  <2>2. [u |-> h.u, purpose |-> h.purpose, state |-> "fresh"] \in TokenRow
    BY <2>1 DEF TokenRow
  <2> QED
    BY <1>3, <2>1, <2>2, HandlerMade, GotoEffect DEF Issue
<1>4. CASE Stash(r)
  BY <1>0, <1>4, HandlerFields, HandlerMade, GotoEffect DEF Stash, Event, history
<1>5. CASE EnqueueMail(r)
  BY <1>0, <1>5, HandlerFields, HandlerMade, GotoEffect DEF EnqueueMail, history
<1>6. CASE MarkUsed(r)
  <2>1. h.k \in Token /\ h.u \in User /\ h.purpose \in Purpose /\ h.pc = "markUsed"
    BY <1>0, <1>6, HandlerFields DEF MarkUsed
  <2>2. [u |-> h.u, purpose |-> h.purpose, state |-> "used"] \in TokenRow
    BY <2>1 DEF TokenRow
  <2> QED
    BY <1>0, <1>6, <2>1, <2>2, MarkUsedMoved, GotoEffect DEF MarkUsed, history
<1>7. CASE GetNew(r)
  BY <1>0, <1>7, HandlerFields, HandlerMade, GotoEffect DEF GetNew, WithNew, tables, history
<1>8. CASE DelNew(r)
  BY <1>0, <1>8, HandlerFields, DelNewMoved, GotoEffect DEF DelNew, history
<1>9. CASE LoadUser(r)
  BY <1>9, LoadUserGoes, GotoEffect DEF LoadUser, tables, history
<1>10. CASE CheckFree(r)
  BY <1>10, CheckFreeGoes, GotoEffect DEF CheckFree, tables
<1>11. CASE MarkReset(r)
  <2>1. h.k \in Token /\ h.u \in User
    BY <1>0, <1>11, HandlerFields DEF MarkReset
  <2>2. [u |-> h.u, purpose |-> "password_reset", state |-> "used"] \in TokenRow
    BY <2>1 DEF TokenRow, Purpose
  <2> QED
    BY <1>11, <2>1, <2>2, HandlerMade, GotoEffect DEF MarkReset, history
<1>12. CASE SaveUser(r)
  <2>1. h.u \in User /\ h.row \in UserRow
    BY <1>0, <1>12, HandlerFields DEF SaveUser
  <2>2. h.k \in Token \cup {None} /\ (h.for = "password_reset" => h.k \in Token)
    BY <1>0, <1>12, HandlerFields DEF SaveUser, Purpose
  <2> QED
    BY <1>12, <2>1, <2>2, HandlerMade, GotoEffect DEF SaveUser, Saved, Holders
<1>13. CASE RemoveUser(r)
  BY <1>0, <1>13, HandlerFields, HandlerMade, GotoEffect DEF RemoveUser, Holders
<1>14. CASE Abort(r)
  BY <1>0, <1>14, HandlerFields, HandlerMade, GotoEffect DEF Abort, tables
<1> QED
  BY <1>1, <1>2, <1>3, <1>4, <1>5, <1>6, <1>7, <1>8, <1>9, <1>10, <1>11, <1>12, <1>13, <1>14
  DEF Continue

\* Steps of no handler.
LEMMA EnvironmentTypes ==
    ASSUME TypeOK
    PROVE  /\ \A k \in Token : Expire(k) \/ ExpireStash(k) => TypeOK'
           /\ \A k \in Token, e \in Email : OnChangeRequested(k, e) => TypeOK'
           /\ \A ev \in events : LoseEvent(ev) => TypeOK'
<1> USE DEF TypeOK, history
<1>1. ASSUME NEW k \in Token, Expire(k) PROVE TypeOK'
  <2>1. [token[k] EXCEPT !.state = "expired"] \in TokenRow
    BY <1>1 DEF Expire, TokenRow
  <2> QED
    BY <1>1, <2>1 DEF Expire
<1>2. ASSUME NEW k \in Token, ExpireStash(k) PROVE TypeOK'
  BY <1>2 DEF ExpireStash
<1>3. ASSUME NEW k \in Token, NEW e \in Email, OnChangeRequested(k, e) PROVE TypeOK'
  BY <1>3 DEF OnChangeRequested
<1>4. ASSUME NEW ev \in events, LoseEvent(ev) PROVE TypeOK'
  BY <1>4 DEF LoseEvent
<1> QED
  BY <1>1, <1>2, <1>3, <1>4

LEMMA NextTypes == TypeOK /\ [Next]_acctVars => TypeOK'
<1> SUFFICES ASSUME TypeOK, [Next]_acctVars PROVE TypeOK'
  OBVIOUS
<1>1. CASE UNCHANGED acctVars
  BY <1>1 DEF acctVars, TypeOK
<1> QED
  BY <1>1, ArriveTypes, ContinueTypes, EnvironmentTypes DEF Next

\* The stored rows, the tokens and the handlers are as declared, whatever
\* the handlers do: a confirmation that goes on with an address read from
\* Redis has read one (account.service.ts 117-147).
THEOREM TypeCorrect == Spec => []TypeOK
  BY InitTypes, NextTypes, PTL DEF Spec

-----------------------------------------------------------------------------
(***************************************************************************)
(* The inductive invariants                                                *)
(***************************************************************************)

Carrying == {"insert", "free?", "saveUser"}         \* handlers with a user row
WithUser == {"insert", "taken?", "issue", "markUsed", "getNew", "delNew", "loadUser",
             "markReset", "free?", "saveUser"}
WithToken == {"stash", "mail", "markUsed", "getNew", "delNew", "loadUser", "markReset", "free?"}

\* Nothing is about a user or a token that was not given out.
UserBorn(r) == req[r].pc \in WithUser => req[r].u \in born
TokenBorn(r) == /\ req[r].pc \in WithToken => req[r].k \in born
                /\ req[r].pc = "saveUser" /\ req[r].k # None => req[r].k \in born
Born ==
    /\ \A u \in User : user[u] # None => u \in born
    /\ \A k \in Token :
        /\ token[k] # None => k \in born /\ token[k].u \in born
        /\ k \in spent \/ mailed[k] # None \/ stash[k] # None => k \in born
    /\ \A k \in Token, e \in Email : <<"change", k, e>> \in events => k \in born
    /\ \A r \in Req : UserBorn(r) /\ TokenBorn(r)

\* A registration is the only handler that has a row of its user.
Alone(r) ==
    req[r].pc = "insert" =>
        /\ user[req[r].u] = None
        /\ \A q \in Req : q # r /\ req[q].pc \in Carrying => req[q].u # req[r].u

\* The row of a handler that is not stale is the stored one, with the change
\* its operation is about.
Matches(r) ==
    LET h == req[r] IN
    /\ h.pc = "free?" => user[h.u] # None /\ h.row = user[h.u]
    /\ h.pc = "saveUser" => user[h.u] # None /\ h.row = Intended(h.for, user[h.u], h.row)

Fresh == \A r \in Req : Alone(r) /\ (r \notin stale => Matches(r))

\* A handler that redeems a token, and one whose token is spent if it goes on.
Redeems(h, k) ==
    /\ h.pc \in {"markUsed", "getNew", "markReset", "delNew", "loadUser", "free?", "saveUser"}
    /\ h.k = k
Consumed(h) ==
    \/ h.pc \in {"getNew", "delNew", "free?"}
    \/ h.pc = "loadUser" /\ h.purpose # "password_reset"
    \/ h.pc = "saveUser" /\ h.for # "password_reset"

\* But for an excused token: one handler redeems it at a time; it is marked
\* used before it takes effect, or its redeemer is about to mark it.
OnceFor(k) ==
    k \notin excused =>
        /\ \A q, r \in Req : Redeems(req[q], k) /\ Redeems(req[r], k) => q = r
        /\ \A r \in Req : Redeems(req[r], k) =>
            /\ k \in spent => req[r].pc = "markReset"
            /\ Consumed(req[r]) => ~Redeemable(k)
        /\ k \in spent /\ Redeemable(k) => \E r \in Req : Redeems(req[r], k)

Once == \A k \in Token : OnceFor(k)

\* Given the address each user registered with: rows and links are about
\* that address or one whose mailbox was shown.
Good(u, row, home) == IF row.verified THEN <<u, row.email>> \in proven ELSE row.email = home[u]

\* What a handler carries.
Carried(h, home) ==
    /\ h.pc \in Carrying => Good(h.u, h.row, home)
    /\ h.pc \in {"taken?", "issue"} /\ h.purpose = "email_verify" => h.e = home[h.u]
    /\ \A k \in Token : Redeems(h, k) => mailed[k] # None
    /\ h.pc \in {"markUsed", "getNew", "delNew", "loadUser"} =>
        /\ <<h.u, mailed[h.k]>> \in proven
        /\ h.purpose = "email_verify" => mailed[h.k] = home[h.u]
        /\ h.e # None => <<h.u, h.e>> \in proven
    /\ h.pc = "free?" => <<h.u, h.e>> \in proven

\* A new token, not yet on its way to the mailbox.
Waiting(r, home) ==
    LET h == req[r] IN
    h.pc \in {"stash", "mail"} =>
        /\ mailed[h.k] = None /\ stash[h.k] = None
        /\ \A e \in Email : <<"change", h.k, e>> \notin events
        /\ \A q \in Req : q # r /\ req[q].pc \in {"stash", "mail"} => req[q].k # h.k
        /\ h.pc = "stash" /\ token[h.k] # None => token[h.k].purpose = "email_change"
        /\ h.pc = "mail" /\ token[h.k] # None /\ token[h.k].purpose = "email_verify" =>
            h.e = home[token[h.k].u]

\* A link is mailed to the address it is about, and once.
Mails(k, home) ==
    /\ mailed[k] # None /\ stash[k] # None => stash[k] = mailed[k]
    /\ token[k] # None /\ token[k].purpose = "email_verify" /\ mailed[k] # None =>
        mailed[k] = home[token[k].u]
    /\ \A e \in Email : <<"change", k, e>> \in events =>
        /\ mailed[k] = None
        /\ stash[k] # None => stash[k] = e
        /\ \A f \in Email : <<"change", k, f>> \in events => f = e
        /\ token[k] # None => token[k].purpose = "email_change"

Proven(home) ==
    /\ \A u \in User : user[u] # None => Good(u, user[u], home)
    /\ \A r \in Req : Carried(req[r], home) /\ Waiting(r, home)
    /\ \A k \in Token : Mails(k, home)

-----------------------------------------------------------------------------
(***************************************************************************)
(* Users and tokens are given out before anything is about them            *)
(***************************************************************************)

\* A handler that goes on as g, when g is about what was given out.
LEMMA BornStep ==
    ASSUME TypeOK, \A q \in Req : UserBorn(q) /\ TokenBorn(q), born \subseteq born',
           NEW r \in Req, NEW g \in Handler, Goto(r, g),
           g.pc \in WithUser => g.u \in born',
           g.pc \in WithToken => g.k \in born',
           g.pc = "saveUser" /\ g.k # None => g.k \in born'
    PROVE  \A q \in Req : UserBorn(q)' /\ TokenBorn(q)'
<1> SUFFICES ASSUME NEW q \in Req PROVE UserBorn(q)' /\ TokenBorn(q)'
  OBVIOUS
<1>1. CASE q = r
  <2>1. req'[q] = g
    BY <1>1, GotoEffect
  <2> QED
    BY <2>1 DEF UserBorn, TokenBorn
<1>2. CASE q # r
  <2>1. req'[q] = req[q]
    BY <1>2, GotoEffect
  <2>2. UserBorn(q) /\ TokenBorn(q)
    OBVIOUS
  <2> QED
    BY <2>1, <2>2 DEF UserBorn, TokenBorn
<1> QED
  BY <1>1, <1>2

\* What a handler does with its fields: it keeps its user and token.
LEMMA KeepsBorn ==
    ASSUME TypeOK, Born, NEW r \in Req,
           \/ CheckTaken(r) \/ MarkUsed(r) \/ GetNew(r) \/ DelNew(r) \/ LoadUser(r)
           \/ CheckFree(r) \/ MarkReset(r) \/ SaveUser(r) \/ Insert(r) \/ Stash(r)
           \/ EnqueueMail(r) \/ RemoveUser(r) \/ Abort(r)
    PROVE  \A q \in Req : UserBorn(q)' /\ TokenBorn(q)'
<1> DEFINE h == req[r]
<1>0. /\ h \in Handler /\ UserBorn(r) /\ TokenBorn(r) /\ Idle \in Handler /\ Idle.pc = "idle"
      /\ \A q \in Req : UserBorn(q) /\ TokenBorn(q)
  BY HandlerMade DEF TypeOK, Born
<1>1. ASSUME Goto(r, Idle), born' = born PROVE \A q \in Req : UserBorn(q)' /\ TokenBorn(q)'
  BY <1>0, <1>1, BornStep DEF WithUser, WithToken
<1>2. CASE CheckTaken(r)
  <2>1. [h EXCEPT !.pc = "issue"] = [pc |-> "issue", purpose |-> h.purpose, u |-> h.u, e |-> h.e]
        /\ [h EXCEPT !.pc = "issue"] \in Handler /\ h.u \in born /\ born' = born
    BY <1>0, <1>2, CheckTakenMoved DEF CheckTaken, UserBorn, WithUser, history
  <2>2. Goto(r, Idle) \/ Goto(r, [h EXCEPT !.pc = "issue"])
    BY <1>2 DEF CheckTaken
  <2> QED
    BY <1>0, <1>1, <2>1, <2>2, BornStep DEF WithUser, WithToken
<1>3. CASE MarkUsed(r)
  <2> DEFINE g == [h EXCEPT !.pc = IF h.purpose = "email_change" THEN "getNew" ELSE "loadUser"]
  <2>1. g \in Handler /\ g.pc \in {"getNew", "loadUser"} /\ g.k = h.k /\ g.u = h.u
    BY <1>0, <1>3, MarkUsedMoved DEF MarkUsed
  <2>2. Goto(r, g) /\ born' = born /\ h.k \in born /\ h.u \in born
    BY <1>0, <1>3 DEF MarkUsed, UserBorn, TokenBorn, WithUser, WithToken, history
  <2> HIDE DEF g
  <2> QED
    BY <1>0, <2>1, <2>2, BornStep
<1>4. CASE GetNew(r)
  <2>1. /\ h.k \in born /\ h.u \in born /\ born' = born /\ h.k \in Token /\ h.u \in User
        /\ h.purpose = "email_change"
    BY <1>0, <1>4, HandlerFields DEF GetNew, UserBorn, TokenBorn, WithUser, WithToken, history
  <2>2. CASE stash[h.k] = None
    BY <1>1, <1>4, <2>1, <2>2 DEF GetNew
  <2>3. CASE stash[h.k] # None
    <3>1. Goto(r, WithNew(h)) /\ WithNew(h) \in Handler
      BY <1>4, <2>1, <2>3, HandlerMade DEF GetNew, WithNew, TypeOK
    <3>2. WithNew(h).u = h.u /\ WithNew(h).k = h.k /\ WithNew(h).pc = "delNew"
      BY DEF WithNew
    <3> QED
      BY <1>0, <2>1, <3>1, <3>2, BornStep
  <2> QED
    BY <2>2, <2>3
<1>5. CASE DelNew(r)
  <2>1. [h EXCEPT !.pc = "loadUser"] =
            [pc |-> "loadUser", k |-> h.k, u |-> h.u, purpose |-> "email_change", e |-> h.e]
        /\ [h EXCEPT !.pc = "loadUser"] \in Handler
    BY <1>0, <1>5, DelNewMoved DEF DelNew
  <2>2. /\ Goto(r, [h EXCEPT !.pc = "loadUser"])
        /\ born' = born /\ h.k \in born /\ h.u \in born
    BY <1>0, <1>5 DEF DelNew, UserBorn, TokenBorn, WithUser, WithToken, history
  <2> QED
    BY <1>0, <2>1, <2>2, BornStep
<1>6. CASE LoadUser(r)
  <2>1. /\ h.k \in born /\ h.u \in born /\ born' = born
    BY <1>0, <1>6 DEF LoadUser, UserBorn, TokenBorn, WithUser, WithToken, history
  <2>2. PICK g \in Handler : Goto(r, g) /\ (g # Idle => g.u = h.u /\ g.k = h.k)
    BY <1>0, <1>6, LoadUserGoes
  <2> QED
    BY <1>0, <2>1, <2>2, BornStep DEF WithUser, WithToken
<1>7. CASE CheckFree(r)
  <2>1. /\ h.k \in born /\ h.u \in born /\ born' = born
    BY <1>0, <1>7 DEF CheckFree, UserBorn, TokenBorn, WithUser, WithToken
  <2>2. PICK g \in Handler : Goto(r, g) /\ (g # Idle => g.u = h.u /\ g.k = h.k)
    BY <1>0, <1>7, CheckFreeGoes
  <2> QED
    BY <1>0, <2>1, <2>2, BornStep DEF WithUser, WithToken
<1>8. CASE SaveUser(r)
  <2>1. CASE h.for = "password_reset"
    <3>1. h.k \in Token /\ h.u \in User
      BY <1>0, <1>8, <2>1, HandlerFields DEF SaveUser
    <3>2. /\ Goto(r, [pc |-> "markReset", k |-> h.k, u |-> h.u])
          /\ [pc |-> "markReset", k |-> h.k, u |-> h.u] \in Handler
          /\ h.k \in born /\ h.u \in born /\ born' = born
      BY <1>0, <1>8, <2>1, <3>1, HandlerMade, AccountsAssumption
      DEF SaveUser, UserBorn, TokenBorn, WithUser
    <3> QED
      BY <1>0, <3>2, BornStep
  <2>2. CASE h.for # "password_reset"
    BY <1>1, <1>8, <2>2 DEF SaveUser
  <2> QED
    BY <2>1, <2>2
<1>9. CASE MarkReset(r) \/ Insert(r) \/ Stash(r) \/ EnqueueMail(r) \/ RemoveUser(r) \/ Abort(r)
  BY <1>1, <1>9 DEF MarkReset, Insert, Stash, EnqueueMail, RemoveUser, Abort, history
<1> QED
  BY <1>2, <1>3, <1>4, <1>5, <1>6, <1>7, <1>8, <1>9

LEMMA InitBorn == Init => Born
  BY HandlerMade, AccountsAssumption
  DEF Init, Born, UserBorn, TokenBorn, WithUser, WithToken, Redeemable

LEMMA ArriveBorn == ASSUME TypeOK, Born, NEW r \in Req, Arrive(r) PROVE Born'
<1>0. \A q \in Req : UserBorn(q) /\ TokenBorn(q)
  BY DEF Born
<1>1. CASE Reads(r)
  <2>1. PICK g \in Handler : Goto(r, g) /\ (g = Idle \/ (g.u \in User /\ user[g.u] # None
            /\ g.pc \in {"issue", "taken?", "saveUser", "remove"}
            /\ (g.pc = "saveUser" => g.k = None)))
    BY <1>1, ReadsGoes
  <2>2. /\ UNCHANGED <<user, token, stash, mailed, history>> /\ events' \subseteq events
    BY <1>1, ReadsGoes
  <2>3. /\ g.pc \in WithUser => g.u \in born'
        /\ g.pc \notin WithToken /\ (g.pc = "saveUser" => g.k = None)
    BY <2>1, <2>2, HandlerMade DEF Born, history, WithUser, WithToken
  <2>4. \A q \in Req : UserBorn(q)' /\ TokenBorn(q)'
    BY <1>0, <2>1, <2>2, <2>3, BornStep DEF history
  <2> QED
    BY <2>2, <2>4 DEF Born, history
<1>2. ASSUME NEW u \in User, NEW e \in Email, NEW p \in Password, Register(r, u, e, p)
      PROVE  Born'
  <2> DEFINE g == [pc |-> "insert", u |-> u,
                   row |-> [email |-> e, verified |-> FALSE, password |-> p]]
  <2>1. g \in Handler /\ Goto(r, g) /\ born' = born \cup {u} /\ UNCHANGED <<tables, spent>>
    BY <1>2, HandlerMade DEF Register, UserRow
  <2>2. \A q \in Req : UserBorn(q)' /\ TokenBorn(q)'
    BY <1>0, <2>1, BornStep DEF WithToken
  <2> QED
    BY <2>1, <2>2 DEF Born, tables
<1>3. ASSUME NEW k \in Token, Redeem(r, k) PROVE Born'
  <2> DEFINE g == [pc |-> IF token[k].purpose = "password_reset" THEN "loadUser" ELSE "markUsed",
                   k |-> k, u |-> token[k].u, purpose |-> token[k].purpose, e |-> None]
  <2>1. /\ Goto(r, g) /\ UNCHANGED <<tables, born, spent>>
        /\ k \in born /\ token[k].u \in born
    BY <1>3 DEF Redeem, Redeemable, Born
  <2>2. g \in Handler
    <3>1. token[k].u \in User /\ token[k].purpose \in Purpose
      BY <1>3 DEF Redeem, Redeemable, TokenRow, TypeOK
    <3>2. CASE token[k].purpose = "password_reset"
      BY <3>1, <3>2, HandlerMade
    <3>3. CASE token[k].purpose # "password_reset"
      BY <3>1, <3>3, HandlerMade
    <3> QED
      BY <3>2, <3>3
  <2>3. g.u = token[k].u /\ g.k = k
    OBVIOUS
  <2>4. \A q \in Req : UserBorn(q)' /\ TokenBorn(q)'
    <3> HIDE DEF g
    <3> QED
      BY <1>0, <2>1, <2>2, <2>3, BornStep
  <2> QED
    BY <2>1, <2>4 DEF Born, tables
<1> QED
  BY <1>1, <1>2, <1>3, ArriveSplit

LEMMA ContinueBorn == ASSUME TypeOK, Born, NEW r \in Req, Continue(r) PROVE Born'
<1> DEFINE h == req[r]
<1>0. h \in Handler /\ UserBorn(r) /\ TokenBorn(r) /\ \A q \in Req : UserBorn(q) /\ TokenBorn(q)
  BY DEF Born, TypeOK
<1>1. CASE Issue(r)
  <2>1. PICK k \in Token :
            /\ born' = born \cup {k}
            /\ token' = [token EXCEPT ![k] = [u |-> h.u, purpose |-> h.purpose, state |-> "fresh"]]
            /\ Goto(r, [pc |-> IF h.purpose = "email_change" THEN "stash" ELSE "mail",
                        k |-> k, e |-> h.e])
    BY <1>1 DEF Issue
  <2>2. h.u \in User /\ h.u \in born /\ h.e \in Email
    BY <1>0, <1>1, HandlerFields DEF Issue, UserBorn, WithUser
  <2>3. \A q \in Req : UserBorn(q)' /\ TokenBorn(q)'
    <3>1. CASE h.purpose = "email_change"
      BY <1>0, <2>1, <2>2, <3>1, HandlerMade, BornStep DEF WithUser
    <3>2. CASE h.purpose # "email_change"
      BY <1>0, <2>1, <2>2, <3>2, HandlerMade, BornStep DEF WithUser
    <3> QED
      BY <3>1, <3>2
  <2> QED
    BY <1>1, <2>1, <2>2, <2>3 DEF Born, Issue, TypeOK
<1>2. CASE \/ CheckTaken(r) \/ MarkUsed(r) \/ GetNew(r) \/ DelNew(r) \/ LoadUser(r)
           \/ CheckFree(r) \/ MarkReset(r) \/ SaveUser(r) \/ Insert(r) \/ Stash(r)
           \/ EnqueueMail(r) \/ RemoveUser(r) \/ Abort(r)
  <2>1. \A q \in Req : UserBorn(q)' /\ TokenBorn(q)'
    BY <1>2, KeepsBorn
  <2>2. CASE CheckTaken(r) \/ GetNew(r) \/ LoadUser(r) \/ CheckFree(r) \/ Abort(r)
    BY <2>1, <2>2 DEF CheckTaken, GetNew, LoadUser, CheckFree, Abort, Born, tables, history
  <2>3. CASE MarkUsed(r) \/ MarkReset(r)
    BY <1>0, <2>1, <2>3 DEF MarkUsed, MarkReset, Born, TypeOK, history, UserBorn, TokenBorn,
                            WithUser, WithToken
  <2>4. CASE Insert(r)
    BY <1>0, <2>1, <2>4 DEF Insert, Born, TypeOK, history, UserBorn, WithUser
  <2>5. CASE Stash(r) \/ EnqueueMail(r) \/ DelNew(r)
    BY <1>0, <2>1, <2>5 DEF Stash, EnqueueMail, DelNew, Born, TypeOK, history, TokenBorn, WithToken
  <2>6. CASE SaveUser(r)
    BY <1>0, <2>1, <2>6 DEF SaveUser, Born, TypeOK, UserBorn, TokenBorn, WithUser
  <2>7. CASE RemoveUser(r)
    BY <2>1, <2>7 DEF RemoveUser, Born, TypeOK
  <2> QED
    BY <1>2, <2>2, <2>3, <2>4, <2>5, <2>6, <2>7
<1> QED
  BY <1>1, <1>2 DEF Continue

LEMMA NextBorn == TypeOK /\ Born /\ [Next]_acctVars => Born'
<1> SUFFICES ASSUME TypeOK, Born, [Next]_acctVars PROVE Born'
  OBVIOUS
<1>1. CASE UNCHANGED acctVars
  BY <1>1 DEF acctVars, Born, UserBorn, TokenBorn
<1>2. ASSUME NEW k \in Token, Expire(k) PROVE Born'
  BY <1>2 DEF Expire, Born, UserBorn, TokenBorn, TypeOK, TokenRow, history
<1>3. ASSUME NEW k \in Token, ExpireStash(k) PROVE Born'
  BY <1>3 DEF ExpireStash, Born, UserBorn, TokenBorn, TypeOK, history
<1>4. ASSUME NEW k \in Token, NEW e \in Email, OnChangeRequested(k, e) PROVE Born'
  BY <1>4 DEF OnChangeRequested, Born, UserBorn, TokenBorn, TypeOK, history
<1>5. ASSUME NEW ev \in events, LoseEvent(ev) PROVE Born'
  BY <1>5 DEF LoseEvent, Born, UserBorn, TokenBorn, history
<1> QED
  BY <1>1, <1>2, <1>3, <1>4, <1>5, ArriveBorn, ContinueBorn DEF Next

-----------------------------------------------------------------------------
(***************************************************************************)
(* Rows that are not stale                                                 *)
(***************************************************************************)

\* A handler that goes on as g with a row it just read, or none.
LEMMA FreshStep ==
    ASSUME TypeOK, Fresh, NEW r \in Req, NEW g \in Handler, Goto(r, g),
           user' = user, stale \ {r} \subseteq stale',
           g.pc # "insert",
           g.pc \in Carrying =>
                user[g.u] # None \/ (req[r].pc \in {"free?"} /\ req[r].u = g.u),
           r \notin stale' => /\ g.pc = "free?" => user[g.u] # None /\ g.row = user[g.u]
                              /\ g.pc = "saveUser" =>
                                    user[g.u] # None /\ g.row = Intended(g.for, user[g.u], g.row)
    PROVE  Fresh'
<1>0. req'[r] = g /\ \A q \in Req : q # r => req'[q] = req[q]
  BY GotoEffect
<1> SUFFICES ASSUME NEW q \in Req PROVE Alone(q)' /\ (q \notin stale' => Matches(q)')
  BY DEF Fresh
<1>1. CASE q = r
  BY <1>0, <1>1 DEF Alone, Matches
<1>2. CASE q # r
  <2>1. req'[q] = req[q] /\ Alone(q) /\ (q \notin stale' => Matches(q))
    BY <1>0, <1>2 DEF Fresh
  <2>2. Alone(q)'
    <3> SUFFICES ASSUME req[q].pc = "insert", NEW t \in Req, t # q, req'[t].pc \in Carrying
                 PROVE  req'[t].u # req[q].u
      BY <2>1 DEF Alone
    <3>1. CASE t = r
      BY <1>0, <2>1, <3>1 DEF Alone, Carrying
    <3>2. CASE t # r
      BY <1>0, <2>1, <3>2 DEF Alone
    <3> QED
      BY <3>1, <3>2
  <2>3. q \notin stale' => Matches(q)'
    BY <2>1 DEF Matches
  <2> QED
    BY <2>2, <2>3
<1> QED
  BY <1>1, <1>2

\* The columns an operation is about.
LEMMA IntendedMade ==
    ASSUME NEW row \in UserRow, row # None
    PROVE  /\ row = Intended("profile", row, row)
           /\ \A p \in Password, w \in {"password", "password_reset"} :
                [row EXCEPT !.password = p] = Intended(w, row, [row EXCEPT !.password = p])
           /\ [row EXCEPT !.verified = TRUE] =
                Intended("email_verify", row, [row EXCEPT !.verified = TRUE])
           /\ \A e \in Email :
                NewAddress(row, e) = Intended("email_change", row, NewAddress(row, e))
<1>1. row = Intended("profile", row, row)
  BY DEF Intended
<1>2. ASSUME NEW p \in Password, NEW w \in {"password", "password_reset"}
      PROVE  [row EXCEPT !.password = p] = Intended(w, row, [row EXCEPT !.password = p])
  <2>1. [row EXCEPT !.password = p].password = p
    BY DEF UserRow
  <2> QED
    BY <2>1 DEF Intended
<1>3. [row EXCEPT !.verified = TRUE] =
            Intended("email_verify", row, [row EXCEPT !.verified = TRUE])
  BY DEF Intended
<1>4. ASSUME NEW e \in Email
      PROVE  NewAddress(row, e) = Intended("email_change", row, NewAddress(row, e))
  <2>1. NewAddress(row, e).email = e
    BY RowMade
  <2> QED
    BY <2>1 DEF Intended
<1> QED
  BY <1>1, <1>2, <1>3, <1>4

LEMMA InitFresh == Init => Fresh
  BY HandlerMade DEF Init, Fresh, Alone, Matches

LEMMA ArriveFresh == ASSUME TypeOK, Born, Fresh, NEW r \in Req, Arrive(r) PROVE Fresh'
<1>1. CASE Reads(r)
  <2>1. UNCHANGED <<user, history>>
    BY <1>1, ReadsGoes
  <2>2. PICK g \in Handler :
            /\ Goto(r, g)
            /\ g.pc \notin {"insert", "free?"}
            /\ g.pc = "saveUser" =>
                /\ g.u \in User /\ user[g.u] # None
                /\ \/ g.for = "profile" /\ g.row = user[g.u]
                   \/ g.for = "password" /\ \E p \in Password : g.row = [user[g.u] EXCEPT !.password = p]
    BY <1>1, ReadsGoes, HandlerMade
  <2>3. ASSUME g.pc = "saveUser"
        PROVE  user[g.u] # None /\ g.row = Intended(g.for, user[g.u], g.row)
    <3>1. user[g.u] \in UserRow /\ user[g.u] # None
      BY <2>2, <2>3 DEF TypeOK
    <3> QED
      BY <2>2, <2>3, <3>1, IntendedMade
  <2> QED
    BY <2>1, <2>2, <2>3, FreshStep DEF Carrying, history
<1>2. ASSUME NEW u \in User, NEW e \in Email, NEW p \in Password, Register(r, u, e, p)
      PROVE  Fresh'
  <2> DEFINE g == [pc |-> "insert", u |-> u,
                   row |-> [email |-> e, verified |-> FALSE, password |-> p]]
  <2>1. /\ g \in Handler /\ Goto(r, g) /\ g.pc = "insert" /\ g.u = u
        /\ u \notin born /\ UNCHANGED <<user, stale>>
    BY <1>2, HandlerMade DEF Register, UserRow, tables
  <2> HIDE DEF g
  <2>2. req'[r] = g /\ \A q \in Req : q # r => req'[q] = req[q]
    BY <2>1, GotoEffect
  <2>3. user[u] = None /\ \A q \in Req : req[q].pc \in Carrying => req[q].u # u
    BY <2>1 DEF Born, UserBorn, WithUser, Carrying
  <2> SUFFICES ASSUME NEW q \in Req PROVE Alone(q)' /\ (q \notin stale' => Matches(q)')
    BY DEF Fresh
  <2>4. CASE q = r
    BY <2>1, <2>2, <2>3, <2>4 DEF Alone, Matches
  <2>5. CASE q # r
    <3>1. req'[q] = req[q] /\ Alone(q) /\ (q \notin stale => Matches(q))
      BY <2>2, <2>5 DEF Fresh
    <3>2. Alone(q)'
      <4> SUFFICES ASSUME req[q].pc = "insert", NEW t \in Req, t # q, req'[t].pc \in Carrying
                   PROVE  req'[t].u # req[q].u
        BY <2>1, <3>1 DEF Alone
      <4>1. req[q].u # u
        BY <2>3 DEF Carrying
      <4> QED
        BY <2>1, <2>2, <3>1, <4>1 DEF Alone
    <3> QED
      BY <2>1, <3>1, <3>2 DEF Matches
  <2> QED
    BY <2>4, <2>5
<1>3. ASSUME NEW k \in Token, Redeem(r, k) PROVE Fresh'
  <2>1. UNCHANGED <<user, stale>>
    BY <1>3 DEF Redeem, tables
  <2>2. PICK g \in Handler : Goto(r, g) /\ g.pc \in {"loadUser", "markUsed"}
    BY <1>3, RedeemGoes
  <2> QED
    BY <2>1, <2>2, FreshStep DEF Carrying
<1> QED
  BY <1>1, <1>2, <1>3, ArriveSplit

\* A step that writes the row of a user, h.u: the handlers of other users.
LEMMA OtherUsers ==
    ASSUME TypeOK, Fresh, NEW q \in Req, NEW u \in User, NEW r \in Req, q # r,
           req'[q] = req[q], req'[r].pc \notin Carrying,
           \A t \in Req : t # r => req'[t] = req[t],
           \A v \in User : v # u => user'[v] = user[v],
           req[q].pc \in Carrying => req[q].u # u,
           q \notin stale' => q \notin stale
    PROVE  Alone(q)' /\ (q \notin stale' => Matches(q)')
<1>1. Alone(q) /\ (q \notin stale => Matches(q)) /\ req[q] \in Handler
  BY DEF Fresh, TypeOK
<1>2. req[q].pc \in Carrying => user'[req[q].u] = user[req[q].u]
  BY <1>1, HandlerFields DEF Carrying
<1> QED
  BY <1>1, <1>2 DEF Alone, Matches, Carrying

LEMMA ContinueFresh == ASSUME TypeOK, Born, Fresh, NEW r \in Req, Continue(r) PROVE Fresh'
<1> DEFINE h == req[r]
<1>0. h \in Handler /\ Idle \in Handler /\ Idle.pc = "idle"
  BY HandlerMade DEF TypeOK
<1>1. ASSUME NEW g \in Handler, Goto(r, g), g.pc \notin Carrying, user' = user,
             stale \ {r} \subseteq stale'
      PROVE  Fresh'
  BY <1>1, FreshStep DEF Carrying
<1>2. CASE CheckTaken(r)
  <2>1. [h EXCEPT !.pc = "issue"] \in Handler /\ [h EXCEPT !.pc = "issue"].pc = "issue"
    BY <1>0, <1>2, CheckTakenMoved DEF CheckTaken
  <2> QED
    BY <1>0, <1>1, <1>2, <2>1 DEF CheckTaken, Carrying, tables, history
<1>3. CASE Issue(r)
  <2>1. h.e \in Email
    BY <1>0, <1>3, HandlerFields DEF Issue
  <2>2. PICK k \in Token, pc \in {"stash", "mail"} : Goto(r, [pc |-> pc, k |-> k, e |-> h.e])
    BY <1>3 DEF Issue
  <2>3. [pc |-> pc, k |-> k, e |-> h.e] \in Handler
    BY <2>1, HandlerMade
  <2>4. [pc |-> pc, k |-> k, e |-> h.e].pc \notin Carrying
    BY DEF Carrying
  <2> QED
    BY <1>1, <1>3, <2>2, <2>3, <2>4 DEF Issue
<1>4. CASE MarkUsed(r)
  <2> DEFINE g == [h EXCEPT !.pc = IF h.purpose = "email_change" THEN "getNew" ELSE "loadUser"]
  <2>1. g \in Handler /\ g.pc \in {"getNew", "loadUser"}
    BY <1>0, <1>4, MarkUsedMoved DEF MarkUsed
  <2>2. Goto(r, g) /\ UNCHANGED <<user, stale>>
    BY <1>4 DEF MarkUsed, history
  <2> HIDE DEF g
  <2> QED
    BY <1>1, <2>1, <2>2 DEF Carrying
<1>5. CASE GetNew(r)
  <2>1. UNCHANGED <<user, stale>>
    BY <1>5 DEF GetNew, tables, history
  <2>2. \E g \in Handler : Goto(r, g) /\ g.pc \in {"delNew", "idle"}
    BY <1>0, <1>5, GetNewGoes
  <2> QED
    BY <1>0, <1>1, <2>1, <2>2 DEF Carrying
<1>6. CASE DelNew(r)
  <2>1. [h EXCEPT !.pc = "loadUser"] \in Handler /\ [h EXCEPT !.pc = "loadUser"].pc = "loadUser"
    BY <1>0, <1>6, DelNewMoved DEF DelNew
  <2> QED
    BY <1>1, <1>6, <2>1 DEF DelNew, Carrying, history
<1>7. CASE LoadUser(r)
  <2>1. /\ UNCHANGED <<user, stale>> /\ user[h.u] # None /\ user[h.u] \in UserRow
    BY <1>0, <1>7, HandlerFields DEF LoadUser, tables, history, TypeOK
  <2>2. PICK g \in Handler :
            /\ Goto(r, g)
            /\ \/ g = Idle
               \/ g.pc = "free?" /\ g.u = h.u /\ g.row = user[h.u]
               \/ g.pc = "saveUser" /\ g.u = h.u
                  /\ \/ g.for = "email_verify" /\ g.row = [user[h.u] EXCEPT !.verified = TRUE]
                     \/ g.for = "password_reset" /\ \E p \in Password :
                            g.row = [user[h.u] EXCEPT !.password = p]
    BY <1>7, LoadUserGoes
  <2>3. g.pc = "saveUser" => g.row = Intended(g.for, user[h.u], g.row)
    BY <1>0, <2>1, <2>2, IntendedMade
  <2>4. /\ g.pc \in {"idle", "free?", "saveUser"}
        /\ g.pc # "idle" => user[g.u] # None
        /\ g.pc = "free?" => g.row = user[g.u]
        /\ g.pc = "saveUser" => g.row = Intended(g.for, user[g.u], g.row)
    BY <1>0, <2>1, <2>2, <2>3
  <2> QED
    BY <2>1, <2>2, <2>4, FreshStep DEF Carrying
<1>8. CASE CheckFree(r)
  <2>1. /\ user' = user /\ stale \ {r} \subseteq stale' /\ h.pc = "free?" /\ h.u \in User
        /\ h.e \in Email
    BY <1>0, <1>8, HandlerFields DEF CheckFree, tables
  <2>2. PICK g \in Handler :
            /\ Goto(r, g)
            /\ \/ g = Idle
               \/ /\ g.pc = "saveUser" /\ g.for = "email_change" /\ g.u = h.u /\ stale' = stale
                  /\ g.row = NewAddress(h.row, h.e)
    BY <1>8, CheckFreeGoes
  <2>3. CASE g = Idle
    BY <1>0, <1>1, <2>1, <2>2, <2>3 DEF Carrying
  <2>4. CASE g # Idle
    <3>1. ASSUME r \notin stale'
          PROVE  user[g.u] # None /\ g.row = Intended(g.for, user[g.u], g.row)
      <4>1. user[h.u] # None /\ h.row = user[h.u] /\ user[h.u] \in UserRow
        BY <2>1, <2>2, <2>4, <3>1 DEF Fresh, Matches, TypeOK
      <4>2. \A row \in UserRow : row # None =>
                NewAddress(row, h.e) = Intended("email_change", row, NewAddress(row, h.e))
        BY <2>1, IntendedMade
      <4>3. g.row = Intended("email_change", user[h.u], g.row)
        BY <2>2, <2>4, <4>1, <4>2
      <4> QED
        BY <2>2, <2>4, <4>1, <4>3
    <3> QED
      BY <2>1, <2>2, <2>4, <3>1, FreshStep
  <2> QED
    BY <2>3, <2>4
<1>9. CASE Stash(r) \/ EnqueueMail(r) \/ MarkReset(r) \/ Abort(r)
  BY <1>0, <1>1, <1>9 DEF Stash, EnqueueMail, MarkReset, Abort, Carrying, tables, history
<1>10. ASSUME NEW u \in User, NEW g \in Handler, Goto(r, g), g.pc \notin Carrying,
              \A v \in User : v # u => user'[v] = user[v],
              stale \ {r} \subseteq stale',
              \A q \in Req : q # r /\ req[q].pc \in Carrying /\ req[q].u = u =>
                                q \in stale' /\ req[q].pc # "insert"
       PROVE  Fresh'
  <2>1. req'[r] = g /\ \A q \in Req : q # r => req'[q] = req[q]
    BY <1>10, GotoEffect
  <2> SUFFICES ASSUME NEW q \in Req PROVE Alone(q)' /\ (q \notin stale' => Matches(q)')
    BY DEF Fresh
  <2>2. CASE q = r
    BY <1>10, <2>1, <2>2 DEF Alone, Matches, Carrying
  <2>3. CASE q # r /\ (req[q].pc \in Carrying => req[q].u # u)
    BY <1>10, <2>1, <2>3, OtherUsers
  <2>4. CASE q # r /\ req[q].pc \in Carrying /\ req[q].u = u
    BY <1>10, <2>1, <2>4 DEF Alone
  <2> QED
    BY <2>2, <2>3, <2>4
<1>11. CASE Insert(r)
  <2>1. h.u \in User /\ h.pc = "insert" /\ Alone(r)
    BY <1>0, <1>11, HandlerFields DEF Insert, Fresh
  <2>2. \A q \in Req : q # r /\ req[q].pc \in Carrying => req[q].u # h.u
    BY <2>1 DEF Alone
  <2> QED
    BY <1>0, <1>10, <1>11, <2>1, <2>2 DEF Insert, Carrying, TypeOK, history
<1>12. CASE SaveUser(r)
  <2>1. h.u \in User /\ h.pc = "saveUser"
    BY <1>0, <1>12, HandlerFields DEF SaveUser
  <2>2. PICK g \in Handler : Goto(r, g) /\ g.pc \notin Carrying
    BY <1>0, <1>12, SaveUserGoes DEF Carrying
  <2>3. \A q \in Req : q # r /\ req[q].pc \in Carrying /\ req[q].u = h.u =>
                        q \in stale' /\ req[q].pc # "insert"
    <3>1. \A q \in Req : q # r /\ req[q].pc = "insert" => req[q].u # h.u
      BY <2>1 DEF Fresh, Alone, Carrying
    <3> QED
      BY <1>12, <3>1 DEF SaveUser, Holders, Carrying
  <2>4. (\A v \in User : v # h.u => user'[v] = user[v]) /\ stale \ {r} \subseteq stale'
    BY <1>12 DEF SaveUser, TypeOK
  <2> QED
    BY <1>10, <2>1, <2>2, <2>3, <2>4
<1>13. CASE RemoveUser(r)
  <2>1. h.u \in User /\ h.pc = "remove"
    BY <1>0, <1>13, HandlerFields DEF RemoveUser
  <2>2. \A v \in User : v # h.u => user'[v] = user[v]
    BY <1>13 DEF RemoveUser, TypeOK
  <2>3. user'[h.u] = None
    BY <1>13, <2>1 DEF RemoveUser, TypeOK
  <2>4. req'[r] = Idle /\ \A q \in Req : q # r => req'[q] = req[q]
    BY <1>0, <1>13, GotoEffect DEF RemoveUser
  <2> SUFFICES ASSUME NEW q \in Req PROVE Alone(q)' /\ (q \notin stale' => Matches(q)')
    BY DEF Fresh
  <2>5. CASE q = r
    BY <1>0, <2>4, <2>5 DEF Alone, Matches
  <2>6. CASE q # r /\ req[q].pc = "insert"
    <3>1. Alone(q) /\ req[q].u \in User /\ req'[q] = req[q]
      BY <2>4, <2>6, HandlerFields DEF Fresh, TypeOK
    <3>2. user'[req[q].u] = None
      BY <2>2, <2>3, <2>6, <3>1 DEF Alone
    <3> QED
      BY <1>0, <2>4, <2>6, <3>1, <3>2 DEF Alone, Matches, Carrying
  <2>7. CASE q # r /\ req[q].pc # "insert"
    <3>1. stale \subseteq stale' /\ (req[q].pc \in Carrying /\ req[q].u = h.u => q \in stale')
      BY <1>13, <2>7 DEF RemoveUser, Holders, Carrying
    <3>2. CASE req[q].pc \in Carrying => req[q].u # h.u
      BY <1>0, <2>1, <2>2, <2>4, <2>7, <3>1, <3>2, OtherUsers DEF Carrying
    <3>3. CASE req[q].pc \in Carrying /\ req[q].u = h.u
      BY <2>4, <2>7, <3>1, <3>3 DEF Alone
    <3> QED
      BY <3>2, <3>3
  <2> QED
    BY <2>5, <2>6, <2>7
<1> QED
  BY <1>2, <1>3, <1>4, <1>5, <1>6, <1>7, <1>8, <1>9, <1>11, <1>12, <1>13 DEF Continue

LEMMA NextFresh == TypeOK /\ Born /\ Fresh /\ [Next]_acctVars => Fresh'
<1> SUFFICES ASSUME TypeOK, Born, Fresh, [Next]_acctVars PROVE Fresh'
  OBVIOUS
<1>1. ASSUME UNCHANGED <<user, req, stale>> PROVE Fresh'
  BY <1>1 DEF Fresh, Alone, Matches
<1> QED
  BY <1>1, ArriveFresh, ContinueFresh
  DEF Next, acctVars, Expire, ExpireStash, OnChangeRequested, LoseEvent, history

\* The statements that write the users table.
LEMMA UserWriters ==
    ASSUME TypeOK, [Next]_acctVars, user' # user
    PROVE  \E r \in Req : Insert(r) \/ SaveUser(r) \/ RemoveUser(r)
<1>1. \A r \in Req : Arrive(r) => user' = user
  BY ArriveSplit, ReadsGoes DEF Register, Redeem, tables
<1>2. \A r \in Req : Continue(r) => user' = user \/ Insert(r) \/ SaveUser(r) \/ RemoveUser(r)
  BY DEF Continue, CheckTaken, Issue, Stash, EnqueueMail, MarkUsed, GetNew, DelNew, LoadUser,
         CheckFree, MarkReset, Abort, tables
<1> QED
  BY <1>1, <1>2 DEF Next, acctVars, Expire, ExpireStash, OnChangeRequested, LoseEvent

\* A save of a user row, the only step that takes its handler from there and
\* changes a row, writes what it is about and else what it finds, unless the
\* row was saved or removed since it was loaded.
LEMMA SaveKeeps == TypeOK /\ Born /\ Fresh /\ [Next]_acctVars =>
    \A r \in Req :
        req[r].pc = "saveUser" /\ req'[r].pc # "saveUser" /\ user' # user =>
            r \in stale \/ user'[req[r].u] = Intended(req[r].for, user[req[r].u], req[r].row)
<1> SUFFICES ASSUME TypeOK, Born, Fresh, [Next]_acctVars, NEW r \in Req,
                    req[r].pc = "saveUser", req'[r].pc # "saveUser", user' # user, r \notin stale
             PROVE  user'[req[r].u] = Intended(req[r].for, user[req[r].u], req[r].row)
  OBVIOUS
<1>1. PICK q \in Req : Insert(q) \/ SaveUser(q) \/ RemoveUser(q)
  BY UserWriters
<1>2. q = r
  <2>1. \E g \in Handler : Goto(q, g)
    BY <1>1, HandlerMade, SaveUserGoes DEF Insert, RemoveUser
  <2> QED
    BY <2>1, GotoEffect
<1>3. SaveUser(r)
  BY <1>1, <1>2 DEF Insert, RemoveUser
<1>4. req[r].u \in User
  BY HandlerFields DEF TypeOK
<1> QED
  BY <1>3, <1>4 DEF SaveUser, Saved, Fresh, Matches, TypeOK

\* For any users, addresses, handlers and bounds: NoLostUpdate (users.service.ts
\* 60-71, 129-148, account.service.ts 82-147 and 194-231).
THEOREM NoUpdateLost == Spec => NoLostUpdate
<1>1. TypeOK /\ Born /\ Fresh /\ [Next]_acctVars =>
        [\A r \in Req :
            LET h == req[r] IN
            h.pc = "saveUser" /\ req'[r].pc # "saveUser" /\ user' # user =>
                r \in stale \/ user'[h.u] = Intended(h.for, user[h.u], h.row)]_acctVars
  BY SaveKeeps
<1>2. Init => TypeOK /\ Born /\ Fresh
  BY InitTypes, InitBorn, InitFresh
<1>3. TypeOK /\ Born /\ Fresh /\ [Next]_acctVars => (TypeOK /\ Born /\ Fresh)'
  BY NextTypes, NextBorn, NextFresh
<1> QED
  BY <1>1, <1>2, <1>3, PTL DEF Spec, NoLostUpdate

-----------------------------------------------------------------------------
(***************************************************************************)
(* Tokens that take effect once                                            *)
(***************************************************************************)

LEMMA RedeemingAre ==
    ASSUME NEW k \in Token
    PROVE  Redeeming(k) = {r \in Req : Redeems(req[r], k)}
  BY DEF Redeeming, Redeems

\* A handler goes on with the token it redeems, or ends; no token is made
\* redeemable.
LEMMA OnceStep ==
    ASSUME TypeOK, Once, NEW r \in Req, NEW g \in Handler, Goto(r, g),
           spent' = spent, excused \subseteq excused',
           \A k \in Token : Redeemable(k)' => Redeemable(k),
           \A k \in Token : Redeems(g, k) =>
                /\ Redeems(req[r], k)
                /\ Consumed(g) => Consumed(req[r]) \/ ~Redeemable(k)',
           req[r].pc = "markReset" =>
                g = Idle /\ \A k \in Token : k = req[r].k => k \in excused' \/ ~Redeemable(k)'
    PROVE  Once'
<1>0. req'[r] = g /\ \A q \in Req : q # r => req'[q] = req[q]
  BY GotoEffect
<1>1. \A k \in Token : ~Redeems(Idle, k)
  BY DEF Redeems, Idle
<1> SUFFICES ASSUME NEW k \in Token, k \notin excused' PROVE OnceFor(k)'
  BY DEF Once, OnceFor
<1>2. /\ \A q, t \in Req : Redeems(req[q], k) /\ Redeems(req[t], k) => q = t
      /\ \A q \in Req : Redeems(req[q], k) =>
            /\ k \in spent => req[q].pc = "markReset"
            /\ Consumed(req[q]) => ~Redeemable(k)
      /\ k \in spent /\ Redeemable(k) => \E q \in Req : Redeems(req[q], k)
  BY DEF Once, OnceFor
<1>3. \A q \in Req : Redeems(req'[q], k) => Redeems(req[q], k)
  BY <1>0
<1>4. ASSUME NEW q \in Req, Redeems(req'[q], k)
      PROVE  /\ k \in spent => req'[q].pc = "markReset"
             /\ Consumed(req'[q]) => ~Redeemable(k)'
  <2>1. CASE q = r
    BY <1>0, <1>1, <1>2, <1>4, <2>1
  <2>2. CASE q # r
    BY <1>0, <1>2, <1>4, <2>2
  <2> QED
    BY <2>1, <2>2
<1>5. ASSUME k \in spent, Redeemable(k)' PROVE \E q \in Req : Redeems(req'[q], k)
  <2>1. PICK q \in Req : Redeems(req[q], k)
    BY <1>2, <1>5
  <2>2. req[q].pc = "markReset" /\ req[q].k = k
    BY <1>2, <1>5, <2>1 DEF Redeems
  <2>3. q # r
    BY <1>5, <2>2
  <2> QED
    BY <1>0, <2>1, <2>3
<1>6. \A q, t \in Req : Redeems(req'[q], k) /\ Redeems(req'[t], k) => q = t
  BY <1>2, <1>3
<1> QED
  BY <1>4, <1>5, <1>6 DEF OnceFor

LEMMA InitOnce == Init => Once
  BY DEF Init, Once, OnceFor, Redeems, Idle

\* A step of no handler, or of one that redeems nothing, before or after.
LEMMA OnceAside ==
    ASSUME TypeOK, Once, spent' = spent, excused' = excused, NEW r \in Req, NEW g \in Handler,
           Goto(r, g), \A k \in Token : Redeemable(k)' => Redeemable(k),
           req[r].pc # "markReset", \A k \in Token : ~Redeems(g, k)
    PROVE  Once'
  BY OnceStep

LEMMA ArriveOnce == ASSUME TypeOK, Born, Once, NEW r \in Req, Arrive(r) PROVE Once'
<1>0. Idle.pc = "idle"
  BY HandlerMade
<1>1. CASE Reads(r)
  <2>1. UNCHANGED <<token, history>> /\ req[r] = Idle
    BY <1>1, ReadsGoes
  <2>2. PICK g \in Handler :
            Goto(r, g) /\ g.pc \in {"idle", "issue", "taken?", "saveUser", "remove"}
                       /\ (g.pc = "saveUser" => g.k = None)
    BY <1>0, <1>1, ReadsGoes
  <2>3. \A k \in Token : ~Redeems(g, k)
    BY <2>2, AccountsAssumption DEF Redeems
  <2> QED
    BY <1>0, <2>1, <2>2, <2>3, OnceAside DEF Redeemable, history
<1>2. ASSUME NEW u \in User, NEW e \in Email, NEW p \in Password, Register(r, u, e, p)
      PROVE  Once'
  <2> DEFINE g == [pc |-> "insert", u |-> u,
                   row |-> [email |-> e, verified |-> FALSE, password |-> p]]
  <2>1. g \in Handler /\ Goto(r, g) /\ req[r] = Idle /\ UNCHANGED <<token, spent, excused>>
    BY <1>2, HandlerMade DEF Register, UserRow, tables
  <2>2. \A k \in Token : ~Redeems(g, k)
    BY DEF Redeems
  <2> QED
    BY <1>0, <2>1, <2>2, OnceAside DEF Redeemable
<1>3. ASSUME NEW k \in Token, Redeem(r, k) PROVE Once'
  <2>1. PICK g \in Handler : /\ Goto(r, g)
                             /\ g.pc = IF token[k].purpose = "password_reset" THEN "loadUser"
                                       ELSE "markUsed"
                             /\ g.k = k /\ g.purpose = token[k].purpose
    BY <1>3, RedeemGoes
  <2>2. /\ req[r] = Idle /\ UNCHANGED <<token, spent>> /\ Redeemable(k)
        /\ excused' = IF Redeeming(k) = {} THEN excused ELSE excused \cup {k}
    BY <1>3 DEF Redeem, tables
  <2>3. req'[r] = g /\ \A q \in Req : q # r => req'[q] = req[q]
    BY <2>1, GotoEffect
  <2>4. ~Consumed(g)
    BY <2>1 DEF Consumed
  <2> SUFFICES ASSUME NEW j \in Token, j \notin excused' PROVE OnceFor(j)'
    BY DEF Once, OnceFor
  <2>5. OnceFor(j) /\ j \notin excused /\ ~Redeems(Idle, j)
    BY <1>0, <2>2 DEF Once, Redeems
  <2>6. CASE j # k
    <3>1. ~Redeems(g, j)
      BY <2>1, <2>6 DEF Redeems
    <3>2. \A q \in Req : Redeems(req'[q], j) <=> Redeems(req[q], j)
      BY <2>2, <2>3, <2>5, <3>1
    <3>3. \A q \in Req : Redeems(req'[q], j) => req'[q] = req[q]
      BY <2>3, <3>1
    <3> QED
      BY <2>2, <2>5, <3>2, <3>3 DEF OnceFor, Redeemable
  <2>7. CASE j = k
    <3>1. \A q \in Req : ~Redeems(req[q], k)
      BY <2>2, <2>7, RedeemingAre
    <3>2. k \notin spent
      BY <2>2, <2>5, <2>7, <3>1 DEF OnceFor
    <3>3. \A q \in Req : Redeems(req'[q], k) => q = r
      BY <2>3, <3>1
    <3> QED
      BY <2>2, <2>3, <2>4, <2>7, <3>2, <3>3 DEF OnceFor
  <2> QED
    BY <2>6, <2>7
<1> QED
  BY <1>1, <1>2, <1>3, ArriveSplit

LEMMA ContinueOnce == ASSUME TypeOK, Born, Once, NEW r \in Req, Continue(r) PROVE Once'
<1> DEFINE h == req[r]
<1>0. /\ h \in Handler /\ Idle \in Handler /\ Idle.pc = "idle"
      /\ \A k \in Token : ~Redeems(Idle, k)
  BY HandlerMade DEF TypeOK, Redeems
<1>1. CASE CheckTaken(r)
  <2>1. [h EXCEPT !.pc = "issue"] \in Handler /\ [h EXCEPT !.pc = "issue"].pc = "issue"
    BY <1>0, <1>1, CheckTakenMoved DEF CheckTaken
  <2> QED
    BY <1>0, <1>1, <2>1, OnceAside DEF CheckTaken, Redeems, Redeemable, tables, history
<1>2. CASE Issue(r)
  <2>1. h.e \in Email /\ h.pc = "issue"
    BY <1>0, <1>2, HandlerFields DEF Issue
  <2>2. PICK j \in Token, pc \in {"stash", "mail"} :
            /\ j \notin born /\ Goto(r, [pc |-> pc, k |-> j, e |-> h.e])
            /\ \A k \in Token : k # j => token'[k] = token[k]
    BY <1>2 DEF Issue, TypeOK
  <2>3. UNCHANGED <<spent, excused>> /\ [pc |-> pc, k |-> j, e |-> h.e] \in Handler
    BY <1>2, <2>1, HandlerMade DEF Issue
  <2>4. req'[r] = [pc |-> pc, k |-> j, e |-> h.e] /\ \A q \in Req : q # r => req'[q] = req[q]
    BY <2>2, <2>3, GotoEffect
  <2>5. \A k \in Token : ~Redeems(req'[r], k) /\ ~Redeems(req[r], k)
    BY <2>1, <2>4 DEF Redeems
  <2> SUFFICES ASSUME NEW k \in Token PROVE OnceFor(k)'
    BY DEF Once
  <2>6. OnceFor(k)
    BY DEF Once
  <2>7. \A q \in Req : /\ Redeems(req'[q], k) <=> Redeems(req[q], k)
                       /\ Redeems(req[q], k) => req'[q] = req[q]
    BY <2>4, <2>5
  <2>8. CASE k = j
    <3>1. k \notin spent /\ \A q \in Req : ~Redeems(req[q], k)
      BY <2>2, <2>8, AccountsAssumption DEF Born, TokenBorn, WithToken, Redeems
    <3> QED
      BY <2>3, <2>7, <3>1 DEF OnceFor
  <2>9. CASE k # j
    BY <2>2, <2>3, <2>6, <2>7, <2>9 DEF OnceFor, Redeemable
  <2> QED
    BY <2>8, <2>9
<1>3. CASE Stash(r) \/ EnqueueMail(r) \/ Insert(r)
  <2>1. h.pc \in {"stash", "mail", "insert"} /\ Goto(r, Idle)
        /\ UNCHANGED <<token, spent, excused>>
    BY <1>3 DEF Stash, EnqueueMail, Insert, history
  <2> QED
    BY <1>0, <2>1, OnceAside DEF Redeemable
<1>4. CASE RemoveUser(r)
  <2>1. h.pc = "remove" /\ Goto(r, Idle) /\ UNCHANGED <<spent, excused>>
    BY <1>4 DEF RemoveUser
  <2>2. \A k \in Token : Redeemable(k)' => Redeemable(k)
    BY <1>4 DEF RemoveUser, Redeemable
  <2> QED
    BY <1>0, <2>1, <2>2, OnceAside
<1>5. CASE MarkUsed(r)
  <2> DEFINE g == [h EXCEPT !.pc = IF h.purpose = "email_change" THEN "getNew" ELSE "loadUser"]
  <2>1. g \in Handler /\ g.pc \in {"getNew", "loadUser"} /\ g.k = h.k /\ h.k \in Token
        /\ h.pc = "markUsed" /\ Goto(r, g) /\ UNCHANGED <<spent, excused>>
    BY <1>0, <1>5, MarkUsedMoved, HandlerFields DEF MarkUsed, history
  <2>2. \A k \in Token : Redeemable(k)' => Redeemable(k) /\ k # h.k
    BY <1>5, <2>1 DEF MarkUsed, Redeemable, TypeOK
  <2> HIDE DEF g
  <2> QED
    BY <2>1, <2>2, OnceStep DEF Redeems
<1>6. CASE GetNew(r)
  <2>1. h.pc = "getNew" /\ UNCHANGED <<token, spent, excused>>
    BY <1>6 DEF GetNew, tables, history
  <2>2. PICK g \in Handler : Goto(r, g) /\ (g = Idle \/ (g.pc = "delNew" /\ g.k = h.k))
    BY <1>6, GetNewGoes
  <2>3. \A k \in Token : Redeems(g, k) => Redeems(h, k) /\ Consumed(h)
    BY <1>0, <2>1, <2>2 DEF Redeems, Consumed
  <2> QED
    BY <2>1, <2>2, <2>3, OnceStep DEF Redeemable
<1>7. CASE DelNew(r)
  <2> DEFINE g == [h EXCEPT !.pc = "loadUser"]
  <2>1. g \in Handler /\ g.pc = "loadUser" /\ g.k = h.k
    BY <1>0, <1>7, DelNewMoved DEF DelNew
  <2>2. Goto(r, g) /\ h.pc = "delNew" /\ UNCHANGED <<token, spent, excused>>
    BY <1>7 DEF DelNew, history
  <2> HIDE DEF g
  <2>3. \A k \in Token : Redeems(g, k) => Redeems(h, k) /\ Consumed(h)
    BY <2>1, <2>2 DEF Redeems, Consumed
  <2> QED
    BY <2>1, <2>2, <2>3, OnceStep DEF Redeemable
<1>8. CASE LoadUser(r)
  <2>1. h.pc = "loadUser" /\ UNCHANGED <<token, spent, excused>>
    BY <1>8 DEF LoadUser, tables, history
  <2>2. PICK g \in Handler :
            /\ Goto(r, g)
            /\ \/ g = Idle
               \/ g.pc = "free?" /\ g.k = h.k /\ h.purpose = "email_change"
               \/ g.pc = "saveUser" /\ g.k = h.k /\ g.for = h.purpose
    BY <1>8, LoadUserGoes
  <2>3. \A k \in Token : Redeems(g, k) => Redeems(h, k) /\ (Consumed(g) => Consumed(h))
    BY <1>0, <2>1, <2>2 DEF Redeems, Consumed
  <2> QED
    BY <2>1, <2>2, <2>3, OnceStep DEF Redeemable
<1>9. CASE CheckFree(r)
  <2>1. h.pc = "free?" /\ UNCHANGED <<token, spent, excused>>
    BY <1>9 DEF CheckFree, tables
  <2>2. PICK g \in Handler : Goto(r, g) /\ (g = Idle \/ (g.pc = "saveUser" /\ g.k = h.k))
    BY <1>9, CheckFreeGoes
  <2>3. \A k \in Token : Redeems(g, k) => Redeems(h, k) /\ Consumed(h)
    BY <1>0, <2>1, <2>2 DEF Redeems, Consumed
  <2> QED
    BY <2>1, <2>2, <2>3, OnceStep DEF Redeemable
<1>10. CASE MarkReset(r)
  <2>1. h.pc = "markReset" /\ h.k \in Token /\ Goto(r, Idle) /\ UNCHANGED <<spent, excused>>
    BY <1>0, <1>10, HandlerFields DEF MarkReset, history
  <2>2. \A k \in Token : Redeemable(k)' => Redeemable(k) /\ k # h.k
    BY <1>10, <2>1 DEF MarkReset, Redeemable, TypeOK
  <2> QED
    BY <1>0, <2>1, <2>2, OnceStep
<1>11. CASE Abort(r)
  <2>1. Goto(r, Idle) /\ UNCHANGED <<token, spent>> /\ excused \subseteq excused'
        /\ (h.pc = "markReset" => h.k \in excused')
    BY <1>11 DEF Abort, tables
  <2> QED
    BY <1>0, <2>1, OnceStep DEF Redeemable
<1>12. CASE SaveUser(r)
  <2>1. PICK g \in Handler :
            /\ Goto(r, g)
            /\ \/ g = Idle /\ h.for # "password_reset"
               \/ g.pc = "markReset" /\ g.k = h.k /\ g.k \in Token /\ h.for = "password_reset"
    BY <1>12, SaveUserGoes
  <2>2. /\ h.pc = "saveUser" /\ UNCHANGED <<token, excused>>
        /\ spent' = spent \cup ({h.k} \ {None})
    BY <1>12 DEF SaveUser
  <2>3. req'[r] = g /\ \A q \in Req : q # r => req'[q] = req[q]
    BY <2>1, GotoEffect
  <2> SUFFICES ASSUME NEW k \in Token, k \notin excused PROVE OnceFor(k)'
    BY <2>2 DEF Once, OnceFor
  <2>4. OnceFor(k)
    BY DEF Once
  <2>5. ~Consumed(g)
    BY <1>0, <2>1 DEF Consumed
  <2>6. CASE h.k # k
    <3>1. ~Redeems(g, k) /\ ~Redeems(h, k)
      BY <1>0, <2>1, <2>6 DEF Redeems
    <3>2. \A q \in Req : /\ Redeems(req'[q], k) <=> Redeems(req[q], k)
                         /\ Redeems(req[q], k) => req'[q] = req[q]
      BY <2>3, <3>1
    <3>3. k \in spent' <=> k \in spent
      BY <2>2, <2>6
    <3> QED
      BY <2>2, <2>4, <3>2, <3>3 DEF OnceFor, Redeemable
  <2>7. CASE h.k = k
    <3>1. Redeems(h, k)
      BY <2>2, <2>7 DEF Redeems
    <3>2. \A q \in Req : Redeems(req'[q], k) => q = r
      BY <2>3, <2>4, <3>1 DEF OnceFor
    <3>3. Redeems(g, k) => g.pc = "markReset"
      BY <1>0, <2>1
    <3>4. CASE h.for = "password_reset"
      <4>1. Redeems(req'[r], k)
        BY <1>0, <2>1, <2>3, <2>7, <3>4 DEF Redeems
      <4> QED
        BY <2>2, <2>3, <2>5, <3>2, <3>3, <4>1 DEF OnceFor
    <3>5. CASE h.for # "password_reset"
      <4>1. ~Redeemable(k)
        BY <2>2, <2>4, <3>1, <3>5 DEF OnceFor, Consumed
      <4> QED
        BY <2>2, <2>3, <2>5, <3>2, <3>3, <4>1 DEF OnceFor, Redeemable
    <3> QED
      BY <3>4, <3>5
  <2> QED
    BY <2>6, <2>7
<1> QED
  BY <1>1, <1>2, <1>3, <1>4, <1>5, <1>6, <1>7, <1>8, <1>9, <1>10, <1>11, <1>12 DEF Continue

LEMMA NextOnce == TypeOK /\ Born /\ Once /\ [Next]_acctVars => Once'
<1> SUFFICES ASSUME TypeOK, Born, Once, [Next]_acctVars PROVE Once'
  OBVIOUS
<1>1. ASSUME UNCHANGED <<req, spent, excused>>,
             \A k \in Token : Redeemable(k)' => Redeemable(k)
      PROVE  Once'
  BY <1>1 DEF Once, OnceFor
<1>2. ASSUME NEW k \in Token, Expire(k) PROVE Once'
  <2>1. \A j \in Token : Redeemable(j)' => Redeemable(j)
    BY <1>2 DEF Expire, Redeemable, TypeOK, TokenRow
  <2> QED
    BY <1>1, <1>2, <2>1 DEF Expire, history
<1>3. CASE \/ UNCHANGED acctVars
           \/ \E k \in Token : ExpireStash(k) \/ \E e \in Email : OnChangeRequested(k, e)
           \/ \E ev \in events : LoseEvent(ev)
  BY <1>1, <1>3 DEF acctVars, ExpireStash, OnChangeRequested, LoseEvent, history, Redeemable
<1> QED
  BY <1>2, <1>3, ArriveOnce, ContinueOnce DEF Next

\* A save takes the effect of a token that had it before only if the token
\* is excused.
LEMMA SaveOnce == TypeOK /\ Once /\ [Next]_acctVars =>
    \A r \in Req :
        req[r].pc = "saveUser" /\ req[r].k \in spent /\ user' # user
            /\ req'[r].pc # "saveUser" => req[r].k \in excused
<1> SUFFICES ASSUME TypeOK, Once, NEW r \in Req, req[r].pc = "saveUser", req[r].k \in spent
             PROVE  req[r].k \in excused
  OBVIOUS
<1> QED
  BY DEF TypeOK, Once, OnceFor, Redeems

\* For any users, tokens, handlers and bounds: TokenOnce (redeemVerification
\* 261-288, resetPassword 194-231 of account.service.ts).
THEOREM TokensOnce == Spec => TokenOnce
<1>1. TypeOK /\ Once /\ [Next]_acctVars =>
        [\A r \in Req :
            LET h == req[r] IN
            h.pc = "saveUser" /\ h.k \in spent /\ user' # user /\ req'[r].pc # "saveUser" =>
                h.k \in excused]_acctVars
  BY SaveOnce
<1>2. Init => TypeOK /\ Born /\ Once
  BY InitTypes, InitBorn, InitOnce
<1>3. TypeOK /\ Born /\ Once /\ [Next]_acctVars => (TypeOK /\ Born /\ Once)'
  BY NextTypes, NextBorn, NextOnce
<1> QED
  BY <1>1, <1>2, <1>3, PTL DEF Spec, TokenOnce

-----------------------------------------------------------------------------
(***************************************************************************)
(* Addresses whose mailbox was shown                                       *)
(***************************************************************************)

\* What a handler carries stays true while links are mailed and opened.
LEMMA CarriedKept ==
    ASSUME TypeOK, NEW home, NEW h \in Handler, Carried(h, home), proven \subseteq proven',
           \A k \in Token : mailed[k] # None => mailed'[k] = mailed[k],
           NEW q \in Req, req'[q] = h
    PROVE  Carried(req[q], home)'
<1>1. /\ h.pc \in {"markUsed", "getNew", "delNew", "loadUser"} =>
            h.k \in Token /\ Redeems(h, h.k)
  BY HandlerFields DEF Redeems
<1>2. h.pc \in {"markUsed", "getNew", "delNew", "loadUser"} => mailed'[h.k] = mailed[h.k]
  BY <1>1 DEF Carried
<1>3. \A k \in Token : Redeems(h, k) => mailed'[k] # None
  BY DEF Carried
<1>4. h.pc \in Carrying => IF h.row.verified THEN <<h.u, h.row.email>> \in proven'
                           ELSE h.row.email = home[h.u]
  BY DEF Carried, Good
<1> QED
  BY <1>2, <1>3, <1>4 DEF Carried, Good, Redeems

\* A step that mails nothing and prepares no mail.
LEMMA QuietStep ==
    ASSUME TypeOK, NEW home, Proven(home), proven \subseteq proven', mailed' = mailed,
           req' \in [Req -> Handler],
           \A u \in User : user'[u] # None => Good(u, user[u], home)',
           \A q \in Req : \/ req'[q] = req[q]
                          \/ req'[q].pc \notin {"stash", "mail"} /\ Carried(req[q], home)',
           \A k \in Token : stash'[k] = stash[k] \/ stash'[k] = None,
           \A k \in Token, e \in Email : <<"change", k, e>> \in events' => <<"change", k, e>> \in events,
           \A k \in Token : token'[k] # None =>
                \/ token[k] # None /\ token'[k].u = token[k].u /\ token'[k].purpose = token[k].purpose
                \/ mailed[k] # None
                   /\ (token'[k].purpose = "email_verify" => mailed[k] = home[token'[k].u])
    PROVE  Proven(home)'
<1>1. ASSUME NEW q \in Req PROVE Carried(req[q], home)'
  <2>1. CASE req'[q] = req[q]
    BY <2>1, CarriedKept DEF Proven, TypeOK
  <2>2. CASE req'[q] # req[q]
    BY <2>2
  <2> QED
    BY <2>1, <2>2
<1>2. ASSUME NEW q \in Req, req'[q].pc \in {"stash", "mail"} PROVE Waiting(q, home)'
  <2>1. req'[q] = req[q] /\ Waiting(q, home) /\ req[q].k \in Token
    BY <1>2, HandlerFields DEF Proven
  <2> DEFINE k == req[q].k
  <2>2. mailed'[k] = None /\ stash'[k] = None /\ \A e \in Email : <<"change", k, e>> \notin events'
    BY <1>2, <2>1 DEF Waiting
  <2>3. \A t \in Req : t # q /\ req'[t].pc \in {"stash", "mail"} => req'[t].k # k
    BY <1>2, <2>1 DEF Waiting
  <2>4. token'[k] # None =>
            token[k] # None /\ token'[k].u = token[k].u /\ token'[k].purpose = token[k].purpose
    BY <2>1, <2>2
  <2> HIDE DEF k
  <2>5. /\ req[q].pc = "stash" /\ token'[k] # None => token'[k].purpose = "email_change"
        /\ req[q].pc = "mail" /\ token'[k] # None /\ token'[k].purpose = "email_verify" =>
            req[q].e = home[token'[k].u]
    BY <2>1, <2>4 DEF Waiting, k
  <2> QED
    BY <2>1, <2>2, <2>3, <2>5 DEF Waiting, k
<1>3. ASSUME NEW k \in Token PROVE Mails(k, home)'
  <2>1. Mails(k, home)
    BY DEF Proven
  <2>2. CASE token'[k] # None /\ token[k] # None /\ token'[k].u = token[k].u
             /\ token'[k].purpose = token[k].purpose
    BY <2>1, <2>2 DEF Mails
  <2>3. CASE mailed[k] # None
             /\ (token'[k] # None /\ token'[k].purpose = "email_verify" => mailed[k] = home[token'[k].u])
    BY <2>1, <2>3 DEF Mails
  <2>4. CASE token'[k] = None
    BY <2>1, <2>4 DEF Mails
  <2> QED
    BY <2>2, <2>3, <2>4
<1>4. \A q \in Req : Waiting(q, home)'
  BY <1>2 DEF Waiting
<1> QED
  BY <1>1, <1>3, <1>4 DEF Proven

LEMMA InitProven == ASSUME Init, NEW home PROVE Proven(home)
<1>1. \A q \in Req : req[q] = Idle /\ Idle.pc = "idle"
  BY HandlerMade DEF Init
<1>2. \A q \in Req : Carried(req[q], home) /\ Waiting(q, home)
  BY <1>1 DEF Carried, Waiting, Carrying, Redeems
<1>3. \A k \in Token : Mails(k, home)
  BY DEF Init, Mails
<1> QED
  BY <1>2, <1>3 DEF Init, Proven

\* The home of a user id not given out yet is nobody's.
LEMMA Rehome ==
    ASSUME TypeOK, Born, NEW home \in [User -> Email \cup {None}], Proven(home), NEW u \in User, u \notin born,
           NEW e \in Email
    PROVE  Proven([home EXCEPT ![u] = e])
<1> DEFINE new == [home EXCEPT ![u] = e]
<1>1. \A v \in User : v \in born => new[v] = home[v]
  OBVIOUS
<1>2. \A v \in User : user[v] # None => Good(v, user[v], new)
  <2> HIDE DEF new
  <2> QED
    BY <1>1 DEF Proven, Born, Good
<1>3. ASSUME NEW q \in Req PROVE Carried(req[q], new)
  <2>1. req[q].pc \in WithUser => new[req[q].u] = home[req[q].u]
    <3>1. req[q].pc \in WithUser => req[q].u \in User
      BY HandlerFields DEF TypeOK, WithUser
    <3>2. req[q].pc \in WithUser => req[q].u \in born
      BY DEF Born, UserBorn
    <3> HIDE DEF new
    <3> QED
      BY <1>1, <3>1, <3>2
  <2> HIDE DEF new
  <2>2. Carried(req[q], home)
    BY DEF Proven
  <2> QED
    BY <2>1, <2>2 DEF Carried, Good, WithUser, Carrying
<1>4. \A k \in Token : token[k] # None => new[token[k].u] = home[token[k].u]
  <2> HIDE DEF new
  <2> QED
    BY <1>1 DEF Born, TypeOK, TokenRow
<1> HIDE DEF new
<1>5. ASSUME NEW q \in Req PROVE Waiting(q, new)
  <2>1. Waiting(q, home) /\ (req[q].pc \in {"stash", "mail"} => req[q].k \in Token)
    BY HandlerFields DEF Proven, TypeOK
  <2> QED
    BY <1>4, <2>1 DEF Waiting
<1>6. \A k \in Token : Mails(k, new)
  BY <1>4 DEF Proven, Mails
<1> QED
  BY <1>2, <1>3, <1>5, <1>6 DEF Proven, new

\* A handler that leaves the tables alone, but for events it takes.
LEMMA ReadStep ==
    ASSUME TypeOK, NEW home, Proven(home), NEW r \in Req, NEW g \in Handler, Goto(r, g),
           UNCHANGED <<user, token, mailed>>, proven \subseteq proven',
           \A k \in Token : stash'[k] = stash[k] \/ stash'[k] = None,
           \A k \in Token, e \in Email : <<"change", k, e>> \in events' => <<"change", k, e>> \in events,
           g.pc \notin {"stash", "mail"}, Carried(g, home)
    PROVE  Proven(home)'
<1>1. req' \in [Req -> Handler] /\ req'[r] = g /\ \A q \in Req : q # r => req'[q] = req[q]
  BY GotoEffect
<1>2. Carried(req[r], home)'
  BY <1>1, CarriedKept
<1>3. \A u \in User : user'[u] # None => Good(u, user[u], home)'
  BY DEF Proven, Good
<1> QED
  BY <1>1, <1>2, <1>3, QuietStep

LEMMA ArriveProven ==
    ASSUME TypeOK, NEW home, Proven(home), NEW r \in Req, Arrive(r),
           \A u \in User, e \in Email, p \in Password : Register(r, u, e, p) => home[u] = e
    PROVE  Proven(home)'
<1>0. Idle \in Handler /\ Carried(Idle, home) /\ Idle.pc = "idle"
  BY HandlerMade DEF Carried, Carrying, Redeems
<1>1. CASE Reads(r)
  <2>1. /\ UNCHANGED <<user, token, stash, mailed, history>> /\ events' \subseteq events
    BY <1>1, ReadsGoes
  <2>2. PICK g \in Handler :
            /\ Goto(r, g)
            /\ \/ g = Idle
               \/ /\ g.u \in User /\ user[g.u] # None
                  /\ \/ g.pc = "issue" /\ g.purpose = "email_verify"
                        /\ ~user[g.u].verified /\ g.e = user[g.u].email
                     \/ g.pc = "issue" /\ g.purpose = "password_reset"
                     \/ g.pc = "taken?" /\ g.purpose = "email_change"
                     \/ g.pc = "saveUser" /\ g.for = "profile" /\ g.k = None
                        /\ g.row = user[g.u]
                     \/ g.pc = "saveUser" /\ g.for = "password" /\ g.k = None
                        /\ \E p \in Password : g.row = [user[g.u] EXCEPT !.password = p]
                     \/ g.pc = "remove"
    BY <1>1, ReadsGoes
  <2>3. g # Idle => Good(g.u, user[g.u], home) /\ user[g.u] \in UserRow
    BY <2>2 DEF Proven, TypeOK
  <2>4. g.pc = "saveUser" => Good(g.u, g.row, home) /\ g.k = None
    <3>1. ASSUME NEW p \in Password, NEW row \in UserRow
          PROVE  /\ [row EXCEPT !.password = p].verified = row.verified
                 /\ [row EXCEPT !.password = p].email = row.email
      BY DEF UserRow
    <3> QED
      BY <1>0, <2>2, <2>3, <3>1 DEF Good
  <2>5. g.pc = "issue" /\ g.purpose = "email_verify" => g.e = home[g.u]
    BY <1>0, <2>2, <2>3 DEF Good
  <2>6. g.pc \in {"idle", "issue", "taken?", "saveUser", "remove"}
        /\ (g.pc = "taken?" => g.purpose = "email_change")
    BY <1>0, <2>2
  <2>7. Carried(g, home)
    BY <2>4, <2>5, <2>6, AccountsAssumption DEF Carried, Carrying, Redeems
  <2> QED
    BY <2>1, <2>2, <2>6, <2>7, ReadStep DEF history
<1>2. ASSUME NEW u \in User, NEW e \in Email, NEW p \in Password, Register(r, u, e, p)
      PROVE  Proven(home)'
  <2> DEFINE g == [pc |-> "insert", u |-> u,
                   row |-> [email |-> e, verified |-> FALSE, password |-> p]]
  <2>1. g \in Handler /\ Goto(r, g) /\ UNCHANGED <<tables, proven>> /\ home[u] = e
    BY <1>2, HandlerMade DEF Register, UserRow
  <2>2. Carried(g, home)
    BY <2>1 DEF Carried, Carrying, Redeems, Good
  <2>3. g.pc = "insert"
    OBVIOUS
  <2> HIDE DEF g
  <2> QED
    BY <2>1, <2>2, <2>3, ReadStep DEF tables
<1>3. ASSUME NEW k \in Token, Redeem(r, k) PROVE Proven(home)'
  <2>1. PICK g \in Handler : /\ Goto(r, g)
                             /\ g.pc \in {"loadUser", "markUsed"}
                             /\ g.k = k /\ g.u = token[k].u /\ g.purpose = token[k].purpose
                             /\ g.e = None
    BY <1>3, RedeemGoes
  <2>2. /\ UNCHANGED tables /\ mailed[k] # None /\ token[k] # None
        /\ proven' = proven \cup {<<token[k].u, mailed[k]>>}
    BY <1>3 DEF Redeem, Redeemable
  <2>3. req' \in [Req -> Handler] /\ req'[r] = g /\ \A q \in Req : q # r => req'[q] = req[q]
    BY <2>1, GotoEffect
  <2>4. token[k].purpose = "email_verify" => mailed[k] = home[token[k].u]
    BY <2>2 DEF Proven, Mails
  <2>5. Carried(req[r], home)'
    BY <2>1, <2>2, <2>3, <2>4 DEF Carried, Carrying, Redeems, tables
  <2>6. \A u \in User : user'[u] # None => Good(u, user[u], home)'
    BY <2>2 DEF Proven, Good, tables
  <2>7. req'[r].pc \notin {"stash", "mail"}
    BY <2>1, <2>3
  <2> QED
    BY <2>2, <2>3, <2>5, <2>6, <2>7, QuietStep DEF tables
<1> QED
  BY <1>1, <1>2, <1>3, ArriveSplit

\* The steps of handlers that read, mark tokens or write the users table.
LEMMA GoOnProven ==
    ASSUME TypeOK, NEW home, Proven(home), NEW r \in Req,
           \/ CheckTaken(r) \/ GetNew(r) \/ DelNew(r) \/ LoadUser(r) \/ CheckFree(r) \/ Abort(r)
           \/ MarkUsed(r) \/ MarkReset(r) \/ Insert(r) \/ SaveUser(r) \/ RemoveUser(r)
    PROVE  Proven(home)'
<1> DEFINE h == req[r]
<1>0. /\ Idle \in Handler /\ Carried(Idle, home) /\ Idle.pc = "idle"
      /\ h \in Handler /\ Carried(h, home)
  BY HandlerMade DEF Carried, Carrying, Redeems, TypeOK, Proven
<1>1. ASSUME NEW g \in Handler, Goto(r, g), g.pc \notin {"stash", "mail"}, Carried(g, home),
             UNCHANGED <<user, token, stash, mailed, events, proven>>
      PROVE  Proven(home)'
  BY <1>1, ReadStep
<1>2. CASE CheckTaken(r)
  <2>1. /\ [h EXCEPT !.pc = "issue"] =
                [pc |-> "issue", purpose |-> h.purpose, u |-> h.u, e |-> h.e]
        /\ [h EXCEPT !.pc = "issue"] \in Handler /\ h.pc = "taken?"
    BY <1>0, <1>2, CheckTakenMoved DEF CheckTaken
  <2>2. Carried([h EXCEPT !.pc = "issue"], home)
    BY <1>0, <2>1 DEF Carried, Carrying, Redeems
  <2>3. Goto(r, Idle) \/ Goto(r, [h EXCEPT !.pc = "issue"])
    BY <1>2 DEF CheckTaken
  <2>4. UNCHANGED <<user, token, stash, mailed, events, proven>>
    BY <1>2 DEF CheckTaken, tables, history
  <2> QED
    BY <1>0, <1>1, <2>1, <2>2, <2>3, <2>4
<1>3. CASE GetNew(r)
  <2>1. h.pc = "getNew" /\ h.k \in Token /\ UNCHANGED <<tables, proven>>
    BY <1>0, <1>3, HandlerFields DEF GetNew, history
  <2>2. PICK g \in Handler :
            /\ Goto(r, g)
            /\ \/ g = Idle
               \/ /\ g.pc = "delNew" /\ g.k = h.k /\ g.u = h.u
                  /\ g.purpose = "email_change" /\ g.e = stash[g.k] /\ g.e # None
    BY <1>3, GetNewGoes
  <2>3. mailed[h.k] # None /\ <<h.u, mailed[h.k]>> \in proven
    BY <1>0, <2>1 DEF Carried, Redeems
  <2>4. stash[h.k] # None => stash[h.k] = mailed[h.k]
    BY <2>1, <2>3 DEF Proven, Mails
  <2>5. Carried(g, home)
    BY <1>0, <2>2, <2>3, <2>4 DEF Carried, Carrying, Redeems
  <2> QED
    BY <1>0, <1>1, <2>1, <2>2, <2>5 DEF tables
<1>4. CASE DelNew(r)
  <2> DEFINE g == [h EXCEPT !.pc = "loadUser"]
  <2>1. /\ g = [pc |-> "loadUser", k |-> h.k, u |-> h.u, purpose |-> "email_change", e |-> h.e]
        /\ g \in Handler /\ h.pc = "delNew"
    BY <1>0, <1>4, DelNewMoved DEF DelNew
  <2>2. Carried(g, home) /\ g.pc = "loadUser"
    BY <1>0, <2>1 DEF Carried, Carrying, Redeems
  <2>3. Goto(r, g) /\ UNCHANGED <<user, token, mailed, events, proven>>
    BY <1>4 DEF DelNew, history
  <2>4. \A k \in Token : stash'[k] = stash[k] \/ stash'[k] = None
    BY <1>4 DEF DelNew, TypeOK
  <2> HIDE DEF g
  <2> QED
    BY <2>1, <2>2, <2>3, <2>4, ReadStep
<1>5. CASE LoadUser(r)
  <2>1. /\ h.pc = "loadUser" /\ h.k \in Token /\ h.u \in User /\ UNCHANGED <<tables, proven>>
        /\ user[h.u] # None /\ user[h.u] \in UserRow
        /\ h.purpose = "email_change" => h.e \in Email
    BY <1>0, <1>5, HandlerFields DEF LoadUser, history, TypeOK
  <2>2. PICK g \in Handler :
            /\ Goto(r, g)
            /\ \/ g = Idle
               \/ g.pc = "free?" /\ g.k = h.k /\ g.u = h.u /\ g.e = h.e
                  /\ g.row = user[h.u] /\ h.purpose = "email_change"
               \/ /\ g.pc = "saveUser" /\ g.for = h.purpose /\ g.k = h.k
                  /\ g.u = h.u
                  /\ \/ g.for = "email_verify" /\ ~user[h.u].verified
                        /\ g.row = [user[h.u] EXCEPT !.verified = TRUE]
                     \/ g.for = "password_reset" /\ \E p \in Password :
                            g.row = [user[h.u] EXCEPT !.password = p]
    BY <1>5, LoadUserGoes
  <2>3. /\ Good(h.u, user[h.u], home) /\ mailed[h.k] # None
        /\ <<h.u, mailed[h.k]>> \in proven
        /\ h.purpose = "email_verify" => mailed[h.k] = home[h.u]
        /\ h.e # None => <<h.u, h.e>> \in proven
    BY <1>0, <2>1 DEF Carried, Proven, Redeems
  <2>4. g.pc \in Carrying => Good(g.u, g.row, home)
    <3>1. CASE g.pc = "free?"
      BY <1>0, <2>2, <2>3, <3>1
    <3>2. CASE g.pc = "saveUser" /\ g.for = "email_verify"
      <4>1. /\ [user[h.u] EXCEPT !.verified = TRUE].verified
            /\ [user[h.u] EXCEPT !.verified = TRUE].email = user[h.u].email
        BY <2>1 DEF UserRow
      <4> QED
        BY <1>0, <2>2, <2>3, <3>2, <4>1 DEF Good
    <3>3. CASE g.pc = "saveUser" /\ g.for = "password_reset"
      <4>1. \A p \in Password :
                /\ [user[h.u] EXCEPT !.password = p].verified = user[h.u].verified
                /\ [user[h.u] EXCEPT !.password = p].email = user[h.u].email
        BY <2>1 DEF UserRow
      <4> QED
        BY <1>0, <2>2, <2>3, <3>3, <4>1 DEF Good
    <3> QED
      BY <1>0, <2>2, <3>1, <3>2, <3>3 DEF Carrying
  <2>5. g.pc = "free?" => <<g.u, g.e>> \in proven
    BY <1>0, <2>1, <2>2, <2>3, AccountsAssumption
  <2>6. g.pc \in {"idle", "free?", "saveUser"} /\ \A k \in Token : Redeems(g, k) => mailed[k] # None
    BY <1>0, <2>2, <2>3 DEF Redeems
  <2>7. Carried(g, home)
    BY <2>4, <2>5, <2>6 DEF Carried
  <2> QED
    BY <1>1, <2>1, <2>2, <2>6, <2>7 DEF tables
<1>6. CASE CheckFree(r)
  <2>1. /\ h.pc = "free?" /\ h.k \in Token /\ h.e \in Email /\ h.row \in UserRow
        /\ UNCHANGED <<tables, proven>>
    BY <1>0, <1>6, HandlerFields DEF CheckFree
  <2>2. PICK g \in Handler :
            /\ Goto(r, g)
            /\ \/ g = Idle
               \/ /\ g.pc = "saveUser" /\ g.for = "email_change" /\ g.k = h.k /\ g.u = h.u
                  /\ g.row = NewAddress(h.row, h.e)
    BY <1>6, CheckFreeGoes
  <2>3. mailed[h.k] # None /\ <<h.u, h.e>> \in proven
    BY <1>0, <2>1 DEF Carried, Redeems
  <2>4. NewAddress(h.row, h.e).verified /\ NewAddress(h.row, h.e).email = h.e
    BY <2>1, RowMade
  <2>5. Carried(g, home) /\ g.pc \in {"idle", "saveUser"}
    BY <1>0, <2>2, <2>3, <2>4 DEF Carried, Carrying, Redeems, Good
  <2> QED
    BY <1>1, <2>1, <2>2, <2>5 DEF tables
<1>7. CASE Abort(r)
  BY <1>0, <1>1, <1>7 DEF Abort, tables
<1>8. ASSUME NEW g \in Handler, Goto(r, g), g.pc \notin {"stash", "mail"}, Carried(g, home),
             UNCHANGED <<user, stash, mailed, events, proven>>,
             NEW k \in Token, NEW t \in TokenRow, token' = [token EXCEPT ![k] = t],
             mailed[k] # None, t.purpose = "email_verify" => mailed[k] = home[t.u]
      PROVE  Proven(home)'
  <2>1. req' \in [Req -> Handler] /\ req'[r] = g /\ \A q \in Req : q # r => req'[q] = req[q]
    BY <1>8, GotoEffect
  <2>2. Carried(req[r], home)'
    BY <1>8, <2>1, CarriedKept
  <2>3. \A u \in User : user'[u] # None => Good(u, user[u], home)'
    BY <1>8 DEF Proven, Good
  <2>4. token'[k] = t /\ \A j \in Token : j # k => token'[j] = token[j]
    BY <1>8 DEF TypeOK
  <2> QED
    BY <1>8, <2>1, <2>2, <2>3, <2>4, QuietStep
<1>9. CASE MarkUsed(r)
  <2> DEFINE g == [h EXCEPT !.pc = IF h.purpose = "email_change" THEN "getNew" ELSE "loadUser"]
             t == [u |-> h.u, purpose |-> h.purpose, state |-> "used"]
  <2>1. /\ g = [pc |-> IF h.purpose = "email_change" THEN "getNew" ELSE "loadUser",
                k |-> h.k, u |-> h.u, purpose |-> h.purpose, e |-> None]
        /\ g \in Handler /\ h.pc = "markUsed"
    BY <1>0, <1>9, MarkUsedMoved DEF MarkUsed
  <2>2. /\ h.k \in Token /\ h.u \in User /\ h.purpose \in Purpose
    BY <1>0, <2>1, HandlerFields
  <2>3. t \in TokenRow
    BY <2>2 DEF TokenRow
  <2>4. /\ mailed[h.k] # None /\ (h.purpose = "email_verify" => mailed[h.k] = home[h.u])
        /\ <<h.u, mailed[h.k]>> \in proven
    BY <1>0, <2>1, <2>2 DEF Carried, Redeems
  <2>5. g.pc \in {"getNew", "loadUser"} /\ g.k = h.k /\ g.u = h.u /\ g.purpose = h.purpose
        /\ g.e = None
    BY <2>1
  <2>6. Goto(r, g) /\ token' = [token EXCEPT ![h.k] = t]
        /\ UNCHANGED <<user, stash, mailed, events, proven>>
    BY <1>9 DEF MarkUsed, history
  <2>7. t.purpose = h.purpose /\ t.u = h.u
    OBVIOUS
  <2> HIDE DEF g, t
  <2>8. Carried(g, home)
    BY <2>4, <2>5 DEF Carried, Carrying, Redeems
  <2> QED
    BY <1>8, <2>1, <2>2, <2>3, <2>4, <2>5, <2>6, <2>7, <2>8
<1>10. CASE MarkReset(r)
  <2> DEFINE t == [u |-> h.u, purpose |-> "password_reset", state |-> "used"]
  <2>1. h.k \in Token /\ h.u \in User /\ h.pc = "markReset"
    BY <1>0, <1>10, HandlerFields DEF MarkReset
  <2>2. t \in TokenRow /\ t.purpose # "email_verify"
    BY <2>1 DEF TokenRow, Purpose
  <2>3. mailed[h.k] # None
    BY <1>0, <2>1 DEF Carried, Redeems
  <2>4. Goto(r, Idle) /\ token' = [token EXCEPT ![h.k] = t]
        /\ UNCHANGED <<user, stash, mailed, events, proven>>
    BY <1>10 DEF MarkReset, history
  <2> HIDE DEF t
  <2> QED
    BY <1>0, <1>8, <2>1, <2>2, <2>3, <2>4
<1>11. ASSUME NEW g \in Handler, Goto(r, g), g.pc \notin {"stash", "mail"}, Carried(g, home),
              UNCHANGED <<stash, mailed, proven>>,
              \A k \in Token, e \in Email : <<"change", k, e>> \in events' => <<"change", k, e>> \in events,
              \A k \in Token : token'[k] # None => token'[k] = token[k],
              \A v \in User : user'[v] # None => Good(v, user'[v], home)
       PROVE  Proven(home)'
  <2>1. req' \in [Req -> Handler] /\ req'[r] = g /\ \A q \in Req : q # r => req'[q] = req[q]
    BY <1>11, GotoEffect
  <2>2. Carried(req[r], home)'
    BY <1>11, <2>1, CarriedKept
  <2>3. \A u \in User : user'[u] # None => Good(u, user[u], home)'
    BY <1>11 DEF Good
  <2> QED
    BY <1>11, <2>1, <2>2, <2>3, QuietStep
<1>12. CASE Insert(r)
  <2>1. h.pc = "insert" /\ h.u \in User /\ Good(h.u, h.row, home)
    BY <1>0, <1>12, HandlerFields DEF Insert, Carried, Carrying
  <2>2. \A v \in User : user'[v] # None => Good(v, user'[v], home)
    BY <1>12, <2>1 DEF Insert, Proven, TypeOK
  <2> QED
    BY <1>0, <1>11, <1>12, <2>2 DEF Insert, history
<1>13. CASE SaveUser(r)
  <2>1. h.pc = "saveUser" /\ h.u \in User /\ Good(h.u, h.row, home)
    BY <1>0, <1>13, HandlerFields DEF SaveUser, Carried, Carrying
  <2>2. \A v \in User : user'[v] # None => Good(v, user'[v], home)
    BY <1>13, <2>1 DEF SaveUser, Saved, Proven, TypeOK
  <2>3. PICK g \in Handler :
            Goto(r, g) /\ (g = Idle \/ (g.pc = "markReset" /\ g.k = h.k /\ g.u = h.u))
    BY <1>13, SaveUserGoes
  <2>4. Carried(g, home) /\ g.pc \in {"idle", "markReset"}
    BY <1>0, <2>1, <2>3 DEF Carried, Carrying, Redeems
  <2> QED
    BY <1>11, <1>13, <2>2, <2>3, <2>4 DEF SaveUser
<1>14. CASE RemoveUser(r)
  <2>1. h.u \in User
    BY <1>0, <1>14, HandlerFields DEF RemoveUser
  <2>2. \A v \in User : user'[v] # None => Good(v, user'[v], home)
    BY <1>14, <2>1 DEF RemoveUser, Proven, TypeOK
  <2>3. \A k \in Token : token'[k] # None => token'[k] = token[k]
    BY <1>14 DEF RemoveUser
  <2> QED
    BY <1>0, <1>11, <1>14, <2>2, <2>3 DEF RemoveUser
<1> QED
  BY <1>2, <1>3, <1>4, <1>5, <1>6, <1>7, <1>9, <1>10, <1>12, <1>13, <1>14

\* The steps that make a token and mail its link.
LEMMA IssueProven ==
    ASSUME TypeOK, Born, NEW home, Proven(home), NEW r \in Req, Issue(r)
    PROVE  Proven(home)'
<1> DEFINE h == req[r]
<1>0. /\ h.pc = "issue" /\ h.u \in User /\ h.e \in Email /\ h.purpose \in Purpose
      /\ h.purpose = "email_verify" => h.e = home[h.u]
  BY HandlerFields DEF Issue, TypeOK, Proven, Carried
<1>1. PICK j \in Token :
            /\ j \notin born
            /\ token' = [token EXCEPT ![j] = [u |-> h.u, purpose |-> h.purpose, state |-> "fresh"]]
            /\ Goto(r, [pc |-> IF h.purpose = "email_change" THEN "stash" ELSE "mail",
                        k |-> j, e |-> h.e])
  BY DEF Issue
<1>2. UNCHANGED <<user, stash, mailed, events, proven>>
  BY DEF Issue
<1> DEFINE g == [pc |-> IF h.purpose = "email_change" THEN "stash" ELSE "mail",
                 k |-> j, e |-> h.e]
<1>3. /\ g \in Handler /\ Goto(r, g) /\ g.k = j /\ g.e = h.e /\ g.pc \in {"stash", "mail"}
      /\ g.pc = "stash" <=> h.purpose = "email_change"
  <2>1. CASE h.purpose = "email_change"
    BY <1>0, <1>1, <2>1, HandlerMade
  <2>2. CASE h.purpose # "email_change"
    BY <1>0, <1>1, <2>2, HandlerMade
  <2> QED
    BY <2>1, <2>2
<1> HIDE DEF g
<1>4. req'[r] = g /\ \A q \in Req : q # r => req'[q] = req[q]
  BY <1>3, GotoEffect
<1>5. /\ mailed[j] = None /\ stash[j] = None /\ \A e \in Email : <<"change", j, e>> \notin events
      /\ \A q \in Req : req[q].pc \in {"stash", "mail"} => req[q].k # j
  BY <1>1 DEF Born, TokenBorn, WithToken
<1>6. /\ token'[j].u = h.u /\ token'[j].purpose = h.purpose
      /\ \A k \in Token : k # j => token'[k] = token[k]
  BY <1>1 DEF TypeOK
<1>7. ASSUME NEW q \in Req PROVE Carried(req[q], home)'
  <2>1. CASE q = r
    BY <1>3, <1>4, <2>1 DEF Carried, Carrying, Redeems
  <2>2. CASE q # r
    BY <1>2, <1>4, <2>2, CarriedKept DEF Proven, TypeOK
  <2> QED
    BY <2>1, <2>2
<1>8. ASSUME NEW q \in Req PROVE Waiting(q, home)'
  <2>1. CASE q = r
    <3>1. \A t \in Req : t # r /\ req'[t].pc \in {"stash", "mail"} => req'[t].k # j
      BY <1>4, <1>5
    <3> QED
      BY <1>0, <1>2, <1>3, <1>4, <1>5, <1>6, <2>1, <3>1 DEF Waiting
  <2>2. CASE q # r /\ req[q].pc \in {"stash", "mail"}
    <3>1. Waiting(q, home) /\ req'[q] = req[q] /\ req[q].k \in Token /\ req[q].k # j
      BY <1>4, <1>5, <2>2, HandlerFields DEF Proven, TypeOK
    <3>2. token'[req[q].k] = token[req[q].k]
      BY <1>6, <3>1
    <3>3. \A t \in Req : t # q /\ req'[t].pc \in {"stash", "mail"} => req'[t].k # req[q].k
      BY <1>3, <1>4, <2>2, <3>1 DEF Waiting
    <3> QED
      BY <1>2, <2>2, <3>1, <3>2, <3>3 DEF Waiting
  <2>3. CASE q # r /\ req[q].pc \notin {"stash", "mail"}
    BY <1>4, <2>3 DEF Waiting
  <2> QED
    BY <2>1, <2>2, <2>3
<1>9. ASSUME NEW k \in Token PROVE Mails(k, home)'
  BY <1>2, <1>5, <1>6 DEF Mails, Proven
<1>10. \A u \in User : user'[u] # None => Good(u, user[u], home)'
  BY <1>2 DEF Proven, Good
<1> QED
  BY <1>7, <1>8, <1>9, <1>10 DEF Proven

\* A link goes out, or an address is put aside for it: about a token k that
\* one handler r waits with, if one does.
LEMMA MailStep ==
    ASSUME TypeOK, NEW home, Proven(home), UNCHANGED <<user, token, proven>>, NEW k \in Token,
           \A j \in Token : j # k => mailed'[j] = mailed[j] /\ stash'[j] = stash[j],
           \A j \in Token, e \in Email : j # k =>
                (<<"change", j, e>> \in events' <=> <<"change", j, e>> \in events),
           mailed[k] = None, Mails(k, home)',
           req' \in [Req -> Handler],
           \A q \in Req : \/ req'[q] = Idle
                          \/ req'[q] = req[q] /\ (req[q].pc \in {"stash", "mail"} => req[q].k # k)
    PROVE  Proven(home)'
<1>1. Idle.pc = "idle"
  BY HandlerMade
<1>2. ASSUME NEW q \in Req PROVE Carried(req[q], home)'
  <2>1. CASE req'[q] = Idle
    BY <1>1, <2>1 DEF Carried, Carrying, Redeems
  <2>2. CASE req'[q] = req[q]
    <3>1. \A j \in Token : mailed[j] # None => mailed'[j] = mailed[j]
      OBVIOUS
    <3> QED
      BY <2>2, <3>1, CarriedKept DEF Proven, TypeOK
  <2> QED
    BY <2>1, <2>2
<1>3. ASSUME NEW q \in Req PROVE Waiting(q, home)'
  <2>1. CASE req'[q] = Idle
    BY <1>1, <2>1 DEF Waiting
  <2>2. CASE req'[q] = req[q] /\ req[q].pc \in {"stash", "mail"} /\ req[q].k # k
    <3>1. Waiting(q, home) /\ req[q].k \in Token
      BY <2>2, HandlerFields DEF Proven, TypeOK
    <3>2. \A t \in Req : t # q /\ req'[t].pc \in {"stash", "mail"} => req'[t].k # req[q].k
      BY <1>1, <2>2, <3>1 DEF Waiting
    <3>3. mailed'[req[q].k] = mailed[req[q].k] /\ stash'[req[q].k] = stash[req[q].k]
          /\ \A e \in Email : <<"change", req[q].k, e>> \in events' =>
                                <<"change", req[q].k, e>> \in events
      BY <2>2, <3>1
    <3> QED
      BY <2>2, <3>1, <3>2, <3>3 DEF Waiting
  <2>3. CASE req'[q] = req[q] /\ req[q].pc \notin {"stash", "mail"}
    BY <2>3 DEF Waiting
  <2> QED
    BY <2>1, <2>2, <2>3
<1>4. ASSUME NEW j \in Token, j # k PROVE Mails(j, home)'
  BY <1>4 DEF Proven, Mails
<1>5. \A u \in User : user'[u] # None => Good(u, user[u], home)'
  BY DEF Proven, Good
<1> QED
  BY <1>2, <1>3, <1>4, <1>5 DEF Proven

LEMMA MailProven ==
    ASSUME TypeOK, NEW home, Proven(home), NEW r \in Req, Stash(r) \/ EnqueueMail(r)
    PROVE  Proven(home)'
<1>0. req[r].k \in Token /\ req[r].e \in Email /\ req[r].pc \in {"stash", "mail"} /\ Idle \in Handler
  BY HandlerFields, HandlerMade DEF Stash, EnqueueMail, TypeOK
<1>1. PICK k \in Token : k = req[r].k
  BY <1>0
<1>2. Waiting(r, home) /\ Mails(k, home)
  BY <1>0 DEF Proven
<1>3. Goto(r, Idle) /\ UNCHANGED <<user, token, proven>>
  BY DEF Stash, EnqueueMail, history
<1>4. req' \in [Req -> Handler] /\ req'[r] = Idle /\ \A q \in Req : q # r => req'[q] = req[q]
  BY <1>0, <1>3, GotoEffect
<1>5. \A q \in Req : \/ req'[q] = Idle
                     \/ req'[q] = req[q] /\ (req[q].pc \in {"stash", "mail"} => req[q].k # k)
  BY <1>0, <1>1, <1>2, <1>4 DEF Waiting
<1>6. mailed[k] = None /\ stash[k] = None /\ \A e \in Email : <<"change", k, e>> \notin events
  BY <1>0, <1>1, <1>2 DEF Waiting
<1>7. CASE Stash(r)
  <2>1. req[r].pc = "stash" /\ mailed' = mailed
        /\ stash' = [stash EXCEPT ![k] = req[r].e]
        /\ events' = events \cup {<<"change", k, req[r].e>>}
    BY <1>1, <1>7 DEF Stash
  <2>2. token[k] # None => token[k].purpose = "email_change"
    BY <1>1, <1>2, <2>1 DEF Waiting
  <2>3. /\ stash'[k] = req[r].e /\ \A j \in Token : j # k => stash'[j] = stash[j]
        /\ \A e \in Email : <<"change", k, e>> \in events' => e = req[r].e
        /\ \A j \in Token, e \in Email : j # k =>
                (<<"change", j, e>> \in events' <=> <<"change", j, e>> \in events)
    BY <1>0, <1>6, <2>1 DEF TypeOK
  <2>4. Mails(k, home)'
    BY <1>3, <1>6, <2>1, <2>2, <2>3 DEF Mails
  <2> QED
    BY <1>0, <1>3, <1>4, <1>5, <1>6, <2>1, <2>3, <2>4, MailStep
<1>8. CASE EnqueueMail(r)
  <2>1. req[r].pc = "mail" /\ mailed' = [mailed EXCEPT ![k] = req[r].e]
        /\ UNCHANGED <<stash, events>>
    BY <1>1, <1>8 DEF EnqueueMail, history
  <2>2. token[k] # None /\ token[k].purpose = "email_verify" => req[r].e = home[token[k].u]
    BY <1>1, <1>2, <2>1 DEF Waiting
  <2>3. mailed'[k] = req[r].e /\ \A j \in Token : j # k => mailed'[j] = mailed[j]
    BY <1>0, <2>1 DEF TypeOK
  <2>4. Mails(k, home)'
    BY <1>3, <1>6, <2>1, <2>2, <2>3 DEF Mails
  <2> QED
    BY <1>0, <1>3, <1>4, <1>5, <1>6, <2>1, <2>3, <2>4, MailStep
<1> QED
  BY <1>7, <1>8

LEMMA ContinueProven ==
    ASSUME TypeOK, Born, NEW home, Proven(home), NEW r \in Req, Continue(r)
    PROVE  Proven(home)'
  BY GoOnProven, IssueProven, MailProven DEF Continue

LEMMA EnvironmentProven ==
    ASSUME TypeOK, NEW home, Proven(home),
           \/ UNCHANGED acctVars
           \/ \E k \in Token : Expire(k) \/ ExpireStash(k) \/ \E e \in Email : OnChangeRequested(k, e)
           \/ \E ev \in events : LoseEvent(ev)
    PROVE  Proven(home)'
<1>0. req' = req /\ req' \in [Req -> Handler]
  BY DEF acctVars, Expire, ExpireStash, OnChangeRequested, LoseEvent, TypeOK
<1>1. ASSUME UNCHANGED <<user, mailed, proven>>,
             \A k \in Token : stash'[k] = stash[k] \/ stash'[k] = None,
             events' \subseteq events,
             \A k \in Token : token'[k] # None =>
                    token[k] # None /\ token'[k].u = token[k].u /\ token'[k].purpose = token[k].purpose
      PROVE  Proven(home)'
  <2>1. \A u \in User : user'[u] # None => Good(u, user[u], home)'
    BY <1>1 DEF Proven, Good
  <2> QED
    BY <1>0, <1>1, <2>1, QuietStep
<1>2. CASE UNCHANGED acctVars
  BY <1>1, <1>2 DEF acctVars
<1>3. ASSUME NEW k \in Token, Expire(k) PROVE Proven(home)'
  <2>1. \A j \in Token : token'[j] # None =>
            token[j] # None /\ token'[j].u = token[j].u /\ token'[j].purpose = token[j].purpose
    BY <1>3 DEF Expire, TypeOK, TokenRow
  <2> QED
    BY <1>1, <1>3, <2>1 DEF Expire, history
<1>4. ASSUME NEW k \in Token, ExpireStash(k) PROVE Proven(home)'
  <2>1. \A j \in Token : stash'[j] = stash[j] \/ stash'[j] = None
    BY <1>4 DEF ExpireStash, TypeOK
  <2> QED
    BY <1>1, <1>4, <2>1 DEF ExpireStash, history
<1>5. ASSUME NEW ev \in events, LoseEvent(ev) PROVE Proven(home)'
  BY <1>1, <1>5 DEF LoseEvent, history
<1>6. ASSUME NEW k \in Token, NEW e \in Email, OnChangeRequested(k, e) PROVE Proven(home)'
  <2>1. /\ <<"change", k, e>> \in events /\ events' = events \ {<<"change", k, e>>}
        /\ mailed' = [mailed EXCEPT ![k] = e] /\ UNCHANGED <<user, token, stash, proven>>
    BY <1>6 DEF OnChangeRequested, history
  <2>2. /\ mailed[k] = None /\ (stash[k] # None => stash[k] = e)
        /\ \A f \in Email : <<"change", k, f>> \notin events'
        /\ token[k] # None => token[k].purpose = "email_change"
    BY <2>1 DEF Proven, Mails
  <2>3. mailed'[k] = e /\ \A j \in Token : j # k => mailed'[j] = mailed[j]
    BY <2>1 DEF TypeOK
  <2>4. Mails(k, home)'
    BY <2>1, <2>2, <2>3 DEF Mails
  <2>5. \A q \in Req : req[q].pc \in {"stash", "mail"} => req[q].k # k
    BY <2>1 DEF Proven, Waiting
  <2> QED
    BY <1>0, <2>1, <2>2, <2>3, <2>4, <2>5, MailStep
<1> QED
  BY <1>2, <1>3, <1>4, <1>5, <1>6

\* The addresses of the registrations are what makes the rest inductive.
Homes == \E home \in [User -> Email \cup {None}] : Proven(home)

LEMMA NextHomes == TypeOK /\ Born /\ Homes /\ [Next]_acctVars => Homes'
<1> SUFFICES ASSUME TypeOK, Born, [Next]_acctVars, NEW home \in [User -> Email \cup {None}], Proven(home)
             PROVE  \E new \in [User -> Email \cup {None}] : Proven(new)'
  BY DEF Homes
<1>1. CASE \E r \in Req, u \in User, e \in Email, p \in Password : Register(r, u, e, p) /\ Arrive(r)
  <2>1. PICK r \in Req, u \in User, e \in Email, p \in Password : Register(r, u, e, p) /\ Arrive(r)
    BY <1>1
  <2> DEFINE new == [home EXCEPT ![u] = e]
  <2>2. new \in [User -> Email \cup {None}] /\ Proven(new) /\ new[u] = e
    BY <2>1, Rehome DEF Register
  <2>3. \A v \in User, f \in Email, p2 \in Password : Register(r, v, f, p2) => new[v] = f
    <3> SUFFICES ASSUME NEW v \in User, NEW f \in Email, NEW p2 \in Password,
                        Register(r, v, f, p2)
                 PROVE  v = u /\ f = e
      BY <2>2
    <3>1. [pc |-> "insert", u |-> u, row |-> [email |-> e, verified |-> FALSE, password |-> p]] \in Handler
          /\ [pc |-> "insert", u |-> v, row |-> [email |-> f, verified |-> FALSE, password |-> p2]] \in Handler
      BY HandlerMade DEF UserRow
    <3>2. /\ req'[r] = [pc |-> "insert", u |-> u,
                        row |-> [email |-> e, verified |-> FALSE, password |-> p]]
          /\ req'[r] = [pc |-> "insert", u |-> v,
                        row |-> [email |-> f, verified |-> FALSE, password |-> p2]]
      BY <2>1, <3>1, GotoEffect DEF Register
    <3>3. req'[r].u = u /\ req'[r].u = v /\ req'[r].row.email = e /\ req'[r].row.email = f
      BY <3>2
    <3> QED
      BY <3>3
  <2> HIDE DEF new
  <2>4. Proven(new)'
    BY <2>1, <2>2, <2>3, ArriveProven
  <2> QED
    BY <2>2, <2>4
<1>2. CASE ~\E r \in Req, u \in User, e \in Email, p \in Password : Register(r, u, e, p) /\ Arrive(r)
  <2>1. \A r \in Req : Arrive(r) => Proven(home)'
    BY <1>2, ArriveProven
  <2>2. \A r \in Req : Continue(r) => Proven(home)'
    BY ContinueProven
  <2>3. Proven(home)'
    BY <2>1, <2>2, EnvironmentProven DEF Next
  <2> QED
    BY <2>3
<1> QED
  BY <1>1, <1>2

\* For any users, addresses, tokens, handlers and bounds: VerifiedEmailProven
\* (confirmEmailVerification 82-95, confirmEmailChange 117-147).
THEOREM VerifiedProven == Spec => []VerifiedEmailProven
<1>1. Init => TypeOK /\ Born /\ Homes
  <2>1. [u \in User |-> None] \in [User -> Email \cup {None}]
    OBVIOUS
  <2> QED
    BY <2>1, InitTypes, InitBorn, InitProven DEF Homes
<1>2. TypeOK /\ Born /\ Homes /\ [Next]_acctVars => (TypeOK /\ Born /\ Homes)'
  BY NextTypes, NextBorn, NextHomes
<1>3. Homes => VerifiedEmailProven
  BY DEF Homes, Proven, Good, VerifiedEmailProven
<1> QED
  BY <1>1, <1>2, <1>3, PTL DEF Spec
=============================================================================
