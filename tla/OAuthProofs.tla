----------------------------- MODULE OAuthProofs -----------------------------
(***************************************************************************)
(* Theorems about OAuth for any users, identities, profiles, codes and     *)
(* handlers: its typing, what a one-time code is worth, where an identity  *)
(* leads, and that an account without a password stays in reach.           *)
(***************************************************************************)
EXTENDS OAuth, FiniteSetTheorems, TLAPS

-----------------------------------------------------------------------------
\* Every id in a table or carried by a handler was given out before.
IdsGivenOut ==
    /\ \A u \in User : Live(u) => u \in used
    /\ \A i \in Identity : link[i] # None => link[i] \in used
    /\ \A r \in Req : req[r].pc \in {"findUser", "saveLink", "issueCode"} => req[r].u \in used
    /\ \A c \in Code : otc[c] # None \/ Exchanging(c) # {} \/ minted[c] # 0 => c \in used

\* A callback that has found or saved the link of its identity still has it
\* right, as long as the account exists; and so had those before it.
LinksLead ==
    /\ \A r \in Req : req[r].pc \in {"findUser", "issueCode"} /\ Live(req[r].u) =>
            link[req[r].p[1]] = req[r].u
    /\ \A i \in Identity : led[i] \subseteq {link[i]}

\* Without an overlap, one exchange at most works on a code; past its DEL the
\* code is gone, and a session is the end of it.
CodesOnce ==
    \A c \in Code : c \notin crossed =>
        /\ \A q, r \in Exchanging(c) : q = r
        /\ \A r \in Exchanging(c) : minted[c] = 0 /\ (req[r].pc # "del" => otc[c] = None)
        /\ minted[c] \in {0, 1}
        /\ minted[c] = 1 => otc[c] = None

IInv == TypeOK /\ IdsGivenOut /\ LinksLead /\ CodesOnce /\ AccountInReach

-----------------------------------------------------------------------------
\* What the program counter of a handler says about the fields it carries.
LEMMA HandlerFields ==
    ASSUME NEW h \in Handler
    PROVE  /\ h.pc \in {"findLink", "findEmail", "create"} => h.p \in Profiles
           /\ h.pc \in {"findUser", "saveLink", "issueCode"} => h.p \in Profiles /\ h.u \in User
           /\ h.pc \in {"del", "findOwner", "session"} => h.c \in Code /\ h.u \in User
  BY DEF Handler

\* The handler records that the steps make.
LEMMA HandlerMade ==
    /\ Idle \in Handler /\ Idle.pc = "idle"
    /\ \A p \in Profiles : /\ [pc |-> "findLink", p |-> p] \in Handler
                           /\ [pc |-> "findEmail", p |-> p] \in Handler
                           /\ [pc |-> "create", p |-> p] \in Handler
    /\ \A p \in Profiles, u \in User : /\ [pc |-> "findUser", p |-> p, u |-> u] \in Handler
                                       /\ [pc |-> "saveLink", p |-> p, u |-> u] \in Handler
    /\ \A c \in Code, u \in User : [pc |-> "del", c |-> c, u |-> u] \in Handler
  BY DEF Handler, Idle

\* A handler that moves on keeps its fields.
LEMMA HandlerMoved ==
    ASSUME NEW h \in Handler
    PROVE  /\ h.pc \in {"findUser", "saveLink"} =>
                /\ [h EXCEPT !.pc = "issueCode"] \in Handler
                /\ [h EXCEPT !.pc = "issueCode"].pc = "issueCode"
                /\ [h EXCEPT !.pc = "issueCode"].p = h.p
                /\ [h EXCEPT !.pc = "issueCode"].u = h.u
           /\ h.pc = "del" =>
                /\ [h EXCEPT !.pc = "findOwner"] \in Handler
                /\ [h EXCEPT !.pc = "findOwner"].pc = "findOwner"
                /\ [h EXCEPT !.pc = "findOwner"].c = h.c
           /\ h.pc = "findOwner" =>
                /\ [h EXCEPT !.pc = "session"] \in Handler
                /\ [h EXCEPT !.pc = "session"].pc = "session"
                /\ [h EXCEPT !.pc = "session"].c = h.c
  BY DEF Handler

\* A profile is an identity, an address or none, and a mark.
LEMMA ProfileFields ==
    ASSUME NEW p \in Profiles
    PROVE  /\ p[1] \in Identity /\ p[2] \in Email \cup {None} /\ p[3] \in BOOLEAN
           /\ NewRow(p) \in UserRow
  BY OAuthAssumption DEF Profile, NewRow, Address, UserRow, Placeholder

\* A handler's step leaves the other handlers alone.
LEMMA GotoEffect ==
    ASSUME TypeOK, NEW r \in Req, NEW h \in Handler, Goto(r, h)
    PROVE  /\ req' \in [Req -> Handler]
           /\ req'[r] = h
           /\ \A q \in Req : q # r => req'[q] = req[q]
  BY DEF TypeOK, Goto

-----------------------------------------------------------------------------
\* The accounts registered with a password are all there is.
LEMMA InitIInv == Init => IInv
<1> SUFFICES ASSUME Init PROVE IInv
  OBVIOUS
<1>1. \A u \in EarlyUsers : u \in User /\ Registered(u) \in Email
  BY OAuthAssumption DEF Profile, EarlyUsers, Registered
<1>2. TypeOK
  <2>1. user \in [User -> UserRow \cup {None}]
    BY <1>1 DEF Init, UserRow
  <2>2. req \in [Req -> Handler]
    BY HandlerMade DEF Init
  <2> QED
    BY <1>1, <2>1, <2>2 DEF TypeOK, Init
<1>3. \A r \in Req : req[r].pc = "idle"
  BY HandlerMade DEF Init
<1>4. \A u \in User : Live(u) => u \in EarlyUsers /\ user[u].password
  BY DEF Init, Live
<1> QED
  BY <1>2, <1>3, <1>4
  DEF IInv, IdsGivenOut, LinksLead, CodesOnce, AccountInReach, Init, Exchanging

-----------------------------------------------------------------------------
\* Steps of a callback that only move its handler on, and keep what the
\* invariant says of it.
LEMMA CallbackMoves ==
    ASSUME IInv, NEW r \in Req, NEW h \in Handler, Goto(r, h),
           UNCHANGED <<user, link, otc, history>>, hop' \in [Hop -> {"none", "open", "spent"}],
           req[r].pc \notin {"del", "findOwner", "session", "saveLink"},
           h.pc \notin {"del", "findOwner", "session"},
           h.pc \in {"findUser", "saveLink", "issueCode"} => h.u \in used,
           h.pc \in {"findUser", "issueCode"} /\ Live(h.u) => link[h.p[1]] = h.u
    PROVE  IInv'
<1> USE DEF IInv
<1>1. /\ req' \in [Req -> Handler] /\ req'[r] = h
      /\ \A q \in Req : q # r => req'[q] = req[q]
  BY GotoEffect
<1>2. TypeOK'
  BY <1>1 DEF TypeOK, history
<1>3. \A u \in User : Live(u)' <=> Live(u)
  BY DEF Live
<1>4. \A c \in Code : Exchanging(c)' = Exchanging(c)
  BY <1>1 DEF Exchanging
<1>5. IdsGivenOut'
  BY <1>1, <1>3, <1>4 DEF IdsGivenOut, history
<1>6. LinksLead'
  BY <1>1, <1>3 DEF LinksLead, Live, history
<1>7. CodesOnce'
  BY <1>1, <1>4 DEF CodesOnce, Exchanging, history
<1>8. AccountInReach'
  BY <1>1, <1>3 DEF AccountInReach, history
<1> QED
  BY <1>2, <1>5, <1>6, <1>7, <1>8

\* The statements of a callback before it saves anything.
LEMMA CallbackStep ==
    ASSUME IInv, NEW r \in Req,
           \/ \E x \in Hop, p \in Profiles : Callback(r, x, p)
           \/ FindLink(r) \/ FindUser(r) \/ FindEmail(r)
    PROVE  IInv'
<1> USE DEF IInv
<1>0. req[r] \in Handler
  BY DEF TypeOK
<1>1. CASE \E x \in Hop, p \in Profiles : Callback(r, x, p)
  <2> PICK x \in Hop, p \in Profiles : Callback(r, x, p)
    BY <1>1
  <2> DEFINE h == [pc |-> "findLink", p |-> p]
  <2>1. h \in Handler /\ h.pc = "findLink"
    BY HandlerMade
  <2> HIDE DEF h
  <2>2. Goto(r, h) /\ req[r].pc = "idle"
    BY HandlerMade DEF Callback, h
  <2> QED
    BY <2>1, <2>2, CallbackMoves DEF Callback, TakeCode, TypeOK
<1>2. CASE FindLink(r)
  <2> DEFINE p == req[r].p
             h == CASE link[p[1]] # None -> [pc |-> "findUser", p |-> p, u |-> link[p[1]]]
                    [] link[p[1]] = None /\ LooksUp(p) -> [pc |-> "findEmail", p |-> p]
                    [] OTHER -> [pc |-> "create", p |-> p]
  <2>1. p \in Profiles /\ p[1] \in Identity
    BY <1>0, <1>2, HandlerFields, ProfileFields DEF FindLink
  <2>2. link[p[1]] # None => link[p[1]] \in User /\ link[p[1]] \in used
    BY <2>1 DEF TypeOK, IdsGivenOut
  <2>3. CASE link[p[1]] # None
    <3>1. h = [pc |-> "findUser", p |-> p, u |-> link[p[1]]] /\ h \in Handler
      BY <2>1, <2>2, <2>3, HandlerMade
    <3> QED
      BY <1>2, <2>1, <2>2, <3>1, CallbackMoves DEF FindLink, tables, TypeOK
  <2>4. CASE link[p[1]] = None
    <3>1. h \in Handler /\ h.pc \in {"findEmail", "create"}
      BY <2>1, <2>4, HandlerMade
    <3> HIDE DEF h
    <3>2. Goto(r, h)
      BY <1>2 DEF FindLink, h
    <3> QED
      BY <1>2, <3>1, <3>2, CallbackMoves DEF FindLink, tables, TypeOK
  <2> QED
    BY <2>3, <2>4
<1>3. CASE FindUser(r)
  <2> DEFINE h == [req[r] EXCEPT !.pc = "issueCode"]
  <2>1. h \in Handler /\ h.pc = "issueCode" /\ h.p = req[r].p /\ h.u = req[r].u
    BY <1>0, <1>3, HandlerMoved DEF FindUser
  <2>2. h.u \in used /\ (Live(h.u) => link[h.p[1]] = h.u)
    BY <1>3, <2>1 DEF FindUser, IdsGivenOut, LinksLead
  <2>3. Goto(r, h)
    BY <1>3 DEF FindUser
  <2> HIDE DEF h
  <2> QED
    BY <1>3, <2>1, <2>2, <2>3, CallbackMoves DEF FindUser, tables, TypeOK
<1>4. CASE FindEmail(r)
  <2>1. req[r].p \in Profiles
    BY <1>0, <1>4, HandlerFields DEF FindEmail
  <2>2. PICK h \in Handler : /\ Goto(r, h)
                             /\ h.pc \in {"create", "saveLink"}
                             /\ h.pc = "saveLink" => h.u \in used
    BY <1>4, <2>1, HandlerMade DEF FindEmail, IdsGivenOut
  <2> QED
    BY <1>4, <2>2, CallbackMoves DEF FindEmail, tables, TypeOK
<1> QED
  BY <1>1, <1>2, <1>3, <1>4

\* A new account has an id of its own, and its callback goes on to the link.
LEMMA CreateUserStep == ASSUME IInv, NEW r \in Req, CreateUser(r) PROVE IInv'
<1> USE DEF IInv
<1> DEFINE p == req[r].p
<1>1. p \in Profiles /\ NewRow(p) \in UserRow /\ req[r].pc = "create"
  BY HandlerFields, ProfileFields DEF CreateUser, TypeOK
<1>2. PICK v \in User \ used :
        /\ user' = [user EXCEPT ![v] = NewRow(p)]
        /\ used' = used \cup {v}
        /\ Goto(r, [pc |-> "saveLink", p |-> p, u |-> v])
  BY DEF CreateUser
<1> DEFINE h == [pc |-> "saveLink", p |-> p, u |-> v]
<1>3. h \in Handler /\ h.pc = "saveLink" /\ h.u = v
  BY <1>1, HandlerMade
<1>4. /\ req' \in [Req -> Handler] /\ req'[r] = h
      /\ \A q \in Req : q # r => req'[q] = req[q]
  BY <1>2, <1>3, GotoEffect
<1> HIDE DEF h, p
<1>5. UNCHANGED <<link, hop, otc, minted, crossed, led, torn>>
  BY DEF CreateUser
<1>6. user' \in [User -> UserRow \cup {None}] /\ \A u \in User : u # v => user'[u] = user[u]
  BY <1>1, <1>2 DEF TypeOK
<1>7. TypeOK'
  BY <1>2, <1>4, <1>5, <1>6 DEF TypeOK
<1>8. \A c \in Code : Exchanging(c)' = Exchanging(c)
  BY <1>1, <1>3, <1>4 DEF Exchanging
<1>9. IdsGivenOut'
  BY <1>2, <1>3, <1>4, <1>5, <1>6, <1>8 DEF IdsGivenOut, Live
<1>10. LinksLead'
  BY <1>2, <1>3, <1>4, <1>5, <1>6 DEF LinksLead, Live, IdsGivenOut
<1>11. CodesOnce'
  BY <1>1, <1>3, <1>4, <1>5, <1>8 DEF CodesOnce, Exchanging
<1>12. AccountInReach'
  BY <1>1, <1>2, <1>3, <1>4, <1>5, <1>6 DEF AccountInReach, Live
<1> QED
  BY <1>7, <1>9, <1>10, <1>11, <1>12

\* The unique key lets a link be saved only where there was none.
LEMMA SaveLinkStep == ASSUME IInv, NEW r \in Req, SaveLink(r) PROVE IInv'
<1> USE DEF IInv
<1> DEFINE i == req[r].p[1]
           v == req[r].u
           h == [req[r] EXCEPT !.pc = "issueCode"]
<1>1. req[r] \in Handler /\ req[r].pc = "saveLink" /\ i \in Identity /\ v \in User /\ v \in used
  BY HandlerFields, ProfileFields DEF SaveLink, TypeOK, IdsGivenOut
<1>2. h \in Handler /\ h.pc = "issueCode" /\ h.p[1] = i /\ h.u = v
  BY <1>1, HandlerMoved
<1>3. /\ req' \in [Req -> Handler] /\ req'[r] = h
      /\ \A q \in Req : q # r => req'[q] = req[q]
  BY <1>2, GotoEffect DEF SaveLink
<1>4. /\ link[i] = None /\ link' = [link EXCEPT ![i] = v]
      /\ UNCHANGED <<user, hop, otc, history>>
  BY DEF SaveLink, CanLink
<1> HIDE DEF h, i, v
<1>5. TypeOK'
  BY <1>1, <1>3, <1>4 DEF TypeOK, history
<1>6. link'[i] = v /\ \A j \in Identity : j # i => link'[j] = link[j]
  BY <1>1, <1>4 DEF TypeOK
<1>7. \A c \in Code : Exchanging(c)' = Exchanging(c)
  BY <1>1, <1>2, <1>3 DEF Exchanging
<1>8. None \notin User
  BY OAuthAssumption DEF Profile
<1>9. IdsGivenOut'
  BY <1>1, <1>2, <1>3, <1>4, <1>6, <1>7 DEF IdsGivenOut, Live, history
<1>10. LinksLead'
  <2>1. \A q \in Req : req'[q].pc \in {"findUser", "issueCode"} /\ user[req'[q].u] # None =>
                            link'[req'[q].p[1]] = req'[q].u
    <3> SUFFICES ASSUME NEW q \in Req, req'[q].pc \in {"findUser", "issueCode"},
                        user[req'[q].u] # None, q # r
                 PROVE  link'[req'[q].p[1]] = req'[q].u
      BY <1>2, <1>3, <1>6
    <3>1. /\ req'[q] = req[q] /\ req[q] \in Handler /\ req[q].u \in User
          /\ req[q].p[1] \in Identity
      BY <1>3, HandlerFields, ProfileFields DEF TypeOK
    <3>2. link[req[q].p[1]] = req[q].u
      BY <1>4, <3>1 DEF LinksLead, Live
    <3> QED
      BY <1>4, <1>6, <1>8, <3>1, <3>2
  <2>2. \A j \in Identity : led[j] \subseteq {link'[j]}
    BY <1>1, <1>4, <1>6, <1>8 DEF LinksLead, TypeOK
  <2> QED
    BY <1>4, <2>1, <2>2 DEF LinksLead, Live, history
<1>11. CodesOnce'
  BY <1>1, <1>2, <1>3, <1>4, <1>7 DEF CodesOnce, Exchanging, history
<1>12. AccountInReach'
  <2> SUFFICES ASSUME NEW u \in User, user[u] # None, ~user[u].password, u \notin torn
               PROVE  \/ \E j \in Identity : link'[j] = u
                      \/ \E q \in Req : req'[q].pc = "saveLink" /\ req'[q].u = u
    BY <1>4 DEF AccountInReach, Live, history
  <2>1. CASE \E j \in Identity : link[j] = u
    BY <1>4, <1>6, <1>8, <2>1
  <2>2. CASE \E q \in Req : req[q].pc = "saveLink" /\ req[q].u = u
    <3> PICK q \in Req : req[q].pc = "saveLink" /\ req[q].u = u
      BY <2>2
    <3>1. CASE q = r
      BY <1>1, <1>6, <3>1 DEF v
    <3>2. CASE q # r
      BY <1>3, <3>2
    <3> QED
      BY <3>1, <3>2
  <2> QED
    BY <2>1, <2>2 DEF AccountInReach, Live
<1> QED
  BY <1>5, <1>9, <1>10, <1>11, <1>12

\* The code a browser gets leads to the account its identity is linked to.
LEMMA IssueCodeStep == ASSUME IInv, NEW r \in Req, IssueCode(r) PROVE IInv'
<1> USE DEF IInv
<1> DEFINE i == req[r].p[1]
           v == req[r].u
<1>1. req[r].pc = "issueCode" /\ i \in Identity /\ v \in User /\ v \in used
  BY HandlerFields, ProfileFields DEF IssueCode, TypeOK, IdsGivenOut
<1>2. PICK k \in Code \ used : otc' = [otc EXCEPT ![k] = v] /\ used' = used \cup {k}
  BY DEF IssueCode
<1>3. /\ req' \in [Req -> Handler] /\ req'[r] = Idle /\ Idle.pc = "idle"
      /\ \A q \in Req : q # r => req'[q] = req[q]
  BY HandlerMade, GotoEffect DEF IssueCode
<1>4. /\ led' = [led EXCEPT ![i] = @ \cup ({v} \cap {u \in User : Live(u)})]
      /\ UNCHANGED <<user, link, hop, minted, crossed, torn>>
  BY DEF IssueCode
<1>5. Live(v) => link[i] = v
  BY <1>1 DEF LinksLead
<1> HIDE DEF i, v
<1>6. TypeOK'
  BY <1>1, <1>2, <1>3, <1>4 DEF TypeOK
<1>7. \A c \in Code : Exchanging(c)' = Exchanging(c)
  BY <1>1, <1>3 DEF Exchanging
<1>8. \A c \in Code : c # k => otc'[c] = otc[c]
  BY <1>2 DEF TypeOK
<1>9. IdsGivenOut'
  BY <1>2, <1>3, <1>4, <1>7, <1>8 DEF IdsGivenOut, Live
<1>10. LinksLead'
  <2>1. \A j \in Identity : led'[j] \subseteq {link[j]}
    BY <1>1, <1>4, <1>5 DEF LinksLead, TypeOK
  <2> QED
    BY <1>3, <1>4, <2>1 DEF LinksLead, Live
<1>11. CodesOnce'
  <2>1. Exchanging(k) = {} /\ minted[k] = 0
    BY <1>2 DEF IdsGivenOut
  <2>2. \A c \in Code : \A q \in Exchanging(c) : q # r
    BY <1>1 DEF Exchanging
  <2> QED
    BY <1>3, <1>4, <1>7, <1>8, <2>1, <2>2 DEF CodesOnce, Exchanging
<1>12. AccountInReach'
  BY <1>1, <1>3, <1>4 DEF AccountInReach, Live
<1> QED
  BY <1>6, <1>9, <1>10, <1>11, <1>12

-----------------------------------------------------------------------------
\* The steps of an exchange leave accounts and links alone.
LEMMA ExchangeFrame ==
    ASSUME IInv, NEW r \in Req, NEW h \in Handler, Goto(r, h),
           UNCHANGED <<user, link, used, led, torn>>,
           req[r].pc \in {"idle", "del", "findOwner", "session"},
           h.pc \in {"idle", "del", "findOwner", "session"}
    PROVE  LinksLead' /\ AccountInReach'
<1> USE DEF IInv
<1>1. /\ req'[r] = h
      /\ \A q \in Req : q # r => req'[q] = req[q]
  BY GotoEffect
<1> QED
  BY <1>1 DEF LinksLead, AccountInReach, Live

\* GET finds a code given out, which no session came of unless it is crossed.
LEMMA ExchangeStep == ASSUME IInv, NEW r \in Req, NEW k \in Code, Exchange(r, k) PROVE IInv'
<1> USE DEF IInv
<1> DEFINE h == [pc |-> "del", c |-> k, u |-> otc[k]]
<1>1. req[r].pc = "idle" /\ otc[k] # None /\ otc[k] \in User /\ h \in Handler /\ h.pc = "del" /\ h.c = k
  BY HandlerMade DEF Exchange, TypeOK
<1>2. /\ req' \in [Req -> Handler] /\ req'[r] = h
      /\ \A q \in Req : q # r => req'[q] = req[q]
  BY <1>1, GotoEffect DEF Exchange
<1>3. /\ crossed' = IF Exchanging(k) = {} THEN crossed ELSE crossed \cup {k}
      /\ Goto(r, h)
      /\ UNCHANGED <<tables, used, minted, led, torn>>
  BY DEF Exchange
<1> HIDE DEF h
<1>4. TypeOK'
  BY <1>2, <1>3 DEF TypeOK, tables
<1>5. Exchanging(k)' = Exchanging(k) \cup {r} /\ \A c \in Code : c # k => Exchanging(c)' = Exchanging(c)
  BY <1>1, <1>2 DEF Exchanging
<1>6. IdsGivenOut'
  BY <1>1, <1>2, <1>3, <1>5 DEF IdsGivenOut, Live, tables
<1>7. CodesOnce'
  <2> SUFFICES ASSUME NEW c \in Code, c \notin crossed'
               PROVE  /\ \A p, q \in Exchanging(c)' : p = q
                      /\ \A q \in Exchanging(c)' : minted[c] = 0 /\ (req'[q].pc # "del" => otc[c] = None)
                      /\ minted[c] \in {0, 1}
                      /\ minted[c] = 1 => otc[c] = None
    BY <1>3 DEF CodesOnce, tables
  <2>1. c \notin crossed
    BY <1>3
  <2>2. CASE c = k
    <3>1. Exchanging(k) = {} /\ Exchanging(c)' = {r} /\ minted[k] = 0
      BY <1>1, <1>3, <1>5, <2>1, <2>2 DEF CodesOnce
    <3> QED
      BY <1>1, <1>2, <2>2, <3>1
  <2>3. CASE c # k
    BY <1>1, <1>2, <1>5, <2>1, <2>3 DEF CodesOnce, Exchanging
  <2> QED
    BY <2>2, <2>3
<1> QED
  BY <1>1, <1>3, <1>4, <1>6, <1>7, ExchangeFrame DEF tables

\* DEL: the code is gone for everybody.
LEMMA DelCodeStep == ASSUME IInv, NEW r \in Req, DelCode(r) PROVE IInv'
<1> USE DEF IInv
<1> DEFINE h == [req[r] EXCEPT !.pc = "findOwner"]
           k == req[r].c
<1>1. req[r].pc = "del" /\ k \in Code /\ h \in Handler /\ h.pc = "findOwner" /\ h.c = k
  BY HandlerFields, HandlerMoved DEF DelCode, TypeOK
<1>2. /\ req' \in [Req -> Handler] /\ req'[r] = h
      /\ \A q \in Req : q # r => req'[q] = req[q]
  BY <1>1, GotoEffect DEF DelCode
<1>3. /\ otc' = [otc EXCEPT ![k] = None] /\ Goto(r, h)
      /\ UNCHANGED <<user, link, hop, history>>
  BY DEF DelCode
<1> HIDE DEF h
<1>4. \A c \in Code : Exchanging(c)' = Exchanging(c)
  <2>1. \A c \in Code : r \in Exchanging(c)' <=> r \in Exchanging(c)
    BY <1>1, <1>2 DEF Exchanging
  <2>2. \A c \in Code, q \in Req : q # r => (q \in Exchanging(c)' <=> q \in Exchanging(c))
    BY <1>2 DEF Exchanging
  <2> QED
    BY <2>1, <2>2 DEF Exchanging
<1> HIDE DEF k
<1>5. TypeOK'
  BY <1>1, <1>2, <1>3 DEF TypeOK, history
<1>6. otc'[k] = None /\ \A c \in Code : c # k => otc'[c] = otc[c]
  BY <1>1, <1>3 DEF TypeOK
<1>7. IdsGivenOut'
  BY <1>1, <1>2, <1>3, <1>4, <1>6 DEF IdsGivenOut, Live, history
<1>8. CodesOnce'
  <2>1. r \in Exchanging(k)
    BY <1>1 DEF Exchanging, k
  <2>2. \A c \in Code : c # k => r \notin Exchanging(c)
    BY DEF Exchanging, k
  <2> QED
    BY <1>1, <1>2, <1>3, <1>4, <1>6, <2>1, <2>2 DEF CodesOnce, Exchanging, history
<1> QED
  BY <1>1, <1>3, <1>5, <1>7, <1>8, ExchangeFrame DEF history

\* users.findOne leaves everything as it is.
LEMMA FindOwnerStep == ASSUME IInv, NEW r \in Req, FindOwner(r) PROVE IInv'
<1> USE DEF IInv
<1> DEFINE h == [req[r] EXCEPT !.pc = "session"]
<1>1. req[r].pc = "findOwner" /\ h \in Handler /\ h.pc = "session" /\ h.c = req[r].c
  BY HandlerMoved DEF FindOwner, TypeOK
<1>2. /\ req' \in [Req -> Handler] /\ req'[r] = h
      /\ \A q \in Req : q # r => req'[q] = req[q]
  BY <1>1, GotoEffect DEF FindOwner
<1>3. Goto(r, h) /\ UNCHANGED <<tables, history>>
  BY DEF FindOwner
<1> HIDE DEF h
<1>4. \A c \in Code : Exchanging(c)' = Exchanging(c)
  <2>1. \A c \in Code : r \in Exchanging(c)' <=> r \in Exchanging(c)
    BY <1>1, <1>2 DEF Exchanging
  <2>2. \A c \in Code, q \in Req : q # r => (q \in Exchanging(c)' <=> q \in Exchanging(c))
    BY <1>2 DEF Exchanging
  <2> QED
    BY <2>1, <2>2 DEF Exchanging
<1>5. TypeOK'
  BY <1>2, <1>3 DEF TypeOK, tables, history
<1>6. IdsGivenOut'
  BY <1>1, <1>2, <1>3, <1>4 DEF IdsGivenOut, Live, tables, history
<1>7. CodesOnce'
  BY <1>1, <1>2, <1>3, <1>4 DEF CodesOnce, Exchanging, tables, history
<1> QED
  BY <1>1, <1>3, <1>5, <1>6, <1>7, ExchangeFrame DEF tables, history

\* The session: its handler was the only one at work on the code.
LEMMA IssueSessionStep == ASSUME IInv, NEW r \in Req, IssueSession(r) PROVE IInv'
<1> USE DEF IInv
<1> DEFINE k == req[r].c
<1>1. req[r].pc = "session" /\ k \in Code /\ Idle \in Handler /\ Idle.pc = "idle"
  BY HandlerFields, HandlerMade DEF IssueSession, TypeOK
<1>2. /\ req' \in [Req -> Handler] /\ req'[r] = Idle
      /\ \A q \in Req : q # r => req'[q] = req[q]
  BY <1>1, GotoEffect DEF IssueSession
<1>3. /\ minted' = [minted EXCEPT ![k] = @ + 1] /\ Goto(r, Idle)
      /\ UNCHANGED <<tables, used, crossed, led, torn>>
  BY DEF IssueSession
<1>4. r \in Exchanging(k) /\ \A c \in Code : Exchanging(c)' = Exchanging(c) \ {r}
  BY <1>1, <1>2 DEF Exchanging
<1>5. \A c \in Code : c # k => r \notin Exchanging(c)
  BY DEF Exchanging
<1> HIDE DEF k
<1>6. minted' \in [Code -> Nat] /\ minted'[k] = minted[k] + 1 /\ \A c \in Code : c # k => minted'[c] = minted[c]
  BY <1>1, <1>3 DEF TypeOK
<1>7. TypeOK'
  BY <1>2, <1>3, <1>6 DEF TypeOK, tables
<1>8. IdsGivenOut'
  BY <1>1, <1>2, <1>3, <1>4, <1>5, <1>6 DEF IdsGivenOut, Live, tables
<1>9. CodesOnce'
  <2> SUFFICES ASSUME NEW c \in Code, c \notin crossed
               PROVE  /\ \A p, q \in Exchanging(c)' : p = q
                      /\ \A q \in Exchanging(c)' : minted'[c] = 0 /\ (req'[q].pc # "del" => otc[c] = None)
                      /\ minted'[c] \in {0, 1}
                      /\ minted'[c] = 1 => otc[c] = None
    BY <1>3 DEF CodesOnce, tables
  <2>1. CASE c = k
    <3>1. /\ \A q \in Exchanging(c) : q = r
          /\ minted[c] = 0 /\ otc[c] = None
      BY <1>1, <1>4, <2>1 DEF CodesOnce
    <3>2. Exchanging(c)' = {}
      BY <1>4, <3>1
    <3>3. minted'[c] = 1
      BY <1>6, <2>1, <3>1
    <3> QED
      BY <3>1, <3>2, <3>3
  <2>2. CASE c # k
    BY <1>2, <1>4, <1>5, <1>6, <2>2 DEF CodesOnce, Exchanging
  <2> QED
    BY <2>1, <2>2
<1> QED
  BY <1>1, <1>3, <1>7, <1>8, <1>9, ExchangeFrame DEF tables

-----------------------------------------------------------------------------
\* A callback that fails at the link leaves its account among the torn.
LEMMA AbortStep == ASSUME IInv, NEW r \in Req, Abort(r) PROVE IInv'
<1> USE DEF IInv
<1>1. /\ req' \in [Req -> Handler] /\ req'[r] = Idle /\ Idle.pc = "idle"
      /\ \A q \in Req : q # r => req'[q] = req[q]
  BY HandlerMade, GotoEffect DEF Abort
<1>2. /\ torn' = IF req[r].pc = "saveLink" THEN torn \cup {req[r].u} ELSE torn
      /\ UNCHANGED <<tables, used, minted, crossed, led>>
  BY DEF Abort
<1>3. req[r] \in Handler
  BY DEF TypeOK
<1>4. TypeOK'
  BY <1>1, <1>2, <1>3, HandlerFields DEF TypeOK, tables
<1>5. \A c \in Code : Exchanging(c)' = Exchanging(c) \ {r}
  BY <1>1 DEF Exchanging
<1>6. IdsGivenOut'
  BY <1>1, <1>2, <1>5 DEF IdsGivenOut, Live, tables
<1>7. LinksLead'
  BY <1>1, <1>2 DEF LinksLead, Live, tables
<1>8. CodesOnce'
  BY <1>1, <1>2, <1>5 DEF CodesOnce, Exchanging, tables
<1>9. AccountInReach'
  BY <1>1, <1>2 DEF AccountInReach, Live, tables
<1> QED
  BY <1>4, <1>6, <1>7, <1>8, <1>9

\* Hops begin and end, codes expire: nothing else notices.
LEMMA EnvironmentStep ==
    ASSUME IInv,
           \/ \E x \in Hop : BeginFlow(x) \/ ExpireState(x)
           \/ \E c \in Code : ExpireCode(c)
    PROVE  IInv'
<1> USE DEF IInv
<1>1. /\ UNCHANGED <<user, link, req, history>>
      /\ hop' \in [Hop -> {"none", "open", "spent"}]
      /\ otc' \in [Code -> User \cup {None}]
      /\ \A c \in Code : otc'[c] \in {otc[c], None}
  BY DEF BeginFlow, ExpireState, ExpireCode, TypeOK
<1>2. TypeOK'
  BY <1>1 DEF TypeOK, history
<1>3. \A c \in Code : Exchanging(c)' = Exchanging(c)
  BY <1>1 DEF Exchanging
<1>4. IdsGivenOut'
  BY <1>1, <1>3 DEF IdsGivenOut, Live, history
<1>5. LinksLead' /\ AccountInReach'
  BY <1>1 DEF LinksLead, AccountInReach, Live, history
<1>6. CodesOnce'
  BY <1>1, <1>3 DEF CodesOnce, history
<1> QED
  BY <1>2, <1>4, <1>5, <1>6

\* The cascade takes the links of the account; its id is not given out again.
LEMMA DeleteAccountStep == ASSUME IInv, NEW v \in User, DeleteAccount(v) PROVE IInv'
<1> USE DEF IInv
<1>1. /\ user' = [user EXCEPT ![v] = None]
      /\ link' = [i \in Identity |-> IF link[i] = v THEN None ELSE link[i]]
      /\ led' = [i \in Identity |-> led[i] \ {v}]
      /\ UNCHANGED <<hop, otc, req, used, minted, crossed, torn>>
  BY DEF DeleteAccount
<1>2. TypeOK'
  BY <1>1 DEF TypeOK
<1>3. user'[v] = None /\ \A u \in User : u # v => user'[u] = user[u]
  BY <1>1 DEF TypeOK
<1>4. \A i \in Identity : /\ link[i] = v => link'[i] = None
                          /\ link[i] # v => link'[i] = link[i]
  BY <1>1
<1>5. \A c \in Code : Exchanging(c)' = Exchanging(c)
  BY <1>1 DEF Exchanging
<1>6. IdsGivenOut'
  BY <1>1, <1>3, <1>4, <1>5 DEF IdsGivenOut, Live
<1>7. LinksLead'
  <2>1. \A r \in Req : req[r].pc \in {"findUser", "issueCode"} /\ user'[req[r].u] # None =>
                            link'[req[r].p[1]] = req[r].u
    <3> SUFFICES ASSUME NEW r \in Req, req[r].pc \in {"findUser", "issueCode"},
                        user'[req[r].u] # None
                 PROVE  link'[req[r].p[1]] = req[r].u
      OBVIOUS
    <3>1. req[r] \in Handler /\ req[r].u \in User /\ req[r].p[1] \in Identity
      BY HandlerFields, ProfileFields DEF TypeOK
    <3>2. req[r].u # v /\ link[req[r].p[1]] = req[r].u
      BY <1>3, <3>1 DEF LinksLead, Live
    <3> QED
      BY <1>4, <3>1, <3>2
  <2>2. \A i \in Identity : led'[i] \subseteq {link'[i]}
    BY <1>1, <1>4 DEF LinksLead
  <2> QED
    BY <1>1, <2>1, <2>2 DEF LinksLead, Live
<1>8. CodesOnce'
  BY <1>1, <1>5 DEF CodesOnce
<1>9. AccountInReach'
  BY <1>1, <1>3, <1>4 DEF AccountInReach, Live
<1> QED
  BY <1>2, <1>6, <1>7, <1>8, <1>9

-----------------------------------------------------------------------------
\* The invariant is preserved by every step.
THEOREM Invariance == Spec => []IInv
<1>1. IInv /\ [Next]_oauthVars => IInv'
  <2> SUFFICES ASSUME IInv, [Next]_oauthVars PROVE IInv'
    OBVIOUS
  <2>1. CASE UNCHANGED oauthVars
    BY <2>1 DEF oauthVars, IInv, TypeOK, IdsGivenOut, LinksLead, CodesOnce, AccountInReach,
                Live, Exchanging
  <2>2. CASE \E r \in Req : Arrive(r) \/ Continue(r)
    BY <2>2, CallbackStep, CreateUserStep, SaveLinkStep, IssueCodeStep, ExchangeStep,
       DelCodeStep, FindOwnerStep, IssueSessionStep, AbortStep DEF Arrive, Continue
  <2>3. CASE \E u \in User : DeleteAccount(u)
    BY <2>3, DeleteAccountStep
  <2>4. CASE \/ \E x \in Hop : BeginFlow(x) \/ ExpireState(x)
             \/ \E c \in Code : ExpireCode(c)
    BY <2>4, EnvironmentStep
  <2> QED
    BY <2>1, <2>2, <2>3, <2>4 DEF Next
<1> QED
  BY InitIInv, <1>1, PTL DEF Spec

\* Every variable keeps its type.
THEOREM TypeCorrect == Spec => []TypeOK
  BY Invariance, PTL DEF IInv

\* An account without a password can be signed in to, or a callback that
\* failed half way left it (linkOrCreate 210-246).
THEOREM InReach == Spec => []AccountInReach
  BY Invariance, PTL DEF IInv

\* However its callbacks race, an identity leads to one account (linkOrCreate
\* 210-246).
THEOREM OneAccount == Spec => []OneAccountPerIdentity
<1>1. IInv => OneAccountPerIdentity
  <2> SUFFICES ASSUME IInv, NEW i \in Identity
               PROVE  led[i] \subseteq {link[i]} /\ Cardinality(led[i]) <= 1
    BY DEF OneAccountPerIdentity
  <2>1. led[i] \subseteq {link[i]}
    BY DEF IInv, LinksLead
  <2>2. led[i] = {} \/ led[i] = {link[i]}
    BY <2>1
  <2>3. CASE led[i] = {}
    <3>1. Cardinality(led[i]) = 0
      BY <2>3, FS_EmptySet
    <3> QED
      BY <2>1, <3>1
  <2>4. CASE led[i] = {link[i]}
    <3>1. Cardinality(led[i]) = 1
      BY <2>4, FS_Singleton
    <3> QED
      BY <2>1, <3>1
  <2> QED
    BY <2>2, <2>3, <2>4
<1> QED
  BY <1>1, Invariance, PTL

\* A one-time code is worth one session, unless two exchanges of it overlap
\* (exchangeOtcForSession 118-143).
THEOREM OneSession == Spec => []OneSessionPerCode
<1>1. IInv => OneSessionPerCode
  <2> SUFFICES ASSUME IInv, NEW c \in Code, c \notin crossed
               PROVE  minted[c] + Cardinality({r \in Exchanging(c) : req[r].pc # "del"})
                        + (IF otc[c] # None THEN 1 ELSE 0) <= 1
    BY DEF OneSessionPerCode
  <2> DEFINE past == {r \in Exchanging(c) : req[r].pc # "del"}
  <2>1. /\ \A q, r \in past : q = r
        /\ \A r \in past : minted[c] = 0 /\ otc[c] = None
        /\ minted[c] \in {0, 1}
        /\ minted[c] = 1 => otc[c] = None
    BY DEF IInv, CodesOnce
  <2> HIDE DEF past
  <2>2. past = {} => Cardinality(past) = 0
    BY FS_EmptySet
  <2>3. past # {} => Cardinality(past) = 1 /\ minted[c] = 0 /\ otc[c] = None
    <3> SUFFICES ASSUME past # {} PROVE Cardinality(past) = 1 /\ minted[c] = 0 /\ otc[c] = None
      OBVIOUS
    <3>1. PICK r \in past : past = {r}
      BY <2>1
    <3> QED
      BY <2>1, <3>1, FS_Singleton
  <2>4. minted[c] + Cardinality(past) + (IF otc[c] # None THEN 1 ELSE 0) <= 1
    BY <2>1, <2>2, <2>3
  <2> QED
    BY <2>4 DEF past
<1> QED
  BY <1>1, Invariance, PTL
=============================================================================
