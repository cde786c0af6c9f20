------------------------------- MODULE OAuth -------------------------------
(***************************************************************************)
(* OAuthService: the hop to a provider and back, the account an identity   *)
(* is linked to or created for it, and the one-time code its browser       *)
(* exchanges for a session.                                                *)
(*                                                                         *)
(* An action is one statement with the synchronous code after it; the      *)
(* provider's two answers, between which nothing here changes, are one.    *)
(* An identity is one account at one provider.  The e-mail address of a    *)
(* user and its other changes are in Accounts, the sessions in Sessions.   *)
(***************************************************************************)
EXTENDS FiniteSets, Naturals

CONSTANTS
    User,       \* user ids, each given out once
    Email,      \* e-mail addresses, in lower case
    Identity,   \* identities: (provider, provider_uid)
    Profiles,   \* what the providers ever say of their identities
    Early,      \* <<user, address>>: accounts registered with a password
    Hop,        \* bound: the sign-ins ever begun, each with its state
    Code,       \* bound: the one-time codes ever issued
    Req,        \* slots for handlers in flight
    None        \* SQL NULL, no row

\* <uid>@<provider>.oauth.local, for a profile without an address.
Placeholder == {"placeholder"} \X Identity

\* fetchProfile: the identity, its address or None, and whether the provider
\* calls that verified.
Profile == Identity \X (Email \cup {None}) \X BOOLEAN

EarlyUsers == {early[1] : early \in Early}
Registered(u) == CHOOSE e \in Email : <<u, e>> \in Early

ASSUME OAuthAssumption ==
    /\ Profiles \subseteq Profile
    /\ \A p \in Profiles : p[3] => p[2] # None
    /\ Early \subseteq User \X Email
    /\ \A a, b \in Early : a[1] = b[1] <=> a[2] = b[2]
    /\ None \notin User \cup Email \cup Placeholder

VARIABLES
    user,       \* table `users`
    link,       \* table `oauth_accounts`: the user by identity
    hop,        \* states and the authorization codes that come back with them
    otc,        \* Redis oauth:otc:<code>: the user by code
    req         \* handlers in flight

\* History, read by the properties and by nothing else.
VARIABLES
    used,       \* user ids and one-time codes given out
    minted,     \* sessions issued, by code
    crossed,    \* codes of which two exchanges overlapped
    led,        \* users with an account that codes led to, by identity
    torn        \* users whose callback failed between user and link

oauthVars == <<user, link, hop, otc, req, used, minted, crossed, led, torn>>
tables == <<user, link, hop, otc>>
history == <<used, minted, crossed, led, torn>>

-----------------------------------------------------------------------------
UserRow == [email : Email \cup Placeholder, verified : BOOLEAN, password : BOOLEAN]

Handler ==
         [pc : {"idle"}]
    \cup [pc : {"findLink", "findEmail", "create"}, p : Profiles]
    \cup [pc : {"findUser", "saveLink", "issueCode"}, p : Profiles, u : User]
    \cup [pc : {"del"}, c : Code, u : User]
    \cup [pc : {"findOwner", "session"}, c : Code, u : User]

Idle == [pc |-> "idle"]
Goto(r, h) == req' = [req EXCEPT ![r] = h]
Live(u) == user[u] # None
EmailFree(e) == \A u \in User : Live(u) => user[u].email # e

Init ==
    /\ user = [u \in User |->
                 IF u \in EarlyUsers
                 THEN [email |-> Registered(u), verified |-> FALSE, password |-> TRUE]
                 ELSE None]
    /\ link = [i \in Identity |-> None]
    /\ hop = [x \in Hop |-> "none"]
    /\ otc = [c \in Code |-> None]
    /\ req = [r \in Req |-> Idle]
    /\ used = EarlyUsers
    /\ minted = [c \in Code |-> 0]
    /\ crossed = {}
    /\ led = [i \in Identity |-> {}]
    /\ torn = {}

-----------------------------------------------------------------------------
(***************************************************************************)
(* The hop to the provider and back                                        *)
(***************************************************************************)

\* beginFlow: the state is signed and kept nowhere.
BeginFlow(x) ==
    /\ hop[x] = "none"
    /\ hop' = [hop EXCEPT ![x] = "open"]
    /\ UNCHANGED <<user, link, otc, req, history>>

\* OAuthStateCodec.verify refuses a state after ten minutes.
ExpireState(x) ==
    /\ hop[x] = "open"
    /\ hop' = [hop EXCEPT ![x] = "spent"]
    /\ UNCHANGED <<user, link, otc, req, history>>

\* verifyState refuses a state past its ten minutes.
StateStands(x) == hop[x] = "open"

\* exchangeCodeForToken: the state may come back again, the provider takes the
\* code that came with it only once and refuses it afterwards.
TakeCode(x) == hop' = [hop EXCEPT ![x] = "spent"]

\* handleCallback as far as the profile.
Callback(r, x, p) ==
    /\ req[r] = Idle
    /\ StateStands(x)                               \* else 401
    /\ TakeCode(x)                                  \* else 401
    /\ Goto(r, [pc |-> "findLink", p |-> p])
    /\ UNCHANGED <<user, link, otc, history>>

-----------------------------------------------------------------------------
(***************************************************************************)
(* linkOrCreate                                                            *)
(***************************************************************************)

\* linkOrCreate: only a verified address finds an account.
LooksUp(p) == p[2] # None /\ p[3]

\* oauthAccounts.findOne.
FindLink(r) ==
    LET p == req[r].p IN
    /\ req[r].pc = "findLink"
    /\ Goto(r, CASE link[p[1]] # None -> [pc |-> "findUser", p |-> p, u |-> link[p[1]]]
                 [] link[p[1]] = None /\ LooksUp(p) -> [pc |-> "findEmail", p |-> p]
                 [] OTHER -> [pc |-> "create", p |-> p])
    /\ UNCHANGED <<tables, history>>

\* users.findOne by the id of the link; a missing user is an error.
FindUser(r) ==
    /\ req[r].pc = "findUser"
    /\ Live(req[r].u)
    /\ Goto(r, [req[r] EXCEPT !.pc = "issueCode"])
    /\ UNCHANGED <<tables, history>>

\* users.findOne by the address.
FindEmail(r) ==
    LET p == req[r].p
        owner == {u \in User : Live(u) /\ user[u].email = p[2]}
    IN
    /\ req[r].pc = "findEmail"
    /\ \/ owner = {} /\ Goto(r, [pc |-> "create", p |-> p])
       \/ \E u \in owner : Goto(r, [pc |-> "saveLink", p |-> p, u |-> u])
    /\ UNCHANGED <<tables, history>>

\* Mutation: a profile without an address has none to store.
AddressRaw(p) == p[2]
\* The address of a new account.
Address(p) == IF p[2] = None THEN <<"placeholder", p[1]>> ELSE p[2]

NewRow(p) == [email |-> Address(p), verified |-> p[3], password |-> FALSE]

\* Mutation: only the account of a verified address is linked.
CreateUserUnlinked(r) ==
    LET p == req[r].p IN
    /\ req[r].pc = "create"
    /\ EmailFree(Address(p))
    /\ \E u \in User \ used :
        /\ user' = [user EXCEPT ![u] = NewRow(p)]
        /\ used' = used \cup {u}
        /\ Goto(r, [pc |-> IF p[3] THEN "saveLink" ELSE "issueCode", p |-> p, u |-> u])
    /\ UNCHANGED <<link, hop, otc, minted, crossed, led, torn>>

\* users.save of a new account, refused if its address is taken.
CreateUser(r) ==
    LET p == req[r].p IN
    /\ req[r].pc = "create"
    /\ EmailFree(Address(p))
    /\ \E u \in User \ used :
        /\ user' = [user EXCEPT ![u] = NewRow(p)]
        /\ used' = used \cup {u}
        /\ Goto(r, [pc |-> "saveLink", p |-> p, u |-> u])
    /\ UNCHANGED <<link, hop, otc, minted, crossed, led, torn>>

\* Mutation: the unique key is missing, a second link replaces the first.
CanLinkAny(i, u) == Live(u)
\* The unique key on (provider, provider_uid), and the foreign key.
CanLink(i, u) == link[i] = None /\ Live(u)

\* oauthAccounts.save.
SaveLink(r) ==
    LET h == req[r] IN
    /\ h.pc = "saveLink"
    /\ CanLink(h.p[1], h.u)
    /\ link' = [link EXCEPT ![h.p[1]] = h.u]
    /\ Goto(r, [h EXCEPT !.pc = "issueCode"])
    /\ UNCHANGED <<user, hop, otc, history>>

\* issueOneTimeCode: redis.set with its 60 s; the browser gets the code.
IssueCode(r) ==
    LET h == req[r] IN
    /\ h.pc = "issueCode"
    /\ \E c \in Code \ used :
        /\ otc' = [otc EXCEPT ![c] = h.u]
        /\ used' = used \cup {c}
    /\ led' = [led EXCEPT ![h.p[1]] = @ \cup ({h.u} \cap {u \in User : Live(u)})]
    /\ Goto(r, Idle)
    /\ UNCHANGED <<user, link, hop, minted, crossed, torn>>

-----------------------------------------------------------------------------
(***************************************************************************)
(* exchangeOtcForSession                                                   *)
(***************************************************************************)

Exchanging(c) == {r \in Req : req[r].pc \in {"del", "findOwner", "session"} /\ req[r].c = c}

\* redis.get
Exchange(r, c) ==
    /\ req[r] = Idle
    /\ otc[c] # None                                \* else 401
    /\ Goto(r, [pc |-> "del", c |-> c, u |-> otc[c]])
    /\ crossed' = IF Exchanging(c) = {} THEN crossed ELSE crossed \cup {c}
    /\ UNCHANGED <<tables, used, minted, led, torn>>

\* Mutation: the code stays.
DelCodeNot(r) ==
    /\ req[r].pc = "del"
    /\ Goto(r, [req[r] EXCEPT !.pc = "findOwner"])
    /\ UNCHANGED <<tables, history>>

\* redis.del; its answer is not looked at.
DelCode(r) ==
    /\ req[r].pc = "del"
    /\ otc' = [otc EXCEPT ![req[r].c] = None]
    /\ Goto(r, [req[r] EXCEPT !.pc = "findOwner"])
    /\ UNCHANGED <<user, link, hop, history>>

\* users.findOne, or 401.
FindOwner(r) ==
    /\ req[r].pc = "findOwner"
    /\ Live(req[r].u)
    /\ Goto(r, [req[r] EXCEPT !.pc = "session"])
    /\ UNCHANGED <<tables, history>>

\* sessions.issue, refused if the user is gone.
IssueSession(r) ==
    LET h == req[r] IN
    /\ h.pc = "session"
    /\ Live(h.u)
    /\ minted' = [minted EXCEPT ![h.c] = @ + 1]
    /\ Goto(r, Idle)
    /\ UNCHANGED <<tables, used, crossed, led, torn>>

-----------------------------------------------------------------------------
(***************************************************************************)
(* Failures and the environment                                            *)
(***************************************************************************)

\* A handler ends with an error, a refused save, or the death of the process.
Abort(r) ==
    /\ req[r] # Idle
    /\ torn' = IF req[r].pc = "saveLink" THEN torn \cup {req[r].u} ELSE torn
    /\ Goto(r, Idle)
    /\ UNCHANGED <<tables, used, minted, crossed, led>>

\* The 60 s of a code are over.
ExpireCode(c) ==
    /\ otc[c] # None
    /\ otc' = [otc EXCEPT ![c] = None]
    /\ UNCHANGED <<user, link, hop, req, history>>

\* deleteAccount, which takes a password; the cascade takes the links.
DeleteAccount(u) ==
    /\ Live(u) /\ user[u].password
    /\ user' = [user EXCEPT ![u] = None]
    /\ link' = [i \in Identity |-> IF link[i] = u THEN None ELSE link[i]]
    /\ led' = [i \in Identity |-> led[i] \ {u}]
    /\ UNCHANGED <<hop, otc, req, used, minted, crossed, torn>>

Arrive(r) ==
    \/ \E x \in Hop, p \in Profiles : Callback(r, x, p)
    \/ \E c \in Code : Exchange(r, c)

Continue(r) ==
    \/ FindLink(r) \/ FindUser(r) \/ FindEmail(r) \/ CreateUser(r) \/ SaveLink(r)
    \/ IssueCode(r)
    \/ DelCode(r) \/ FindOwner(r) \/ IssueSession(r)
    \/ Abort(r)

Next ==
    \/ \E r \in Req : Arrive(r) \/ Continue(r)
    \/ \E x \in Hop : BeginFlow(x) \/ ExpireState(x)
    \/ \E c \in Code : ExpireCode(c)
    \/ \E u \in User : DeleteAccount(u)

Spec == Init /\ [][Next]_oauthVars

-----------------------------------------------------------------------------
(***************************************************************************)
(* Properties                                                              *)
(***************************************************************************)

TypeOK ==
    /\ user \in [User -> UserRow \cup {None}]
    /\ link \in [Identity -> User \cup {None}]
    /\ hop \in [Hop -> {"none", "open", "spent"}]
    /\ otc \in [Code -> User \cup {None}]
    /\ req \in [Req -> Handler]
    /\ used \subseteq User \cup Code
    /\ minted \in [Code -> Nat]
    /\ crossed \subseteq Code
    /\ led \in [Identity -> SUBSET User]
    /\ torn \subseteq User

\* A one-time code is worth one session, unless two exchanges of it
\* overlapped: GET and DEL are two commands (exchangeOtcForSession 118-143).
OneSessionPerCode ==
    \A c \in Code : c \notin crossed =>
        minted[c] + Cardinality({r \in Exchanging(c) : req[r].pc # "del"})
            + (IF otc[c] # None THEN 1 ELSE 0) <= 1

\* However its callbacks race, and whatever address the provider reports
\* each time, an identity leads to one account as long as that exists
\* (linkOrCreate 210-246; the unique key of oauth_accounts).
OneAccountPerIdentity ==
    \A i \in Identity : led[i] \subseteq {link[i]} /\ Cardinality(led[i]) <= 1

\* Nobody has a password for an account a callback created, and its owner
\* cannot delete it either: an identity is linked to it or about to be,
\* unless the callback failed, or another won the link, between the two
\* saves.  With a verified address the next callback finds such an account
\* again (FindEmail); without one its own address then refuses every later
\* callback of the identity (linkOrCreate 220-244).
AccountInReach ==
    \A u \in User : Live(u) /\ ~user[u].password =>
        \/ \E i \in Identity : link[i] = u
        \/ \E r \in Req : req[r].pc = "saveLink" /\ req[r].u = u
        \/ u \in torn
=============================================================================
