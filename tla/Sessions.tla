------------------------------ MODULE Sessions ------------------------------
(***************************************************************************)
(* The refresh-token store of src/src/modules/auth/session.service.ts and  *)
(* the handlers that reach it: login, register and OAuth exchange (issue), *)
(* POST /auth/refresh (rotate), POST /auth/logout (revokeByToken), and     *)
(* the password change and password reset that end in revokeAllForUser.    *)
(*                                                                         *)
(* The handlers run in one Node process; each `await` gives the others a   *)
(* turn, and there are no transactions, so an action below is one          *)
(* statement to Postgres with the synchronous code that follows it.  What  *)
(* a handler carries across an await - in particular the row it loaded -   *)
(* is its record in req.  repo.save(row) writes the carried row over the   *)
(* stored one, whatever happened to it in between.                         *)
(*                                                                         *)
(* A session id stands for its refresh token too: both are random, fresh   *)
(* and in one-to-one correspondence (the row stores the token's hash).     *)
(***************************************************************************)
EXTENDS Naturals, FiniteSets

CONSTANTS
    User,       \* accounts
    Sid,        \* session ids, hence refresh tokens
    Req,        \* slots for handlers in flight
    None,       \* SQL NULL / an argument left out
    MaxEvents   \* bound: sessions that pass their expiry, and until then the
                \* revokeAllForUser statements per user

ASSUME SessionsAssumption ==
    /\ None \notin Sid
    /\ Req \cap Sid = {}
    /\ MaxEvents \in Nat

VARIABLES
    sessions,   \* table `sessions`: function from the ids present to rows
    req,        \* handlers in flight
    expired,    \* sessions past expires_at
    held        \* sessions whose refresh token was sent to a client

\* History, read by the properties and by nothing else.
VARIABLES
    line,       \* line[s]: s and every session s was rotated from
    born,       \* born[s]: the user's epoch when the login behind s was checked
    epoch,      \* epoch[u]: revokeAllForUser statements run for u
    exempt,     \* sessions the last of them spared, and their descendants
    straggler,  \* handlers that were minting while it ran, and what they minted
    tainted,    \* sessions at which a rotation overlapped another handler, or died
    alarmed     \* sessions whose replay revoked a chain

store == <<sessions, req, expired, held>>
history == <<line, born, epoch, exempt, straggler, tainted, alarmed>>
vars == <<sessions, req, expired, held,
          line, born, epoch, exempt, straggler, tainted, alarmed>>

-----------------------------------------------------------------------------
Row == [user : User, revoked : BOOLEAN, replacedBy : Sid \cup {None}]

\* What a handler carries across its current await.
Handler ==
         [pc : {"idle"}]
    \cup [pc : {"issue"}, user : User, epoch : Nat]
    \cup [pc : {"insert", "logout"}, sid : Sid, row : Row]
    \cup [pc : {"replace"}, sid : Sid, row : Row, next : Sid]
    \cup [pc : {"walk"}, start : Sid, ids : SUBSET Sid, at : Sid \cup {None}]
    \cup [pc : {"revokeAll"}, user : User, except : Sid \cup {None}]

Idle == [pc |-> "idle"]
Stored == DOMAIN sessions
Live(s) == s \in Stored /\ ~sessions[s].revoked

\* The handler holding s's lineage is between its read and its last write.
Rotating(q) == req[q].pc \in {"insert", "replace"}
Kin(s, t) == line[s] \cap line[t] # {}
Holds(q, s) ==
    \/ req[q].pc \in {"insert", "replace", "logout"} /\ Kin(req[q].sid, s)
    \/ req[q].pc = "walk" /\ Kin(req[q].start, s)
AtRest == \A r \in Req : req[r] = Idle
Untainted(s) == \A t \in tainted : ~Kin(s, t)
Taint(s) == IF Untainted(s) THEN tainted \cup {s} ELSE tainted

With(table, s, row) ==
    [t \in DOMAIN table \cup {s} |-> IF t = s THEN row ELSE table[t]]

\* A row with revoked_at set.
RevokedRow(row) == [row EXCEPT !.revoked = TRUE]

\* UPDATE sessions SET revoked_at = now() WHERE id IN ids AND revoked_at IS NULL
RevokeIn(ids) ==
    [s \in Stored |-> IF s \in ids THEN RevokedRow(sessions[s]) ELSE sessions[s]]

\* The ids that revokeAllForUser's WHERE clause selects.
OfUserExcept(u, except) == {s \in Stored : sessions[s].user = u /\ s # except}

Init ==
    /\ sessions = [s \in {} |-> None]
    /\ req = [r \in Req |-> Idle]
    /\ expired = {}
    /\ held = {}
    /\ line = [s \in Sid |-> {}]
    /\ born = [s \in Sid |-> 0]
    /\ epoch = [u \in User |-> 0]
    /\ exempt = {}
    /\ straggler = {}
    /\ tainted = {}
    /\ alarmed = {}

\* Handler r starts, goes on, or ends with the local state h.
Start(r, h) ==
    /\ req[r] = Idle
    /\ req' = [req EXCEPT ![r] = h]

Goto(r, h) == req' = [req EXCEPT ![r] = h]

\* The minting handler r has inserted n: n is a straggler if r or the
\* session it rotates was, and r itself is done minting.
PassOn(r, parents, n) ==
    straggler' = (straggler \ {r}) \cup
                 (IF (parents \cup {r}) \cap straggler # {} THEN {n} ELSE {})

-----------------------------------------------------------------------------
(***************************************************************************)
(* issue                                                                   *)
(***************************************************************************)

\* login / register / OAuth exchange: the credential is accepted for u.
Login(r, u) ==
    /\ Start(r, [pc |-> "issue", user |-> u, epoch |-> epoch[u]])
    /\ UNCHANGED <<sessions, expired, held, line, born, epoch, exempt, straggler, tainted, alarmed>>

\* The new row every mint inserts, with no revoked_at and no replaced_by_id.
Fresh(u) == [user |-> u, revoked |-> FALSE, replacedBy |-> None]

\* issue: save(session), then the pair goes to the client.
Issue(r, n) ==
    /\ req[r].pc = "issue"
    /\ n \notin Stored
    /\ sessions' = With(sessions, n, Fresh(req[r].user))
    /\ line' = [line EXCEPT ![n] = {n}]
    /\ born' = [born EXCEPT ![n] = req[r].epoch]
    /\ PassOn(r, {}, n)
    /\ held' = held \cup {n}
    /\ Goto(r, Idle)
    /\ UNCHANGED <<expired, epoch, exempt, tainted, alarmed>>

-----------------------------------------------------------------------------
(***************************************************************************)
(* rotate                                                                  *)
(***************************************************************************)

\* Mutation: rotate does not look at revoked_at.
RotateOutcomeUnguarded(s) == IF s \in expired THEN "expired" ELSE "rotate"

\* What rotate decides from the row it loaded: reuse before expiry.
RotateOutcome(s) ==
    IF sessions[s].revoked THEN "reuse"
    ELSE IF s \in expired THEN "expired"
    ELSE "rotate"

\* A client presents the token of s; findOne({tokenHash}), then the branches.
\* An expired or unknown token ends the request with nothing changed.
RotateRead(r, s) ==
    /\ s \in held
    /\ \/ /\ RotateOutcome(s) = "rotate"
          /\ Start(r, [pc |-> "insert", sid |-> s, row |-> sessions[s]])
          /\ tainted' = IF \E q \in Req : Holds(q, s) THEN Taint(s) ELSE tainted
       \/ /\ RotateOutcome(s) = "reuse"
          /\ Start(r, [pc |-> "walk", start |-> s, ids |-> {s},
                       at |-> sessions[s].replacedBy])
          /\ tainted' = IF \E q \in Req : Rotating(q) /\ Holds(q, s)
                        THEN Taint(s) ELSE tainted
    /\ UNCHANGED <<sessions, expired, held, line, born, epoch, exempt, straggler, alarmed>>

\* rotate: save(next).  Its token reaches the client only with the answer.
RotateInsert(r, n) ==
    LET s == req[r].sid IN
    /\ req[r].pc = "insert"
    /\ n \notin Stored
    /\ sessions' = With(sessions, n, Fresh(req[r].row.user))
    /\ line' = [line EXCEPT ![n] = line[s] \cup {n}]
    /\ born' = [born EXCEPT ![n] = born[s]]
    /\ exempt' = IF s \in exempt THEN exempt \cup {n} ELSE exempt
    /\ PassOn(r, {s}, n)
    /\ Goto(r, [pc |-> "replace", sid |-> s, row |-> req[r].row, next |-> n])
    /\ UNCHANGED <<expired, held, epoch, tainted, alarmed>>

\* Mutation: the predecessor stays live.
ReplacedLive(h) == [h.row EXCEPT !.replacedBy = h.next]

\* The row rotate writes back: the one it loaded, revoked and linked.
Replaced(h) == [RevokedRow(h.row) EXCEPT !.replacedBy = h.next]

\* rotate: save(current), then the answer.
RotateSave(r) ==
    /\ req[r].pc = "replace"
    /\ sessions' = With(sessions, req[r].sid, Replaced(req[r]))
    /\ held' = held \cup {req[r].next}
    /\ Goto(r, Idle)
    /\ UNCHANGED <<expired, line, born, epoch, exempt, straggler, tainted, alarmed>>

-----------------------------------------------------------------------------
(***************************************************************************)
(* revokeChain                                                             *)
(***************************************************************************)

\* Mutation: the walk leaves out the last session of the chain.
WalkStepShort(r) ==
    LET at == req[r].at IN
    /\ req[r].pc = "walk"
    /\ at # None
    /\ Goto(r, IF at \in Stored /\ sessions[at].replacedBy # None
               THEN [req[r] EXCEPT !.ids = @ \cup {at}, !.at = sessions[at].replacedBy]
               ELSE [req[r] EXCEPT !.at = None])
    /\ UNCHANGED <<sessions, expired, held, history>>

\* One turn of the while loop: findOne({id: cursor.replacedById}).
WalkStep(r) ==
    LET at == req[r].at IN
    /\ req[r].pc = "walk"
    /\ at # None
    /\ Goto(r, IF at \in Stored
               THEN [req[r] EXCEPT !.ids = @ \cup {at}, !.at = sessions[at].replacedBy]
               ELSE [req[r] EXCEPT !.at = None])
    /\ UNCHANGED <<sessions, expired, held, history>>

\* The UPDATE over the ids collected; the request then fails with 401.
RevokeChain(r) ==
    /\ req[r].pc = "walk"
    /\ req[r].at = None
    /\ sessions' = RevokeIn(req[r].ids)
    /\ alarmed' = alarmed \cup {req[r].start}
    /\ Goto(r, Idle)
    /\ UNCHANGED <<expired, held, line, born, epoch, exempt, straggler, tainted>>

-----------------------------------------------------------------------------
(***************************************************************************)
(* revokeByToken                                                           *)
(***************************************************************************)

\* findOne; an unknown or already revoked session ends the request.
LogoutRead(r, s) ==
    /\ s \in held
    /\ ~sessions[s].revoked
    /\ Start(r, [pc |-> "logout", sid |-> s, row |-> sessions[s]])
    /\ tainted' = IF \E q \in Req : Rotating(q) /\ Holds(q, s)
                  THEN Taint(s) ELSE tainted
    /\ UNCHANGED <<sessions, expired, held, line, born, epoch, exempt, straggler, alarmed>>

\* save(session): the carried row with revokedAt set - and the replacedById
\* it was loaded with.
LogoutSave(r) ==
    /\ req[r].pc = "logout"
    /\ sessions' = With(sessions, req[r].sid, RevokedRow(req[r].row))
    /\ Goto(r, Idle)
    /\ UNCHANGED <<expired, held, history>>

-----------------------------------------------------------------------------
(***************************************************************************)
(* revokeAllForUser                                                        *)
(***************************************************************************)

\* resetPassword (except = None) or changePassword (except = the sid of the
\* caller's access token) has stored the new hash and calls revokeAllForUser.
\* The access token is checked by signature alone, so its sid may be any
\* session ever issued to u.
CredentialChanged(r, u, except) ==
    /\ epoch[u] + Cardinality(expired) < MaxEvents
    /\ except = None \/ (except \in held /\ sessions[except].user = u)
    /\ Start(r, [pc |-> "revokeAll", user |-> u, except |-> except])
    /\ UNCHANGED <<sessions, expired, held, line, born, epoch, exempt, straggler, tainted, alarmed>>

\* Handlers that will still insert a session for u.
Minting(u) ==
    {q \in Req : \/ req[q].pc = "issue" /\ req[q].user = u
                 \/ req[q].pc = "insert" /\ req[q].row.user = u}

RevokeAll(r) ==
    LET u == req[r].user
        mine == {s \in Stored : sessions[s].user = u}
    IN
    /\ req[r].pc = "revokeAll"
    /\ sessions' = RevokeIn(OfUserExcept(u, req[r].except))
    /\ epoch' = [epoch EXCEPT ![u] = @ + 1]
    /\ exempt' = (exempt \ mine) \cup (mine \cap {req[r].except})
    /\ straggler' = (straggler \ mine) \cup Minting(u)
    /\ Goto(r, Idle)
    /\ UNCHANGED <<expired, held, line, born, tainted, alarmed>>

-----------------------------------------------------------------------------
\* expires_at passes.
Expire(s) ==
    /\ s \in Stored \ expired
    /\ epoch[sessions[s].user] + Cardinality(expired) < MaxEvents
    /\ expired' = expired \cup {s}
    /\ UNCHANGED <<sessions, req, held, history>>

\* The handler's statement fails or the process dies: what it wrote stays.
Abort(r) ==
    /\ req[r] # Idle
    /\ Goto(r, Idle)
    /\ tainted' = IF req[r].pc = "replace" THEN Taint(req[r].sid) ELSE tainted
    /\ straggler' = straggler \ {r}
    /\ UNCHANGED <<sessions, expired, held, line, born, epoch, exempt, alarmed>>

\* The steps a handler in flight takes by itself.
Continue(r) ==
    \/ \E n \in Sid : Issue(r, n) \/ RotateInsert(r, n)
    \/ RotateSave(r)
    \/ WalkStep(r)
    \/ RevokeChain(r)
    \/ LogoutSave(r)
    \/ RevokeAll(r)

Arrive(r) ==
    \/ \E u \in User : Login(r, u)
    \/ \E s \in Sid : RotateRead(r, s) \/ LogoutRead(r, s)
    \/ \E u \in User, e \in Sid \cup {None} : CredentialChanged(r, u, e)

Next ==
    \/ \E r \in Req : Arrive(r) \/ Continue(r) \/ Abort(r)
    \/ \E s \in Sid : Expire(s)

Spec == Init /\ [][Next]_vars

-----------------------------------------------------------------------------
(***************************************************************************)
(* Properties                                                              *)
(***************************************************************************)

TypeOK ==
    /\ Stored \subseteq Sid
    /\ sessions \in [Stored -> Row]
    /\ req \in [Req -> Handler]
    /\ expired \subseteq Sid
    /\ held \subseteq Stored
    /\ line \in [Sid -> SUBSET Sid]
    /\ born \in [Sid -> Nat]
    /\ epoch \in [User -> Nat]
    /\ exempt \subseteq Sid
    /\ straggler \subseteq Req \cup Sid
    /\ tainted \subseteq Sid
    /\ alarmed \subseteq Sid

\* replaced_by_id of a session names a session minted from that very session
\* for the same user, and the session holding it is revoked - although the
\* column is written by a whole-row save of a row loaded two awaits earlier.
\* Lines grow strictly along replaced_by_id, so a chain has no cycle and
\* revokeChain's loop ends (session.service.ts:89-93, 137-144).
ReplacedByOwnChild ==
    \A s \in Stored : sessions[s].replacedBy # None =>
        LET n == sessions[s].replacedBy IN
        /\ sessions[s].revoked
        /\ n \in Stored
        /\ sessions[n].user = sessions[s].user
        /\ n \notin line[s]
        /\ line[n] = line[s] \cup {n}

\* Once revokeAllForUser has run for a user, a session that goes back to a
\* login checked before it is dead, unless it is the spared one, was being
\* minted at that moment, or descends from one of these; rotation can not
\* carry an old login past a password change in any other way
\* (session.service.ts:111-120, account.service.ts:223-230).
CredentialChangeCutsOff ==
    \A s \in Stored :
        Live(s) /\ born[s] < epoch[sessions[s].user] => s \in exempt \cup straggler

\* As long as no rotation of a lineage overlapped another handler on it or
\* died half way, its clients hold at most one live token at any moment -
\* also between the insert of the successor and the save that revokes the
\* predecessor (session.service.ts:89-93).
OneLiveToken ==
    \A s, t \in held : Kin(s, t) /\ Untainted(s) /\ Live(s) /\ Live(t) => s = t

\* Under the same proviso, the replay of a rotated token leaves no live
\* session in the whole lineage, and none is ever minted in it again
\* (session.service.ts:65-71, 134-152).
ReuseKillsLineage ==
    \A s \in alarmed : Untainted(s) => \A t \in Stored : Kin(s, t) => ~Live(t)

(***************************************************************************)
(* The inductive invariant behind the first two: what the handlers in      *)
(* flight carry stays true of the table they will write to.                *)
(***************************************************************************)

\* A line leads through stored sessions only.
LinesStored == \A s \in Stored : line[s] \subseteq Stored

\* A row carried across an await is stale in `revoked` at most: its user is
\* the stored one's, and it was loaded before any successor was linked.  A
\* successor waiting to be linked is the loaded session's own child.
CarriedRowOK(h) ==
    /\ h.pc \in {"insert", "replace", "logout"} =>
         /\ h.sid \in Stored
         /\ h.row.user = sessions[h.sid].user
         /\ h.row.replacedBy = None
    /\ h.pc = "replace" =>
         /\ h.next \in Stored
         /\ sessions[h.next].user = h.row.user
         /\ h.next \notin line[h.sid]
         /\ line[h.next] = line[h.sid] \cup {h.next}
CarriedRowsOK == \A r \in Req : CarriedRowOK(req[r])

\* A handler that is about to mint from a login older than the last
\* revokeAllForUser was in flight then, or rotates a session that is excused.
MinterExcused(r) ==
    /\ req[r].pc = "issue" /\ req[r].epoch < epoch[req[r].user] => r \in straggler
    /\ req[r].pc = "insert" /\ born[req[r].sid] < epoch[req[r].row.user] =>
         r \in straggler \/ req[r].sid \in exempt \cup straggler
MintersExcused == \A r \in Req : MinterExcused(r)

IInv ==
    /\ TypeOK
    /\ LinesStored
    /\ CarriedRowsOK
    /\ ReplacedByOwnChild
    /\ MintersExcused
    /\ CredentialChangeCutsOff

\* The store implements SessionLifecycle: although rotate and logout write
\* back whole rows they loaded one or two awaits earlier, no interleaving
\* brings a revoked session back, moves a session to another user, or revokes
\* and mints in one statement (session.service.ts:89-93, 105-108, 111-120).
Status == [s \in Sid |-> IF s \notin Stored THEN "absent"
                         ELSE IF sessions[s].revoked THEN "revoked" ELSE "live"]
Owner == [s \in Sid |-> IF s \in Stored THEN sessions[s].user ELSE None]
Lifecycle == INSTANCE SessionLifecycle WITH status <- Status, owner <- Owner
ImplementsLifecycle == Lifecycle!Spec

-----------------------------------------------------------------------------
(***************************************************************************)
(* What the code's own comment claims and it does not do.                  *)
(***************************************************************************)

\* session.service.ts:49-51: on reuse, rotate "revokes the whole chain (the
\* original session and everything it spawned)" - looked at when no handler
\* is in flight any more, and only at sessions whose token a client has.
ReuseRevokesEverythingSpawned ==
    AtRest => \A s \in alarmed : \A t \in held : s \in line[t] => ~Live(t)
=============================================================================
