--------------------------- MODULE SessionsProofs ---------------------------
(***************************************************************************)
(* Theorems about Sessions for any sets of users, sessions and handlers:   *)
(* its typing, the shape of rotation chains, the cut-off that a credential *)
(* change makes, the session life cycle it implements, and what a rotation *)
(* lineage is while nothing overlaps its rotations.                        *)
(***************************************************************************)
EXTENDS Sessions, TLAPS

-----------------------------------------------------------------------------
\* What the program counter of a handler says about the fields it carries
\* (the locals of issue, rotate, revokeByToken, revokeChain and
\* revokeAllForUser across their awaits).
LEMMA HandlerFields ==
    ASSUME NEW h \in Handler
    PROVE  /\ h.pc = "issue" => h \in [pc : {"issue"}, user : User, epoch : Nat]
           /\ h.pc \in {"insert", "logout"} =>
                h \in [pc : {"insert", "logout"}, sid : Sid, row : Row]
           /\ h.pc = "replace" =>
                h \in [pc : {"replace"}, sid : Sid, row : Row, next : Sid]
           /\ h.pc = "walk" =>
                h \in [pc : {"walk"}, start : Sid, ids : SUBSET Sid, at : Sid \cup {None}]
           /\ h.pc = "revokeAll" =>
                h \in [pc : {"revokeAll"}, user : User, except : Sid \cup {None}]
  BY DEF Handler

\* Idle is a handler state, and carries nothing.
LEMMA IdleType == Idle \in Handler /\ Idle.pc = "idle"
  BY DEF Idle, Handler

\* repo.save of one entity: the row is stored under its id, every other row
\* keeps its value.
LEMMA SaveEffect ==
    ASSUME TypeOK, NEW s \in Sid, NEW row \in Row, sessions' = With(sessions, s, row)
    PROVE  /\ Stored' = Stored \cup {s}
           /\ sessions' \in [Stored' -> Row]
           /\ sessions'[s] = row
           /\ \A t \in Stored : t # s => sessions'[t] = sessions[t]
  BY DEF With, TypeOK, Stored

\* Setting revoked_at changes nothing else of a row.
LEMMA RevokedRowEffect ==
    ASSUME NEW row \in Row
    PROVE  /\ RevokedRow(row) \in Row
           /\ RevokedRow(row).revoked
           /\ RevokedRow(row).user = row.user
           /\ RevokedRow(row).replacedBy = row.replacedBy
  BY DEF RevokedRow, Row

\* The bulk UPDATE keeps the table's ids, users and links; it only sets
\* revoked, on the ids it is given.
LEMMA RevokeEffect ==
    ASSUME TypeOK, NEW ids, sessions' = RevokeIn(ids)
    PROVE  /\ Stored' = Stored
           /\ sessions' \in [Stored' -> Row]
           /\ \A s \in Stored :
                /\ sessions'[s].user = sessions[s].user
                /\ sessions'[s].replacedBy = sessions[s].replacedBy
                /\ sessions'[s].revoked <=> (sessions[s].revoked \/ s \in ids)
<1>1. Stored' = Stored /\ \A s \in Stored : sessions[s] \in Row
  BY DEF RevokeIn, TypeOK, Stored
<1>2. \A s \in Stored : sessions'[s] = IF s \in ids THEN RevokedRow(sessions[s]) ELSE sessions[s]
  BY DEF RevokeIn
<1>3. sessions' \in [Stored' -> Row]
  BY <1>1, <1>2, RevokedRowEffect DEF RevokeIn, Stored
<1>4. ASSUME NEW s \in Stored
      PROVE  /\ sessions'[s].user = sessions[s].user
             /\ sessions'[s].replacedBy = sessions[s].replacedBy
             /\ sessions'[s].revoked <=> (sessions[s].revoked \/ s \in ids)
  <2>1. CASE s \in ids
    BY <1>1, <1>2, <2>1, RevokedRowEffect
  <2>2. CASE s \notin ids
    BY <1>2, <2>2
  <2> QED
    BY <2>1, <2>2
<1> QED
  BY <1>1, <1>3, <1>4

\* A handler's step leaves the other handlers' records alone.
LEMMA GotoEffect ==
    ASSUME TypeOK, NEW r \in Req, NEW h \in Handler, req' = [req EXCEPT ![r] = h]
    PROVE  /\ req' \in [Req -> Handler]
           /\ req'[r] = h
           /\ \A q \in Req : q # r => req'[q] = req[q]
  BY DEF TypeOK

-----------------------------------------------------------------------------
\* An empty table and no handler satisfy the invariant.
LEMMA InitIInv == Init => IInv
<1> SUFFICES ASSUME Init PROVE IInv
  OBVIOUS
<1>1. TypeOK
  BY SessionsAssumption, IdleType DEF Init, TypeOK, Stored
<1>2. Stored = {}
  BY DEF Init, Stored
<1>3. \A r \in Req : req[r].pc = "idle"
  BY IdleType DEF Init
<1> QED
  BY <1>1, <1>2, <1>3 DEF IInv, LinesStored, CarriedRowsOK, CarriedRowOK, ReplacedByOwnChild,
     MintersExcused, MinterExcused, CredentialChangeCutsOff

-----------------------------------------------------------------------------
\* A step that leaves the table and the history of sessions alone preserves
\* what IInv says of them, and of the handlers it does not touch.
LEMMA HandlerOnlyStep ==
    ASSUME IInv, TypeOK',
           sessions' = sessions, line' = line, born' = born, epoch' = epoch,
           exempt' = exempt, straggler' = straggler,
           NEW r \in Req, NEW h \in Handler, req' = [req EXCEPT ![r] = h],
           h.pc \notin {"issue", "insert", "replace", "logout"}
    PROVE  IInv'
<1> USE DEF IInv
<1>1. req'[r] = h /\ \A q \in Req : q # r => req'[q] = req[q]
  BY GotoEffect
<1>2. Stored' = Stored /\ \A s \in Sid : Live(s)' = Live(s)
  BY DEF Stored, Live
<1>3. LinesStored'
  BY <1>2 DEF LinesStored, Stored
<1>4. CarriedRowsOK'
  BY <1>1, <1>2 DEF CarriedRowsOK, CarriedRowOK
<1>5. ReplacedByOwnChild'
  BY <1>2 DEF ReplacedByOwnChild
<1>6. MintersExcused'
  BY <1>1 DEF MintersExcused, MinterExcused
<1>7. CredentialChangeCutsOff'
  BY <1>2 DEF CredentialChangeCutsOff, Live, TypeOK
<1> QED
  BY <1>3, <1>4, <1>5, <1>6, <1>7

\* A login starts in the current epoch, so it owes no excuse yet.
LEMMA LoginStep ==
    ASSUME IInv, NEW r \in Req, NEW u \in User, Login(r, u)
    PROVE  IInv'
<1> DEFINE h == [pc |-> "issue", user |-> u, epoch |-> epoch[u]]
<1> USE DEF IInv
<1>1. h \in Handler /\ h.pc = "issue"
  BY DEF Handler, TypeOK
<1>2. /\ req' \in [Req -> Handler]
      /\ req'[r] = h
      /\ \A q \in Req : q # r => req'[q] = req[q]
  BY <1>1, GotoEffect DEF Login, Start
<1>3. UNCHANGED <<sessions, expired, held, line, born, epoch, exempt, straggler, tainted, alarmed, Stored>>
  BY DEF Login, Stored
<1>4. TypeOK'
  BY <1>2, <1>3 DEF TypeOK
<1>5. LinesStored' /\ ReplacedByOwnChild' /\ CredentialChangeCutsOff'
  BY <1>3 DEF LinesStored, ReplacedByOwnChild, CredentialChangeCutsOff, Live
<1>6. CarriedRowsOK'
  BY <1>1, <1>2, <1>3 DEF CarriedRowsOK, CarriedRowOK
<1>7. MintersExcused'
  <2>1. epoch[u] \in Nat
    BY DEF TypeOK
  <2>2. ~(h.epoch < epoch[h.user])
    BY <2>1
  <2> QED
    BY <1>1, <1>2, <1>3, <2>2 DEF MintersExcused, MinterExcused
<1> QED
  BY <1>4, <1>5, <1>6, <1>7

\* The session issued is as old as its login; if a revokeAllForUser came in
\* between, its handler was a straggler and hands that on.
LEMMA IssueStep ==
    ASSUME IInv, NEW r \in Req, NEW n \in Sid, Issue(r, n)
    PROVE  IInv'
<1> DEFINE h == req[r]
           row == Fresh(h.user)
<1> USE DEF IInv
<1>1. h \in Handler /\ h.pc = "issue" /\ h.user \in User /\ h.epoch \in Nat
  BY HandlerFields DEF Issue, TypeOK
<1>2. row \in Row /\ row.user = h.user /\ ~row.revoked /\ row.replacedBy = None
  BY <1>1 DEF Fresh, Row
<1>3. /\ Stored' = Stored \cup {n}
      /\ sessions' \in [Stored' -> Row]
      /\ sessions'[n] = row
      /\ \A t \in Stored : sessions'[t] = sessions[t]
  BY <1>2, SaveEffect DEF Issue
<1>4. /\ req' \in [Req -> Handler]
      /\ req'[r] = Idle
      /\ \A q \in Req : q # r => req'[q] = req[q]
  BY IdleType, GotoEffect DEF Issue, Goto
<1>5. n \notin Stored
  BY DEF Issue
<1>6. /\ line' \in [Sid -> SUBSET Sid]
      /\ line'[n] = {n}
      /\ \A t \in Stored : line'[t] = line[t]
  BY <1>5 DEF Issue, TypeOK
<1>7. /\ born' \in [Sid -> Nat]
      /\ born'[n] = h.epoch
      /\ \A t \in Stored : born'[t] = born[t]
  BY <1>1, <1>5 DEF Issue, TypeOK
<1>8. /\ straggler' \subseteq Req \cup Sid
      /\ straggler \ {r} \subseteq straggler'
      /\ r \in straggler => n \in straggler'
  BY DEF Issue, PassOn, TypeOK
<1>9. UNCHANGED <<expired, epoch, exempt, tainted, alarmed>> /\ held' = held \cup {n}
  BY DEF Issue
<1>10. TypeOK'
  BY <1>3, <1>4, <1>6, <1>7, <1>8, <1>9 DEF TypeOK
<1>11. LinesStored'
  BY <1>3, <1>6 DEF LinesStored
<1>12. CarriedRowsOK'
  BY <1>3, <1>4, <1>6, IdleType DEF CarriedRowsOK, CarriedRowOK, TypeOK
<1>13. ReplacedByOwnChild'
  BY <1>2, <1>3, <1>6 DEF ReplacedByOwnChild
<1>14. MintersExcused'
  BY <1>4, <1>7, <1>8, <1>9, IdleType, SessionsAssumption
  DEF MintersExcused, MinterExcused, CarriedRowsOK, CarriedRowOK, TypeOK
<1>15. CredentialChangeCutsOff'
  BY <1>1, <1>2, <1>3, <1>7, <1>8, <1>9, SessionsAssumption
  DEF CredentialChangeCutsOff, MintersExcused, MinterExcused, Live, TypeOK
<1> QED
  BY <1>10, <1>11, <1>12, <1>13, <1>14, <1>15

-----------------------------------------------------------------------------
\* rotate carries a live row, which has no successor yet, or starts a walk.
LEMMA RotateReadStep ==
    ASSUME IInv, NEW r \in Req, NEW s \in Sid, RotateRead(r, s)
    PROVE  IInv'
<1> USE DEF IInv
<1>1. s \in Stored /\ sessions[s] \in Row
  BY DEF RotateRead, TypeOK
<1>2. UNCHANGED <<sessions, expired, held, line, born, epoch, exempt, straggler, alarmed, Stored>>
  BY DEF RotateRead, Stored
<1>3. tainted' \subseteq Sid
  BY DEF RotateRead, Taint, TypeOK
<1>4. CASE RotateOutcome(s) = "rotate"
  <2> DEFINE h == [pc |-> "insert", sid |-> s, row |-> sessions[s]]
  <2>1. h \in Handler /\ h.pc = "insert"
    BY <1>1 DEF Handler
  <2>2. /\ req' \in [Req -> Handler]
        /\ req'[r] = h
        /\ \A q \in Req : q # r => req'[q] = req[q]
    BY <1>4, <2>1, GotoEffect DEF RotateRead, Start
  <2>3. ~sessions[s].revoked
    BY <1>4 DEF RotateOutcome
  <2>4. sessions[s].replacedBy = None
    BY <1>1, <2>3 DEF ReplacedByOwnChild
  <2>5. TypeOK'
    BY <1>2, <1>3, <2>2 DEF TypeOK
  <2>6. LinesStored' /\ ReplacedByOwnChild' /\ CredentialChangeCutsOff'
    BY <1>2 DEF LinesStored, ReplacedByOwnChild, CredentialChangeCutsOff, Live
  <2>7. CarriedRowsOK'
    BY <1>1, <1>2, <2>1, <2>2, <2>4 DEF CarriedRowsOK, CarriedRowOK
  <2>8. MintersExcused'
    BY <1>1, <1>2, <2>1, <2>2, <2>3 DEF MintersExcused, MinterExcused, CredentialChangeCutsOff, Live
  <2> QED
    BY <2>5, <2>6, <2>7, <2>8
<1>5. CASE RotateOutcome(s) = "reuse"
  <2> DEFINE h == [pc |-> "walk", start |-> s, ids |-> {s}, at |-> sessions[s].replacedBy]
  <2>1. h \in Handler /\ h.pc = "walk"
    BY <1>1 DEF Handler, Row
  <2>2. req' = [req EXCEPT ![r] = h]
    BY <1>5 DEF RotateRead, Start
  <2>3. TypeOK'
    BY <1>2, <1>3, <2>1, <2>2, GotoEffect DEF TypeOK
  <2> QED
    BY <1>2, <2>1, <2>2, <2>3, HandlerOnlyStep
<1> QED
  BY <1>4, <1>5 DEF RotateRead

\* The successor is a new end of its predecessor's line and inherits its
\* birth and its excuses.
LEMMA RotateInsertStep ==
    ASSUME IInv, NEW r \in Req, NEW n \in Sid, RotateInsert(r, n)
    PROVE  IInv'
<1> DEFINE h == req[r]
           s == h.sid
           row == Fresh(h.row.user)
           next == [pc |-> "replace", sid |-> s, row |-> h.row, next |-> n]
<1> USE DEF IInv
<1>1. h \in Handler /\ h.pc = "insert" /\ s \in Sid /\ h.row \in Row
  BY HandlerFields DEF RotateInsert, TypeOK
<1>2. /\ s \in Stored
      /\ h.row.user = sessions[s].user
      /\ h.row.replacedBy = None
  BY <1>1 DEF CarriedRowsOK, CarriedRowOK
<1>3. row \in Row /\ row.user = h.row.user /\ ~row.revoked /\ row.replacedBy = None
  BY <1>1 DEF Fresh, Row
<1>4. /\ Stored' = Stored \cup {n}
      /\ sessions' \in [Stored' -> Row]
      /\ sessions'[n] = row
      /\ \A t \in Stored : sessions'[t] = sessions[t]
  BY <1>3, SaveEffect DEF RotateInsert
<1>5. next \in Handler /\ next.pc = "replace"
  BY <1>1 DEF Handler
<1>6. /\ req' \in [Req -> Handler]
      /\ req'[r] = next
      /\ \A q \in Req : q # r => req'[q] = req[q]
  BY <1>5, GotoEffect DEF RotateInsert, Goto
<1>7. n \notin Stored
  BY DEF RotateInsert
<1>8. /\ line' \in [Sid -> SUBSET Sid]
      /\ line'[n] = line[s] \cup {n}
      /\ \A t \in Stored : line'[t] = line[t]
  BY <1>1, <1>7 DEF RotateInsert, TypeOK
<1>9. /\ born' \in [Sid -> Nat]
      /\ born'[n] = born[s]
      /\ \A t \in Stored : born'[t] = born[t]
  BY <1>1, <1>7 DEF RotateInsert, TypeOK
<1>10. /\ straggler' \subseteq Req \cup Sid
       /\ straggler \ {r} \subseteq straggler'
       /\ r \in straggler \/ s \in straggler => n \in straggler'
  BY DEF RotateInsert, PassOn, TypeOK
<1>11. /\ exempt' \subseteq Sid
       /\ exempt \subseteq exempt'
       /\ s \in exempt => n \in exempt'
  BY DEF RotateInsert, TypeOK
<1>12. UNCHANGED <<expired, held, epoch, tainted, alarmed>>
  BY DEF RotateInsert
<1>13. n \notin line[s]
  BY <1>2, <1>7 DEF LinesStored
<1>14. TypeOK'
  BY <1>4, <1>6, <1>8, <1>9, <1>10, <1>11, <1>12 DEF TypeOK
<1>15. LinesStored'
  BY <1>2, <1>4, <1>8 DEF LinesStored
<1>16. CarriedRowsOK'
  <2> SUFFICES ASSUME NEW q \in Req
               PROVE  CarriedRowOK(req[q])'
    BY DEF CarriedRowsOK
  <2>1. CASE q = r
    BY <1>1, <1>2, <1>3, <1>4, <1>6, <1>7, <1>8, <1>13, <2>1 DEF CarriedRowOK
  <2>2. CASE q # r
    <3>1. req[q] \in Handler /\ req'[q] = req[q] /\ CarriedRowOK(req[q])
      BY <1>6, <2>2 DEF CarriedRowsOK, CarriedRowOK, TypeOK
    <3> QED
      BY <1>4, <1>7, <1>8, <3>1 DEF CarriedRowOK
  <2> QED
    BY <2>1, <2>2
<1>17. ReplacedByOwnChild'
  BY <1>3, <1>4, <1>7, <1>8 DEF ReplacedByOwnChild
<1>18. MintersExcused'
  BY <1>5, <1>6, <1>9, <1>10, <1>11, <1>12, SessionsAssumption
  DEF MintersExcused, MinterExcused, CarriedRowsOK, CarriedRowOK, TypeOK
<1>19. CredentialChangeCutsOff'
  BY <1>1, <1>2, <1>3, <1>4, <1>9, <1>10, <1>11, <1>12, SessionsAssumption
  DEF CredentialChangeCutsOff, MintersExcused, MinterExcused, Live, TypeOK
<1> QED
  BY <1>14, <1>15, <1>16, <1>17, <1>18, <1>19

\* Rows that keep their users, under handlers that stay or end, stay in
\* agreement with what the handlers carry.
LEMMA CarriedRowsKept ==
    ASSUME CarriedRowsOK, NEW r \in Req, req'[r] = Idle,
           \A q \in Req : q # r => req'[q] = req[q],
           Stored' = Stored, line' = line,
           \A s \in Stored : sessions'[s].user = sessions[s].user
    PROVE  CarriedRowsOK'
<1> SUFFICES ASSUME NEW q \in Req
             PROVE  CarriedRowOK(req[q])'
  BY DEF CarriedRowsOK
<1>1. CASE q = r
  BY <1>1, IdleType DEF CarriedRowOK
<1>2. CASE q # r
  <2>1. req'[q] = req[q] /\ CarriedRowOK(req[q])
    BY <1>2 DEF CarriedRowsOK
  <2> QED
    BY <2>1 DEF CarriedRowOK
<1> QED
  BY <1>1, <1>2

\* A step of handler r that rewrites row s as a revoked row of the same user,
\* with no link or a link to s's own child, and then ends.
LEMMA SaveStep ==
    ASSUME IInv, NEW r \in Req, NEW s \in Stored, NEW row \in Row,
           sessions' = With(sessions, s, row),
           row.revoked, row.user = sessions[s].user,
           \/ row.replacedBy = None
           \/ /\ row.replacedBy \in Stored
              /\ sessions[row.replacedBy].user = row.user
              /\ row.replacedBy \notin line[s]
              /\ line[row.replacedBy] = line[s] \cup {row.replacedBy},
           req' = [req EXCEPT ![r] = Idle],
           held' \subseteq Stored, held \subseteq held',
           UNCHANGED <<expired, history>>
    PROVE  IInv'
<1> USE DEF IInv
<1>1. /\ Stored' = Stored \cup {s}
      /\ sessions' \in [Stored' -> Row]
      /\ sessions'[s] = row
      /\ \A t \in Stored : t # s => sessions'[t] = sessions[t]
  <2>1. TypeOK /\ s \in Sid
    BY DEF TypeOK
  <2> QED
    BY <2>1, SaveEffect
<1>2. /\ Stored' = Stored
      /\ sessions' \in [Stored' -> Row]
      /\ sessions'[s] = row
      /\ \A t \in Stored : t # s => sessions'[t] = sessions[t]
  BY <1>1
<1>3. /\ req' \in [Req -> Handler]
      /\ req'[r] = Idle
      /\ \A q \in Req : q # r => req'[q] = req[q]
  BY IdleType, GotoEffect
<1>4. UNCHANGED <<expired, line, born, epoch, exempt, straggler, tainted, alarmed>>
  BY DEF history
<1>5. \A t \in Stored : sessions'[t].user = sessions[t].user
  BY <1>2
<1>6. TypeOK'
  BY <1>2, <1>3, <1>4 DEF TypeOK
<1>7. LinesStored'
  BY <1>2, <1>4 DEF LinesStored
<1>8. CarriedRowsOK'
  BY <1>2, <1>3, <1>4, <1>5, CarriedRowsKept
<1>9. ReplacedByOwnChild'
  <2> SUFFICES ASSUME NEW t \in Stored, sessions'[t].replacedBy # None
               PROVE  /\ sessions'[t].revoked
                      /\ sessions'[t].replacedBy \in Stored
                      /\ sessions'[sessions'[t].replacedBy].user = sessions'[t].user
                      /\ sessions'[t].replacedBy \notin line[t]
                      /\ line[sessions'[t].replacedBy] = line[t] \cup {sessions'[t].replacedBy}
    BY <1>2, <1>4 DEF ReplacedByOwnChild
  <2>1. CASE t = s
    BY <1>2, <1>5, <2>1
  <2>2. CASE t # s
    BY <1>2, <1>5, <2>2 DEF ReplacedByOwnChild
  <2> QED
    BY <2>1, <2>2
<1>10. MintersExcused'
  BY <1>3, <1>4, IdleType DEF MintersExcused, MinterExcused
<1>11. CredentialChangeCutsOff'
  BY <1>2, <1>4, <1>5 DEF CredentialChangeCutsOff, Live
<1> QED
  BY <1>6, <1>7, <1>8, <1>9, <1>10, <1>11

\* rotate's save links a row to the successor it has just inserted.
LEMMA RotateSaveStep ==
    ASSUME IInv, NEW r \in Req, RotateSave(r)
    PROVE  IInv'
<1> DEFINE h == req[r]
           row == Replaced(h)
<1> USE DEF IInv
<1>1. h \in Handler /\ h.pc = "replace" /\ h.row \in Row /\ h.next \in Sid
  BY HandlerFields DEF RotateSave, TypeOK
<1>2. CarriedRowOK(h)
  BY DEF CarriedRowsOK
<1>3. RevokedRow(h.row) \in Row
  BY <1>1, RevokedRowEffect
<1>4. row \in Row /\ row.revoked /\ row.user = h.row.user /\ row.replacedBy = h.next
  BY <1>1, <1>3, RevokedRowEffect DEF Replaced, Row
<1>5. held' \subseteq Stored /\ held \subseteq held'
  BY <1>1, <1>2 DEF RotateSave, CarriedRowOK, TypeOK
<1> QED
  BY <1>1, <1>2, <1>4, <1>5, SaveStep DEF RotateSave, CarriedRowOK, Goto, history

\* logout's save writes back a row that has no successor, or one overlooked.
LEMMA LogoutSaveStep ==
    ASSUME IInv, NEW r \in Req, LogoutSave(r)
    PROVE  IInv'
<1> DEFINE h == req[r]
           row == RevokedRow(h.row)
<1> USE DEF IInv
<1>1. h \in Handler /\ h.pc = "logout" /\ h.row \in Row
  BY HandlerFields DEF LogoutSave, TypeOK
<1>2. CarriedRowOK(h)
  BY DEF CarriedRowsOK
<1>3. row \in Row /\ row.revoked /\ row.user = h.row.user /\ row.replacedBy = None
  BY <1>1, <1>2, RevokedRowEffect DEF CarriedRowOK
<1>4. held' \subseteq Stored /\ held \subseteq held'
  BY DEF LogoutSave, TypeOK
<1> QED
  BY <1>1, <1>2, <1>3, <1>4, SaveStep DEF LogoutSave, CarriedRowOK, Goto

\* logout carries a live row, which has no successor.
LEMMA LogoutReadStep ==
    ASSUME IInv, NEW r \in Req, NEW s \in Sid, LogoutRead(r, s)
    PROVE  IInv'
<1> DEFINE h == [pc |-> "logout", sid |-> s, row |-> sessions[s]]
<1> USE DEF IInv
<1>1. s \in Stored /\ sessions[s] \in Row /\ ~sessions[s].revoked
  BY DEF LogoutRead, TypeOK
<1>2. UNCHANGED <<sessions, expired, held, line, born, epoch, exempt, straggler, alarmed, Stored>>
  BY DEF LogoutRead, Stored
<1>3. tainted' \subseteq Sid
  BY DEF LogoutRead, Taint, TypeOK
<1>4. h \in Handler /\ h.pc = "logout"
  BY <1>1 DEF Handler
<1>5. /\ req' \in [Req -> Handler]
      /\ req'[r] = h
      /\ \A q \in Req : q # r => req'[q] = req[q]
  BY <1>4, GotoEffect DEF LogoutRead, Start
<1>6. sessions[s].replacedBy = None
  BY <1>1 DEF ReplacedByOwnChild
<1>7. TypeOK'
  BY <1>2, <1>3, <1>5 DEF TypeOK
<1>8. LinesStored' /\ ReplacedByOwnChild' /\ CredentialChangeCutsOff'
  BY <1>2 DEF LinesStored, ReplacedByOwnChild, CredentialChangeCutsOff, Live
<1>9. CarriedRowsOK'
  BY <1>1, <1>2, <1>4, <1>5, <1>6 DEF CarriedRowsOK, CarriedRowOK
<1>10. MintersExcused'
  BY <1>2, <1>4, <1>5 DEF MintersExcused, MinterExcused
<1> QED
  BY <1>7, <1>8, <1>9, <1>10

\* A walk only reads.
LEMMA WalkStepStep ==
    ASSUME IInv, NEW r \in Req, WalkStep(r)
    PROVE  IInv'
<1> DEFINE h == req[r]
           next == IF h.at \in Stored
                   THEN [h EXCEPT !.ids = @ \cup {h.at}, !.at = sessions[h.at].replacedBy]
                   ELSE [h EXCEPT !.at = None]
<1> USE DEF IInv
<1>1. h \in [pc : {"walk"}, start : Sid, ids : SUBSET Sid, at : Sid \cup {None}]
  BY HandlerFields DEF WalkStep, TypeOK
<1>2. h.at \in Stored => sessions[h.at] \in Row
  BY DEF TypeOK
<1>3. next \in [pc : {"walk"}, start : Sid, ids : SUBSET Sid, at : Sid \cup {None}]
  BY <1>1, <1>2 DEF Row, TypeOK
<1>4. next \in Handler /\ next.pc = "walk"
  BY <1>3 DEF Handler
<1>5. req' = [req EXCEPT ![r] = next]
  BY DEF WalkStep, Goto
<1>6. UNCHANGED <<sessions, expired, held, line, born, epoch, exempt, straggler, tainted, alarmed>>
  BY DEF WalkStep, history
<1>7. TypeOK'
  BY <1>4, <1>5, <1>6, GotoEffect DEF TypeOK, Stored
<1> QED
  BY <1>4, <1>5, <1>6, <1>7, HandlerOnlyStep

\* A credential change is checked before it touches the table.
LEMMA CredentialChangedStep ==
    ASSUME IInv, NEW r \in Req, NEW u \in User, NEW e \in Sid \cup {None},
           CredentialChanged(r, u, e)
    PROVE  IInv'
<1> DEFINE h == [pc |-> "revokeAll", user |-> u, except |-> e]
<1> USE DEF IInv
<1>1. h \in Handler /\ h.pc = "revokeAll"
  BY DEF Handler
<1>2. req' = [req EXCEPT ![r] = h]
  BY DEF CredentialChanged, Start
<1>3. UNCHANGED <<sessions, expired, held, line, born, epoch, exempt, straggler, tainted, alarmed>>
  BY DEF CredentialChanged
<1>4. TypeOK'
  BY <1>1, <1>2, <1>3, GotoEffect DEF TypeOK, Stored
<1> QED
  BY <1>1, <1>2, <1>3, <1>4, HandlerOnlyStep

\* Expiry touches no row.
LEMMA ExpireStep ==
    ASSUME IInv, NEW s \in Sid, Expire(s)
    PROVE  IInv'
<1> USE DEF IInv
<1>1. UNCHANGED <<sessions, req, held, line, born, epoch, exempt, straggler, tainted, alarmed, Stored>>
  BY DEF Expire, history, Stored
<1>2. TypeOK'
  BY <1>1 DEF Expire, TypeOK
<1> QED
  BY <1>1, <1>2 DEF LinesStored, CarriedRowsOK, CarriedRowOK, ReplacedByOwnChild,
     MintersExcused, MinterExcused, CredentialChangeCutsOff, Live

\* Revoking sessions disturbs neither chains nor excuses.
LEMMA RevokeChainStep ==
    ASSUME IInv, NEW r \in Req, RevokeChain(r)
    PROVE  IInv'
<1> USE DEF IInv
<1>1. req[r] \in [pc : {"walk"}, start : Sid, ids : SUBSET Sid, at : Sid \cup {None}]
  BY HandlerFields DEF RevokeChain, TypeOK
<1>2. /\ Stored' = Stored
      /\ sessions' \in [Stored' -> Row]
      /\ \A s \in Stored :
           /\ sessions'[s].user = sessions[s].user
           /\ sessions'[s].replacedBy = sessions[s].replacedBy
           /\ sessions'[s].revoked <=> (sessions[s].revoked \/ s \in req[r].ids)
  BY RevokeEffect DEF RevokeChain
<1>3. /\ req' \in [Req -> Handler]
      /\ req'[r] = Idle
      /\ \A q \in Req : q # r => req'[q] = req[q]
  BY IdleType, GotoEffect DEF RevokeChain, Goto
<1>4. UNCHANGED <<expired, held, line, born, epoch, exempt, straggler, tainted>>
  BY DEF RevokeChain
<1>5. TypeOK'
  BY <1>1, <1>2, <1>3, <1>4 DEF TypeOK, RevokeChain
<1>6. LinesStored'
  BY <1>2, <1>4 DEF LinesStored
<1>7. CarriedRowsOK'
  BY <1>2, <1>3, <1>4, CarriedRowsKept
<1>8. ReplacedByOwnChild'
  BY <1>2, <1>4 DEF ReplacedByOwnChild
<1>9. MintersExcused'
  BY <1>3, <1>4, IdleType DEF MintersExcused, MinterExcused
<1>10. CredentialChangeCutsOff'
  BY <1>2, <1>4 DEF CredentialChangeCutsOff, Live
<1> QED
  BY <1>5, <1>6, <1>7, <1>8, <1>9, <1>10

\* The epoch moves on, and every session of the user that is still live is
\* the spared one, or will be minted by a handler now made a straggler.
LEMMA RevokeAllStep ==
    ASSUME IInv, NEW r \in Req, RevokeAll(r)
    PROVE  IInv'
<1> DEFINE u == req[r].user
           e == req[r].except
           mine == {s \in Stored : sessions[s].user = u}
           ids == OfUserExcept(u, e)
<1> USE DEF IInv
<1>1. u \in User /\ req[r].pc = "revokeAll"
  BY HandlerFields DEF RevokeAll, TypeOK
<1>2. /\ Stored' = Stored
      /\ sessions' \in [Stored' -> Row]
      /\ \A s \in Stored :
           /\ sessions'[s].user = sessions[s].user
           /\ sessions'[s].replacedBy = sessions[s].replacedBy
           /\ sessions'[s].revoked <=> (sessions[s].revoked \/ s \in ids)
  BY RevokeEffect DEF RevokeAll
<1>3. /\ req' \in [Req -> Handler]
      /\ req'[r] = Idle
      /\ \A q \in Req : q # r => req'[q] = req[q]
  BY IdleType, GotoEffect DEF RevokeAll, Goto
<1>4. UNCHANGED <<expired, held, line, born, tainted, alarmed>>
  BY DEF RevokeAll
<1>5. /\ exempt' = (exempt \ mine) \cup (mine \cap {e})
      /\ straggler' = (straggler \ mine) \cup Minting(u)
  BY DEF RevokeAll
<1>6. /\ epoch' \in [User -> Nat]
      /\ \A v \in User : v # u => epoch'[v] = epoch[v]
  BY <1>1 DEF RevokeAll, TypeOK
<1>7. mine \subseteq Sid /\ Minting(u) \subseteq Req
  BY DEF TypeOK, Minting
<1>8. TypeOK'
  BY <1>2, <1>3, <1>4, <1>5, <1>6, <1>7 DEF TypeOK
<1>9. LinesStored'
  BY <1>2, <1>4 DEF LinesStored
<1>10. CarriedRowsOK'
  BY <1>2, <1>3, <1>4, CarriedRowsKept
<1>11. ReplacedByOwnChild'
  BY <1>2, <1>4 DEF ReplacedByOwnChild
<1>12. MintersExcused'
  <2> SUFFICES ASSUME NEW q \in Req
               PROVE  MinterExcused(q)'
    BY DEF MintersExcused
  <2>1. CASE q = r
    BY <1>3, <2>1, IdleType DEF MinterExcused
  <2>2. CASE q # r
    <3>1. req'[q] = req[q] /\ req[q] \in Handler /\ q \notin mine /\ MinterExcused(q)
      BY <1>3, <1>7, <2>2, SessionsAssumption DEF TypeOK, MintersExcused, MinterExcused
    <3>2. CASE req[q].pc = "issue"
      <4>1. req[q].user \in User
        BY <3>1, <3>2, HandlerFields
      <4>2. req[q].user = u => q \in straggler'
        BY <1>5, <3>2 DEF Minting
      <4> QED
        BY <1>5, <1>6, <3>1, <3>2, <4>1, <4>2 DEF MinterExcused
    <3>3. CASE req[q].pc = "insert"
      <4>1. req[q].row.user \in User
        BY <3>1, <3>3, HandlerFields DEF Row
      <4>2. req[q].row.user = u => q \in straggler'
        BY <1>5, <3>3 DEF Minting
      <4>3. req[q].row.user = sessions[req[q].sid].user
        BY <3>3 DEF CarriedRowsOK, CarriedRowOK
      <4> QED
        BY <1>4, <1>5, <1>6, <3>1, <3>3, <4>1, <4>2, <4>3 DEF MinterExcused
    <3> QED
      BY <3>1, <3>2, <3>3 DEF MinterExcused
  <2> QED
    BY <2>1, <2>2
<1>13. CredentialChangeCutsOff'
  <2> SUFFICES ASSUME NEW s \in Stored, ~sessions'[s].revoked,
                      born[s] < epoch'[sessions[s].user]
               PROVE  s \in exempt' \cup straggler'
    BY <1>2, <1>4 DEF CredentialChangeCutsOff, Live
  <2>1. sessions[s].user \in User /\ ~sessions[s].revoked /\ s \notin ids
    BY <1>2 DEF TypeOK, Row
  <2>2. CASE sessions[s].user = u
    BY <1>5, <2>1, <2>2 DEF OfUserExcept
  <2>3. CASE sessions[s].user # u
    BY <1>5, <1>6, <2>1, <2>3 DEF CredentialChangeCutsOff, Live
  <2> QED
    BY <2>2, <2>3
<1> QED
  BY <1>8, <1>9, <1>10, <1>11, <1>12, <1>13

\* A handler that dies drops what it carried.
LEMMA AbortStep ==
    ASSUME IInv, NEW r \in Req, Abort(r)
    PROVE  IInv'
<1> USE DEF IInv
<1>1. /\ req' \in [Req -> Handler]
      /\ req'[r] = Idle
      /\ \A q \in Req : q # r => req'[q] = req[q]
  BY IdleType, GotoEffect DEF Abort, Goto
<1>2. UNCHANGED <<sessions, expired, held, line, born, epoch, exempt, alarmed, Stored>>
  BY DEF Abort, Stored
<1>3. straggler' = straggler \ {r}
  BY DEF Abort
<1>4. req[r].pc = "replace" => req[r].sid \in Sid
  BY HandlerFields DEF TypeOK
<1>5. tainted' \subseteq Sid
  BY <1>4 DEF Abort, Taint, TypeOK
<1>6. TypeOK'
  BY <1>1, <1>2, <1>3, <1>5 DEF TypeOK
<1>7. LinesStored' /\ ReplacedByOwnChild'
  BY <1>2 DEF LinesStored, ReplacedByOwnChild
<1>8. CarriedRowsOK'
  BY <1>1, <1>2, IdleType DEF CarriedRowsOK, CarriedRowOK
<1>9. MintersExcused'
  BY <1>1, <1>2, <1>3, IdleType, SessionsAssumption
  DEF MintersExcused, MinterExcused, CarriedRowsOK, CarriedRowOK, TypeOK
<1>10. CredentialChangeCutsOff'
  BY <1>2, <1>3, SessionsAssumption DEF CredentialChangeCutsOff, Live, TypeOK
<1> QED
  BY <1>6, <1>7, <1>8, <1>9, <1>10

-----------------------------------------------------------------------------
\* Every step preserves the invariant.
LEMMA NextIInv == IInv /\ [Next]_vars => IInv'
<1> SUFFICES ASSUME IInv, [Next]_vars PROVE IInv'
  OBVIOUS
<1>1. ASSUME NEW r \in Req, Arrive(r)
      PROVE  IInv'
  BY <1>1, LoginStep, RotateReadStep, LogoutReadStep, CredentialChangedStep DEF Arrive
<1>2. ASSUME NEW r \in Req, Continue(r)
      PROVE  IInv'
  BY <1>2, IssueStep, RotateInsertStep, RotateSaveStep, WalkStepStep, RevokeChainStep,
     LogoutSaveStep, RevokeAllStep DEF Continue
<1>3. ASSUME NEW r \in Req, Abort(r)
      PROVE  IInv'
  BY <1>3, AbortStep
<1>4. ASSUME NEW s \in Sid, Expire(s)
      PROVE  IInv'
  BY <1>4, ExpireStep
<1>5. CASE UNCHANGED vars
  BY <1>5 DEF vars, IInv, TypeOK, Stored, LinesStored, CarriedRowsOK, CarriedRowOK,
     ReplacedByOwnChild, MintersExcused, MinterExcused, CredentialChangeCutsOff, Live
<1> QED
  BY <1>1, <1>2, <1>3, <1>4, <1>5 DEF Next

\* The inductive invariant holds throughout.
THEOREM Invariance == Spec => []IInv
  BY InitIInv, NextIInv, PTL DEF Spec

\* Every variable keeps its type; rows are only ever written whole, and every
\* token a client holds names a stored session.
THEOREM TypeCorrect == Spec => []TypeOK
<1>1. IInv => TypeOK
  BY DEF IInv
<1> QED
  BY <1>1, Invariance, PTL

\* replaced_by_id always leads from a revoked session to one minted from it,
\* for the same user; lines grow strictly along it, so revokeChain's loop
\* meets no session twice.
THEOREM ChainsAreLines == Spec => []ReplacedByOwnChild
<1>1. IInv => ReplacedByOwnChild
  BY DEF IInv
<1> QED
  BY <1>1, Invariance, PTL

\* After revokeAllForUser, only the spared session, sessions being minted at
\* that moment and their descendants can be live on a login older than it.
THEOREM CutOff == Spec => []CredentialChangeCutsOff
<1>1. IInv => CredentialChangeCutsOff
  BY DEF IInv
<1> QED
  BY <1>1, Invariance, PTL

-----------------------------------------------------------------------------
(***************************************************************************)
(* Sessions implements SessionLifecycle.                                   *)
(***************************************************************************)

\* Inserting a live row under a new id is a Mint.
LEMMA InsertIsMint ==
    ASSUME NEW n \in Sid, NEW u \in User, n \notin Stored,
           Stored' = Stored \cup {n},
           ~sessions'[n].revoked, sessions'[n].user = u,
           \A t \in Stored : sessions'[t] = sessions[t]
    PROVE  Lifecycle!Mint(n, u)
  BY DEF Lifecycle!Mint, Status, Owner

\* A write that keeps ids and users and takes no revocation back is a Revoke.
LEMMA WriteIsRevoke ==
    ASSUME Stored' = Stored,
           \A s \in Stored : /\ sessions'[s].user = sessions[s].user
                             /\ sessions[s].revoked => sessions'[s].revoked
    PROVE  \E S \in SUBSET Sid : Lifecycle!Revoke(S)
<1> DEFINE S == {s \in Sid \cap Stored : ~sessions[s].revoked /\ sessions'[s].revoked}
<1>1. \A s \in S : Status[s] = "live"
  BY DEF Status
<1>2. Status' = [s \in Sid |-> IF s \in S THEN "revoked" ELSE Status[s]]
  BY DEF Status
<1>3. Owner' = Owner
  BY DEF Owner
<1> QED
  BY <1>1, <1>2, <1>3 DEF Lifecycle!Revoke

\* The save of one row, revoked and of the stored user, is a Revoke.
LEMMA SaveIsRevoke ==
    ASSUME TypeOK, NEW s \in Stored, NEW row \in Row, sessions' = With(sessions, s, row),
           row.revoked, row.user = sessions[s].user
    PROVE  \E S \in SUBSET Sid : Lifecycle!Revoke(S)
<1>1. s \in Sid
  BY DEF TypeOK
<1>2. /\ Stored' = Stored \cup {s}
      /\ sessions'[s] = row
      /\ \A t \in Stored : t # s => sessions'[t] = sessions[t]
  BY <1>1, SaveEffect
<1>3. Stored' = Stored
  BY <1>2
<1> QED
  BY <1>2, <1>3, WriteIsRevoke

\* issue's and rotate's inserts implement Mint.
LEMMA MintSteps ==
    ASSUME IInv, NEW r \in Req, NEW n \in Sid, Issue(r, n) \/ RotateInsert(r, n)
    PROVE  Lifecycle!Next
<1> DEFINE u == IF req[r].pc = "issue" THEN req[r].user ELSE req[r].row.user
<1>1. TypeOK /\ n \notin Stored /\ sessions' = With(sessions, n, Fresh(u))
  BY DEF IInv, Issue, RotateInsert
<1>2. u \in User
  BY <1>1, HandlerFields DEF TypeOK, Issue, RotateInsert, Row
<1>3. Fresh(u) \in Row /\ ~Fresh(u).revoked /\ Fresh(u).user = u
  BY <1>2 DEF Fresh, Row
<1>4. /\ Stored' = Stored \cup {n}
      /\ sessions'[n] = Fresh(u)
      /\ \A t \in Stored : t # n => sessions'[t] = sessions[t]
  BY <1>1, <1>3, SaveEffect
<1>5. Lifecycle!Mint(n, u)
  BY <1>1, <1>2, <1>3, <1>4, InsertIsMint
<1> QED
  BY <1>2, <1>5 DEF Lifecycle!Next

\* The whole-row saves and the two bulk updates implement Revoke.
LEMMA RevokeSteps ==
    ASSUME IInv, NEW r \in Req,
           RotateSave(r) \/ LogoutSave(r) \/ RevokeChain(r) \/ RevokeAll(r)
    PROVE  Lifecycle!Next
<1>1. TypeOK /\ req[r] \in Handler /\ CarriedRowOK(req[r])
  BY DEF IInv, TypeOK, CarriedRowsOK
<1>2. CASE RotateSave(r)
  <2>1. req[r].row \in Row /\ req[r].next \in Sid
    BY <1>1, <1>2, HandlerFields DEF RotateSave
  <2>2. RevokedRow(req[r].row) \in Row
    BY <2>1, RevokedRowEffect
  <2>3. Replaced(req[r]) \in Row /\ Replaced(req[r]).revoked
        /\ Replaced(req[r]).user = req[r].row.user
    BY <2>1, <2>2, RevokedRowEffect DEF Replaced, Row
  <2> QED
    BY <1>1, <1>2, <2>3, SaveIsRevoke DEF RotateSave, CarriedRowOK, Lifecycle!Next
<1>3. CASE LogoutSave(r)
  <2>1. req[r].row \in Row
    BY <1>1, <1>3, HandlerFields DEF LogoutSave
  <2> QED
    BY <1>1, <1>3, <2>1, RevokedRowEffect, SaveIsRevoke
    DEF LogoutSave, CarriedRowOK, Lifecycle!Next
<1>4. ASSUME NEW ids, sessions' = RevokeIn(ids)
      PROVE  Lifecycle!Next
  BY <1>1, <1>4, RevokeEffect, WriteIsRevoke DEF Lifecycle!Next
<1> QED
  BY <1>2, <1>3, <1>4 DEF RevokeChain, RevokeAll

\* Every other action leaves status and owner alone.
LEMMA OtherSteps ==
    ASSUME sessions' = sessions
    PROVE  UNCHANGED <<Status, Owner>>
  BY DEF Status, Owner, Stored

\* Whatever the races between logins, rotations, replays, logouts and
\* credential changes, a session is minted once and live, never changes
\* hands, and once revoked stays revoked.
THEOREM Refinement == Spec => ImplementsLifecycle
<1>1. Init => Lifecycle!Init
  BY DEF Init, Lifecycle!Init, Status, Owner, Stored
<1>2. IInv /\ [Next]_vars => [Lifecycle!Next]_<<Status, Owner>>
  <2> SUFFICES ASSUME IInv, [Next]_vars
               PROVE  Lifecycle!Next \/ UNCHANGED <<Status, Owner>>
    OBVIOUS
  <2>1. ASSUME NEW r \in Req, Continue(r)
        PROVE  Lifecycle!Next \/ UNCHANGED <<Status, Owner>>
    BY <2>1, MintSteps, RevokeSteps, OtherSteps DEF Continue, WalkStep
  <2>2. ASSUME NEW r \in Req, Arrive(r) \/ Abort(r)
        PROVE  sessions' = sessions
    BY <2>2 DEF Arrive, Abort, Login, RotateRead, LogoutRead, CredentialChanged
  <2>3. ASSUME NEW s \in Sid, Expire(s)
        PROVE  sessions' = sessions
    BY <2>3 DEF Expire
  <2>4. CASE UNCHANGED vars
    BY <2>4, OtherSteps DEF vars
  <2> QED
    BY <2>1, <2>2, <2>3, <2>4, OtherSteps DEF Next
<1> QED
  BY <1>1, <1>2, Invariance, PTL DEF Spec, ImplementsLifecycle, Lifecycle!Spec

-----------------------------------------------------------------------------
(***************************************************************************)
(* Lineages: the trees that rotation grows from a login.  While nothing    *)
(* has overlapped a rotation in a lineage it is a single line, linked from *)
(* end to end.                                                             *)
(***************************************************************************)

\* Handler state h is at work on the lineage of s; so Holds(q, s) is
\* HoldsAs(req[q], s).
HoldsAs(h, s) ==
    \/ h.pc \in {"insert", "replace", "logout"} /\ Kin(h.sid, s)
    \/ h.pc = "walk" /\ Kin(h.start, s)
RotatesAs(h) == h.pc \in {"insert", "replace"}

\* Lines are ordered, each ends in its own session, and kinship is transitive.
LinesOrdered ==
    /\ \A s \in Stored : s \in line[s]
    /\ \A s, t \in Stored : s \in line[t] /\ t \in line[s] => s = t
    /\ \A s, t, u \in Stored : Kin(s, t) /\ Kin(t, u) => Kin(s, u)

\* History and walks are about stored sessions.
RefersToStored ==
    /\ tainted \cup alarmed \subseteq Stored
    /\ \A r \in Req : req[r].pc = "walk" => req[r].start \in Stored

\* A rotation in an untainted lineage has it for itself.
Exclusive ==
    \A q, r \in Req : q # r /\ RotatesAs(req[r]) /\ HoldsAs(req[q], req[r].sid)
                      => ~Untainted(req[r].sid)

\* An untainted lineage has no branches,
Unbranched ==
    \A s, t \in Stored : Kin(s, t) /\ Untainted(s) => s \in line[t] \/ t \in line[s]

\* and each session in it leads on, unless its rotation is about to link it.
Linked ==
    \A s, t \in Stored : Untainted(s) /\ s \in line[t] /\ s # t =>
        \/ sessions[s].replacedBy \in line[t]
        \/ \E r \in Req : req[r].pc = "replace" /\ req[r].sid = s /\ req[r].next = t

\* Who carries a row of an untainted lineage is at its end; a successor not
\* yet linked was not sent to anyone.
AtEnd(h) ==
    /\ h.pc \in {"insert", "logout"} /\ Untainted(h.sid) =>
         \A t \in Stored : Kin(h.sid, t) => t \in line[h.sid]
    /\ h.pc = "replace" /\ Untainted(h.sid) =>
         /\ \A t \in Stored : Kin(h.sid, t) => t \in line[h.next]
         /\ h.next \notin held

\* A walk in an untainted lineage has passed its live session or leads to it.
Covers(h) ==
    h.pc = "walk" /\ Untainted(h.start) =>
        \A t \in Stored : Kin(h.start, t) /\ Live(t) => t \in h.ids \/ h.at \in line[t]

\* An untainted lineage in which a replay was answered is dead, and nobody is
\* about to prolong it.
AlarmedDead ==
    \A s \in alarmed : Untainted(s) =>
        /\ \A t \in Stored : Kin(s, t) => ~Live(t)
        /\ \A r \in Req : RotatesAs(req[r]) => ~Kin(s, req[r].sid)

LineageInv ==
    /\ LinesOrdered /\ RefersToStored /\ Exclusive
    /\ Unbranched /\ Linked /\ AlarmedDead
    /\ \A r \in Req : AtEnd(req[r]) /\ Covers(req[r])

\* Both invariants: what the lemmas below start from.
IsLineage == IInv /\ LineageInv

-----------------------------------------------------------------------------
\* Kinship is an equivalence on stored sessions, holds along a line, and an
\* untainted lineage is untainted for each of its sessions.
LEMMA Kinship ==
    ASSUME IsLineage
    PROVE  /\ \A s \in Stored : Kin(s, s)
           /\ \A s, t \in Stored : Kin(s, t) => Kin(t, s)
           /\ \A s, t \in Stored : s \in line[t] => Kin(s, t) /\ Kin(t, s)
           /\ \A s, t \in Stored : Kin(s, t) /\ Untainted(s) => Untainted(t)
<1>1. LinesOrdered /\ tainted \subseteq Stored
  BY DEF IsLineage, LineageInv, RefersToStored
<1>2. \A s, t \in Stored : Kin(s, t) => Kin(t, s)
  BY DEF Kin
<1>3. \A s, t \in Stored : s \in line[t] => Kin(s, t) /\ Kin(t, s)
  BY <1>1 DEF LinesOrdered, Kin
<1>4. \A s, t \in Stored : Kin(s, t) /\ Untainted(s) => Untainted(t)
  BY <1>1 DEF LinesOrdered, Untainted
<1> QED
  BY <1>1, <1>2, <1>3, <1>4 DEF LinesOrdered

\* A session that leads on is revoked: what follows it in an untainted line
\* was linked by the save that revoked it, or is about to be.
LEMMA LeadsOnRevoked ==
    ASSUME IsLineage, NEW s \in Stored, NEW t \in Stored,
           s \in line[t], s # t, Untainted(s), Live(s)
    PROVE  \E q \in Req : req[q].pc = "replace" /\ req[q].sid = s /\ req[q].next = t
<1>1. /\ LinesStored /\ ReplacedByOwnChild /\ Linked /\ Stored \subseteq Sid
  BY DEF IsLineage, IInv, LineageInv, TypeOK
<1>2. None \notin line[t]
  BY <1>1, SessionsAssumption DEF LinesStored
<1>3. sessions[s].replacedBy \notin line[t]
  BY <1>1, <1>2 DEF ReplacedByOwnChild, Live
<1> QED
  BY <1>1, <1>3 DEF Linked

\* A live session of an untainted lineage that no rotation holds is its end.
LEMMA LiveIsEnd ==
    ASSUME IsLineage, NEW s \in Stored, Live(s), Untainted(s),
           ~ \E q \in Req : Rotating(q) /\ Holds(q, s)
    PROVE  \A t \in Stored : Kin(s, t) => t \in line[s]
<1> SUFFICES ASSUME NEW t \in Stored, Kin(s, t), t \notin line[s]
             PROVE  FALSE
  OBVIOUS
<1>1. s \in line[t]
  BY DEF IsLineage, LineageInv, Unbranched
<1>2. s # t
  BY DEF IsLineage, LineageInv, LinesOrdered
<1>3. PICK q \in Req : req[q].pc = "replace" /\ req[q].sid = s
  BY <1>1, <1>2, LeadsOnRevoked
<1>4. Kin(s, s)
  BY Kinship
<1> QED
  BY <1>3, <1>4 DEF Rotating, Holds

-----------------------------------------------------------------------------
\* What Untainted says after the step, lines staying as they are.
CleanAfter(s) == \A t \in tainted' : ~Kin(s, t)

\* Handler r moves to the state h, and the step leaves ids and lines alone,
\* taints nothing clean and revives nothing.
Keeps(r, h) ==
    /\ req' = [req EXCEPT ![r] = h]
    /\ Stored' = Stored /\ line' = line
    /\ tainted \subseteq tainted' /\ tainted' \subseteq Stored
    /\ \A s \in Stored : sessions[s].revoked => sessions'[s].revoked

\* In a clean lineage, no link is lost and r's pending link stays or is made.
LinksStay(r, h) ==
    \A s, t \in Stored : CleanAfter(s) /\ s \in line[t] /\ s # t =>
        /\ sessions[s].replacedBy \in line[t] => sessions'[s].replacedBy \in line[t]
        /\ req[r].pc = "replace" /\ req[r].sid = s /\ req[r].next = t =>
             \/ sessions'[s].replacedBy \in line[t]
             \/ h.pc = "replace" /\ h.sid = s /\ h.next = t

\* In a clean lineage, r in state h gets in no rotation's way.
Alone(r, h) ==
    /\ \A q \in Req : q # r /\ RotatesAs(h) /\ CleanAfter(h.sid) => ~HoldsAs(req[q], h.sid)
    /\ \A q \in Req : q # r /\ RotatesAs(req[q]) /\ CleanAfter(req[q].sid)
                      => ~HoldsAs(h, req[q].sid)
    /\ RotatesAs(h) => \A s \in alarmed : CleanAfter(s) => ~Kin(s, h.sid)

\* What Covers and AtEnd say of h after the step.
EndsAfter(h) ==
    /\ h.pc \in {"insert", "logout"} /\ CleanAfter(h.sid) =>
         \A t \in Stored : Kin(h.sid, t) => t \in line[h.sid]
    /\ h.pc = "replace" /\ CleanAfter(h.sid) =>
         /\ \A t \in Stored : Kin(h.sid, t) => t \in line[h.next]
         /\ h.next \notin held'
CoversAfter(h) ==
    h.pc = "walk" =>
        /\ h.start \in Stored
        /\ CleanAfter(h.start) =>
             \A t \in Stored : Kin(h.start, t) /\ ~sessions'[t].revoked
                               => t \in h.ids \/ h.at \in line[t]

\* A step without a mint preserves the shape of the lineages.
LEMMA KeepStep ==
    ASSUME IsLineage, NEW r \in Req, NEW h \in Handler, Keeps(r, h),
           LinksStay(r, h), Alone(r, h), EndsAfter(h), CoversAfter(h),
           \A q \in Req : q # r /\ req[q].pc = "replace" /\ CleanAfter(req[q].sid)
                          => req[q].next \notin held',
           alarmed \subseteq alarmed', alarmed' \subseteq Stored,
           \A s \in alarmed' \ alarmed : CleanAfter(s) =>
               /\ \A t \in Stored : Kin(s, t) => sessions'[t].revoked
               /\ \A q \in Req : RotatesAs(req'[q]) => ~Kin(s, req[q].sid) /\ q # r
    PROVE  LineageInv'
<1> USE DEF IsLineage, LineageInv, Keeps
<1>1. /\ req'[r] = h
      /\ \A q \in Req : q # r => req'[q] = req[q]
  BY GotoEffect DEF IInv
<1>2. \A s, t : Kin(s, t)' <=> Kin(s, t)
  BY DEF Kin
<1>3. /\ \A s : Untainted(s)' <=> CleanAfter(s)
      /\ \A s : CleanAfter(s) => Untainted(s)
  BY <1>2 DEF Untainted, CleanAfter
<1>4. \A s \in Stored : Live(s)' <=> ~sessions'[s].revoked
  BY DEF Live
<1>5. LinesOrdered'
  BY <1>2 DEF LinesOrdered
<1>6. RefersToStored'
  BY <1>1 DEF RefersToStored, CoversAfter
<1>7. Exclusive'
  <2> SUFFICES ASSUME NEW p \in Req, NEW q \in Req, p # q,
                      RotatesAs(req'[q]), HoldsAs(req'[p], req'[q].sid),
                      CleanAfter(req'[q].sid)
               PROVE  FALSE
    <3>1. \A g, k : HoldsAs(g, k)' <=> HoldsAs(g, k)
      BY <1>2 DEF HoldsAs
    <3> QED
      BY <1>2, <1>3 DEF Exclusive, HoldsAs, RotatesAs
  <2>1. CASE p # r /\ q # r
    BY <1>1, <1>3, <2>1 DEF Exclusive
  <2>2. CASE p = r \/ q = r
    BY <1>1, <2>2 DEF Alone
  <2> QED
    BY <2>1, <2>2
<1>8. Unbranched'
  BY <1>2, <1>3 DEF Unbranched
<1>9. Linked'
  <2> SUFFICES ASSUME NEW s \in Stored, NEW t \in Stored, CleanAfter(s), s \in line[t], s # t
               PROVE  \/ sessions'[s].replacedBy \in line[t]
                      \/ \E q \in Req : req'[q].pc = "replace" /\ req'[q].sid = s
                                        /\ req'[q].next = t
    BY <1>3 DEF Linked
  <2>1. CASE sessions[s].replacedBy \in line[t]
    BY <2>1 DEF LinksStay
  <2>2. CASE sessions[s].replacedBy \notin line[t]
    <3>1. PICK q \in Req : req[q].pc = "replace" /\ req[q].sid = s /\ req[q].next = t
      BY <1>3, <2>2 DEF Linked
    <3> QED
      BY <1>1, <3>1 DEF LinksStay
  <2> QED
    BY <2>1, <2>2
<1>10. AlarmedDead'
  <2> SUFFICES ASSUME NEW s \in alarmed', CleanAfter(s)
               PROVE  /\ \A t \in Stored : Kin(s, t) => sessions'[t].revoked
                      /\ \A q \in Req : RotatesAs(req'[q]) => ~Kin(s, req'[q].sid)
    <3>1. \A g : RotatesAs(g)' <=> RotatesAs(g)
      BY DEF RotatesAs
    <3> QED
      BY <1>2, <1>3, <1>4 DEF AlarmedDead, RotatesAs
  <2>1. CASE s \in alarmed
    <3>1. \A t \in Stored : Kin(s, t) => sessions'[t].revoked
      BY <1>3, <2>1 DEF AlarmedDead, Live
    <3>2. \A q \in Req : RotatesAs(req'[q]) => ~Kin(s, req'[q].sid)
      BY <1>1, <1>3, <2>1 DEF AlarmedDead, Alone
    <3> QED
      BY <3>1, <3>2
  <2>2. CASE s \notin alarmed
    BY <1>1, <2>2
  <2> QED
    BY <2>1, <2>2
<1>11. ASSUME NEW q \in Req
       PROVE  AtEnd(req[q])' /\ Covers(req[q])'
  <2>1. /\ AtEnd(req[q])' <=> EndsAfter(req'[q])
        /\ Covers(req[q])' <=>
             (req'[q].pc = "walk" /\ CleanAfter(req'[q].start) =>
                \A t \in Stored : Kin(req'[q].start, t) /\ ~sessions'[t].revoked
                                  => t \in req'[q].ids \/ req'[q].at \in line[t])
    BY <1>2, <1>3, <1>4 DEF AtEnd, EndsAfter, Covers
  <2>2. CASE q = r
    BY <1>1, <2>1, <2>2 DEF CoversAfter
  <2>3. CASE q # r
    <3>1. req'[q] = req[q] /\ AtEnd(req[q]) /\ Covers(req[q])
      BY <1>1, <2>3
    <3>2. EndsAfter(req[q])
      BY <1>3, <2>3, <3>1 DEF AtEnd, EndsAfter
    <3>3. \A t \in Stored : ~sessions'[t].revoked => Live(t)
      BY DEF Live
    <3> QED
      BY <1>3, <2>1, <3>1, <3>2, <3>3 DEF Covers
  <2> QED
    BY <2>2, <2>3
<1> QED
  BY <1>5, <1>6, <1>7, <1>8, <1>9, <1>10, <1>11

\* A step that ends its handler, or moves it to a state without a lineage,
\* gets in nobody's way.
LEMMA LetGo ==
    ASSUME NEW r \in Req, NEW h, h.pc \in {"idle", "issue", "revokeAll"}
    PROVE  Alone(r, h) /\ EndsAfter(h) /\ CoversAfter(h)
  BY DEF Alone, EndsAfter, CoversAfter, RotatesAs, HoldsAs

\* The loaded sessions, and what a handler holds, are stored.
LEMMA HeldAreStored ==
    ASSUME IsLineage, NEW q \in Req
    PROVE  /\ req[q] \in Handler
           /\ req[q].pc \in {"insert", "replace", "logout"} => req[q].sid \in Stored
           /\ req[q].pc = "walk" => req[q].start \in Stored
           /\ req[q].pc = "replace" => req[q].next \in Stored
  BY DEF IsLineage, IInv, TypeOK, LineageInv, RefersToStored, CarriedRowsOK, CarriedRowOK

\* A step that taints nothing, sends no token and answers no replay.
LEMMA QuietStep ==
    ASSUME IsLineage, NEW r \in Req, NEW h \in Handler, Keeps(r, h),
           LinksStay(r, h), Alone(r, h), EndsAfter(h), CoversAfter(h),
           UNCHANGED <<held, alarmed>>
    PROVE  LineageInv'
<1>1. ASSUME NEW q \in Req, req[q].pc = "replace", CleanAfter(req[q].sid)
      PROVE  req[q].next \notin held'
  <2>1. Untainted(req[q].sid)
    BY <1>1 DEF Keeps, CleanAfter, Untainted
  <2> QED
    BY <1>1, <2>1 DEF IsLineage, LineageInv, AtEnd
<1>2. alarmed \subseteq Stored
  BY DEF IsLineage, LineageInv, RefersToStored
<1> QED
  BY <1>1, <1>2, KeepStep

\* A handler starts on an idle slot, so it has no link to keep.
LEMMA StartKeepsLinks ==
    ASSUME NEW r \in Req, NEW h, req[r] = Idle, sessions' = sessions
    PROVE  LinksStay(r, h)
  BY IdleType DEF LinksStay

\* Tainting s taints all its kin; nothing is clean after that was not before.
LEMMA TaintEffect ==
    ASSUME IsLineage, NEW s \in Stored
    PROVE  /\ tainted \subseteq Taint(s) /\ Taint(s) \subseteq Stored
           /\ tainted' = Taint(s) => \A t \in Stored : Kin(t, s) => ~CleanAfter(t)
<1>1. tainted \subseteq Stored /\ LinesOrdered
  BY DEF IsLineage, LineageInv, RefersToStored
<1>2. ASSUME tainted' = Taint(s), NEW t \in Stored, Kin(t, s)
      PROVE  ~CleanAfter(t)
  <2>1. CASE Untainted(s)
    BY <1>2, <2>1 DEF Taint, CleanAfter
  <2>2. CASE ~Untainted(s)
    <3>1. PICK u \in tainted : Kin(s, u)
      BY <2>2 DEF Untainted
    <3>2. Kin(t, u)
      BY <1>1, <1>2, <3>1 DEF LinesOrdered
    <3> QED
      BY <1>2, <2>2, <3>2 DEF Taint, CleanAfter
  <2> QED
    BY <2>1, <2>2
<1> QED
  BY <1>1, <1>2 DEF Taint

-----------------------------------------------------------------------------
\* login and the credential changes only take up a slot.
LEMMA StartLineage ==
    ASSUME IsLineage, NEW r \in Req, NEW h \in Handler, h.pc \in {"issue", "revokeAll"},
           Start(r, h), UNCHANGED <<sessions, line, held, tainted, alarmed>>
    PROVE  LineageInv'
<1>1. Keeps(r, h)
  BY DEF Start, Keeps, Stored, IsLineage, LineageInv, RefersToStored
<1> QED
  BY <1>1, StartKeepsLinks, LetGo, QuietStep DEF Start

LEMMA LoginLineage ==
    ASSUME IsLineage, NEW r \in Req, NEW u \in User, Login(r, u)
    PROVE  LineageInv'
<1>1. [pc |-> "issue", user |-> u, epoch |-> epoch[u]] \in Handler
  BY DEF IsLineage, IInv, TypeOK, Handler
<1> QED
  BY <1>1, StartLineage DEF Login

LEMMA CredentialChangedLineage ==
    ASSUME IsLineage, NEW r \in Req, NEW u \in User, NEW e \in Sid \cup {None},
           CredentialChanged(r, u, e)
    PROVE  LineageInv'
<1>1. [pc |-> "revokeAll", user |-> u, except |-> e] \in Handler
  BY DEF Handler
<1> QED
  BY <1>1, StartLineage DEF CredentialChanged

\* The handlers that hold s are the only ones a new one on s could disturb.
LEMMA NewHolderAlone ==
    ASSUME IsLineage, NEW r \in Req, NEW h, NEW s \in Stored,
           tainted \subseteq tainted', tainted' \subseteq Stored,
           \/ h.pc \in {"insert", "replace", "logout"} /\ h.sid = s
           \/ h.pc = "walk" /\ h.start = s,
           CleanAfter(s) => ~ \E q \in Req : Rotating(q) /\ Holds(q, s),
           RotatesAs(h) => Live(s) /\ (CleanAfter(s) => ~ \E q \in Req : Holds(q, s))
    PROVE  Alone(r, h)
<1>1. \A q \in Req : Holds(q, s) <=> HoldsAs(req[q], s)
  BY DEF Holds, HoldsAs
<1>2. ASSUME NEW q \in Req, RotatesAs(req[q]), CleanAfter(req[q].sid), HoldsAs(h, req[q].sid)
      PROVE  FALSE
  <2>1. Kin(s, req[q].sid) /\ req[q].sid \in Stored
    BY <1>2, HeldAreStored DEF HoldsAs, RotatesAs
  <2>2. Rotating(q) /\ Holds(q, s)
    BY <1>2, <2>1, Kinship DEF RotatesAs, Rotating, Holds
  <2>3. PICK u \in tainted' : Kin(s, u)
    BY <2>2 DEF CleanAfter
  <2> QED
    BY <1>2, <2>1, <2>3, Kinship DEF CleanAfter, IsLineage, LineageInv, LinesOrdered, RefersToStored
<1>3. ASSUME NEW a \in alarmed, CleanAfter(a), Kin(a, s), RotatesAs(h)
      PROVE  FALSE
  <2>1. Untainted(a) /\ Live(s)
    BY <1>3 DEF CleanAfter, Untainted
  <2> QED
    BY <1>3, <2>1 DEF IsLineage, LineageInv, AlarmedDead
<1> QED
  BY <1>1, <1>2, <1>3 DEF Alone, RotatesAs

-----------------------------------------------------------------------------
\* rotate loads a live row: of a lineage left clean, it is the end, and no
\* other handler holds it.  Or it starts a walk from a revoked one.
LEMMA RotateReadLineage ==
    ASSUME IsLineage, NEW r \in Req, NEW s \in Sid, RotateRead(r, s)
    PROVE  LineageInv'
<1>1. s \in Stored /\ sessions[s] \in Row /\ None \notin Stored
  BY SessionsAssumption DEF RotateRead, IsLineage, IInv, TypeOK
<1>2. UNCHANGED <<sessions, held, line, alarmed>> /\ Stored' = Stored
  BY DEF RotateRead, Stored
<1>3. /\ tainted \subseteq tainted' /\ tainted' \subseteq Stored
      /\ CleanAfter(s) => Untainted(s)
  BY <1>1, TaintEffect DEF RotateRead, IsLineage, LineageInv, RefersToStored, CleanAfter, Untainted
<1>4. Kin(s, s)
  BY <1>1, Kinship
<1>5. ASSUME NEW q \in Req, CleanAfter(s), Rotating(q), Holds(q, s)
      PROVE  FALSE
  BY <1>1, <1>4, <1>5, TaintEffect DEF RotateRead
<1>6. CASE RotateOutcome(s) = "rotate"
  <2> DEFINE h == [pc |-> "insert", sid |-> s, row |-> sessions[s]]
  <2>1. h \in Handler /\ h.pc = "insert" /\ h.sid = s
    BY <1>1 DEF Handler
  <2>2. Start(r, h) /\ Live(s)
    BY <1>1, <1>6 DEF RotateRead, RotateOutcome, Live
  <2>3. CleanAfter(s) => ~ \E q \in Req : Holds(q, s)
    BY <1>1, <1>4, <1>6, TaintEffect DEF RotateRead
  <2> HIDE DEF h
  <2>4. Keeps(r, h)
    BY <1>2, <1>3, <2>2 DEF Start, Keeps
  <2>5. Alone(r, h)
    BY <1>1, <1>3, <1>5, <2>1, <2>2, <2>3, NewHolderAlone
  <2>6. EndsAfter(h)
    BY <1>1, <1>3, <1>5, <2>1, <2>2, LiveIsEnd DEF EndsAfter
  <2>7. CoversAfter(h)
    BY <2>1 DEF CoversAfter
  <2> QED
    BY <1>2, <2>1, <2>2, <2>4, <2>5, <2>6, <2>7, StartKeepsLinks, QuietStep DEF Start
<1>7. CASE RotateOutcome(s) = "reuse"
  <2> DEFINE h == [pc |-> "walk", start |-> s, ids |-> {s}, at |-> sessions[s].replacedBy]
  <2>1. /\ h \in Handler /\ h.pc = "walk" /\ h.start = s
        /\ h.ids = {s} /\ h.at = sessions[s].replacedBy
    BY <1>1 DEF Handler, Row
  <2>2. Start(r, h) /\ sessions[s].revoked
    BY <1>7 DEF RotateRead, RotateOutcome
  <2> HIDE DEF h
  <2>3. Keeps(r, h)
    BY <1>2, <1>3, <2>2 DEF Start, Keeps
  <2>4. Alone(r, h)
    BY <1>1, <1>3, <1>5, <2>1, <2>2, NewHolderAlone DEF RotatesAs
  <2>5. EndsAfter(h)
    BY <2>1 DEF EndsAfter
  <2>6. ASSUME CleanAfter(s), NEW t \in Stored, Kin(s, t), ~sessions[t].revoked
        PROVE  h.at \in line[t]
    <3>1. t # s /\ Live(t) /\ Untainted(s) /\ Untainted(t)
      BY <1>1, <1>3, <2>2, <2>6, Kinship DEF Live
    <3>2. CASE t \in line[s]
      <4>1. PICK q \in Req : req[q].pc = "replace" /\ req[q].sid = t
        BY <1>1, <3>1, <3>2, LeadsOnRevoked
      <4> QED
        BY <1>1, <1>5, <2>6, <4>1, Kinship DEF Rotating, Holds
    <3>3. CASE s \in line[t]
      <4>1. ~ \E q \in Req : req[q].pc = "replace" /\ req[q].sid = s
        BY <1>4, <1>5, <2>6 DEF Rotating, Holds
      <4> QED
        BY <1>1, <2>1, <3>1, <3>3, <4>1 DEF IsLineage, LineageInv, Linked
    <3> QED
      BY <1>1, <2>6, <3>1, <3>2, <3>3 DEF IsLineage, LineageInv, Unbranched
  <2>7. CoversAfter(h)
    BY <1>1, <1>2, <2>1, <2>6 DEF CoversAfter
  <2> QED
    BY <1>2, <2>1, <2>2, <2>3, <2>4, <2>5, <2>7, StartKeepsLinks, QuietStep DEF Start
<1> QED
  BY <1>6, <1>7 DEF RotateRead

\* revokeByToken loads a live row, too: no rotation holds a lineage left clean.
LEMMA LogoutReadLineage ==
    ASSUME IsLineage, NEW r \in Req, NEW s \in Sid, LogoutRead(r, s)
    PROVE  LineageInv'
<1> DEFINE h == [pc |-> "logout", sid |-> s, row |-> sessions[s]]
<1>1. s \in Stored /\ sessions[s] \in Row
  BY DEF LogoutRead, IsLineage, IInv, TypeOK
<1>2. UNCHANGED <<sessions, held, line, alarmed>> /\ Stored' = Stored
  BY DEF LogoutRead, Stored
<1>3. /\ tainted \subseteq tainted' /\ tainted' \subseteq Stored
      /\ CleanAfter(s) => Untainted(s)
  BY <1>1, TaintEffect DEF LogoutRead, IsLineage, LineageInv, RefersToStored, CleanAfter, Untainted
<1>4. Kin(s, s)
  BY <1>1, Kinship
<1>5. CleanAfter(s) => ~ \E q \in Req : Rotating(q) /\ Holds(q, s)
  BY <1>1, <1>4, TaintEffect DEF LogoutRead
<1>6. h \in Handler /\ h.pc = "logout" /\ h.sid = s
  BY <1>1 DEF Handler
<1>7. Start(r, h) /\ Live(s)
  BY <1>1 DEF LogoutRead, Live
<1> HIDE DEF h
<1>8. Keeps(r, h)
  BY <1>2, <1>3, <1>7 DEF Start, Keeps
<1>9. Alone(r, h)
  BY <1>1, <1>3, <1>5, <1>6, NewHolderAlone DEF RotatesAs
<1>10. EndsAfter(h)
  BY <1>1, <1>3, <1>5, <1>6, <1>7, LiveIsEnd DEF EndsAfter
<1>11. CoversAfter(h)
  BY <1>6 DEF CoversAfter
<1> QED
  BY <1>2, <1>6, <1>7, <1>8, <1>9, <1>10, <1>11, StartKeepsLinks, QuietStep DEF Start

-----------------------------------------------------------------------------
\* The save of the predecessor links the successor, the end of the lineage.
LEMMA RotateSaveLineage ==
    ASSUME IsLineage, NEW r \in Req, RotateSave(r)
    PROVE  LineageInv'
<1> DEFINE s == req[r].sid
           n == req[r].next
           row == Replaced(req[r])
<1>1. /\ req[r].pc = "replace" /\ req[r].row \in Row
      /\ s \in Stored /\ n \in Stored /\ n \notin line[s] /\ line[n] = line[s] \cup {n}
  BY HandlerFields DEF RotateSave, IsLineage, IInv, TypeOK, CarriedRowsOK, CarriedRowOK
<1>2. row \in Row /\ row.revoked /\ row.replacedBy = n
  <2>1. RevokedRow(req[r].row) \in Row
    BY <1>1, RevokedRowEffect
  <2> QED
    BY <1>1, <2>1, RevokedRowEffect, HeldAreStored DEF Replaced, Row, IsLineage, IInv, TypeOK
<1>3. TypeOK /\ LinesOrdered /\ Exclusive /\ tainted \subseteq Stored /\ alarmed \subseteq Stored
  BY DEF IsLineage, IInv, LineageInv, RefersToStored
<1>4. /\ Stored' = Stored
      /\ sessions'[s] = row
      /\ \A t \in Stored : t # s => sessions'[t] = sessions[t]
  <2>1. s \in Sid /\ sessions' = With(sessions, s, row)
    BY <1>1, <1>3 DEF RotateSave, TypeOK
  <2> HIDE DEF row
  <2>2. Stored' = Stored \cup {s} /\ sessions'[s] = row
        /\ \A t \in Stored : t # s => sessions'[t] = sessions[t]
    BY <1>2, <1>3, <2>1, SaveEffect
  <2> QED
    BY <1>1, <2>2
<1>5. Keeps(r, Idle)
  BY <1>2, <1>3, <1>4 DEF RotateSave, Goto, Keeps
<1>6. \A t : CleanAfter(t) <=> Untainted(t)
  BY DEF RotateSave, CleanAfter, Untainted
<1>7. LinksStay(r, Idle)
  <2> SUFFICES ASSUME NEW x \in Stored, NEW t \in Stored, Untainted(x), x \in line[t], x # t
               PROVE  /\ sessions[x].replacedBy \in line[t] => sessions'[x].replacedBy \in line[t]
                      /\ s = x /\ n = t => sessions'[x].replacedBy \in line[t]
    BY <1>1, <1>6 DEF LinksStay
  <2>1. CASE x # s
    BY <1>4, <2>1
  <2>2. CASE x = s
    <3>1. t \in line[n]
      BY <1>1, <2>2, Kinship DEF IsLineage, LineageInv, AtEnd
    <3>2. t = n
      BY <1>1, <1>3, <2>2, <3>1 DEF LinesOrdered
    <3> QED
      BY <1>2, <1>3, <1>4, <2>2, <3>2 DEF LinesOrdered
  <2> QED
    BY <2>1, <2>2
<1>8. ASSUME NEW q \in Req, q # r, req[q].pc = "replace", Untainted(req[q].sid)
      PROVE  req[q].next \notin held'
  <2>1. req[q].next \notin held
    BY <1>8 DEF IsLineage, LineageInv, AtEnd
  <2>2. ASSUME req[q].next = n
        PROVE  FALSE
    <3>1. req[q].sid \in Stored /\ line[n] = line[req[q].sid] \cup {n}
      BY <1>8, <2>2 DEF IsLineage, IInv, CarriedRowsOK, CarriedRowOK
    <3>2. s \in line[req[q].sid]
      BY <1>1, <1>3, <3>1 DEF LinesOrdered
    <3>3. HoldsAs(req[r], req[q].sid)
      BY <1>1, <3>1, <3>2, Kinship DEF HoldsAs
    <3> QED
      BY <1>3, <1>8, <3>3 DEF Exclusive, RotatesAs
  <2> QED
    BY <2>1, <2>2 DEF RotateSave
<1> QED
  BY <1>3, <1>5, <1>6, <1>7, <1>8, IdleType, LetGo, KeepStep DEF RotateSave

\* The walk goes on along the links.
LEMMA WalkStepLineage ==
    ASSUME IsLineage, NEW r \in Req, WalkStep(r)
    PROVE  LineageInv'
<1> DEFINE g == req[r]
           s == g.start
           h == req'[r]
<1>1. /\ g \in Handler /\ g.pc = "walk" /\ s \in Stored
      /\ g \in [pc : {"walk"}, start : Sid, ids : SUBSET Sid, at : Sid \cup {None}]
  BY HandlerFields, HeldAreStored DEF WalkStep
<1>2. UNCHANGED <<sessions, held, line, tainted, alarmed>> /\ Stored' = Stored
  BY DEF WalkStep, history, Stored
<1>3. tainted \subseteq Stored /\ LinesStored /\ TypeOK /\ Exclusive
  BY DEF IsLineage, IInv, LineageInv, RefersToStored
<1>4. /\ req' = [req EXCEPT ![r] = h]
      /\ h \in [pc : {"walk"}, start : Sid, ids : SUBSET Sid, at : Sid \cup {None}]
      /\ h.pc = "walk" /\ h.start = s
      /\ g.at \in Stored => h.ids = g.ids \cup {g.at} /\ h.at = sessions[g.at].replacedBy
      /\ g.at \notin Stored => h.ids = g.ids
  <2>1. CASE g.at \in Stored
    <3>1. sessions[g.at].replacedBy \in Sid \cup {None} /\ g.at \in Sid
      BY <1>3, <2>1 DEF TypeOK, Row
    <3> QED
      BY <1>1, <1>3, <2>1, <3>1 DEF WalkStep, Goto, TypeOK
  <2>2. CASE g.at \notin Stored
    BY <1>1, <1>3, <2>2 DEF WalkStep, Goto, TypeOK
  <2> QED
    BY <2>1, <2>2
<1>5. h \in Handler
  BY <1>4 DEF Handler
<1> HIDE DEF h
<1>6. Keeps(r, h)
  BY <1>2, <1>3, <1>4 DEF Keeps
<1>7. LinksStay(r, h)
  BY <1>1, <1>2 DEF LinksStay
<1>8. \A t : CleanAfter(t) <=> Untainted(t)
  BY <1>2 DEF CleanAfter, Untainted
<1>9. Alone(r, h)
  BY <1>1, <1>3, <1>4, <1>8 DEF Alone, RotatesAs, HoldsAs, Exclusive
<1>10. EndsAfter(h)
  BY <1>4 DEF EndsAfter
<1>11. ASSUME Untainted(s), NEW t \in Stored, Kin(s, t), Live(t)
       PROVE  t \in h.ids \/ h.at \in line[t]
  <2>1. t \in g.ids \/ g.at \in line[t]
    BY <1>1, <1>11 DEF IsLineage, LineageInv, Covers
  <2>2. CASE t \in g.ids
    BY <1>4, <2>2
  <2>3. CASE g.at \in line[t] /\ g.at # t
    <3>1. g.at \in Stored /\ Untainted(t)
      BY <1>1, <1>3, <1>11, <2>3, Kinship DEF LinesStored
    <3>2. Kin(g.at, t) /\ Kin(s, g.at) /\ Untainted(g.at)
      BY <1>1, <1>11, <2>3, <3>1, Kinship DEF IsLineage, LineageInv, LinesOrdered
    <3>3. ~ \E q \in Req : req[q].pc = "replace" /\ req[q].sid = g.at
      BY <1>1, <1>3, <3>2 DEF Exclusive, HoldsAs, RotatesAs
    <3>4. sessions[g.at].replacedBy \in line[t]
      BY <2>3, <3>1, <3>2, <3>3 DEF IsLineage, LineageInv, Linked
    <3> QED
      BY <1>4, <3>1, <3>4
  <2>4. CASE g.at = t
    BY <1>4, <2>4
  <2> QED
    BY <2>1, <2>2, <2>3, <2>4
<1>12. CoversAfter(h)
  BY <1>1, <1>2, <1>4, <1>8, <1>11 DEF CoversAfter, Live
<1> QED
  BY <1>2, <1>5, <1>6, <1>7, <1>9, <1>10, <1>12, QuietStep

\* At the end of the walk every live session of the lineage has been met, and
\* the UPDATE revokes them all.
LEMMA RevokeChainLineage ==
    ASSUME IsLineage, NEW r \in Req, RevokeChain(r)
    PROVE  LineageInv'
<1> DEFINE g == req[r]
           s == g.start
<1>1. g.pc = "walk" /\ g.at = None /\ s \in Stored
  BY HeldAreStored DEF RevokeChain
<1>2. /\ TypeOK /\ LinesStored /\ Exclusive /\ RefersToStored /\ Covers(g)
      /\ \A q \in Req : AtEnd(req[q])
  BY DEF IsLineage, IInv, LineageInv
<1>3. /\ Stored' = Stored
      /\ \A t \in Stored :
           /\ sessions'[t].replacedBy = sessions[t].replacedBy
           /\ sessions'[t].revoked <=> (sessions[t].revoked \/ t \in g.ids)
  BY <1>2, RevokeEffect DEF RevokeChain
<1>4. Keeps(r, Idle)
  BY <1>2, <1>3 DEF RevokeChain, Goto, Keeps, RefersToStored
<1>5. \A t : CleanAfter(t) <=> Untainted(t)
  BY DEF RevokeChain, CleanAfter, Untainted
<1>6. LinksStay(r, Idle)
  BY <1>1, <1>3 DEF LinksStay
<1>7. ASSUME Untainted(s)
      PROVE  /\ \A t \in Stored : Kin(s, t) => sessions'[t].revoked
             /\ \A q \in Req : RotatesAs(req'[q]) => ~Kin(s, req[q].sid) /\ q # r
  <2>1. ASSUME NEW t \in Stored, Kin(s, t)
        PROVE  sessions'[t].revoked
    <3>1. None \notin line[t]
      BY <1>2, SessionsAssumption DEF LinesStored, TypeOK
    <3> QED
      BY <1>1, <1>2, <1>3, <1>7, <2>1, <3>1 DEF Covers, Live
  <2>2. ASSUME NEW q \in Req, RotatesAs(req'[q])
        PROVE  ~Kin(s, req[q].sid) /\ q # r
    <3>1. q # r /\ req'[q] = req[q]
      BY <1>2, <2>2, IdleType, GotoEffect DEF RevokeChain, Goto, RotatesAs
    <3>2. req[q].sid \in Stored
      BY <2>2, <3>1, HeldAreStored DEF RotatesAs
    <3> QED
      BY <1>1, <1>2, <1>7, <2>2, <3>1, <3>2, Kinship DEF Exclusive, HoldsAs
  <2> QED
    BY <2>1, <2>2
<1>8. \A q \in Req : req[q].pc = "replace" /\ CleanAfter(req[q].sid) => req[q].next \notin held'
  BY <1>2, <1>5 DEF RevokeChain, AtEnd
<1>9. alarmed' = alarmed \cup {s}
  BY DEF RevokeChain
<1> QED
  BY <1>1, <1>2, <1>4, <1>5, <1>6, <1>7, <1>8, <1>9, IdleType, LetGo, KeepStep DEF RefersToStored

\* logout writes the row back without a link; the session it loaded ends its
\* lineage, so there is none to lose.
LEMMA LogoutSaveLineage ==
    ASSUME IsLineage, NEW r \in Req, LogoutSave(r)
    PROVE  LineageInv'
<1> DEFINE s == req[r].sid
           row == RevokedRow(req[r].row)
<1>1. req[r].pc = "logout" /\ req[r].row \in Row /\ s \in Stored
  BY HandlerFields DEF LogoutSave, IsLineage, IInv, TypeOK, CarriedRowsOK, CarriedRowOK
<1>2. row \in Row /\ row.revoked
  BY <1>1, RevokedRowEffect
<1>3. TypeOK /\ LinesOrdered /\ tainted \subseteq Stored /\ AtEnd(req[r])
  BY DEF IsLineage, IInv, LineageInv, RefersToStored
<1>4. /\ Stored' = Stored
      /\ sessions'[s] = row
      /\ \A t \in Stored : t # s => sessions'[t] = sessions[t]
  <2>1. s \in Sid /\ sessions' = With(sessions, s, row)
    BY <1>1, <1>3 DEF LogoutSave, TypeOK
  <2> HIDE DEF row
  <2>2. Stored' = Stored \cup {s} /\ sessions'[s] = row
        /\ \A t \in Stored : t # s => sessions'[t] = sessions[t]
    BY <1>2, <1>3, <2>1, SaveEffect
  <2> QED
    BY <1>1, <2>2
<1>5. UNCHANGED <<held, line, tainted, alarmed>> /\ req' = [req EXCEPT ![r] = Idle]
  BY DEF LogoutSave, Goto, history
<1>6. Keeps(r, Idle)
  BY <1>2, <1>3, <1>4, <1>5 DEF Keeps
<1>7. LinksStay(r, Idle)
  <2> SUFFICES ASSUME NEW x \in Stored, NEW t \in Stored, CleanAfter(x), x \in line[t], x # t
               PROVE  x # s
    BY <1>1, <1>4 DEF LinksStay
  <2>1. Untainted(x) /\ Kin(x, t)
    BY <1>5, Kinship DEF CleanAfter, Untainted
  <2> QED
    BY <1>1, <1>3, <2>1 DEF AtEnd, LinesOrdered
<1> QED
  BY <1>5, <1>6, <1>7, IdleType, LetGo, QuietStep

\* revokeAllForUser writes revoked_at and nothing else.
LEMMA RevokeAllLineage ==
    ASSUME IsLineage, NEW r \in Req, RevokeAll(r)
    PROVE  LineageInv'
<1>1. TypeOK /\ tainted \subseteq Stored
  BY DEF IsLineage, IInv, LineageInv, RefersToStored
<1>2. /\ Stored' = Stored
      /\ \A t \in Stored :
           /\ sessions'[t].replacedBy = sessions[t].replacedBy
           /\ sessions[t].revoked => sessions'[t].revoked
  BY <1>1, RevokeEffect DEF RevokeAll
<1>3. Keeps(r, Idle)
  BY <1>1, <1>2 DEF RevokeAll, Goto, Keeps
<1>4. LinksStay(r, Idle)
  BY <1>2 DEF RevokeAll, LinksStay
<1> QED
  BY <1>3, <1>4, IdleType, LetGo, QuietStep DEF RevokeAll

\* A rotation that dies before its last save taints its lineage; any other
\* handler leaves nothing undone in it.
LEMMA AbortLineage ==
    ASSUME IsLineage, NEW r \in Req, Abort(r)
    PROVE  LineageInv'
<1> DEFINE s == req[r].sid
<1>1. UNCHANGED <<sessions, held, line, alarmed>> /\ Stored' = Stored
  BY DEF Abort, Stored
<1>2. tainted \subseteq Stored
  BY DEF IsLineage, LineageInv, RefersToStored
<1>3. req[r].pc = "replace" => s \in Stored /\ Kin(s, s) /\ tainted' = Taint(s)
  BY HeldAreStored, Kinship DEF Abort
<1>4. req[r].pc # "replace" => tainted' = tainted
  BY DEF Abort
<1>5. /\ tainted \subseteq tainted' /\ tainted' \subseteq Stored
      /\ req[r].pc = "replace" => ~CleanAfter(s)
  BY <1>2, <1>3, <1>4, TaintEffect
<1>6. Keeps(r, Idle)
  BY <1>1, <1>5 DEF Abort, Goto, Keeps
<1>7. LinksStay(r, Idle)
  BY <1>1, <1>5 DEF LinksStay
<1> QED
  BY <1>1, <1>6, <1>7, IdleType, LetGo, QuietStep

\* A step that leaves all of this alone.
LEMMA StillLineage ==
    ASSUME IsLineage, UNCHANGED <<sessions, req, line, held, tainted, alarmed>>
    PROVE  LineageInv'
<1>1. Stored' = Stored
  BY DEF Stored
<1>2. LinesOrdered' /\ RefersToStored' /\ Exclusive' /\ Unbranched' /\ Linked' /\ AlarmedDead'
  BY <1>1 DEF IsLineage, LineageInv, LinesOrdered, RefersToStored, Exclusive, Unbranched, Linked,
     AlarmedDead, Kin, Untainted, HoldsAs, RotatesAs, Live
<1>3. \A q \in Req : AtEnd(req[q])' /\ Covers(req[q])'
  BY <1>1 DEF IsLineage, LineageInv, AtEnd, Covers, Kin, Untainted, Live
<1> QED
  BY <1>2, <1>3 DEF LineageInv

-----------------------------------------------------------------------------
\* A login starts a lineage of its own.
LEMMA IssueLineage ==
    ASSUME IsLineage, NEW r \in Req, NEW n \in Sid, Issue(r, n)
    PROVE  LineageInv'
<1> USE DEF IsLineage, LineageInv
<1>1. /\ TypeOK /\ LinesStored /\ n \notin Stored /\ req[r].pc = "issue"
      /\ \A q \in Req : CarriedRowOK(req[q])
  BY DEF Issue, IInv, CarriedRowsOK
<1>2. /\ Stored' = Stored \cup {n}
      /\ \A t \in Stored : sessions'[t] = sessions[t]
  BY <1>1 DEF Issue, With, Stored
<1>3. /\ line'[n] = {n}
      /\ \A t \in Stored : line'[t] = line[t]
  BY <1>1 DEF Issue, TypeOK
<1>4. /\ req'[r] = Idle
      /\ \A q \in Req : q # r => req'[q] = req[q]
  BY <1>1, IdleType, GotoEffect DEF Issue, Goto
<1>5. /\ tainted' = tainted /\ alarmed' = alarmed /\ held' = held \cup {n}
      /\ tainted \subseteq Stored /\ alarmed \subseteq Stored
  BY DEF Issue, RefersToStored
<1>6. /\ \A s, t \in Stored : Kin(s, t)' <=> Kin(s, t)
      /\ \A s \in Stored : ~Kin(s, n)' /\ ~Kin(n, s)'
      /\ \A s \in Stored : n \notin line[s]
  BY <1>1, <1>3 DEF Kin, LinesStored
<1>7. \A s \in Stored : /\ Untainted(s)' <=> Untainted(s)
                        /\ Live(s)' <=> Live(s)
  BY <1>2, <1>5, <1>6 DEF Untainted, Live
<1>8. \A q \in Req : q # r =>
         /\ req[q].pc \in {"insert", "replace", "logout"} => req[q].sid \in Stored
         /\ req[q].pc = "walk" => req[q].start \in Stored
         /\ req[q].pc = "replace" => req[q].next \in Stored
  BY HeldAreStored
<1>9. LinesOrdered'
  <2>1. \A s, t, u \in Stored' : Kin(s, t)' /\ Kin(t, u)' => Kin(s, u)'
    BY <1>2, <1>6 DEF LinesOrdered
  <2> QED
    BY <1>2, <1>3, <1>6, <2>1 DEF LinesOrdered
<1>10. RefersToStored'
  BY <1>2, <1>4, <1>5, IdleType DEF RefersToStored
<1>11. Exclusive'
  <2> SUFFICES ASSUME NEW p \in Req, NEW q \in Req, p # q, p # r, q # r,
                      RotatesAs(req[q]), HoldsAs(req[p], req[q].sid)',
                      Untainted(req[q].sid)'
               PROVE  FALSE
    BY <1>4, IdleType DEF Exclusive, HoldsAs, RotatesAs
  <2>1. req[q].sid \in Stored
    BY <1>8 DEF RotatesAs
  <2> QED
    BY <1>4, <1>6, <1>7, <1>8, <2>1 DEF Exclusive, HoldsAs
<1>12. Unbranched'
  BY <1>2, <1>3, <1>6, <1>7 DEF Unbranched
<1>13. Linked'
  <2> SUFFICES ASSUME NEW s \in Stored', NEW t \in Stored', Untainted(s)', s \in line'[t], s # t
               PROVE  \/ sessions'[s].replacedBy \in line'[t]
                      \/ \E q \in Req : req'[q].pc = "replace" /\ req'[q].sid = s
                                        /\ req'[q].next = t
    BY DEF Linked
  <2>1. s \in Stored /\ t \in Stored
    BY <1>2, <1>3, <1>6
  <2>2. \A q \in Req : req[q].pc = "replace" => q # r
    BY <1>1
  <2> QED
    BY <1>2, <1>3, <1>4, <1>7, <2>1, <2>2 DEF Linked
<1>14. AlarmedDead'
  <2> SUFFICES ASSUME NEW s \in alarmed, Untainted(s)'
               PROVE  /\ \A t \in Stored' : Kin(s, t)' => ~Live(t)'
                      /\ \A q \in Req : RotatesAs(req'[q]) => ~Kin(s, req[q].sid)' /\ q # r
    BY <1>4, <1>5, IdleType DEF AlarmedDead, RotatesAs
  <2>1. \A t \in Stored' : Kin(s, t)' => ~Live(t)'
    BY <1>2, <1>5, <1>6, <1>7 DEF AlarmedDead
  <2>2. \A q \in Req : RotatesAs(req'[q]) => ~Kin(s, req[q].sid)' /\ q # r
    BY <1>4, <1>5, <1>6, <1>7, <1>8, IdleType DEF AlarmedDead, RotatesAs
  <2> QED
    BY <2>1, <2>2
<1>15. ASSUME NEW q \in Req
       PROVE  AtEnd(req[q])' /\ Covers(req[q])'
  <2>1. CASE q = r
    BY <1>4, <2>1, IdleType DEF AtEnd, Covers
  <2>2. CASE q # r
    <3>1. req'[q] = req[q] /\ AtEnd(req[q]) /\ Covers(req[q])
      BY <1>4, <2>2
    <3>2. AtEnd(req[q])'
      BY <1>1, <1>2, <1>3, <1>5, <1>6, <1>7, <1>8, <2>2, <3>1 DEF AtEnd
    <3>3. Covers(req[q])'
      BY <1>2, <1>3, <1>6, <1>7, <1>8, <2>2, <3>1 DEF Covers
    <3> QED
      BY <3>2, <3>3
  <2> QED
    BY <2>1, <2>2
<1> QED
  BY <1>9, <1>10, <1>11, <1>12, <1>13, <1>14, <1>15

\* The successor prolongs the line at its end, and is kin to what its
\* predecessor is kin to; nobody else is at work there.
LEMMA RotateInsertLineage ==
    ASSUME IsLineage, NEW r \in Req, NEW n \in Sid, RotateInsert(r, n)
    PROVE  LineageInv'
<1> DEFINE p == req[r].sid
           h == req'[r]
           Old(t) == IF t = n THEN p ELSE t
<1> USE DEF IsLineage, LineageInv
<1>1. /\ TypeOK /\ LinesStored /\ n \notin Stored /\ req[r].pc = "insert" /\ p \in Stored
      /\ req[r] \in [pc : {"insert", "logout"}, sid : Sid, row : Row]
  BY HandlerFields, HeldAreStored DEF RotateInsert, IInv, TypeOK
<1>2. /\ Stored' = Stored \cup {n}
      /\ \A t \in Stored : sessions'[t] = sessions[t]
  BY <1>1 DEF RotateInsert, With, Stored
<1>3. /\ line'[n] = line[p] \cup {n}
      /\ \A t \in Stored : line'[t] = line[t]
  BY <1>1 DEF RotateInsert, TypeOK
<1>4. /\ h.pc = "replace" /\ h.sid = p /\ h.next = n
      /\ \A q \in Req : q # r => req'[q] = req[q]
  BY <1>1 DEF RotateInsert, Goto, TypeOK
<1>5. /\ tainted' = tainted /\ alarmed' = alarmed /\ held' = held
      /\ tainted \subseteq Stored /\ alarmed \subseteq Stored /\ held \subseteq Stored
  BY DEF RotateInsert, RefersToStored, IInv, TypeOK
<1>6. /\ \A s \in Stored : n \notin line[s]
      /\ p \in line[p]
      /\ \A s \in Stored' : Old(s) \in Stored /\ (s \in Stored => Old(s) = s)
      /\ Old(n) = p
  BY <1>1, <1>2, Kinship DEF LinesStored, LinesOrdered
<1>7. \A s, t \in Stored' : Kin(s, t)' <=> Kin(Old(s), Old(t))
  <2> SUFFICES ASSUME NEW s \in Stored', NEW t \in Stored'
               PROVE  line'[s] \cap line'[t] # {} <=> line[Old(s)] \cap line[Old(t)] # {}
    BY DEF Kin
  <2>1. /\ s # n => line'[s] = line[s] /\ n \notin line[s]
        /\ t # n => line'[t] = line[t] /\ n \notin line[t]
    BY <1>2, <1>3, <1>6
  <2>2. CASE s = n /\ t = n
    BY <1>3, <1>6, <2>2
  <2>3. CASE s # n \/ t # n
    BY <1>3, <2>1, <2>3
  <2> QED
    BY <2>2, <2>3
<1> HIDE DEF Old
<1>8. /\ \A s \in Stored' : Untainted(s)' <=> Untainted(Old(s))
      /\ \A s \in Stored : Live(s)' <=> Live(s)
  BY <1>2, <1>5, <1>6, <1>7 DEF Untainted, Live
<1>9. \A q \in Req : q # r =>
         /\ req[q].pc \in {"insert", "replace", "logout"} => req[q].sid \in Stored
         /\ req[q].pc = "walk" => req[q].start \in Stored
         /\ req[q].pc = "replace" => req[q].next \in Stored
  BY HeldAreStored
<1>10. \A q \in Req : q # r /\ HoldsAs(req[q], p) => ~Untainted(p)
  BY <1>1 DEF Exclusive, RotatesAs
<1>11. LinesOrdered'
  <2>1. \A s, t, u \in Stored' : Kin(s, t)' /\ Kin(t, u)' => Kin(s, u)'
    BY <1>6, <1>7 DEF LinesOrdered
  <2>2. \A s \in Stored' : s \in line'[s]
    BY <1>2, <1>3 DEF LinesOrdered
  <2>3. \A s, t \in Stored' : s \in line'[t] /\ t \in line'[s] => s = t
    BY <1>2, <1>3, <1>6 DEF LinesOrdered
  <2> QED
    BY <2>1, <2>2, <2>3 DEF LinesOrdered
<1>12. RefersToStored'
  BY <1>2, <1>4, <1>5 DEF RefersToStored
<1>13. Exclusive'
  <2> SUFFICES ASSUME NEW k \in Req, NEW q \in Req, k # q,
                      RotatesAs(req'[q]), HoldsAs(req[k], req[q].sid)',
                      Untainted(req[q].sid)'
               PROVE  FALSE
    BY DEF Exclusive, RotatesAs
  <2>1. RotatesAs(req[q]) /\ req[q].sid = req'[q].sid /\ req[q].sid \in Stored
    BY <1>1, <1>4, <1>9 DEF RotatesAs
  <2>2. HoldsAs(req[k], req[q].sid)
    <3>1. /\ req'[k].pc \in {"insert", "replace", "logout"} =>
                /\ req[k].pc \in {"insert", "replace", "logout"}
                /\ req'[k].sid = req[k].sid /\ req[k].sid \in Stored
          /\ req'[k].pc = "walk" => /\ req[k].pc = "walk"
                                    /\ req'[k].start = req[k].start /\ req[k].start \in Stored
      BY <1>1, <1>4, <1>9
    <3> QED
      BY <1>2, <1>6, <1>7, <2>1, <3>1 DEF HoldsAs
  <2>3. Untainted(req[q].sid)
    BY <1>2, <1>6, <1>8, <2>1
  <2> QED
    BY <2>1, <2>2, <2>3 DEF Exclusive
<1>14. Unbranched'
  <2> SUFFICES ASSUME NEW s \in Stored', NEW t \in Stored', Kin(Old(s), Old(t)), Untainted(Old(s))
               PROVE  s \in line'[t] \/ t \in line'[s]
    BY <1>7, <1>8 DEF Unbranched
  <2>1. AtEnd(req[r]) /\ (Untainted(p) => \A t1 \in Stored : Kin(p, t1) => t1 \in line[p])
    BY <1>1 DEF AtEnd
  <2>2. CASE s \in Stored /\ t \in Stored
    BY <1>3, <1>6, <2>2 DEF Unbranched
  <2>3. CASE s = n \/ t = n
    <3>1. Untainted(p)
      BY <1>6, <2>3, Kinship
    <3>2. CASE s = n
      BY <1>2, <1>3, <1>6, <2>1, <3>1, <3>2
    <3>3. CASE t = n
      BY <1>1, <1>2, <1>3, <1>6, <2>1, <3>1, <3>3, Kinship
    <3> QED
      BY <2>3, <3>2, <3>3
  <2> QED
    BY <1>2, <2>2, <2>3
<1>15. Linked'
  <2> SUFFICES ASSUME NEW s \in Stored', NEW t \in Stored', Untainted(Old(s)), s \in line'[t], s # t
               PROVE  \/ sessions'[s].replacedBy \in line'[t]
                      \/ \E q \in Req : req'[q].pc = "replace" /\ req'[q].sid = s
                                        /\ req'[q].next = t
    BY <1>8 DEF Linked
  <2>1. s \in Stored /\ Old(s) = s
    BY <1>2, <1>3, <1>6
  <2>2. CASE t \in Stored
    <3>1. \A q \in Req : req[q].pc = "replace" => q # r
      BY <1>1
    <3> QED
      BY <1>2, <1>3, <1>4, <2>1, <2>2, <3>1 DEF Linked
  <2>3. CASE t = n /\ s = p
    BY <1>4, <2>3
  <2>4. CASE t = n /\ s # p
    <3>1. s \in line[p] /\ Kin(s, p) /\ Untainted(p)
      BY <1>1, <1>3, <2>1, <2>4, Kinship
    <3>2. ~ \E q \in Req : req[q].pc = "replace" /\ req[q].sid = s
      BY <1>1, <1>10, <3>1 DEF HoldsAs
    <3> QED
      BY <1>1, <1>2, <1>3, <2>1, <2>4, <3>1, <3>2 DEF Linked
  <2> QED
    BY <1>2, <2>2, <2>3, <2>4
<1>16. AlarmedDead'
  <2> SUFFICES ASSUME NEW s \in alarmed, Untainted(s)
               PROVE  /\ \A t \in Stored' : Kin(s, t)' => ~Live(t)'
                      /\ \A q \in Req : RotatesAs(req'[q]) => ~Kin(s, req[q].sid)'
    BY <1>2, <1>5, <1>6, <1>8 DEF AlarmedDead, RotatesAs
  <2>1. ~Kin(s, p)
    BY <1>1 DEF AlarmedDead, RotatesAs
  <2>2. \A t \in Stored' : Kin(s, t)' => ~Live(t)'
    BY <1>2, <1>5, <1>6, <1>7, <1>8, <2>1 DEF AlarmedDead
  <2>3. ASSUME NEW q \in Req, RotatesAs(req'[q])
        PROVE  ~Kin(s, req[q].sid)'
    <3>1. RotatesAs(req[q]) /\ req'[q].sid = req[q].sid /\ req[q].sid \in Stored
      BY <1>1, <1>4, <1>9, <2>3 DEF RotatesAs
    <3> QED
      BY <1>2, <1>5, <1>6, <1>7, <3>1 DEF AlarmedDead
  <2> QED
    BY <2>2, <2>3
<1>17. ASSUME NEW q \in Req
       PROVE  AtEnd(req[q])' /\ Covers(req[q])'
  <2>1. CASE q = r
    <3>1. ASSUME NEW x \in Stored, x = p, Untainted(x)', NEW t \in Stored', Kin(x, t)'
          PROVE  t \in line'[n]
      BY <1>1, <1>2, <1>3, <1>6, <1>7, <1>8, <3>1 DEF AtEnd
    <3>2. AtEnd(req[r])'
      BY <1>1, <1>4, <1>5, <3>1 DEF AtEnd
    <3>3. Covers(req[r])'
      BY <1>4 DEF Covers
    <3> QED
      BY <2>1, <3>2, <3>3
  <2>2. CASE q # r
    <3>1. req'[q] = req[q] /\ AtEnd(req[q]) /\ Covers(req[q])
      BY <1>4, <2>2
    <3>2. ASSUME NEW x \in Stored, Untainted(x)', Kin(x, n)', Kin(x, p) => HoldsAs(req[q], p)
          PROVE  FALSE
      <4>1. x \in Stored' /\ n \in Stored' /\ Old(x) = x /\ Old(n) = p
        BY <1>2, <1>6
      <4>2. Kin(x, p)
        BY <1>7, <3>2, <4>1
      <4>3. Untainted(x)
        BY <1>8, <3>2, <4>1
      <4>4. Untainted(p)
        BY <1>1, <4>2, <4>3, Kinship
      <4> QED
        BY <1>10, <2>2, <3>2, <4>2, <4>4
    <3>3. AtEnd(req[q])'
      <4>1. ASSUME req[q].pc \in {"insert", "logout"}, Untainted(req[q].sid)',
                   NEW t \in Stored', Kin(req[q].sid, t)'
            PROVE  t \in line'[req[q].sid]
        <5>1. req[q].sid \in Stored
          BY <1>9, <2>2, <4>1
        <5>2. t # n
          BY <3>1, <3>2, <4>1, <5>1 DEF HoldsAs
        <5> QED
          BY <1>2, <1>3, <1>6, <1>7, <1>8, <3>1, <4>1, <5>1, <5>2 DEF AtEnd
      <4>2. ASSUME req[q].pc = "replace", Untainted(req[q].sid)',
                   NEW t \in Stored', Kin(req[q].sid, t)'
            PROVE  t \in line'[req[q].next]
        <5>1. req[q].sid \in Stored /\ req[q].next \in Stored
          BY <1>9, <2>2, <4>2
        <5>2. t # n
          BY <3>1, <3>2, <4>2, <5>1 DEF HoldsAs
        <5> QED
          BY <1>2, <1>3, <1>6, <1>7, <1>8, <3>1, <4>2, <5>1, <5>2 DEF AtEnd
      <4>3. ASSUME req[q].pc = "replace", Untainted(req[q].sid)'
            PROVE  req[q].next \notin held'
        BY <1>2, <1>5, <1>6, <1>8, <1>9, <2>2, <3>1, <4>3 DEF AtEnd
      <4> QED
        BY <3>1, <4>1, <4>2, <4>3 DEF AtEnd
    <3>4. Covers(req[q])'
      <4> SUFFICES ASSUME req[q].pc = "walk", Untainted(req[q].start)',
                          NEW t \in Stored', Kin(req[q].start, t)', Live(t)'
                   PROVE  t \in req[q].ids \/ req[q].at \in line'[t]
        BY <3>1 DEF Covers
      <4>1. req[q].start \in Stored
        BY <1>9, <2>2
      <4>2. t # n
        BY <3>1, <3>2, <4>1 DEF HoldsAs
      <4> QED
        BY <1>2, <1>3, <1>6, <1>7, <1>8, <3>1, <4>1, <4>2 DEF Covers
    <3> QED
      BY <3>3, <3>4
  <2> QED
    BY <2>1, <2>2
<1> QED
  BY <1>11, <1>12, <1>13, <1>14, <1>15, <1>16, <1>17

-----------------------------------------------------------------------------
\* Without sessions there are no lineages.
LEMMA InitLineage == Init => LineageInv
<1> SUFFICES ASSUME Init PROVE LineageInv
  OBVIOUS
<1>1. Stored = {} /\ tainted = {} /\ alarmed = {}
  BY DEF Init, Stored
<1>2. \A r \in Req : req[r].pc = "idle"
  BY IdleType DEF Init
<1> QED
  BY <1>1, <1>2 DEF LineageInv, LinesOrdered, RefersToStored, Exclusive, Unbranched, Linked,
     AlarmedDead, AtEnd, Covers, RotatesAs

\* Every step keeps the lineages in shape.
LEMMA NextLineage == IsLineage /\ [Next]_vars => LineageInv'
<1> SUFFICES ASSUME IsLineage, [Next]_vars PROVE LineageInv'
  OBVIOUS
<1>1. ASSUME NEW r \in Req, Arrive(r)
      PROVE  LineageInv'
  BY <1>1, LoginLineage, RotateReadLineage, LogoutReadLineage, CredentialChangedLineage DEF Arrive
<1>2. ASSUME NEW r \in Req, Continue(r)
      PROVE  LineageInv'
  BY <1>2, IssueLineage, RotateInsertLineage, RotateSaveLineage, WalkStepLineage,
     RevokeChainLineage, LogoutSaveLineage, RevokeAllLineage DEF Continue
<1>3. ASSUME NEW r \in Req, Abort(r)
      PROVE  LineageInv'
  BY <1>3, AbortLineage
<1>4. ASSUME NEW s \in Sid, Expire(s)
      PROVE  LineageInv'
  BY <1>4, StillLineage DEF Expire, history
<1>5. CASE UNCHANGED vars
  BY <1>5, StillLineage DEF vars
<1> QED
  BY <1>1, <1>2, <1>3, <1>4, <1>5 DEF Next

\* The lineages keep their shape throughout.
THEOREM Lineages == Spec => []LineageInv
<1>1. LineageInv /\ IInv /\ [Next]_vars => LineageInv'
  BY NextLineage DEF IsLineage
<1> QED
  BY <1>1, InitLineage, Invariance, PTL DEF Spec

\* In a lineage where every rotation had the sessions for itself and came to
\* its end, the clients hold at most one live token, also between rotate's
\* two saves (session.service.ts:89-93).
THEOREM OneToken == Spec => []OneLiveToken
<1>1. IInv /\ LineageInv => OneLiveToken
  <2> SUFFICES ASSUME IsLineage, NEW s \in held, NEW t \in held,
                      Kin(s, t), Untainted(s), Live(s), Live(t), s # t
               PROVE  FALSE
    BY DEF OneLiveToken, IsLineage
  <2>1. s \in Stored /\ t \in Stored /\ Untainted(t)
    BY Kinship DEF Live
  <2>2. ASSUME NEW x \in Stored, NEW y \in Stored, x \in line[y], x # y,
               Untainted(x), Live(x)
        PROVE  y \notin held
    <3>1. PICK q \in Req : req[q].pc = "replace" /\ req[q].sid = x /\ req[q].next = y
      BY <2>2, LeadsOnRevoked
    <3> QED
      BY <2>2, <3>1 DEF IsLineage, LineageInv, AtEnd
  <2> QED
    BY <2>1, <2>2 DEF IsLineage, LineageInv, Unbranched
<1> QED
  BY <1>1, Invariance, Lineages, PTL

\* In such a lineage the replay of a rotated token leaves nothing live, and
\* nothing is minted in it any more (session.service.ts:65-71, 134-152).
THEOREM ReuseKills == Spec => []ReuseKillsLineage
<1>1. LineageInv => ReuseKillsLineage
  BY DEF LineageInv, AlarmedDead, ReuseKillsLineage
<1> QED
  BY <1>1, Lineages, PTL
=============================================================================
