-------------------------- MODULE SessionLifecycle --------------------------
(***************************************************************************)
(* What any client of the refresh-token store may rely on, whatever races  *)
(* inside it: a session is minted once, for one user, live; from live it   *)
(* can only become revoked; revoked is for ever.  A step mints one session *)
(* or revokes some, never both.                                            *)
(***************************************************************************)
CONSTANTS User, Sid, None

VARIABLES
    status,     \* status[s]: "absent", "live" or "revoked"
    owner       \* owner[s]: whose session it is, None while absent

Init ==
    /\ status = [s \in Sid |-> "absent"]
    /\ owner = [s \in Sid |-> None]

Mint(s, u) ==
    /\ status[s] = "absent"
    /\ status' = [status EXCEPT ![s] = "live"]
    /\ owner' = [owner EXCEPT ![s] = u]

Revoke(S) ==
    /\ \A s \in S : status[s] = "live"
    /\ status' = [s \in Sid |-> IF s \in S THEN "revoked" ELSE status[s]]
    /\ UNCHANGED owner

Next ==
    \/ \E s \in Sid, u \in User : Mint(s, u)
    \/ \E S \in SUBSET Sid : Revoke(S)

Spec == Init /\ [][Next]_<<status, owner>>
=============================================================================
