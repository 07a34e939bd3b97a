------------------------------ MODULE Sessions ------------------------------
(***************************************************************************)
(* The refresh tokens of one account: token.service.js over the            *)
(* refreshtokens collection.  A token is named by the request that issued  *)
(* it, the tokens of Seeds were issued before the behaviour.  Tokens of    *)
(* different accounts never meet (every query of the service is by hash or *)
(* by account), so one account is followed.                                *)
(***************************************************************************)
EXTENDS Handlers

CONSTANT Seeds    \* sessions opened before the behaviour

VARIABLE tokens   \* the refreshtokens collection

ASSUME SeedsAssumption == Requests \cap Seeds = {} /\ NoOne \notin Seeds

TokenIds == Requests \cup Seeds

\* `line` is history: the requests that issued the token and its
\* predecessors in the rotation chain.
NoToken == [state |-> "none", line |-> {}]
TokenRecord == [state : {"none", "live", "revoked", "gone"}, line : SUBSET TokenIds]

-----------------------------------------------------------------------------
(* token.service.js                                                        *)

\* issueRefreshToken: one new live document.
Issue(r, line) == tokens' = [tokens EXCEPT ![r] = [state |-> "live", line |-> line \cup {r}]]

NothingRevoked == tokens

\* revokeAllUserSessions and the reuse branch of rotateRefreshToken.
RevokedAll == [t \in TokenIds |-> IF tokens[t].state = "live"
                                  THEN [tokens[t] EXCEPT !.state = "revoked"] ELSE tokens[t]]

\* revokeRefreshToken and what a rotation does to the token presented.
StillLive(t) == tokens
RevokedOne(t) == IF tokens[t].state = "live"
                 THEN [tokens EXCEPT ![t].state = "revoked"] ELSE tokens

Rotated(t) == [tokens EXCEPT ![t].state = "revoked"]

\* The tokens a client was ever given: those answered to it and the seeds.
Held == {t \in TokenIds : tokens[t].state # "none" /\ (t \in Requests => req[t].ans = "session")}

\* rotateRefreshToken up to its first write: the token is looked up once.
RotateFind(r, op, doc) ==
    \E t \in Held :
        LET s == tokens[t].state IN
        /\ \/ s = "gone"    /\ Enter(r, op, t, doc, "done", "refused")
           \/ s = "revoked" /\ Enter(r, op, t, doc, "reuse", "none")
           \/ s = "live"    /\ Enter(r, op, t, doc, "rotate", "none")
        /\ UNCHANGED tokens

ReuseRevoke(r) ==
    /\ At(r, "reuse") /\ tokens' = RevokedAll /\ Answer(r, "reused")

RotateIssue(r) ==
    /\ At(r, "rotate")
    /\ Issue(r, tokens[req[r].arg].line) /\ Goto(r, "mark")

\* The old token is marked after its successor exists; a document the TTL
\* index removed in between makes the save throw.
RotateMark(r) ==
    /\ At(r, "mark")
    /\ LET t == req[r].arg IN
       IF tokens[t].state = "gone" THEN Answer(r, "error") /\ UNCHANGED tokens
       ELSE tokens' = Rotated(t) /\ Goto(r, "reread")

\* logout and logoutEverywhere.
Logout(r, doc) ==
    \E t \in Held : Enter(r, "logout", t, doc, "done", "ok") /\ tokens' = RevokedOne(t)

LogoutEverywhere(r, doc) ==
    Enter(r, "logoutAll", NoOne, doc, "done", "ended") /\ tokens' = RevokedAll

\* The last step of the handlers that end every session.
EndSessions(r) ==
    /\ At(r, "revoke") /\ tokens' = RevokedAll /\ Answer(r, "ended")

\* expiresAt passes; the TTL index purges the document.  A live token that
\* expired and one that was purged are both answered with a 401.
TokenExpires(t) ==
    /\ "expiry" \in load /\ tokens[t].state \in {"live", "revoked"}
    /\ tokens' = [tokens EXCEPT ![t].state = "gone"]
    /\ UNCHANGED <<req, load>>

SessionsInit(exists) ==
    /\ tokens = [t \in TokenIds |-> IF t \in Seeds /\ exists THEN [state |-> "live", line |-> {t}] ELSE NoToken]
    /\ req = [r \in Requests |-> Idle]

SessionsTypeOK ==
    /\ FrameTypeOK
    /\ tokens \in [TokenIds -> TokenRecord]

-----------------------------------------------------------------------------
(* A session in a client's hands that still works, and the requests that   *)
(* promised to end every session of the account.                           *)

Usable == {t \in Held : tokens[t].state = "live"}
Enders == {r \in Finished : req[r].ans \in {"ended", "reused"}}

\* What a seed or request x of a session's line did before e began.
Preceded(x, e) == x \in Seeds \/ x \in Before(e)
=============================================================================
