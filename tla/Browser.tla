------------------------------ MODULE Browser -------------------------------
(***************************************************************************)
(* The sessions of the storefront and of the seller app in one browser:    *)
(* the axios interceptor of utils/api.js in every open tab, the storage    *)
(* and the cookie the tabs share, and the rotation of the server, which is *)
(* that of Sessions, step by step.                                         *)
(*                                                                         *)
(* The modelled app is the storefront, or the seller app in the workloads  *)
(* with "forget".  The refreshToken cookie is not its own: the storefront, *)
(* the seller app and the staff's sign-in set the same one, the server     *)
(* reads it before the body, and rotates or revokes whatever account's     *)
(* token it finds there.  Other is the token of whoever else signed in.    *)
(*                                                                         *)
(* A call of a page is named by an element of Requests; so is the request  *)
(* for a new session it may cause, and the tokens that request is given.   *)
(* The account stays open (Identity is about accounts that do not).        *)
(*                                                                         *)
(* Bounds: each call runs once, access tokens expire MaxExpiries times,    *)
(* MaxLost answers are lost, other apps set the cookie MaxForeign times;   *)
(* of the refresh tokens, which live for days, only those issued before    *)
(* the behaviour reach their end.                                          *)
(***************************************************************************)
EXTENDS Sessions

CONSTANTS Tabs,         \* open tabs
          Other,        \* the token of another account in this browser
          MaxExpiries,  \* access tokens that expire
          MaxLost,      \* answers the network loses
          MaxForeign    \* times another app sets the cookie

ASSUME BrowserAssumption == MaxExpiries \in Nat /\ MaxLost \in Nat /\ MaxForeign \in Nat /\ NoOne \notin Tabs
ASSUME OtherAssumption == Other \notin TokenIds \cup {NoOne}

VARIABLES call,     \* the calls of the pages
          tab,      \* per tab: module state of api.js and the page shown
          store,    \* localStorage: access and refresh token
          cookie,   \* the refreshToken cookie
          jar,      \* how the browser treats it: "blocked", "host" or "domain"
          fresh,    \* access tokens that have not expired
          faults    \* expiries, losses and cookies of other apps so far

bvars == <<tokens, req, load, call, tab, store, cookie, jar, fresh, faults>>
server == <<tokens, req, load>>

Known == TokenIds \cup {NoOne, Other}

\* Kind "other" is a request of another app.  before is history: the calls
\* of this app whose answer about its session had arrived when this one
\* asked for a new session or for the end of it; got marks that arrival.
NoCall == [pc |-> "idle", kind |-> "api", tab |-> NoOne, access |-> NoOne, sends |-> 0,
           retry |-> FALSE, with |-> NoOne, got |-> FALSE, before |-> {}]
CallRecord == [pc : {"idle", "sent", "queued", "refreshing", "asked", "ok", "failed", "gone"},
               kind : {"api", "login", "logout", "forget", "other"}, tab : Tabs \cup {NoOne},
               access : Known, sends : 0 .. 2, retry : BOOLEAN,
               with : Known, got : BOOLEAN, before : SUBSET Requests]

Empty == [token |-> NoOne, refresh |-> NoOne]
Waiting(t) == {c \in Requests : call[c].tab = t /\ call[c].pc = "queued"}
Arrived == {c \in Requests : call[c].got}
Unsettled == {"sent", "queued", "refreshing", "asked"}
SellerApp == "forget" \in load
Shared == "shared" \in load    \* other apps are used in the browser too

-----------------------------------------------------------------------------
(* Calls of a page.                                                        *)

\* Calls differ in name only, and so do tabs: the calls begin in a fixed
\* order, and so do the tabs.
Used == {call[c].tab : c \in Requests} \cap Tabs
Unused(c) == call[c].pc = "idle" /\ c = CHOOSE d \in Requests : call[d].pc = "idle"
Begins(c, t, page) ==
    /\ Unused(c)
    /\ t \notin Used => t = CHOOSE u \in Tabs \ Used : TRUE
    /\ tab[t].page = page

\* The request interceptor attaches what localStorage holds.
Sent(t, kind) == [NoCall EXCEPT !.pc = "sent", !.kind = kind, !.tab = t,
                                !.access = store.token, !.sends = 1]

CallApi(c) ==
    \E t \in Tabs :
        /\ Begins(c, t, "app")
        /\ call' = [call EXCEPT ![c] = Sent(t, "api")]
        /\ UNCHANGED <<server, tab, store, cookie, jar, fresh, faults>>

\* What a refresh or a sign-out presents: the cookie before the body.
Presented == IF cookie # NoOne THEN cookie ELSE store.refresh

MayRetry(c) == ~call[c].retry
NeverBusy(t) == FALSE
Busy(t) == tab[t].refreshing

\* The answer to a call.  On a 401 the response interceptor gives up,
\* waits for the refresh under way, or refreshes.
Succeeds(c) == call' = [call EXCEPT ![c].pc = "ok"] /\ UNCHANGED tab
GivesUp(c) == ~MayRetry(c) /\ call' = [call EXCEPT ![c].pc = "failed"] /\ UNCHANGED tab
Waits(c) ==
    /\ MayRetry(c) /\ Busy(call[c].tab)
    /\ call' = [call EXCEPT ![c].pc = "queued", ![c].retry = TRUE] /\ UNCHANGED tab
Refreshes(c) ==
    /\ MayRetry(c) /\ ~Busy(call[c].tab)
    /\ call' = [call EXCEPT ![c].pc = "refreshing", ![c].retry = TRUE, ![c].with = Presented,
                            ![c].before = Arrived]
    /\ tab' = [tab EXCEPT ![call[c].tab].refreshing = TRUE]

Answered(c) ==
    /\ call[c].pc = "sent"
    /\ IF call[c].access \in fresh THEN Succeeds(c) ELSE GivesUp(c) \/ Waits(c) \/ Refreshes(c)
    /\ UNCHANGED <<server, store, cookie, jar, fresh, faults>>

-----------------------------------------------------------------------------
(* The refresh at the server: rotateRefreshToken of Sessions.              *)

AskNothing(r) == call[r].with = NoOne /\ Enter(r, "refresh", NoOne, NoOne, "done", "refused") /\ UNCHANGED tokens

\* The token of another account is rotated or found revoked, and no account
\* of its name is in the collection this app's handler reads; but staff are
\* users, and the storefront is given their session.
AskForeign(r) ==
    /\ call[r].with = Other
    /\ \E ans \in IF SellerApp THEN {"refused"} ELSE {"refused", "foreign"} :
          Enter(r, "refresh", Other, NoOne, "done", ans)
    /\ UNCHANGED tokens
AskRefresh(r) ==
    /\ call[r].pc = "refreshing" \/ (call[r].pc = "asked" /\ call[r].kind = "other")
    /\ AskNothing(r) \/ AskForeign(r) \/ (RotateFind(r, "refresh", NoOne) /\ req'[r].arg = call[r].with)

\* refreshSession reads the account again and signs an access token; the
\* handler of another app finds no account, when the token is rotated.
SignAccess(r) ==
    /\ call[r].kind # "other" /\ At(r, "reread") /\ Answer(r, "session")
    /\ fresh' = fresh \cup {r} /\ UNCHANGED tokens
NoAccount(r) ==
    /\ call[r].kind = "other" /\ At(r, "reread") /\ Answer(r, "refused")
    /\ UNCHANGED <<tokens, fresh>>

ServerStep(r) ==
    /\ \/ AskRefresh(r) /\ UNCHANGED fresh
       \/ (ReuseRevoke(r) \/ RotateIssue(r) \/ RotateMark(r)) /\ UNCHANGED fresh
       \/ SignAccess(r) \/ NoAccount(r)
    /\ UNCHANGED <<call, tab, store, cookie, jar, faults>>

-----------------------------------------------------------------------------
(* The answer arrives.                                                     *)

TokenOnly(c) == [store EXCEPT !.token = c]
Adopted(c) == [token |-> c, refresh |-> c]
SetCookie(c) == IF jar = "blocked" THEN NoOne ELSE c

\* A call goes out again with the new access token.
Resent(c, k) == [call[c] EXCEPT !.pc = "sent", !.access = k, !.sends = @ + 1]
DropQueue(t) == {}
Resumed(t) == Waiting(t)

RefreshArrives(c) ==
    /\ call[c].pc = "refreshing" /\ req[c].pc = "done" /\ req[c].ans = "session"
    /\ store' = Adopted(c) /\ cookie' = SetCookie(c)
    /\ call' = [d \in Requests |-> IF d = c THEN [Resent(c, c) EXCEPT !.got = TRUE]
                                   ELSE IF d \in Resumed(call[c].tab) THEN Resent(d, c) ELSE call[d]]
    /\ tab' = [tab EXCEPT ![call[c].tab].refreshing = FALSE]
    /\ UNCHANGED <<server, jar, fresh, faults>>

\* The page goes on as the other account.
ForeignArrives(c) ==
    /\ call[c].pc = "refreshing" /\ req[c].pc = "done" /\ req[c].ans = "foreign"
    /\ store' = Adopted(Other) /\ cookie' = SetCookie(Other) /\ fresh' = fresh \cup {Other}
    /\ call' = [d \in Requests |-> IF d \in Resumed(call[c].tab) \cup {c} THEN Resent(d, Other) ELSE call[d]]
    /\ tab' = [tab EXCEPT ![call[c].tab].refreshing = FALSE]
    /\ UNCHANGED <<server, jar, faults>>

\* Any other answer, or none: the queue is rejected, storage is cleared and
\* the tab is sent away.  The cookie stays.
SignOut(c) ==
    /\ store' = Empty
    /\ call' = [d \in Requests |-> IF d = c \/ d \in Waiting(call[c].tab)
                                   THEN [call[d] EXCEPT !.pc = "failed"] ELSE call[d]]
    /\ tab' = [tab EXCEPT ![call[c].tab] = [refreshing |-> FALSE, page |-> "leaving"]]
    /\ UNCHANGED <<server, cookie, jar, fresh>>

RefreshFails(c) ==
    /\ call[c].pc = "refreshing" /\ req[c].pc = "done" /\ req[c].ans \notin {"session", "foreign"}
    /\ SignOut(c) /\ UNCHANGED faults

AnswerLost(c) ==
    /\ call[c].pc = "refreshing" /\ req[c].pc = "done" /\ faults.lost < MaxLost
    /\ SignOut(c) /\ faults' = [faults EXCEPT !.lost = @ + 1]

\* The navigation ends the page and whatever it was waiting for.
Unload(t) ==
    /\ tab[t].page = "leaving"
    /\ tab' = [tab EXCEPT ![t] = [refreshing |-> FALSE, page |-> "login"]]
    /\ call' = [d \in Requests |-> IF call[d].tab = t /\ call[d].pc \in Unsettled
                                   THEN [call[d] EXCEPT !.pc = "gone"] ELSE call[d]]
    /\ UNCHANGED <<server, store, cookie, jar, fresh, faults>>

-----------------------------------------------------------------------------
(* Signing in and out.                                                     *)

SignIn(c) ==
    \E t \in Tabs :
        /\ Begins(c, t, "login")
        /\ call' = [call EXCEPT ![c] = [Sent(t, "login") EXCEPT !.pc = "asked"]]
        /\ Enter(c, "login", NoOne, NoOne, "done", "session") /\ Issue(c, {})
        /\ fresh' = fresh \cup {c}
        /\ UNCHANGED <<tab, store, cookie, jar, faults>>

\* persist(): both tokens are kept, the page moves on.
Persist(c) ==
    /\ call[c].pc = "asked" /\ call[c].kind = "login"
    /\ store' = Adopted(c) /\ cookie' = SetCookie(c)
    /\ call' = [call EXCEPT ![c].pc = "ok", ![c].got = TRUE]
    /\ tab' = [tab EXCEPT ![call[c].tab].page = "app"]
    /\ UNCHANGED <<server, jar, fresh, faults>>

\* logout() at the server: the cookie before the body; no token, no query;
\* the token of another account is that account's to lose.
SignOutCall(c) ==
    \E t \in Tabs :
        /\ ~SellerApp /\ Begins(c, t, "app")
        /\ call' = [call EXCEPT ![c] = [Sent(t, "logout") EXCEPT !.pc = "asked", !.with = Presented,
                                                                         !.before = Arrived]]
        /\ IF Presented \in {NoOne, Other}
           THEN Enter(c, "logout", Presented, NoOne, "done", "ok") /\ UNCHANGED tokens
           ELSE Logout(c, NoOne) /\ req'[c].arg = Presented
        /\ UNCHANGED <<tab, store, cookie, jar, fresh, faults>>

\* clearCookie names the path but not the domain: a cookie that was set
\* for a domain stays.
CookieKept == [store EXCEPT !.token = NoOne]
Cleared == Empty

SignedOut(c) ==
    /\ call[c].pc = "asked" /\ call[c].kind = "logout"
    /\ \E lost \in {n \in {0, 1} : faults.lost + n <= MaxLost} :
          /\ cookie' = IF lost = 0 /\ jar = "host" THEN NoOne ELSE cookie
          /\ call' = [call EXCEPT ![c].pc = "ok", ![c].got = (lost = 0)]
          /\ faults' = [faults EXCEPT !.lost = @ + lost]
    /\ store' = Cleared
    /\ tab' = [tab EXCEPT ![call[c].tab].page = "login"]
    /\ UNCHANGED <<server, jar, fresh>>

AccessExpires(k) ==
    /\ k \in fresh /\ faults.expired < MaxExpiries
    /\ k = store.token \/ \E c \in Requests : call[c].pc = "sent" /\ call[c].access = k
    /\ fresh' = fresh \ {k} /\ faults' = [faults EXCEPT !.expired = @ + 1]
    /\ UNCHANGED <<server, call, tab, store, cookie, jar>>

\* The seller app forgets its tokens and tells nobody.
Forget(c) ==
    \E t \in Tabs :
        /\ SellerApp /\ Begins(c, t, "app")
        /\ call' = [call EXCEPT ![c] = [Sent(t, "forget") EXCEPT !.pc = "ok"]]
        /\ store' = Empty /\ tab' = [tab EXCEPT ![t].page = "login"]
        /\ UNCHANGED <<server, cookie, jar, fresh, faults>>

-----------------------------------------------------------------------------
(* The other apps of the browser.                                          *)

\* Another app signs in or is given a new session of its own: the cookie is
\* that session's.  Its sign-out may clear the cookie whoever has set it by
\* then; of the apps only the storefront signs out at the server.
OtherSets ==
    /\ Shared /\ jar # "blocked" /\ cookie # Other /\ faults.foreign < MaxForeign
    /\ cookie' = Other /\ faults' = [faults EXCEPT !.foreign = @ + 1]
    /\ UNCHANGED <<server, call, tab, store, jar, fresh>>
OtherClears ==
    /\ Shared /\ SellerApp /\ jar = "host" /\ cookie # NoOne /\ faults.foreign > 0
    /\ cookie' = NoOne
    /\ UNCHANGED <<server, call, tab, store, jar, fresh, faults>>

\* Another app asks for a new session, or signs out, when the cookie is this
\* app's.
OtherPresents(c) ==
    /\ Shared /\ Unused(c) /\ cookie \in TokenIds
    /\ call' = [call EXCEPT ![c] = [NoCall EXCEPT !.pc = "asked", !.kind = "other", !.with = cookie,
                                                  !.before = Arrived]]
    /\ \/ "refresh" \in load /\ UNCHANGED server
       \/ SellerApp /\ Logout(c, NoOne) /\ req'[c].arg = cookie
    /\ UNCHANGED <<tab, store, cookie, jar, fresh, faults>>

\* It is answered: refused, or signed out and the cookie cleared.
OtherHears(c) ==
    /\ call[c].pc = "asked" /\ call[c].kind = "other" /\ req[c].pc = "done"
    /\ call' = [call EXCEPT ![c].pc = "ok"]
    /\ cookie' \in IF req[c].op = "logout" /\ jar = "host" THEN {cookie, NoOne} ELSE {cookie}
    /\ UNCHANGED <<server, tab, store, jar, fresh, faults>>

-----------------------------------------------------------------------------
\* The browser is signed in: the session of a seed is in its storage.
Init ==
    /\ load \in Workloads /\ SessionsInit(TRUE)
    /\ call = [c \in Requests |-> NoCall]
    /\ tab = [t \in Tabs |-> [refreshing |-> FALSE, page |-> "app"]]
    /\ fresh = Seeds
    /\ jar \in {"blocked", "host"} \cup (IF "logout" \in load THEN {"domain"} ELSE {})
    /\ \E s \in Seeds : store = [token |-> s, refresh |-> s] /\ cookie = SetCookie(s)
    /\ faults = [expired |-> 0, lost |-> 0, foreign |-> 0]

Advance(c) ==
    \/ Answered(c) \/ ServerStep(c)
    \/ RefreshArrives(c) \/ ForeignArrives(c) \/ RefreshFails(c) \/ Persist(c) \/ SignedOut(c) \/ OtherHears(c)

Next ==
    \/ \E c \in Requests : \/ Advance(c) \/ CallApi(c) \/ AnswerLost(c) \/ SignIn(c) \/ SignOutCall(c)
                            \/ Forget(c) \/ OtherPresents(c)
    \/ OtherSets \/ OtherClears
    \/ \E t \in Tabs : Unload(t)
    \/ \E k \in TokenIds \cup {Other} : AccessExpires(k)
    \/ \E k \in Seeds : TokenExpires(k) /\ UNCHANGED <<call, tab, store, cookie, jar, fresh, faults>>

\* The server answers what it was sent, the browser runs the callbacks of
\* answers that arrived and completes a navigation.
Spec == Init /\ [][Next]_bvars
             /\ \A c \in Requests : WF_bvars(Advance(c))
             /\ \A t \in Tabs : WF_bvars(Unload(t))

-----------------------------------------------------------------------------
(* Properties.                                                             *)

\* No call goes out a third time.
BrowserTypeOK ==
    /\ SessionsTypeOK
    /\ call \in [Requests -> CallRecord]
    /\ store \in [token : Known, refresh : Known]
    /\ cookie \in Known /\ fresh \subseteq TokenIds \cup {Other}

\* The server takes a token presented twice for stolen and ends every
\* session of the account.  The apps cause that only when two requests held
\* the token at the same time, when an answer was lost, when another app
\* presented the token from the cookie they share, when a cookie set for a
\* domain outlived a sign-out, or in the wake of an earlier alarm.  (No
\* request of another app and no call whose answer was lost is ever in
\* before: its answer never reached this app.)
Alarms == {c \in Requests : req[c].pc = "done" /\ req[c].ans = "reused"}
FalseAlarmNeedsOverlap ==
    \A c \in Alarms :
        \E d \in Requests \ {c} :
            \/ d \notin call[c].before /\ req[d].arg = call[c].with
            \/ d \in Alarms \cap Before(c)
            \/ jar = "domain" /\ call[d].kind = "logout"

\* In one tab, with every answer delivered, no other app using the cookie,
\* the session alive at the server and no second attempt made with a token
\* that is expired again, no call fails because an access token expired: the
\* calls that hit it together are all sent again with the one new token.
OneTabNeverFails ==
    (/\ faults.lost = 0 /\ faults.foreign = 0
     /\ \A k \in TokenIds : tokens[k].state # "gone"
     /\ \A c \in Requests : call[c].kind = "api" /\ (call[c].sends = 2 => call[c].access \in fresh)
     /\ \A c \in Requests, d \in Requests : NoOne \in {call[c].tab, call[d].tab} \/ call[c].tab = call[d].tab)
        => \A c \in Requests : call[c].pc \notin {"failed", "gone"}

\* A tab is marked as refreshing exactly while one of its calls asks for a
\* new session, and no two of them do; nothing waits for a refresh that is
\* over.
OneRefreshPerTab ==
    \A t \in Tabs :
        LET asking == {c \in Requests : call[c].tab = t /\ call[c].pc = "refreshing"} IN
        /\ tab[t].refreshing <=> asking # {}
        /\ \A c \in asking, d \in asking : c = d
        /\ Waiting(t) # {} => tab[t].refreshing

\* What the interceptor keeps: no endless retry, one refresh at a time, and
\* no call lost to an expired token in a single tab.
BrowserInv == BrowserTypeOK /\ OneRefreshPerTab /\ OneTabNeverFails

\* Signing out of the storefront lasts: a token of the account that still
\* works and that the browser could present came with an answer that arrived
\* after the sign-out was sent.  (At the server the session that ends is the
\* one presented, which another app's cookie makes another account's.)
SignedOutStays ==
    \A c \in Requests :
        (call[c].kind = "logout" /\ call[c].pc = "ok")
            => \A k \in {store.refresh, cookie} \ {NoOne, Other} :
                  tokens[k].state = "live" => k \in Requests \ call[c].before

\* Every call is settled: answered, failed, or gone with its page.  Each
\* runs once, so that a time comes when none is left.
Settled(c) == call[c].pc \notin Unsettled
CallsSettle == (\E c \in Requests : ~Settled(c)) ~> (\A c \in Requests : Settled(c))
=============================================================================
