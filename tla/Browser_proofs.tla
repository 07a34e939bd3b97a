---------------------------- MODULE Browser_proofs ----------------------------
(***************************************************************************)
(* Proofs about Browser, for any calls, tabs and initial sessions, any     *)
(* number of expired access tokens and lost answers, and other apps that   *)
(* set, clear and present the cookie any number of times.                  *)
(***************************************************************************)
EXTENDS Browser, TLAPS

-----------------------------------------------------------------------------
(* What a call, its request at the server and the tokens named by it have  *)
(* to do with one another, whatever the other calls do.                    *)

Fields == {"op", "pc", "arg", "ans", "snap", "before"}
CallFields == {"pc", "kind", "tab", "access", "sends", "retry", "with", "got", "before"}

\* The call, as the page has it.
CallOK(c) ==
  /\ DOMAIN call[c] = CallFields
  /\ call[c].pc = "idle" => call[c] = NoCall
  /\ call[c].pc # "idle" /\ call[c].kind # "other" => call[c].tab \in Tabs
  /\ call[c].access \in Known /\ call[c].with \in Known /\ call[c].before \subseteq Arrived
  /\ call[c].retry \in BOOLEAN /\ call[c].got \in BOOLEAN
  /\ \/ /\ call[c].kind = "api"
        /\ \/ /\ call[c].pc \in {"idle", "sent", "ok", "gone"} /\ ~ call[c].retry /\ ~ call[c].got
              /\ call[c].sends = (IF call[c].pc = "idle" THEN 0 ELSE 1) /\ call[c].with = NoOne /\ call[c].before = {}
           \/ call[c].pc \in {"queued", "refreshing", "failed", "gone"} /\ call[c].retry /\ ~ call[c].got
              /\ call[c].sends = 1
           \/ call[c].pc \in {"sent", "ok", "failed", "gone"} /\ call[c].retry /\ call[c].sends = 2
     \/ /\ call[c].kind \in {"login", "logout"} /\ call[c].sends = 1 /\ ~ call[c].retry
        /\ call[c].pc \in {"asked", "ok", "gone"} /\ (call[c].got => call[c].pc # "asked")
     \/ /\ call[c].kind = "forget" /\ call[c].sends = 1 /\ ~ call[c].retry /\ ~ call[c].got
        /\ call[c].pc = "ok" /\ call[c].with = NoOne
     \/ /\ call[c].kind = "other" /\ call[c].sends = 0 /\ ~ call[c].retry /\ ~ call[c].got
        /\ call[c].pc \in {"asked", "ok"} /\ call[c].tab = NoOne /\ call[c].with \in TokenIds

\* The request it has caused.
ReqOK(c) ==
  /\ DOMAIN req[c] = Fields
  /\ req[c].pc = "idle" => req[c] = Idle
  /\ req[c].pc # "idle" => req[c].arg = call[c].with /\ req[c].op \in load
  /\ req[c].before \subseteq Finished \ {c}
  /\ \/ req[c].pc = "idle" /\ call[c].kind \notin {"login", "logout"} /\ ~ call[c].got
     \/ /\ req[c].pc \in {"reuse", "rotate", "mark", "reread"} /\ req[c].op = "refresh" /\ req[c].ans = "none"
        /\ (call[c].kind = "api" /\ call[c].retry) \/ call[c].kind = "other"
        /\ call[c].with \in TokenIds /\ ~ call[c].got
     \/ /\ req[c].pc = "done" /\ req[c].op = "refresh" /\ (call[c].got => req[c].ans = "session")
        /\ req[c].ans \in {"session", "foreign", "refused", "reused", "error"}
        /\ (call[c].kind = "api" /\ call[c].retry)
           \/ (call[c].kind = "other" /\ req[c].ans \in {"refused", "reused", "error"})
        /\ req[c].ans = "foreign" => call[c].with = Other
     \/ /\ req[c].pc = "done" /\ req[c].op = "login" /\ req[c].ans = "session" /\ call[c].kind = "login"
     \/ /\ req[c].pc = "done" /\ req[c].op = "logout" /\ req[c].ans = "ok" /\ call[c].kind \in {"logout", "other"}
  /\ call[c].pc = "queued" => req[c].pc = "idle"

\* The token it is given, and what is in the browser.
StoreInv ==
  /\ load \in Workloads
  /\ DOMAIN req = Requests /\ DOMAIN call = Requests
  /\ tokens \in [TokenIds -> TokenRecord]
  /\ \A c \in Requests : req[c].pc \in {"idle", "reuse", "rotate"} => tokens[c] = NoToken
  /\ \A s \in Seeds : tokens[s].state # "none"
  /\ \A c \in Requests : req[c].arg \in TokenIds => tokens[req[c].arg].state # "none"
  /\ store \in [token : Known, refresh : Known]
  /\ cookie \in Known /\ fresh \subseteq TokenIds \cup {Other}
  /\ jar \in {"blocked", "host", "domain"} /\ (jar = "blocked" => cookie = NoOne)
  /\ store.refresh # NoOne /\ cookie \notin {NoOne, Other} => store.refresh = cookie
  /\ faults \in [expired : Nat, lost : Nat, foreign : Nat]

CallsInv == StoreInv /\ \A c \in Requests : CallOK(c) /\ ReqOK(c)

\* A call that a step is not about stays as it was.
LEMMA Others ==
  ASSUME NEW d \in Requests, CallOK(d), ReqOK(d), call'[d] = call[d], req'[d] = req[d], UNCHANGED load,
         Arrived \subseteq Arrived', Finished \subseteq Finished'
  PROVE  CallOK(d)' /\ ReqOK(d)'
<1>1. CallOK(d)'
  BY DEF CallOK, Known
<1>2. ReqOK(d)'
  BY DEF ReqOK
<1> QED
  BY <1>1, <1>2

\* A page's step that no other call and not the server sees.
PageStep(c) == UNCHANGED server /\ \A d \in Requests \ {c} : call'[d] = call[d]

\* Such a step keeps the invariant when it keeps it for that call.
LEMMA OnePage ==
  ASSUME CallsInv, NEW c \in Requests, PageStep(c), StoreInv', call[c].got => call'[c].got,
         CallOK(c)' /\ ReqOK(c)'
  PROVE  CallsInv'
<1>1. Arrived \subseteq Arrived' /\ Finished \subseteq Finished'
  BY DEF Arrived, Finished, PageStep, server
<1>2. \A d \in Requests \ {c} : CallOK(d)' /\ ReqOK(d)'
  BY <1>1, Others DEF CallsInv, PageStep, server
<1> QED
  BY <1>2 DEF CallsInv

\* A call keeps all but some of its fields.
Keeps(d, F) == DOMAIN call'[d] = CallFields /\ \A f \in CallFields \ F : call'[d][f] = call[d][f]

\* A call goes out, and is answered.
ApiShape(c) ==
  /\ call[c] = NoCall /\ DOMAIN call'[c] = CallFields
  /\ call'[c].pc = "sent" /\ call'[c].kind = "api" /\ call'[c].tab \in Tabs
  /\ call'[c].access = store.token /\ call'[c].sends = 1 /\ call'[c].retry = FALSE
  /\ call'[c].with = NoOne /\ call'[c].got = FALSE /\ call'[c].before = {}
  /\ UNCHANGED <<server, tab, store, cookie, jar, fresh, faults>>
AnsweredShape(c) ==
  /\ call[c].pc = "sent" /\ UNCHANGED <<server, store, cookie, jar, fresh, faults>>
  /\ \/ call'[c].pc = "ok" /\ Keeps(c, {"pc"}) /\ UNCHANGED tab
     \/ /\ call'[c].pc = "failed" /\ Keeps(c, {"pc"}) /\ UNCHANGED tab
        /\ call[c].retry = TRUE /\ call[c].access \notin fresh
     \/ /\ call'[c].pc = "queued" /\ call'[c].retry = TRUE /\ Keeps(c, {"pc", "retry"}) /\ UNCHANGED tab
        /\ call[c].retry = FALSE /\ tab[call[c].tab].refreshing
     \/ /\ call'[c].pc = "refreshing" /\ call'[c].retry = TRUE /\ call'[c].with = Presented
        /\ call'[c].before = Arrived /\ Keeps(c, {"pc", "retry", "with", "before"})
        /\ call[c].retry = FALSE /\ ~ tab[call[c].tab].refreshing
        /\ tab' = [tab EXCEPT ![call[c].tab].refreshing = TRUE]

\* CallApi makes a new call go out.
LEMMA ApiShapes ==
  ASSUME CallsInv, NEW c \in Requests, CallApi(c)
  PROVE  ApiShape(c) /\ PageStep(c) /\ DOMAIN call' = Requests
<1>1. PICK t \in Tabs : Begins(c, t, "app") /\ call' = [call EXCEPT ![c] = Sent(t, "api")]
  BY DEF CallApi
<1>2. call'[c] = Sent(t, "api") /\ DOMAIN call' = Requests /\ \A d \in Requests \ {c} : call'[d] = call[d]
  BY <1>1 DEF CallsInv, StoreInv
<1>3. call[c] = NoCall
  BY <1>1 DEF CallsInv, CallOK, Begins, Unused
<1>4. /\ DOMAIN call'[c] = CallFields /\ call'[c].pc = "sent" /\ call'[c].kind = "api" /\ call'[c].tab = t
      /\ call'[c].access = store.token /\ call'[c].sends = 1 /\ call'[c].retry = FALSE
      /\ call'[c].with = NoOne /\ call'[c].got = FALSE /\ call'[c].before = {}
  BY <1>2 DEF Sent, NoCall, CallFields
<1> QED
  BY <1>2, <1>3, <1>4 DEF ApiShape, CallApi, PageStep

\* A new call keeps the invariant.
LEMMA ApiStep ==
  ASSUME CallsInv, NEW c \in Requests, ApiShape(c), PageStep(c), DOMAIN call' = Requests
  PROVE  CallsInv'
<1>1. StoreInv'
  BY DEF CallsInv, StoreInv, ApiShape, server
<1>2. call[c].got = FALSE /\ req[c] = Idle
  BY DEF CallsInv, CallOK, ReqOK, ApiShape, NoCall
<1>3. CallOK(c)'
  BY DEF CallsInv, StoreInv, ApiShape, CallOK, Known
<1>4. ReqOK(c)'
  BY <1>2 DEF ApiShape, ReqOK, Idle, Fields, server
<1> QED
  BY <1>1, <1>2, <1>3, <1>4, OnePage

\* Answered ends a call, makes it wait, or makes it refresh.
LEMMA AnsweredShapes ==
  ASSUME CallsInv, NEW c \in Requests, Answered(c)
  PROVE  AnsweredShape(c) /\ PageStep(c) /\ DOMAIN call' = Requests
<1>0. DOMAIN call = Requests /\ DOMAIN call[c] = CallFields /\ call[c].retry \in BOOLEAN
  BY DEF CallsInv, StoreInv, CallOK
<1>1. PageStep(c) /\ DOMAIN call' = Requests
  BY <1>0 DEF Answered, PageStep, Succeeds, GivesUp, Waits, Refreshes
<1>2. CASE Succeeds(c)
  BY <1>0, <1>1, <1>2 DEF Answered, Succeeds, AnsweredShape, Keeps, CallFields
<1>3. CASE GivesUp(c) /\ call[c].access \notin fresh
  BY <1>0, <1>1, <1>3 DEF Answered, GivesUp, MayRetry, AnsweredShape, Keeps, CallFields
<1>4. CASE Waits(c)
  BY <1>0, <1>1, <1>4 DEF Answered, Waits, MayRetry, Busy, AnsweredShape, Keeps, CallFields
<1>5. CASE Refreshes(c)
  BY <1>0, <1>1, <1>5 DEF Answered, Refreshes, MayRetry, Busy, AnsweredShape, Keeps, CallFields
<1> QED
  BY <1>2, <1>3, <1>4, <1>5 DEF Answered

\* Each of them keeps the invariant.
LEMMA AnsweredStep ==
  ASSUME CallsInv, NEW c \in Requests, AnsweredShape(c), PageStep(c), DOMAIN call' = Requests
  PROVE  CallsInv'
<1>1. StoreInv'
  BY DEF CallsInv, StoreInv, AnsweredShape, server
<1>2. CallOK(c) /\ ReqOK(c) /\ call[c].pc = "sent"
  BY DEF CallsInv, AnsweredShape
<1>3. Presented \in Known
  BY DEF CallsInv, StoreInv, Presented
<1>4. call'[c].got = call[c].got /\ \A d \in Requests : call'[d].got = call[d].got
  BY DEF AnsweredShape, Keeps, CallFields, PageStep
<1>5. Arrived = Arrived' /\ Finished = Finished' /\ load' = load /\ req' = req
  BY <1>4 DEF Arrived, Finished, AnsweredShape, server
<1>8. /\ DOMAIN call'[c] = CallFields /\ call'[c].tab = call[c].tab /\ call'[c].access = call[c].access
      /\ call'[c].kind = call[c].kind /\ call'[c].sends = call[c].sends
  BY DEF AnsweredShape, Keeps, CallFields
<1>9. call[c].kind = "api" /\ call[c].sends \in {1, 2} /\ (call[c].retry = FALSE => call[c].sends = 1)
      /\ (call[c].retry = TRUE => call[c].sends = 2) /\ (call[c].retry = FALSE => call[c].got = FALSE)
  BY <1>2 DEF CallOK
<1>10. /\ call'[c].with \in Known /\ call'[c].before \subseteq Arrived /\ call'[c].retry \in BOOLEAN
       /\ call'[c].pc # "idle" /\ call'[c].tab \in Tabs /\ call'[c].access \in Known /\ call'[c].got \in BOOLEAN
  BY <1>2, <1>3, <1>4, <1>8 DEF AnsweredShape, Keeps, CallFields, CallOK
<1>11. \/ /\ call'[c].pc \in {"idle", "sent", "ok", "gone"} /\ call'[c].retry = FALSE /\ call'[c].got = FALSE
           /\ call'[c].sends \in {0, 1} /\ call'[c].with = NoOne /\ call'[c].before = {}
       \/ call'[c].pc \in {"queued", "refreshing"} /\ call'[c].retry = TRUE /\ call'[c].got = FALSE /\ call'[c].sends = 1
       \/ call'[c].pc \in {"ok", "failed"} /\ call'[c].retry = TRUE /\ call'[c].sends = 2
  <2>1. CASE call'[c].pc = "ok" /\ Keeps(c, {"pc"})
    BY <1>2, <1>4, <1>8, <1>9, <2>1 DEF Keeps, CallFields, CallOK
  <2>2. CASE call'[c].pc = "failed" /\ Keeps(c, {"pc"}) /\ call[c].retry = TRUE
    BY <1>8, <1>9, <2>2 DEF Keeps, CallFields
  <2>3. CASE call'[c].pc \in {"queued", "refreshing"} /\ call'[c].retry = TRUE /\ call[c].retry = FALSE
    BY <1>4, <1>8, <1>9, <2>3
  <2> QED
    BY <2>1, <2>2, <2>3 DEF AnsweredShape
<1>6. CallOK(c)'
  BY <1>5, <1>8, <1>9, <1>10, <1>11 DEF CallOK
<1>12. \/ req[c].pc = "idle"
       \/ call[c].retry = TRUE /\ call'[c].retry = TRUE /\ call'[c].pc # "queued" /\ call'[c].with = call[c].with
  BY <1>2, <1>9 DEF AnsweredShape, Keeps, CallFields, ReqOK
<1>7. ReqOK(c)'
  <2>1. CASE req[c].pc = "idle"
    BY <1>2, <1>4, <1>5, <1>8, <2>1 DEF ReqOK, Idle
  <2>2. CASE call[c].retry = TRUE /\ call'[c].retry = TRUE /\ call'[c].pc # "queued" /\ call'[c].with = call[c].with
    BY <1>2, <1>4, <1>5, <1>8, <2>2 DEF ReqOK
  <2> QED
    BY <1>12, <2>1, <2>2
<1> QED
  BY <1>1, <1>4, <1>6, <1>7, OnePage

\* A step of the server for one request.
ServerMove(r) ==
  /\ UNCHANGED load /\ DOMAIN req' = Requests /\ req[r].pc # "done"
  /\ \A d \in Requests \ {r} : req'[d] = req[d]

\* Such a step keeps the invariant when it keeps it for that request.
LEMMA OneRequest ==
  ASSUME CallsInv, NEW r \in Requests, ServerMove(r), UNCHANGED call, StoreInv', ReqOK(r)'
  PROVE  CallsInv'
<1>1. Arrived \subseteq Arrived' /\ Finished \subseteq Finished'
  BY DEF Arrived, Finished, ServerMove
<1>2. \A d \in Requests \ {r} : CallOK(d)' /\ ReqOK(d)'
  BY <1>1, Others DEF CallsInv, ServerMove
<1>3. CallOK(r)'
  BY <1>1 DEF CallsInv, CallOK, ServerMove
<1> QED
  BY <1>2, <1>3 DEF CallsInv

\* What a request becomes.
Asks(r, op, x, pc, ans) ==
  /\ req[r].pc = "idle" /\ op \in load /\ ServerMove(r)
  /\ DOMAIN req'[r] = Fields /\ req'[r].op = op /\ req'[r].arg = x /\ req'[r].pc = pc /\ req'[r].ans = ans
  /\ req'[r].before = Finished
Goes(r, pc, ans) ==
  /\ ServerMove(r) /\ req[r].pc # "idle"
  /\ req'[r] = [f \in Fields |-> IF f = "pc" THEN pc ELSE IF f = "ans" THEN ans ELSE req[r][f]]

\* Enter makes an idle request ask.
LEMMA EnterAsks ==
  ASSUME CallsInv, NEW r \in Requests
  PROVE  \A op, x, doc, pc, ans : Enter(r, op, x, doc, pc, ans) => Asks(r, op, x, pc, ans)
BY DEF CallsInv, StoreInv, Enter, Asks, ServerMove, Fields

\* Answer and Goto move a request on.
LEMMA AnswerGoes ==
  ASSUME CallsInv, NEW r \in Requests, req[r].pc \notin {"idle", "done"}, UNCHANGED load
  PROVE  /\ \A ans : Answer(r, ans) => Goes(r, "done", ans)
         /\ \A pc : Goto(r, pc) => Goes(r, pc, req[r].ans)
BY DEF CallsInv, StoreInv, ReqOK, Answer, Goto, Goes, ServerMove, Fields

\* What is done to tokens: some end, or one more is issued.
Fewer ==
  /\ tokens' \in [TokenIds -> TokenRecord]
  /\ \A t \in TokenIds : /\ tokens[t].state = "none" => tokens'[t] = tokens[t]
                         /\ tokens[t].state # "none" => tokens'[t].state # "none"
                         /\ tokens'[t].state = "live" => tokens[t].state = "live"
                         /\ tokens[t].state = "gone" => tokens'[t].state = "gone"
OneMore(r) ==
  /\ tokens' \in [TokenIds -> TokenRecord]
  /\ tokens'[r].state = "live" /\ \A t \in TokenIds \ {r} : tokens'[t] = tokens[t]

\* What Sessions does to tokens, except for issuing one, only ends them.
LEMMA TokensEnd ==
  ASSUME StoreInv
  PROVE  /\ tokens' = RevokedAll => Fewer
         /\ \A t \in TokenIds : tokens' = RevokedOne(t) => Fewer /\ tokens'[t].state # "live"
         /\ \A t \in TokenIds :
              tokens' = Rotated(t) /\ tokens[t].state \notin {"none", "gone"} =>
                Fewer /\ tokens'[t].state = "revoked" /\ \A x \in TokenIds \ {t} : tokens'[x] = tokens[x]
         /\ \A t \in TokenIds :
              tokens' = [tokens EXCEPT ![t].state = "gone"] /\ tokens[t].state # "none" =>
                Fewer /\ tokens'[t].state = "gone" /\ \A x \in TokenIds \ {t} : tokens'[x] = tokens[x]
         /\ UNCHANGED tokens => Fewer
<1>1. tokens \in [TokenIds -> TokenRecord]
  BY DEF StoreInv
<1>2. \A x \in TokenRecord, s \in {"none", "live", "revoked", "gone"} :
        [x EXCEPT !.state = s] \in TokenRecord /\ [x EXCEPT !.state = s].state = s
  BY DEF TokenRecord
<1>3. tokens' = RevokedAll => Fewer
  BY <1>1, <1>2 DEF RevokedAll, Fewer
<1>4. ASSUME NEW t \in TokenIds, NEW s \in {"revoked", "gone"}, tokens[t].state # "none",
             tokens' = [tokens EXCEPT ![t].state = s], tokens[t].state = "gone" => s = "gone"
      PROVE  Fewer /\ tokens'[t].state = s /\ \A x \in TokenIds \ {t} : tokens'[x] = tokens[x]
  <2>1. tokens'[t] = [tokens[t] EXCEPT !.state = s] /\ \A x \in TokenIds \ {t} : tokens'[x] = tokens[x]
    BY <1>1, <1>4
  <2>2. tokens[t] \in TokenRecord /\ DOMAIN tokens' = TokenIds
    BY <1>1, <1>4
  <2>3. tokens'[t].state = s /\ tokens'[t] \in TokenRecord
    BY <2>1, <2>2 DEF TokenRecord
  <2>4. tokens' \in [TokenIds -> TokenRecord]
    BY <1>1, <1>4, <2>3
  <2> QED
    BY <2>1, <2>3, <2>4, <1>4 DEF Fewer
<1>5. UNCHANGED tokens => Fewer
  BY <1>1 DEF Fewer
<1>6. ASSUME NEW t \in TokenIds
      PROVE  /\ tokens' = Rotated(t) /\ tokens[t].state \notin {"none", "gone"} =>
                  Fewer /\ tokens'[t].state = "revoked" /\ \A x \in TokenIds \ {t} : tokens'[x] = tokens[x]
             /\ tokens' = [tokens EXCEPT ![t].state = "gone"] /\ tokens[t].state # "none" =>
                  Fewer /\ tokens'[t].state = "gone" /\ \A x \in TokenIds \ {t} : tokens'[x] = tokens[x]
             /\ tokens' = RevokedOne(t) => Fewer /\ tokens'[t].state # "live"
  BY <1>4, <1>5 DEF Rotated, RevokedOne
<1> QED
  BY <1>3, <1>5, <1>6

\* Issue makes one token live.
LEMMA TokenIssued ==
  ASSUME StoreInv, NEW r \in Requests, NEW L, L \subseteq TokenIds, Issue(r, L)
  PROVE  OneMore(r)
<1>1. [state |-> "live", line |-> L \cup {r}] \in TokenRecord /\ r \in TokenIds
  BY DEF TokenRecord, TokenIds
<1> QED
  BY <1>1 DEF StoreInv, Issue, OneMore

\* What is in the browser stays, and the tokens the requests know exist.
LEMMA StoreKept ==
  ASSUME StoreInv, NEW r \in Requests, ServerMove(r), UNCHANGED <<store, cookie, jar, faults>>, DOMAIN call' = Requests,
         fresh' \in {fresh, fresh \cup {r}},
         Fewer \/ (OneMore(r) /\ req'[r].pc \notin {"idle", "reuse", "rotate"}),
         req'[r].pc \in {"idle", "reuse", "rotate"} => req[r].pc \in {"idle", "reuse", "rotate"},
         req'[r].arg \in TokenIds => tokens[req'[r].arg].state # "none"
  PROVE  StoreInv'
<1>1. \A t \in TokenIds : tokens[t].state # "none" => tokens'[t].state # "none"
  BY DEF Fewer, OneMore
<1>2. \A c \in Requests : req'[c].pc \in {"idle", "reuse", "rotate"} => tokens'[c] = NoToken
  <2>1. \A c \in Requests : req'[c].pc \in {"idle", "reuse", "rotate"} => tokens[c] = NoToken
    BY DEF ServerMove, StoreInv
  <2> QED
    BY <2>1 DEF Fewer, OneMore, NoToken, TokenIds
<1>3. \A c \in Requests : req'[c].arg \in TokenIds => tokens'[req'[c].arg].state # "none"
  BY <1>1 DEF ServerMove, StoreInv
<1>4. tokens' \in [TokenIds -> TokenRecord] /\ \A s \in Seeds : tokens'[s].state # "none"
  BY <1>1 DEF Fewer, OneMore, StoreInv, TokenIds
<1>5. fresh' \subseteq TokenIds \cup {Other}
  BY DEF StoreInv, TokenIds
<1> QED
  BY <1>2, <1>3, <1>4, <1>5 DEF StoreInv, ServerMove

\* The steps of the server, by what they do to the request and the tokens.
Foreigner(r) == call[r].pc = "asked" /\ call[r].kind = "other"
Finds(r) ==
  /\ req[r].pc = "idle" /\ (call[r].pc = "refreshing" \/ Foreigner(r)) /\ ServerMove(r) /\ UNCHANGED <<tokens, fresh>>
  /\ DOMAIN req'[r] = Fields /\ req'[r].op = "refresh" /\ "refresh" \in load
  /\ req'[r].arg = call[r].with /\ req'[r].before = Finished
  /\ \/ call[r].with = NoOne /\ req'[r].pc = "done" /\ req'[r].ans = "refused"
     \/ call[r].with = Other /\ req'[r].pc = "done" /\ req'[r].ans \in {"refused", "foreign"}
     \/ /\ call[r].with \in TokenIds /\ tokens[call[r].with].state = "gone"
        /\ req'[r].pc = "done" /\ req'[r].ans = "refused"
     \/ /\ call[r].with \in TokenIds /\ tokens[call[r].with].state = "revoked"
        /\ req'[r].pc = "reuse" /\ req'[r].ans = "none"
     \/ /\ call[r].with \in TokenIds /\ tokens[call[r].with].state = "live"
        /\ req'[r].pc = "rotate" /\ req'[r].ans = "none"
Catches(r) ==
  req[r].pc = "reuse" /\ Goes(r, "done", "reused") /\ tokens' = RevokedAll /\ Fewer /\ UNCHANGED fresh
Issues(r) ==
  req[r].pc = "rotate" /\ Goes(r, "mark", "none") /\ OneMore(r) /\ UNCHANGED fresh
Replaces(r) ==
  /\ req[r].pc = "mark" /\ req[r].arg \in TokenIds /\ UNCHANGED fresh /\ Fewer
  /\ \/ Goes(r, "done", "error") /\ tokens[req[r].arg].state = "gone" /\ UNCHANGED tokens
     \/ /\ Goes(r, "reread", "none") /\ tokens'[req[r].arg].state = "revoked"
        /\ \A t \in TokenIds \ {req[r].arg} : tokens'[t] = tokens[t]
Signs(r) ==
  /\ req[r].pc = "reread" /\ Goes(r, "done", "session") /\ UNCHANGED tokens /\ fresh' = fresh \cup {r}
  /\ call[r].kind # "other"
Misses(r) ==
  req[r].pc = "reread" /\ Goes(r, "done", "refused") /\ UNCHANGED <<tokens, fresh>> /\ call[r].kind = "other"
Served(r) == Finds(r) \/ Catches(r) \/ Issues(r) \/ Replaces(r) \/ Signs(r) \/ Misses(r)

\* Every step of the server is one of them.
LEMMA ServerShape ==
  ASSUME CallsInv, NEW r \in Requests, ServerStep(r)
  PROVE  Served(r) /\ UNCHANGED <<call, tab, store, cookie, jar, faults>>
<1>0. UNCHANGED <<call, tab, store, cookie, jar, faults>> /\ StoreInv /\ CallOK(r) /\ ReqOK(r)
  BY DEF ServerStep, CallsInv
<1>7. DOMAIN call = Requests /\ (call[r].pc = "refreshing" \/ Foreigner(r) \/ ~ AskRefresh(r))
  BY <1>0 DEF StoreInv, AskRefresh, Foreigner
<1>8. CASE AskForeign(r) /\ (call[r].pc = "refreshing" \/ Foreigner(r)) /\ UNCHANGED fresh
  <2>1. PICK ans \in {"refused", "foreign"} : Enter(r, "refresh", Other, NoOne, "done", ans) /\ UNCHANGED tokens
    BY <1>8 DEF AskForeign
  <2>2. Asks(r, "refresh", Other, "done", ans)
    BY <1>0, <2>1, EnterAsks
  <2> QED
    BY <1>0, <1>8, <2>1, <2>2 DEF Asks, AskForeign, Served, Finds
<1>1. CASE AskNothing(r) /\ (call[r].pc = "refreshing" \/ Foreigner(r)) /\ UNCHANGED fresh
  <2>1. Asks(r, "refresh", NoOne, "done", "refused") /\ UNCHANGED tokens
    BY <1>0, <1>1, EnterAsks DEF AskNothing
  <2> QED
    BY <1>0, <1>1, <2>1 DEF Asks, AskNothing, Served, Finds
<1>2. CASE RotateFind(r, "refresh", NoOne) /\ req'[r].arg = call[r].with
           /\ (call[r].pc = "refreshing" \/ Foreigner(r)) /\ UNCHANGED fresh
  <2>1. PICK t \in Held : /\ \/ tokens[t].state = "gone" /\ Enter(r, "refresh", t, NoOne, "done", "refused")
                             \/ tokens[t].state = "revoked" /\ Enter(r, "refresh", t, NoOne, "reuse", "none")
                             \/ tokens[t].state = "live" /\ Enter(r, "refresh", t, NoOne, "rotate", "none")
                          /\ UNCHANGED tokens
    BY <1>2 DEF RotateFind
  <2>2. \/ tokens[t].state = "gone" /\ Asks(r, "refresh", t, "done", "refused")
        \/ tokens[t].state = "revoked" /\ Asks(r, "refresh", t, "reuse", "none")
        \/ tokens[t].state = "live" /\ Asks(r, "refresh", t, "rotate", "none")
    BY <1>0, <2>1, EnterAsks
  <2> QED
    BY <1>0, <1>2, <2>1, <2>2 DEF Asks, Held, Served, Finds
<1>3. CASE ReuseRevoke(r) /\ UNCHANGED fresh
  <2>1. req[r].pc = "reuse" /\ Goes(r, "done", "reused") /\ tokens' = RevokedAll
    BY <1>0, <1>3, AnswerGoes DEF ReuseRevoke, At
  <2> QED
    BY <1>0, <1>3, <2>1, TokensEnd DEF Served, Catches
<1>4. CASE RotateIssue(r) /\ UNCHANGED fresh
  <2>1. /\ req[r].pc = "rotate" /\ Goes(r, "mark", req[r].ans) /\ req[r].arg \in TokenIds
        /\ Issue(r, tokens[req[r].arg].line) /\ req[r].ans = "none"
    BY <1>0, <1>4, AnswerGoes DEF RotateIssue, At, ReqOK
  <2>2. OneMore(r)
    BY <1>0, <2>1, TokenIssued DEF StoreInv, TokenRecord
  <2> QED
    BY <1>0, <1>4, <2>1, <2>2 DEF Served, Issues
<1>5. CASE RotateMark(r) /\ UNCHANGED fresh
  <2>1. /\ req[r].pc = "mark" /\ req[r].arg \in TokenIds /\ req[r].ans = "none"
        /\ \/ Goes(r, "done", "error") /\ UNCHANGED tokens /\ tokens[req[r].arg].state = "gone"
           \/ /\ Goes(r, "reread", "none") /\ tokens' = Rotated(req[r].arg)
              /\ tokens[req[r].arg].state # "gone"
    BY <1>0, <1>5, AnswerGoes DEF RotateMark, At, ReqOK
  <2>2. tokens[req[r].arg].state # "none"
    BY <1>0, <2>1 DEF StoreInv
  <2> QED
    BY <1>0, <1>5, <2>1, <2>2, TokensEnd DEF Served, Replaces
<1>6. CASE SignAccess(r)
  <2>1. /\ req[r].pc = "reread" /\ Goes(r, "done", "session") /\ UNCHANGED tokens /\ fresh' = fresh \cup {r}
        /\ call[r].kind # "other"
    BY <1>0, <1>6, AnswerGoes DEF SignAccess, At
  <2> QED
    BY <1>0, <2>1 DEF Served, Signs
<1>9. CASE NoAccount(r)
  <2>1. req[r].pc = "reread" /\ Goes(r, "done", "refused") /\ UNCHANGED <<tokens, fresh>>
    BY <1>0, <1>9, AnswerGoes DEF NoAccount, At
  <2> QED
    BY <1>0, <1>9, <2>1 DEF NoAccount, Served, Misses
<1> QED
  BY <1>1, <1>2, <1>3, <1>4, <1>5, <1>6, <1>7, <1>8, <1>9 DEF ServerStep, AskRefresh

\* Each of them keeps the invariant.
LEMMA ServerDoes ==
  ASSUME CallsInv, NEW r \in Requests, Served(r), UNCHANGED <<call, tab, store, cookie, jar, faults>>
  PROVE  CallsInv'
<1>0. StoreInv /\ CallOK(r) /\ ReqOK(r)
  BY DEF CallsInv
<1>1. ServerMove(r)
  BY DEF Served, Finds, Catches, Issues, Replaces, Signs, Misses, Goes
<1>2. ReqOK(r)'
  <2>1. CASE Finds(r)
    BY <1>0, <2>1, OtherAssumption DEF Finds, Foreigner, ServerMove, CallOK, ReqOK, Finished
  <2>2. CASE Catches(r)
    BY <1>0, <2>2 DEF Catches, Goes, ServerMove, CallOK, ReqOK, Fields, Finished
  <2>3. CASE Issues(r)
    BY <1>0, <2>3 DEF Issues, Goes, ServerMove, CallOK, ReqOK, Fields, Finished
  <2>4. CASE Replaces(r)
    BY <1>0, <2>4 DEF Replaces, Goes, ServerMove, CallOK, ReqOK, Fields, Finished
  <2>5. CASE Signs(r)
    BY <1>0, <2>5 DEF Signs, Goes, ServerMove, CallOK, ReqOK, Fields, Finished
  <2>6. CASE Misses(r)
    BY <1>0, <2>6 DEF Misses, Goes, ServerMove, CallOK, ReqOK, Fields, Finished
  <2> QED
    BY <2>1, <2>2, <2>3, <2>4, <2>5, <2>6 DEF Served
<1>3. Fewer \/ (OneMore(r) /\ req'[r].pc \notin {"idle", "reuse", "rotate"})
  BY <1>0, <1>1, TokensEnd DEF Served, Finds, Catches, Issues, Replaces, Signs, Misses, Goes, Fields
<1>4. /\ req'[r].pc \in {"idle", "reuse", "rotate"} => req[r].pc \in {"idle", "reuse", "rotate"}
      /\ req'[r].arg \in TokenIds => tokens[req'[r].arg].state # "none"
      /\ fresh' \in {fresh, fresh \cup {r}}
  BY <1>0, NoOneAssumption, SeedsAssumption, OtherAssumption
     DEF Served, Finds, Catches, Issues, Replaces, Signs, Misses, Goes, Fields, TokenIds, StoreInv
<1>5. StoreInv'
  BY <1>0, <1>1, <1>3, <1>4, StoreKept DEF StoreInv
<1> QED
  BY <1>1, <1>2, <1>5, OneRequest

\* Steps of the page that several calls take together.
Resumes(d, c) ==
  /\ Keeps(d, {"pc", "access", "sends", "got"})
  /\ call'[d].pc = "sent" /\ call'[d].access = c /\ call'[d].sends = call[d].sends + 1
Stops(d, pc) == Keeps(d, {"pc"}) /\ call'[d].pc = pc

\* The steps of the page when a refresh is answered, and when it unloads.
ArriveShape(c) ==
  /\ call[c].pc = "refreshing" /\ req[c].pc = "done" /\ req[c].ans = "session"
  /\ store' = [token |-> c, refresh |-> c] /\ cookie' = SetCookie(c)
  /\ Resumes(c, c) /\ call'[c].got = TRUE
  /\ \A d \in Waiting(call[c].tab) : Resumes(d, c) /\ call'[d].got = call[d].got
  /\ \A d \in Requests \ (Waiting(call[c].tab) \cup {c}) : call'[d] = call[d]
  /\ tab' = [tab EXCEPT ![call[c].tab].refreshing = FALSE]
  /\ UNCHANGED <<server, jar, fresh, faults>>
ForeignShape(c) ==
  /\ call[c].pc = "refreshing" /\ req[c].pc = "done" /\ req[c].ans = "foreign"
  /\ store' = [token |-> Other, refresh |-> Other] /\ cookie' = SetCookie(Other) /\ fresh' = fresh \cup {Other}
  /\ \A d \in Waiting(call[c].tab) \cup {c} : Resumes(d, Other) /\ call'[d].got = call[d].got
  /\ \A d \in Requests \ (Waiting(call[c].tab) \cup {c}) : call'[d] = call[d]
  /\ tab' = [tab EXCEPT ![call[c].tab].refreshing = FALSE]
  /\ UNCHANGED <<server, jar, faults>>
OutShape(c) ==
  /\ call[c].pc = "refreshing" /\ req[c].pc = "done" /\ store' = Empty
  /\ \A d \in Waiting(call[c].tab) \cup {c} : Stops(d, "failed")
  /\ \A d \in Requests \ (Waiting(call[c].tab) \cup {c}) : call'[d] = call[d]
  /\ tab' = [tab EXCEPT ![call[c].tab] = [refreshing |-> FALSE, page |-> "leaving"]]
  /\ UNCHANGED <<server, cookie, jar, fresh>>
  /\ \/ req[c].ans # "session" /\ UNCHANGED faults
     \/ faults' = [faults EXCEPT !.lost = @ + 1]
UnloadShape(t) ==
  /\ tab[t].page = "leaving" /\ tab' = [tab EXCEPT ![t] = [refreshing |-> FALSE, page |-> "login"]]
  /\ \A d \in Requests : IF call[d].tab = t /\ call[d].pc \in Unsettled THEN Stops(d, "gone")
                                                                       ELSE call'[d] = call[d]
  /\ UNCHANGED <<server, store, cookie, jar, fresh, faults>>

\* RefreshArrives resumes the call that refreshed and those that waited.
LEMMA ArriveShapes ==
  ASSUME CallsInv, NEW c \in Requests, RefreshArrives(c)
  PROVE  ArriveShape(c) /\ DOMAIN call' = Requests
<1>1. \A d \in Requests : DOMAIN call[d] = CallFields
  BY DEF CallsInv, CallOK
<1>2. c \notin Waiting(call[c].tab) /\ Waiting(call[c].tab) \subseteq Requests
  BY DEF RefreshArrives, Waiting
<1>3. call'[c] = [Resent(c, c) EXCEPT !.got = TRUE]
  BY DEF RefreshArrives
<1>4. Resumes(c, c) /\ call'[c].got = TRUE
  BY <1>1, <1>3 DEF Resent, Resumes, Keeps, CallFields
<1>5. ASSUME NEW d \in Waiting(call[c].tab) PROVE Resumes(d, c) /\ call'[d].got = call[d].got
  <2>1. call'[d] = Resent(d, c) /\ d \in Requests
    BY <1>2, <1>5 DEF RefreshArrives, Resumed
  <2> QED
    BY <1>1, <2>1 DEF Resent, Resumes, Keeps, CallFields
<1>6. \A d \in Requests \ (Waiting(call[c].tab) \cup {c}) : call'[d] = call[d]
  BY DEF RefreshArrives, Resumed
<1> QED
  BY <1>4, <1>5, <1>6 DEF ArriveShape, RefreshArrives, Adopted

\* ForeignArrives resumes the same calls for the other account.
LEMMA ForeignShapes ==
  ASSUME CallsInv, NEW c \in Requests, ForeignArrives(c)
  PROVE  ForeignShape(c) /\ DOMAIN call' = Requests
<1>1. \A d \in Requests : DOMAIN call[d] = CallFields
  BY DEF CallsInv, CallOK
<1>2. Waiting(call[c].tab) \cup {c} \subseteq Requests
  BY DEF Waiting
<1>3. ASSUME NEW d \in Waiting(call[c].tab) \cup {c} PROVE Resumes(d, Other) /\ call'[d].got = call[d].got
  <2>1. call'[d] = Resent(d, Other) /\ d \in Requests
    BY <1>2, <1>3 DEF ForeignArrives, Resumed
  <2> QED
    BY <1>1, <2>1 DEF Resent, Resumes, Keeps, CallFields
<1>4. \A d \in Requests \ (Waiting(call[c].tab) \cup {c}) : call'[d] = call[d]
  BY DEF ForeignArrives, Resumed
<1> QED
  BY <1>3, <1>4 DEF ForeignShape, ForeignArrives, Adopted

\* RefreshFails and AnswerLost fail the same calls.
LEMMA OutShapes ==
  ASSUME CallsInv, NEW c \in Requests, RefreshFails(c) \/ AnswerLost(c)
  PROVE  OutShape(c) /\ DOMAIN call' = Requests
<1>1. \A d \in Requests : DOMAIN call[d] = CallFields
  BY DEF CallsInv, CallOK
<1>2. call' = [d \in Requests |-> IF d = c \/ d \in Waiting(call[c].tab)
                                  THEN [call[d] EXCEPT !.pc = "failed"] ELSE call[d]]
  BY DEF RefreshFails, AnswerLost, SignOut
<1>3. ASSUME NEW d \in Waiting(call[c].tab) \cup {c} PROVE Stops(d, "failed")
  <2>1. d \in Requests /\ call'[d] = [call[d] EXCEPT !.pc = "failed"]
    BY <1>2, <1>3 DEF Waiting
  <2> QED
    BY <1>1, <2>1 DEF Stops, Keeps, CallFields
<1>4. \A d \in Requests \ (Waiting(call[c].tab) \cup {c}) : call'[d] = call[d]
  BY <1>2
<1> QED
  BY <1>2, <1>3, <1>4 DEF OutShape, RefreshFails, AnswerLost, SignOut

\* Unload ends the calls of the page.
LEMMA UnloadShapes ==
  ASSUME CallsInv, NEW t \in Tabs, Unload(t)
  PROVE  UnloadShape(t) /\ DOMAIN call' = Requests
<1>1. \A d \in Requests : DOMAIN call[d] = CallFields
  BY DEF CallsInv, CallOK
<1>2. call' = [d \in Requests |-> IF call[d].tab = t /\ call[d].pc \in Unsettled
                                  THEN [call[d] EXCEPT !.pc = "gone"] ELSE call[d]]
  BY DEF Unload
<1>3. ASSUME NEW d \in Requests, call[d].tab = t, call[d].pc \in Unsettled PROVE Stops(d, "gone")
  <2>1. call'[d] = [call[d] EXCEPT !.pc = "gone"]
    BY <1>2, <1>3
  <2> QED
    BY <1>1, <2>1 DEF Stops, Keeps, CallFields
<1> QED
  BY <1>2, <1>3 DEF UnloadShape, Unload

\* A refresh that is answered keeps the invariant.
LEMMA ArriveStep ==
  ASSUME CallsInv, NEW c \in Requests, ArriveShape(c), DOMAIN call' = Requests
  PROVE  CallsInv'
<1>0. StoreInv /\ \A d \in Requests : CallOK(d) /\ ReqOK(d)
  BY DEF CallsInv
<1>1. /\ UNCHANGED <<tokens, req, load, jar, fresh, faults>> /\ Finished' = Finished
      /\ \A d \in Requests : call[d].got => call'[d].got
  BY DEF ArriveShape, server, Finished
<1>2. Arrived \subseteq Arrived'
  BY <1>1 DEF Arrived
<1>3. StoreInv'
  BY <1>0, <1>1 DEF StoreInv, ArriveShape, SetCookie, Known, TokenIds
<1>4. CallOK(c)' /\ ReqOK(c)'
  <2>1. /\ DOMAIN call'[c] = CallFields /\ call'[c].pc = "sent" /\ call'[c].access = c
        /\ call'[c].sends = call[c].sends + 1 /\ call'[c].got = TRUE
        /\ call'[c].kind = call[c].kind /\ call'[c].tab = call[c].tab /\ call'[c].retry = call[c].retry
        /\ call'[c].with = call[c].with /\ call'[c].before = call[c].before
    BY DEF ArriveShape, Resumes, Keeps, CallFields
  <2>2. /\ call[c].pc = "refreshing" /\ req[c].pc = "done" /\ req[c].ans = "session"
        /\ call[c].kind = "api" /\ call[c].retry = TRUE /\ call[c].sends = 1 /\ call[c].tab \in Tabs
        /\ call[c].with \in Known /\ call[c].before \subseteq Arrived'
    BY <1>0, <1>2 DEF ArriveShape, CallOK
  <2>3. CallOK(c)'
    <3>1. call'[c].access \in Known /\ call'[c].with \in Known
      BY <2>1, <2>2 DEF Known, TokenIds
    <3>2. call'[c].sends = 2 /\ call'[c].retry = TRUE /\ call'[c].kind = "api" /\ call'[c].tab \in Tabs
      BY <2>1, <2>2
    <3>3. call'[c].before \subseteq Arrived'
      BY <2>1, <2>2
    <3> QED
      BY <2>1, <3>1, <3>2, <3>3 DEF CallOK
  <2>4. ReqOK(c)'
    BY <1>0, <1>1, <2>1, <2>2 DEF ReqOK
  <2> QED
    BY <2>3, <2>4
<1>5. ASSUME NEW d \in Waiting(call[c].tab) PROVE CallOK(d)' /\ ReqOK(d)'
  BY <1>0, <1>1, <1>2, <1>5 DEF ArriveShape, Resumes, Keeps, CallFields, CallOK, ReqOK, Known, TokenIds, Waiting
<1>6. \A d \in Requests \ (Waiting(call[c].tab) \cup {c}) : CallOK(d)' /\ ReqOK(d)'
  BY <1>0, <1>1, <1>2, Others DEF ArriveShape
<1> QED
  BY <1>3, <1>4, <1>5, <1>6 DEF CallsInv

\* A refresh that is answered for another account keeps the invariant.
LEMMA ForeignStep ==
  ASSUME CallsInv, NEW c \in Requests, ForeignShape(c), DOMAIN call' = Requests
  PROVE  CallsInv'
<1>0. StoreInv /\ \A d \in Requests : CallOK(d) /\ ReqOK(d)
  BY DEF CallsInv
<1>1. UNCHANGED <<tokens, req, load, jar, faults>> /\ Finished' = Finished
  BY DEF ForeignShape, server, Finished
<1>2. ASSUME NEW d \in Waiting(call[c].tab) \cup {c}
      PROVE  /\ DOMAIN call'[d] = CallFields /\ call'[d].pc = "sent" /\ call'[d].access = Other
             /\ call'[d].sends = call[d].sends + 1 /\ call'[d].got = call[d].got
             /\ call'[d].kind = call[d].kind /\ call'[d].tab = call[d].tab /\ call'[d].retry = call[d].retry
             /\ call'[d].with = call[d].with /\ call'[d].before = call[d].before
  BY <1>2 DEF ForeignShape, Resumes, Keeps, CallFields
<1>3. Arrived' = Arrived
  <2>1. \A d \in Requests : call'[d].got = call[d].got
    BY <1>2 DEF ForeignShape
  <2> QED
    BY <2>1 DEF Arrived
<1>4. StoreInv'
  BY <1>0, <1>1 DEF StoreInv, ForeignShape, SetCookie, Known
<1>5. ASSUME NEW d \in Waiting(call[c].tab) \cup {c} PROVE CallOK(d)' /\ ReqOK(d)'
  <2>1. d \in Requests /\ call[d].pc \in {"queued", "refreshing"}
    BY <1>5 DEF Waiting, ForeignShape
  <2>2. /\ call[d].kind = "api" /\ call[d].retry = TRUE /\ call[d].sends = 1 /\ call[d].got = FALSE
        /\ call[d].tab \in Tabs /\ call[d].with \in Known /\ call[d].before \subseteq Arrived
    BY <1>0, <2>1 DEF CallOK
  <2>3. CallOK(d)'
    <3>1. /\ DOMAIN call'[d] = CallFields /\ call'[d].pc = "sent" /\ call'[d].access = Other
          /\ call'[d].sends = 2 /\ call'[d].got = FALSE /\ call'[d].kind = "api" /\ call'[d].tab \in Tabs
          /\ call'[d].retry = TRUE /\ call'[d].with \in Known /\ call'[d].before \subseteq Arrived'
      BY <1>2, <1>3, <1>5, <2>2
    <3> QED
      BY <3>1 DEF CallOK, Known
  <2>4. ReqOK(d)'
    BY <1>0, <1>1, <1>2, <1>5, <2>1, <2>2 DEF ReqOK
  <2> QED
    BY <2>3, <2>4
<1>6. \A d \in Requests \ (Waiting(call[c].tab) \cup {c}) : CallOK(d)' /\ ReqOK(d)'
  BY <1>0, <1>1, <1>3, Others DEF ForeignShape
<1> QED
  BY <1>4, <1>5, <1>6 DEF CallsInv

\* Calls that fail or go with their page.
LEMMA StopStep ==
  ASSUME CallsInv, UNCHANGED <<server, cookie, jar, fresh>>, StoreInv',
         \A d \in Requests : \/ call'[d] = call[d]
                             \/ call[d].pc \in {"queued", "refreshing"} /\ Stops(d, "failed")
                             \/ call[d].pc \in Unsettled /\ call[d].kind # "other" /\ Stops(d, "gone")
  PROVE  CallsInv'
<1>0. \A d \in Requests : CallOK(d) /\ ReqOK(d)
  BY DEF CallsInv
<1>1. \A d \in Requests : call'[d].got = call[d].got /\ req'[d] = req[d]
  BY DEF Stops, Keeps, CallFields, server
<1>2. Arrived = Arrived' /\ Finished = Finished' /\ load' = load
  BY <1>1 DEF Arrived, Finished, server
<1>3. ASSUME NEW d \in Requests PROVE CallOK(d)' /\ ReqOK(d)'
  <2>1. CASE call'[d] = call[d]
    BY <1>0, <1>1, <1>2, <2>1, Others
  <2>2. CASE call[d].pc \in {"queued", "refreshing"} /\ Stops(d, "failed")
    BY <1>0, <1>1, <1>2, <2>2 DEF Stops, Keeps, CallFields, CallOK, ReqOK
  <2>3. CASE call[d].pc \in Unsettled /\ call[d].kind # "other" /\ Stops(d, "gone")
    BY <1>0, <1>1, <1>2, <2>3 DEF Stops, Keeps, CallFields, CallOK, ReqOK, Unsettled
  <2> QED
    BY <2>1, <2>2, <2>3
<1> QED
  BY <1>3 DEF CallsInv

\* A refresh that fails keeps the invariant.
LEMMA OutStep ==
  ASSUME CallsInv, NEW c \in Requests, OutShape(c), DOMAIN call' = Requests
  PROVE  CallsInv'
<1>1. StoreInv'
  BY DEF CallsInv, StoreInv, OutShape, Empty, server, Known
<1> QED
  BY <1>1, StopStep DEF OutShape, Waiting

\* A page that goes keeps the invariant.
LEMMA UnloadStep ==
  ASSUME CallsInv, NEW t \in Tabs, UnloadShape(t), DOMAIN call' = Requests
  PROVE  CallsInv'
<1>1. StoreInv'
  BY DEF CallsInv, StoreInv, UnloadShape, server
<1>2. \A d \in Requests : call[d].tab = t => call[d].kind # "other"
  BY BrowserAssumption DEF CallsInv, CallOK
<1> QED
  BY <1>1, <1>2, StopStep DEF UnloadShape

\* A call that begins with a request of its own.
LEMMA OneBoth ==
  ASSUME CallsInv, NEW c \in Requests, ServerMove(c), \A d \in Requests \ {c} : call'[d] = call[d],
         call[c].got => call'[c].got, StoreInv', CallOK(c)', ReqOK(c)'
  PROVE  CallsInv'
<1>1. Arrived \subseteq Arrived' /\ Finished \subseteq Finished'
  BY DEF Arrived, Finished, ServerMove
<1>2. \A d \in Requests \ {c} : CallOK(d)' /\ ReqOK(d)'
  BY <1>1, Others DEF CallsInv, ServerMove
<1> QED
  BY <1>2 DEF CallsInv

\* The steps that begin a session, and those that end one.
LoginShape(c) ==
  /\ Asks(c, "login", NoOne, "done", "session") /\ OneMore(c) /\ call[c] = NoCall /\ fresh' = fresh \cup {c}
  /\ \A d \in Requests \ {c} : call'[d] = call[d]
  /\ DOMAIN call' = Requests /\ DOMAIN call'[c] = CallFields
  /\ call'[c].pc = "asked" /\ call'[c].kind = "login" /\ call'[c].tab \in Tabs
  /\ call'[c].access = store.token /\ call'[c].sends = 1 /\ call'[c].retry = FALSE
  /\ call'[c].with = NoOne /\ call'[c].got = FALSE /\ call'[c].before = {}
  /\ UNCHANGED <<tab, store, cookie, jar, faults>>
LogoutShape(c) ==
  /\ Asks(c, "logout", Presented, "done", "ok") /\ Fewer /\ call[c] = NoCall
  /\ \/ Presented \in {NoOne, Other} /\ UNCHANGED tokens
     \/ /\ Presented \in TokenIds /\ tokens[Presented].state # "none" /\ tokens'[Presented].state # "live"
        /\ tokens' = RevokedOne(Presented)
  /\ \A d \in Requests \ {c} : call'[d] = call[d]
  /\ DOMAIN call' = Requests /\ DOMAIN call'[c] = CallFields
  /\ call'[c].pc = "asked" /\ call'[c].kind = "logout" /\ call'[c].tab \in Tabs
  /\ call'[c].access = store.token /\ call'[c].sends = 1 /\ call'[c].retry = FALSE
  /\ call'[c].with = Presented /\ call'[c].got = FALSE /\ call'[c].before = Arrived
  /\ UNCHANGED <<tab, store, cookie, jar, fresh, faults>>

\* SignIn issues a token of its own.
LEMMA LoginShapes == ASSUME CallsInv, NEW c \in Requests, SignIn(c) PROVE LoginShape(c)
<1>1. PICK t \in Tabs :
        /\ Begins(c, t, "login")
        /\ call' = [call EXCEPT ![c] = [Sent(t, "login") EXCEPT !.pc = "asked"]]
        /\ Enter(c, "login", NoOne, NoOne, "done", "session") /\ Issue(c, {}) /\ fresh' = fresh \cup {c}
        /\ UNCHANGED <<tab, store, cookie, jar, faults>>
  BY DEF SignIn
<1>2. call[c] = NoCall
  BY <1>1 DEF CallsInv, CallOK, Begins, Unused
<1>3. Asks(c, "login", NoOne, "done", "session")
  BY <1>1, EnterAsks
<1>4. OneMore(c)
  BY <1>1, TokenIssued DEF CallsInv
<1>5. DOMAIN call' = Requests /\ \A d \in Requests \ {c} : call'[d] = call[d]
  BY <1>1 DEF CallsInv, StoreInv
<1>6. call'[c] = [Sent(t, "login") EXCEPT !.pc = "asked"]
  BY <1>1 DEF CallsInv, StoreInv
<1>7. /\ DOMAIN call'[c] = CallFields /\ call'[c].pc = "asked" /\ call'[c].kind = "login"
      /\ call'[c].tab \in Tabs /\ call'[c].access = store.token /\ call'[c].sends = 1
      /\ call'[c].retry = FALSE /\ call'[c].with = NoOne /\ call'[c].got = FALSE /\ call'[c].before = {}
  BY <1>6 DEF Sent, NoCall, CallFields
<1> QED
  BY <1>1, <1>2, <1>3, <1>4, <1>5, <1>7 DEF LoginShape

\* A sign-in keeps the invariant.
LEMMA LoginStep ==
  ASSUME CallsInv, NEW c \in Requests, LoginShape(c)
  PROVE  CallsInv'
<1>0. ServerMove(c) /\ StoreInv
  BY DEF LoginShape, Asks, CallsInv
<1>1. StoreInv'
  BY <1>0, StoreKept, NoOneAssumption, SeedsAssumption DEF LoginShape, Asks, TokenIds
<1>2. CallOK(c)'
  BY <1>1 DEF LoginShape, CallOK, StoreInv, Known
<1>3. ReqOK(c)'
  BY <1>0 DEF LoginShape, Asks, ServerMove, ReqOK, Finished
<1> QED
  BY <1>0, <1>1, <1>2, <1>3, OneBoth DEF LoginShape, NoCall

\* SignOutCall revokes what the browser presents.
LEMMA LogoutShapes == ASSUME CallsInv, NEW c \in Requests, SignOutCall(c) PROVE LogoutShape(c)
<1>1. PICK t \in Tabs :
        /\ Begins(c, t, "app")
        /\ call' = [call EXCEPT ![c] = [Sent(t, "logout") EXCEPT !.pc = "asked", !.with = Presented,
                                                                 !.before = Arrived]]
        /\ IF Presented \in {NoOne, Other}
           THEN Enter(c, "logout", Presented, NoOne, "done", "ok") /\ UNCHANGED tokens
           ELSE Logout(c, NoOne) /\ req'[c].arg = Presented
        /\ UNCHANGED <<tab, store, cookie, jar, fresh, faults>>
  BY DEF SignOutCall
<1>2. call[c] = NoCall
  BY <1>1 DEF CallsInv, CallOK, Begins, Unused
<1>3. /\ Asks(c, "logout", Presented, "done", "ok") /\ Fewer
      /\ \/ Presented \in {NoOne, Other} /\ UNCHANGED tokens
         \/ /\ Presented \in TokenIds /\ tokens[Presented].state # "none" /\ tokens'[Presented].state # "live"
            /\ tokens' = RevokedOne(Presented)
  <2>1. CASE Presented \in {NoOne, Other}
    BY <1>1, <2>1, EnterAsks, TokensEnd DEF CallsInv
  <2>2. CASE Presented \notin {NoOne, Other}
    <3>1. PICK k \in Held : Enter(c, "logout", k, NoOne, "done", "ok") /\ tokens' = RevokedOne(k)
      BY <1>1, <2>2 DEF Logout
    <3>2. Asks(c, "logout", k, "done", "ok") /\ k = Presented
      BY <1>1, <2>2, <3>1, EnterAsks DEF Asks
    <3> QED
      BY <3>1, <3>2, TokensEnd DEF Held, CallsInv
  <2> QED
    BY <2>1, <2>2
<1>5. DOMAIN call' = Requests /\ \A d \in Requests \ {c} : call'[d] = call[d]
  BY <1>1 DEF CallsInv, StoreInv
<1>6. call'[c] = [Sent(t, "logout") EXCEPT !.pc = "asked", !.with = Presented, !.before = Arrived]
  BY <1>1 DEF CallsInv, StoreInv
<1>7. /\ DOMAIN call'[c] = CallFields /\ call'[c].pc = "asked" /\ call'[c].kind = "logout"
      /\ call'[c].tab \in Tabs /\ call'[c].access = store.token /\ call'[c].sends = 1
      /\ call'[c].retry = FALSE /\ call'[c].with = Presented /\ call'[c].got = FALSE
      /\ call'[c].before = Arrived
  BY <1>6 DEF Sent, NoCall, CallFields
<1> QED
  BY <1>1, <1>2, <1>3, <1>5, <1>7 DEF LogoutShape

\* A sign-out keeps the invariant.
LEMMA LogoutStep ==
  ASSUME CallsInv, NEW c \in Requests, LogoutShape(c)
  PROVE  CallsInv'
<1>0. ServerMove(c) /\ StoreInv
  BY DEF LogoutShape, Asks, CallsInv
<1>1. StoreInv'
  BY <1>0, StoreKept, NoOneAssumption, SeedsAssumption, OtherAssumption DEF LogoutShape, Asks, TokenIds
<1>2. Presented \in Known /\ Arrived \subseteq Arrived'
  BY <1>0 DEF StoreInv, Presented, LogoutShape, NoCall, Arrived
<1>3. CallOK(c)'
  BY <1>1, <1>2 DEF LogoutShape, CallOK, StoreInv, Known
<1>4. ReqOK(c)'
  BY <1>0 DEF LogoutShape, Asks, ServerMove, ReqOK, Finished
<1> QED
  BY <1>0, <1>1, <1>3, <1>4, OneBoth DEF LogoutShape, NoCall

\* The answers to a sign-in and to a sign-out.
PersistShape(c) ==
  /\ call[c].pc = "asked" /\ call[c].kind = "login" /\ Keeps(c, {"pc", "got"})
  /\ call'[c].pc = "ok" /\ call'[c].got = TRUE
  /\ store' = [token |-> c, refresh |-> c] /\ cookie' = SetCookie(c)
  /\ tab' = [tab EXCEPT ![call[c].tab].page = "app"]
  /\ UNCHANGED <<server, jar, fresh, faults>>
SignedOutShape(c) ==
  /\ call[c].pc = "asked" /\ call[c].kind = "logout" /\ Keeps(c, {"pc", "got"}) /\ call'[c].pc = "ok"
  /\ \/ /\ call'[c].got = TRUE /\ UNCHANGED faults
        /\ cookie' = IF jar = "host" THEN NoOne ELSE cookie
     \/ /\ call'[c].got = FALSE /\ UNCHANGED cookie
        /\ faults' = [faults EXCEPT !.lost = @ + 1]
  /\ store' = Empty /\ tab' = [tab EXCEPT ![call[c].tab].page = "login"]
  /\ UNCHANGED <<server, jar, fresh>>

\* Persist stores the tokens of the sign-in.
LEMMA PersistShapes ==
  ASSUME CallsInv, NEW c \in Requests, Persist(c)
  PROVE  PersistShape(c) /\ PageStep(c) /\ DOMAIN call' = Requests
<1>1. DOMAIN call[c] = CallFields /\ call' = [call EXCEPT ![c].pc = "ok", ![c].got = TRUE] /\ DOMAIN call = Requests
  BY DEF CallsInv, StoreInv, CallOK, Persist
<1>2. Keeps(c, {"pc", "got"}) /\ call'[c].pc = "ok" /\ call'[c].got = TRUE
  BY <1>1 DEF Keeps, CallFields
<1>3. DOMAIN call' = Requests /\ \A d \in Requests \ {c} : call'[d] = call[d]
  BY <1>1
<1> QED
  BY <1>2, <1>3 DEF PersistShape, PageStep, Persist, Adopted

\* SignedOut clears the storage, and the cookie if the answer could.
LEMMA SignedOutShapes ==
  ASSUME CallsInv, NEW c \in Requests, SignedOut(c)
  PROVE  SignedOutShape(c) /\ PageStep(c) /\ DOMAIN call' = Requests
<1>0. DOMAIN call[c] = CallFields /\ DOMAIN call = Requests
      /\ faults \in [expired : Nat, lost : Nat, foreign : Nat]
  BY DEF CallsInv, StoreInv, CallOK
<1>1. PICK lost \in {0, 1} :
        /\ cookie' = IF lost = 0 /\ jar = "host" THEN NoOne ELSE cookie
        /\ call' = [call EXCEPT ![c].pc = "ok", ![c].got = (lost = 0)]
        /\ faults' = [faults EXCEPT !.lost = @ + lost]
  BY DEF SignedOut
<1>2. Keeps(c, {"pc", "got"}) /\ call'[c].pc = "ok" /\ call'[c].got = (lost = 0)
  BY <1>0, <1>1 DEF Keeps, CallFields
<1>3. DOMAIN call' = Requests /\ \A d \in Requests \ {c} : call'[d] = call[d]
  BY <1>0, <1>1
<1>4. lost = 0 => UNCHANGED faults
  BY <1>0, <1>1
<1>5. \/ /\ call'[c].got = TRUE /\ UNCHANGED faults
         /\ cookie' = IF jar = "host" THEN NoOne ELSE cookie
      \/ /\ call'[c].got = FALSE /\ UNCHANGED cookie
         /\ faults' = [faults EXCEPT !.lost = @ + 1]
  BY <1>1, <1>2, <1>4
<1> QED
  BY <1>2, <1>3, <1>5 DEF SignedOutShape, PageStep, SignedOut, Cleared

\* An answer to a sign-in or a sign-out, on the call and its request.
LEMMA HeardStep ==
  ASSUME CallsInv, NEW c \in Requests, PageStep(c), StoreInv', Keeps(c, {"pc", "got"}),
         call[c].pc = "asked", call'[c].pc = "ok", call'[c].got \in BOOLEAN,
         call[c].kind \in {"login", "logout"}
  PROVE  CallsInv'
<1>0. CallOK(c) /\ ReqOK(c)
  BY DEF CallsInv
<1>1. /\ DOMAIN call'[c] = CallFields /\ call'[c].tab = call[c].tab /\ call'[c].access = call[c].access
      /\ call'[c].kind = call[c].kind /\ call'[c].sends = call[c].sends /\ call'[c].retry = call[c].retry
      /\ call'[c].with = call[c].with /\ call'[c].before = call[c].before
  BY DEF Keeps, CallFields
<1>2. call[c].got = FALSE /\ call[c].retry = FALSE /\ call[c].sends = 1
  BY <1>0 DEF CallOK
<1>3. Arrived \subseteq Arrived' /\ Finished' = Finished
  BY <1>2 DEF Arrived, Finished, PageStep, server
<1>4. call'[c].access \in Known /\ call'[c].with \in Known /\ call'[c].before \subseteq Arrived' /\ call'[c].tab \in Tabs
  BY <1>0, <1>1, <1>3 DEF CallOK
<1>5. CallOK(c)'
  BY <1>1, <1>2, <1>4 DEF CallOK, Known, TokenIds
<1>6. ReqOK(c)'
  BY <1>0, <1>1, <1>2, <1>3 DEF ReqOK, PageStep, server
<1> QED
  BY <1>2, <1>5, <1>6, OnePage

\* The answer to a sign-in keeps the invariant.
LEMMA PersistStep ==
  ASSUME CallsInv, NEW c \in Requests, PersistShape(c), PageStep(c), DOMAIN call' = Requests
  PROVE  CallsInv'
<1>1. StoreInv'
  BY DEF CallsInv, StoreInv, PersistShape, SetCookie, server, Known, TokenIds
<1> QED
  BY <1>1, HeardStep DEF PersistShape

\* The answer to a sign-out keeps the invariant.
LEMMA SignedOutStep ==
  ASSUME CallsInv, NEW c \in Requests, SignedOutShape(c), PageStep(c), DOMAIN call' = Requests
  PROVE  CallsInv'
<1>1. faults' \in [expired : Nat, lost : Nat, foreign : Nat]
  BY DEF CallsInv, StoreInv, SignedOutShape
<1>2. StoreInv'
  BY <1>1 DEF CallsInv, StoreInv, SignedOutShape, Empty, server, Known
<1> QED
  BY <1>2, HeardStep DEF SignedOutShape

\* A page that forgets its tokens.
ForgetShape(c) ==
  /\ call[c] = NoCall /\ DOMAIN call'[c] = CallFields
  /\ call'[c].pc = "ok" /\ call'[c].kind = "forget" /\ call'[c].tab \in Tabs
  /\ call'[c].access = store.token /\ call'[c].sends = 1 /\ call'[c].retry = FALSE
  /\ call'[c].with = NoOne /\ call'[c].got = FALSE /\ call'[c].before = {}
  /\ store' = Empty /\ tab' = [tab EXCEPT ![call'[c].tab].page = "login"]
  /\ UNCHANGED <<server, cookie, jar, fresh, faults>>

\* Forget clears the storage and asks nobody.
LEMMA ForgetShapes ==
  ASSUME CallsInv, NEW c \in Requests, Forget(c)
  PROVE  ForgetShape(c) /\ PageStep(c) /\ DOMAIN call' = Requests
<1>1. PICK t \in Tabs : /\ Begins(c, t, "app") /\ tab' = [tab EXCEPT ![t].page = "login"]
                        /\ call' = [call EXCEPT ![c] = [Sent(t, "forget") EXCEPT !.pc = "ok"]]
  BY DEF Forget
<1>2. call[c] = NoCall
  BY <1>1 DEF CallsInv, CallOK, Begins, Unused
<1>3. DOMAIN call' = Requests /\ \A d \in Requests \ {c} : call'[d] = call[d]
  BY <1>1 DEF CallsInv, StoreInv
<1>4. call'[c] = [Sent(t, "forget") EXCEPT !.pc = "ok"]
  BY <1>1 DEF CallsInv, StoreInv
<1>5. /\ DOMAIN call'[c] = CallFields /\ call'[c].pc = "ok" /\ call'[c].kind = "forget"
      /\ call'[c].tab = t /\ call'[c].access = store.token /\ call'[c].sends = 1
      /\ call'[c].retry = FALSE /\ call'[c].with = NoOne /\ call'[c].got = FALSE /\ call'[c].before = {}
  BY <1>4 DEF Sent, NoCall, CallFields
<1> QED
  BY <1>1, <1>2, <1>3, <1>5 DEF ForgetShape, PageStep, Forget

\* A page that forgets keeps the invariant.
LEMMA ForgetStep ==
  ASSUME CallsInv, NEW c \in Requests, ForgetShape(c), PageStep(c), DOMAIN call' = Requests
  PROVE  CallsInv'
<1>1. StoreInv'
  BY DEF CallsInv, StoreInv, ForgetShape, Empty, server, Known
<1>2. call[c].got = FALSE /\ req[c] = Idle
  BY DEF CallsInv, CallOK, ReqOK, ForgetShape, NoCall
<1>3. CallOK(c)'
  BY DEF CallsInv, StoreInv, ForgetShape, CallOK, Known
<1>4. ReqOK(c)'
  BY <1>2 DEF ForgetShape, ReqOK, Idle, Fields, server
<1> QED
  BY <1>1, <1>2, <1>3, <1>4, OnePage

\* Another app presents the cookie of this one, and is answered.
OtherAsks(c) ==
  /\ call[c] = NoCall /\ cookie \in TokenIds
  /\ \A d \in Requests \ {c} : call'[d] = call[d]
  /\ DOMAIN call' = Requests /\ DOMAIN call'[c] = CallFields
  /\ call'[c].pc = "asked" /\ call'[c].kind = "other" /\ call'[c].tab = NoOne
  /\ call'[c].access = NoOne /\ call'[c].sends = 0 /\ call'[c].retry = FALSE
  /\ call'[c].with = cookie /\ call'[c].got = FALSE /\ call'[c].before = Arrived
  /\ \/ UNCHANGED server
     \/ /\ Asks(c, "logout", cookie, "done", "ok") /\ Fewer
        /\ tokens[cookie].state # "none" /\ tokens' = RevokedOne(cookie)
  /\ UNCHANGED <<tab, store, cookie, jar, fresh, faults>>
OtherDone(c) ==
  /\ call[c].pc = "asked" /\ call[c].kind = "other" /\ Keeps(c, {"pc"}) /\ call'[c].pc = "ok" /\ req[c].pc = "done"
  /\ cookie' \in {cookie, NoOne} /\ UNCHANGED <<server, tab, store, jar, fresh, faults>>

\* OtherPresents asks with the cookie.
LEMMA OtherShapes == ASSUME CallsInv, NEW c \in Requests, OtherPresents(c) PROVE OtherAsks(c)
<1>1. call[c] = NoCall /\ cookie \in TokenIds /\ DOMAIN call = Requests
  BY DEF CallsInv, StoreInv, CallOK, OtherPresents, Unused
<1>2. /\ call'[c] = [NoCall EXCEPT !.pc = "asked", !.kind = "other", !.with = cookie, !.before = Arrived]
      /\ DOMAIN call' = Requests /\ \A d \in Requests \ {c} : call'[d] = call[d]
  BY <1>1 DEF OtherPresents
<1>3. /\ DOMAIN call'[c] = CallFields /\ call'[c].pc = "asked" /\ call'[c].kind = "other"
      /\ call'[c].tab = NoOne /\ call'[c].access = NoOne /\ call'[c].sends = 0 /\ call'[c].retry = FALSE
      /\ call'[c].with = cookie /\ call'[c].got = FALSE /\ call'[c].before = Arrived
  BY <1>2 DEF NoCall, CallFields
<1>4. ASSUME Logout(c, NoOne), req'[c].arg = cookie
      PROVE  /\ Asks(c, "logout", cookie, "done", "ok") /\ Fewer
             /\ tokens[cookie].state # "none" /\ tokens' = RevokedOne(cookie)
  <2>1. PICK k \in Held : Enter(c, "logout", k, NoOne, "done", "ok") /\ tokens' = RevokedOne(k)
    BY <1>4 DEF Logout
  <2>2. Asks(c, "logout", k, "done", "ok") /\ k = cookie
    BY <1>4, <2>1, EnterAsks DEF Asks
  <2> QED
    BY <2>1, <2>2, TokensEnd DEF Held, CallsInv
<1> QED
  BY <1>1, <1>2, <1>3, <1>4 DEF OtherAsks, OtherPresents

\* OtherHears is told, and the cookie may be cleared.
LEMMA OtherDoneShapes ==
  ASSUME CallsInv, NEW c \in Requests, OtherHears(c)
  PROVE  OtherDone(c) /\ PageStep(c) /\ DOMAIN call' = Requests
<1>1. DOMAIN call[c] = CallFields /\ call' = [call EXCEPT ![c].pc = "ok"] /\ DOMAIN call = Requests
  BY DEF CallsInv, StoreInv, CallOK, OtherHears
<1>2. Keeps(c, {"pc"}) /\ call'[c].pc = "ok"
  BY <1>1 DEF Keeps, CallFields
<1>3. DOMAIN call' = Requests /\ \A d \in Requests \ {c} : call'[d] = call[d]
  BY <1>1
<1> QED
  BY <1>2, <1>3 DEF OtherDone, PageStep, OtherHears

\* What it presents keeps the invariant.
LEMMA OtherStep ==
  ASSUME CallsInv, NEW c \in Requests, OtherAsks(c)
  PROVE  CallsInv'
<1>0. StoreInv /\ CallOK(c) /\ ReqOK(c) /\ call[c].got = FALSE /\ call[c].kind = "api" /\ call[c].pc = "idle"
      /\ call[c].retry = FALSE
  BY DEF CallsInv, OtherAsks, NoCall
<1>1. req[c] = Idle
  BY <1>0 DEF ReqOK
<1>2. Arrived \subseteq Arrived'
  BY <1>0 DEF OtherAsks, Arrived
<1>3. CallOK(c)'
  BY <1>2 DEF OtherAsks, CallOK, Known
<1>4. CASE UNCHANGED server
  <2>1. StoreInv' /\ PageStep(c)
    BY <1>0, <1>4 DEF StoreInv, OtherAsks, server, PageStep
  <2>2. ReqOK(c)'
    BY <1>1, <1>4 DEF OtherAsks, ReqOK, Idle, Fields, server
  <2> QED
    BY <1>0, <1>3, <2>1, <2>2, OnePage
<1>5. CASE /\ Asks(c, "logout", cookie, "done", "ok") /\ Fewer
           /\ tokens[cookie].state # "none" /\ tokens' = RevokedOne(cookie)
  <2>1. ServerMove(c)
    BY <1>5 DEF Asks
  <2>2. StoreInv'
    BY <1>0, <1>5, <2>1, StoreKept DEF OtherAsks, Asks
  <2>3. ReqOK(c)'
    BY <1>5, <2>1 DEF OtherAsks, Asks, ServerMove, ReqOK, Finished
  <2> QED
    BY <1>0, <1>3, <2>1, <2>2, <2>3, OneBoth DEF OtherAsks
<1> QED
  BY <1>4, <1>5 DEF OtherAsks

\* Its answer keeps the invariant.
LEMMA OtherDoneStep ==
  ASSUME CallsInv, NEW c \in Requests, OtherDone(c), PageStep(c), DOMAIN call' = Requests
  PROVE  CallsInv'
<1>0. StoreInv /\ CallOK(c) /\ ReqOK(c)
  BY DEF CallsInv
<1>1. /\ DOMAIN call'[c] = CallFields /\ call'[c].tab = call[c].tab /\ call'[c].access = call[c].access
      /\ call'[c].kind = call[c].kind /\ call'[c].sends = call[c].sends /\ call'[c].retry = call[c].retry
      /\ call'[c].with = call[c].with /\ call'[c].before = call[c].before /\ call'[c].got = call[c].got
  BY DEF OtherDone, Keeps, CallFields
<1>2. Arrived' = Arrived /\ Finished' = Finished /\ req' = req /\ load' = load
  BY <1>1 DEF Arrived, Finished, PageStep, server
<1>3. StoreInv'
  BY <1>0 DEF StoreInv, OtherDone, server, Known
<1>4. CallOK(c)'
  BY <1>0, <1>1, <1>2 DEF CallOK, OtherDone
<1>5. ReqOK(c)'
  BY <1>0, <1>1, <1>2 DEF ReqOK, OtherDone
<1> QED
  BY <1>1, <1>3, <1>4, <1>5, OnePage

\* Another app sets or clears the cookie.
CookieShape ==
  /\ UNCHANGED <<server, call, tab, store, jar, fresh>>
  /\ \/ cookie' = Other /\ jar # "blocked" /\ faults' = [faults EXCEPT !.foreign = @ + 1]
     \/ cookie' = NoOne /\ UNCHANGED faults /\ faults.foreign # 0

\* Which keeps the invariant.
LEMMA CookieStep == ASSUME CallsInv, CookieShape PROVE CallsInv'
<1>1. faults' \in [expired : Nat, lost : Nat, foreign : Nat]
  BY DEF CallsInv, StoreInv, CookieShape
<1>2. StoreInv'
  BY <1>1 DEF CallsInv, StoreInv, CookieShape, server, Known
<1>3. \A c \in Requests : CallOK(c)' /\ ReqOK(c)'
  BY DEF CallsInv, CallOK, ReqOK, Arrived, Finished, CookieShape, server
<1> QED
  BY <1>2, <1>3 DEF CallsInv

\* Access tokens and refresh tokens end.
LEMMA EndStep ==
  ASSUME CallsInv, UNCHANGED <<req, load, call, store, cookie, jar>>, Fewer, fresh' \subseteq fresh,
         faults' = faults \/ faults' = [faults EXCEPT !.expired = @ + 1]
  PROVE  CallsInv'
<1>1. faults' \in [expired : Nat, lost : Nat, foreign : Nat]
  BY DEF CallsInv, StoreInv
<1>2. \A c \in Requests : tokens[c] = NoToken => tokens'[c] = NoToken
  BY DEF Fewer, NoToken, TokenIds
<1>3. StoreInv'
  BY <1>1, <1>2 DEF CallsInv, StoreInv, Fewer, TokenIds
<1>4. \A c \in Requests : CallOK(c)' /\ ReqOK(c)'
  BY DEF CallsInv, CallOK, ReqOK, Arrived, Finished
<1> QED
  BY <1>3, <1>4 DEF CallsInv

\* The invariant holds at the start.
LEMMA CallsStart == ASSUME Init PROVE CallsInv
<1>1. tokens \in [TokenIds -> TokenRecord]
  BY DEF Init, SessionsInit, TokenRecord, NoToken, TokenIds
<1>2. PICK s \in Seeds : store = [token |-> s, refresh |-> s] /\ cookie = SetCookie(s)
  BY DEF Init
<1>3. StoreInv
  BY <1>1, <1>2, SeedsAssumption, NoOneAssumption
     DEF Init, SessionsInit, StoreInv, SetCookie, Known, TokenIds, Idle, NoToken
<1>4. \A c \in Requests : call[c] = NoCall /\ req[c] = Idle
  BY DEF Init, SessionsInit
<1>5. \A c \in Requests :
        /\ DOMAIN call[c] = CallFields /\ call[c].pc = "idle" /\ call[c].kind = "api"
        /\ call[c].access = NoOne /\ call[c].sends = 0 /\ call[c].retry = FALSE
        /\ call[c].with = NoOne /\ call[c].got = FALSE /\ call[c].before = {}
  BY <1>4 DEF NoCall, CallFields
<1>7. \A c \in Requests : CallOK(c)
  BY <1>4, <1>5 DEF CallOK, Known
<1>6. \A c \in Requests : ReqOK(c)
  BY <1>4 DEF ReqOK, NoCall, Idle, Fields
<1> QED
  BY <1>3, <1>6, <1>7 DEF CallsInv

\* Every step of the system has one of these shapes.
Step ==
  \/ \E c \in Requests :
       \/ Served(c) /\ UNCHANGED <<call, tab, store, cookie, jar, faults>>
       \/ ArriveShape(c) /\ DOMAIN call' = Requests
       \/ ForeignShape(c) /\ DOMAIN call' = Requests
       \/ OutShape(c) /\ DOMAIN call' = Requests
       \/ LoginShape(c) \/ LogoutShape(c) \/ OtherAsks(c)
       \/ /\ \/ ApiShape(c) \/ AnsweredShape(c) \/ PersistShape(c) \/ SignedOutShape(c) \/ ForgetShape(c)
             \/ OtherDone(c)
          /\ PageStep(c) /\ DOMAIN call' = Requests
  \/ CookieShape
  \/ \E t \in Tabs : UnloadShape(t) /\ DOMAIN call' = Requests
  \/ /\ UNCHANGED <<req, load, call, tab, store, cookie, jar>> /\ Fewer /\ fresh' \subseteq fresh
     /\ \/ UNCHANGED tokens /\ (faults' = faults \/ faults' = [faults EXCEPT !.expired = @ + 1])
        \/ UNCHANGED faults /\ \E k \in Seeds : /\ tokens'[k].state = "gone"
                                                /\ \A t \in TokenIds \ {k} : tokens'[t] = tokens[t]

\* The actions of Next have these shapes and no other.
LEMMA Steps == ASSUME CallsInv, [Next]_bvars PROVE Step
<1>0. StoreInv
  BY DEF CallsInv
<1>1. CASE UNCHANGED bvars
  BY <1>0, <1>1, TokensEnd DEF bvars, Step
<1>2. ASSUME NEW c \in Requests,
             \/ Advance(c) \/ CallApi(c) \/ AnswerLost(c) \/ SignIn(c) \/ SignOutCall(c)
             \/ Forget(c) \/ OtherPresents(c)
      PROVE  Step
  <2>1. CASE CallApi(c) \/ Answered(c)
    BY <2>1, ApiShapes, AnsweredShapes DEF Step
  <2>2. CASE ServerStep(c)
    BY <2>2, ServerShape DEF Step
  <2>3. CASE RefreshArrives(c)
    BY <2>3, ArriveShapes DEF Step
  <2>4. CASE RefreshFails(c) \/ AnswerLost(c)
    BY <2>4, OutShapes DEF Step
  <2>5. CASE SignIn(c)
    BY <2>5, LoginShapes DEF Step
  <2>6. CASE SignOutCall(c)
    BY <2>6, LogoutShapes DEF Step
  <2>7. CASE Persist(c)
    BY <2>7, PersistShapes DEF Step
  <2>8. CASE SignedOut(c)
    BY <2>8, SignedOutShapes DEF Step
  <2>9. CASE Forget(c)
    BY <2>9, ForgetShapes DEF Step
  <2>10. CASE ForeignArrives(c)
    BY <2>10, ForeignShapes DEF Step
  <2>11. CASE OtherPresents(c)
    BY <2>11, OtherShapes DEF Step
  <2>12. CASE OtherHears(c)
    BY <2>12, OtherDoneShapes DEF Step
  <2> QED
    BY <1>2, <2>1, <2>2, <2>3, <2>4, <2>5, <2>6, <2>7, <2>8, <2>9, <2>10, <2>11, <2>12 DEF Advance
<1>3. ASSUME NEW t \in Tabs, Unload(t) PROVE Step
  BY <1>3, UnloadShapes DEF Step
<1>6. ASSUME OtherSets \/ OtherClears PROVE Step
  <2>1. faults.foreign > 0 => faults.foreign # 0
    BY <1>0 DEF StoreInv
  <2> QED
    BY <1>6, <2>1 DEF OtherSets, OtherClears, Step, CookieShape
<1>4. ASSUME NEW k \in TokenIds \cup {Other}, AccessExpires(k) PROVE Step
  BY <1>0, <1>4, TokensEnd DEF AccessExpires, Step, server
<1>5. ASSUME NEW k \in Seeds, TokenExpires(k), UNCHANGED <<call, tab, store, cookie, jar, fresh, faults>> PROVE Step
  <2>1. k \in TokenIds /\ tokens' = [tokens EXCEPT ![k].state = "gone"] /\ tokens[k].state # "none"
    BY <1>5 DEF TokenExpires, TokenIds
  <2>2. Fewer /\ tokens'[k].state = "gone" /\ \A t \in TokenIds \ {k} : tokens'[t] = tokens[t]
    BY <1>0, <2>1, TokensEnd DEF StoreInv, TokenRecord
  <2> QED
    BY <1>5, <2>2 DEF Step, TokenExpires
<1> QED
  BY <1>1, <1>2, <1>3, <1>4, <1>5, <1>6 DEF Next

\* Every shape keeps the invariant.
LEMMA CallsStep == ASSUME CallsInv, Step PROVE CallsInv'
<1>1. ASSUME NEW c \in Requests,
             \/ Served(c) /\ UNCHANGED <<call, tab, store, cookie, jar, faults>>
             \/ ArriveShape(c) /\ DOMAIN call' = Requests
             \/ ForeignShape(c) /\ DOMAIN call' = Requests
             \/ OutShape(c) /\ DOMAIN call' = Requests
             \/ LoginShape(c) \/ LogoutShape(c) \/ OtherAsks(c)
             \/ /\ \/ ApiShape(c) \/ AnsweredShape(c) \/ PersistShape(c) \/ SignedOutShape(c) \/ ForgetShape(c)
                   \/ OtherDone(c)
                /\ PageStep(c) /\ DOMAIN call' = Requests
      PROVE  CallsInv'
  BY <1>1, ApiStep, AnsweredStep, ServerDoes, ArriveStep, ForeignStep, OutStep, LoginStep, LogoutStep, PersistStep,
     SignedOutStep, ForgetStep, OtherStep, OtherDoneStep
<1> QED
  BY <1>1, UnloadStep, EndStep, CookieStep DEF Step

\* Calls are records, and stay so.
IsFunction(f) == f = [x \in DOMAIN f |-> f[x]]
RecordsInv == IsFunction(call) /\ \A c \in Requests : IsFunction(call[c])

\* Every action leaves records.
LEMMA RecordsStep == ASSUME CallsInv, RecordsInv, [Next]_bvars PROVE RecordsInv'
<1>0. DOMAIN call = Requests /\ \A c \in Requests : IsFunction(call[c])
  BY DEF CallsInv, StoreInv, RecordsInv
<1>1. CASE UNCHANGED call
  BY <1>1 DEF RecordsInv
<1>2. ASSUME NEW c \in Requests, IsFunction(call'[c]), NEW v, call' = [call EXCEPT ![c] = v] PROVE RecordsInv'
  BY <1>0, <1>2 DEF RecordsInv, IsFunction
<1>3. ASSUME \A d \in Requests : IsFunction(call'[d]), IsFunction(call') PROVE RecordsInv'
  BY <1>3 DEF RecordsInv
<1>9. ASSUME NEW c \in Requests, OtherPresents(c) PROVE RecordsInv'
  <2>1. call' = [call EXCEPT ![c] = [NoCall EXCEPT !.pc = "asked", !.kind = "other", !.with = cookie,
                                                   !.before = Arrived]]
    BY <1>9 DEF OtherPresents
  <2>2. IsFunction(call'[c])
    BY <1>0, <2>1 DEF NoCall, IsFunction
  <2> QED
    BY <1>2, <2>1, <2>2
<1>10. ASSUME NEW c \in Requests, OtherHears(c) PROVE RecordsInv'
  <2>1. call' = [call EXCEPT ![c] = [call[c] EXCEPT !.pc = "ok"]] /\ IsFunction(call'[c])
    BY <1>0, <1>10 DEF OtherHears, IsFunction
  <2> QED
    BY <1>2, <2>1
<1>11. ASSUME NEW c \in Requests, ForeignArrives(c) PROVE RecordsInv'
  <2>1. IsFunction(call')
    BY <1>11 DEF ForeignArrives, IsFunction
  <2>2. \A d \in Requests : IsFunction(call'[d])
    BY <1>0, <1>11 DEF ForeignArrives, Resent, IsFunction
  <2> QED
    BY <1>3, <2>1, <2>2
<1>4. ASSUME NEW c \in Requests, \/ CallApi(c) \/ SignIn(c) \/ SignOutCall(c) \/ Forget(c) PROVE RecordsInv'
  <2>1. PICK t \in Tabs : \/ call' = [call EXCEPT ![c] = Sent(t, "api")]
                          \/ call' = [call EXCEPT ![c] = [Sent(t, "login") EXCEPT !.pc = "asked"]]
                          \/ call' = [call EXCEPT ![c] = [Sent(t, "logout") EXCEPT !.pc = "asked", !.with = Presented,
                                                                                   !.before = Arrived]]
                          \/ call' = [call EXCEPT ![c] = [Sent(t, "forget") EXCEPT !.pc = "ok"]]
    BY <1>4 DEF CallApi, SignIn, SignOutCall, Forget
  <2>2. IsFunction(call'[c])
    BY <1>0, <2>1 DEF Sent, NoCall, IsFunction
  <2> QED
    BY <1>2, <2>1, <2>2
<1>5. ASSUME NEW c \in Requests, Answered(c) \/ Persist(c) \/ SignedOut(c) PROVE RecordsInv'
  <2>1. CASE Succeeds(c)
    <3>1. call' = [call EXCEPT ![c] = [call[c] EXCEPT !.pc = "ok"]] /\ IsFunction(call'[c])
      BY <1>0, <2>1 DEF Succeeds, IsFunction
    <3> QED
      BY <1>2, <3>1
  <2>2. CASE GivesUp(c)
    <3>1. call' = [call EXCEPT ![c] = [call[c] EXCEPT !.pc = "failed"]] /\ IsFunction(call'[c])
      BY <1>0, <2>2 DEF GivesUp, IsFunction
    <3> QED
      BY <1>2, <3>1
  <2>3. CASE Waits(c)
    <3>1. call' = [call EXCEPT ![c] = [call[c] EXCEPT !.pc = "queued", !.retry = TRUE]] /\ IsFunction(call'[c])
      BY <1>0, <2>3 DEF Waits, IsFunction
    <3> QED
      BY <1>2, <3>1
  <2>4. CASE Refreshes(c)
    <3>1. /\ call' = [call EXCEPT ![c] = [call[c] EXCEPT !.pc = "refreshing", !.retry = TRUE, !.with = Presented,
                                                         !.before = Arrived]]
          /\ IsFunction(call'[c])
      BY <1>0, <2>4 DEF Refreshes, IsFunction
    <3> QED
      BY <1>2, <3>1
  <2>5. CASE Persist(c)
    <3>1. call' = [call EXCEPT ![c] = [call[c] EXCEPT !.pc = "ok", !.got = TRUE]] /\ IsFunction(call'[c])
      BY <1>0, <2>5 DEF Persist, IsFunction
    <3> QED
      BY <1>2, <3>1
  <2>6. CASE SignedOut(c)
    <3>1. PICK lost \in {0, 1} : call' = [call EXCEPT ![c] = [call[c] EXCEPT !.pc = "ok", !.got = (lost = 0)]]
      BY <1>0, <2>6 DEF SignedOut
    <3>2. IsFunction(call'[c])
      BY <1>0, <3>1 DEF IsFunction
    <3> QED
      BY <1>2, <3>1, <3>2
  <2> QED
    BY <1>5, <2>1, <2>2, <2>3, <2>4, <2>5, <2>6 DEF Answered
<1>6. ASSUME NEW c \in Requests, RefreshArrives(c) PROVE RecordsInv'
  <2>1. IsFunction(call')
    BY <1>6 DEF RefreshArrives, IsFunction
  <2>2. \A d \in Requests : IsFunction(call'[d])
    BY <1>0, <1>6 DEF RefreshArrives, Resent, IsFunction
  <2> QED
    BY <1>3, <2>1, <2>2
<1>7. ASSUME NEW c \in Requests, SignOut(c) PROVE RecordsInv'
  <2>1. IsFunction(call')
    BY <1>7 DEF SignOut, IsFunction
  <2>2. \A d \in Requests : IsFunction(call'[d])
    BY <1>0, <1>7 DEF SignOut, IsFunction
  <2> QED
    BY <1>3, <2>1, <2>2
<1>8. ASSUME NEW t \in Tabs, Unload(t) PROVE RecordsInv'
  <2>1. IsFunction(call')
    BY <1>8 DEF Unload, IsFunction
  <2>2. \A d \in Requests : IsFunction(call'[d])
    BY <1>0, <1>8 DEF Unload, IsFunction
  <2> QED
    BY <1>3, <2>1, <2>2
<1> QED
  BY <1>1, <1>4, <1>5, <1>6, <1>7, <1>8, <1>9, <1>10, <1>11
     DEF Next, Advance, bvars, ServerStep, RefreshFails, AnswerLost, AccessExpires, OtherSets, OtherClears

\* Together they are the type invariant.
LEMMA Typed == ASSUME CallsInv, RecordsInv PROVE BrowserTypeOK
<1>0. StoreInv /\ \A c \in Requests : CallOK(c) /\ ReqOK(c) /\ IsFunction(call[c])
  BY DEF CallsInv, RecordsInv
<1>1. SessionsTypeOK
  <2>1. \A r \in Requests : req[r].op \in load \cup {"none"} /\ req[r].before \subseteq Requests \ {r}
    BY <1>0 DEF ReqOK, Idle, Finished
  <2> QED
    BY <1>0, <2>1 DEF SessionsTypeOK, FrameTypeOK, StoreInv
<1>2. ASSUME NEW c \in Requests PROVE call[c] \in CallRecord
  <2>1. DOMAIN call[c] = {"pc", "kind", "tab", "access", "sends", "retry", "with", "got", "before"}
    BY <1>0 DEF CallOK, CallFields
  <2>2. call[c].tab \in Tabs \cup {NoOne}
    BY <1>0 DEF CallOK, NoCall
  <2>3. call[c].pc \in {"idle", "sent", "queued", "refreshing", "asked", "ok", "failed", "gone"}
    BY <1>0 DEF CallOK
  <2>4. call[c].kind \in {"api", "login", "logout", "forget", "other"} /\ call[c].sends \in 0 .. 2
    BY <1>0 DEF CallOK
  <2>5. /\ call[c].access \in Known /\ call[c].retry \in BOOLEAN
        /\ call[c].with \in Known /\ call[c].got \in BOOLEAN
        /\ call[c].before \in SUBSET Requests
    BY <1>0 DEF CallOK, Arrived
  <2> QED
    BY <1>0, <2>1, <2>2, <2>3, <2>4, <2>5 DEF CallRecord, IsFunction
<1>3. call \in [Requests -> CallRecord]
  BY <1>0, <1>2 DEF RecordsInv, IsFunction, StoreInv
<1> QED
  BY <1>0, <1>1, <1>3 DEF BrowserTypeOK, StoreInv, Known

\* The calls are records at the start.
LEMMA RecordsStart == ASSUME Init PROVE RecordsInv
BY DEF Init, NoCall, RecordsInv, IsFunction

-----------------------------------------------------------------------------
(* The tabs.                                                               *)

\* OneRefreshPerTab, by calls.
TabsInv ==
  /\ tab \in [Tabs -> [refreshing : BOOLEAN, page : {"app", "leaving", "login"}]]
  /\ \A c \in Requests : call[c].pc \in {"queued", "refreshing"} => tab[call[c].tab].refreshing
  /\ \A t \in Tabs : tab[t].refreshing => \E c \in Requests : call[c].tab = t /\ call[c].pc = "refreshing"
  /\ \A c \in Requests, d \in Requests :
       (call[c].pc = "refreshing" /\ call[d].pc = "refreshing" /\ call[c].tab = call[d].tab) => c = d

\* A step at which no call joins or leaves a refresh.
Quiet ==
  /\ tab' \in [Tabs -> [refreshing : BOOLEAN, page : {"app", "leaving", "login"}]]
  /\ \A t \in Tabs : tab'[t].refreshing = tab[t].refreshing
  /\ \A c \in Requests : \/ call'[c] = call[c]
                         \/ call[c].pc \notin {"queued", "refreshing"} /\ call'[c].pc \notin {"queued", "refreshing"}

\* Such a step keeps the tabs right.
LEMMA QuietStep == ASSUME CallsInv, TabsInv, Quiet PROVE TabsInv'
<1>1. \A c \in Requests : call[c].pc \in {"queued", "refreshing"} => call[c].tab \in Tabs
  BY DEF CallsInv, CallOK
<1> QED
  BY <1>1 DEF TabsInv, Quiet

\* The page of one tab changes.
LEMMA Turned ==
  ASSUME CallsInv, TabsInv, NEW t \in Tabs, NEW p \in {"app", "leaving", "login"}, tab' = [tab EXCEPT ![t].page = p],
         NEW c \in Requests, \A d \in Requests \ {c} : call'[d] = call[d],
         call[c].pc \notin {"queued", "refreshing"}, call'[c].pc \notin {"queued", "refreshing"}
  PROVE  TabsInv'
<1>1. tab'[t] = [tab[t] EXCEPT !.page = p] /\ DOMAIN tab' = Tabs /\ \A u \in Tabs \ {t} : tab'[u] = tab[u]
  BY DEF TabsInv
<1>2. tab[t] \in [refreshing : BOOLEAN, page : {"app", "leaving", "login"}]
  BY DEF TabsInv
<1>3. tab'[t] \in [refreshing : BOOLEAN, page : {"app", "leaving", "login"}] /\ tab'[t].refreshing = tab[t].refreshing
  BY <1>1, <1>2
<1>4. tab' \in [Tabs -> [refreshing : BOOLEAN, page : {"app", "leaving", "login"}]]
  BY <1>1, <1>3 DEF TabsInv
<1> QED
  BY <1>1, <1>3, <1>4, QuietStep DEF Quiet

\* The refresh of a tab begins, or is over.
LEMMA Flagged ==
  ASSUME TabsInv, NEW t \in Tabs, NEW v \in [refreshing : BOOLEAN, page : {"app", "leaving", "login"}],
         tab' = [tab EXCEPT ![t] = v]
  PROVE  /\ tab' \in [Tabs -> [refreshing : BOOLEAN, page : {"app", "leaving", "login"}]]
         /\ tab'[t] = v /\ \A u \in Tabs \ {t} : tab'[u] = tab[u]
BY DEF TabsInv

\* A tab that stops refreshing has no call left that asks or waits.
LEMMA TabsOver ==
  ASSUME CallsInv, TabsInv, NEW t \in Tabs, NEW v \in [refreshing : BOOLEAN, page : {"app", "leaving", "login"}],
         tab' = [tab EXCEPT ![t] = v], v.refreshing = FALSE,
         \A c \in Requests : \/ call'[c] = call[c] /\ ~ (call[c].tab = t /\ call[c].pc \in {"queued", "refreshing"})
                             \/ call[c].tab = t /\ call'[c].pc \notin {"queued", "refreshing"}
  PROVE  TabsInv'
<1>1. /\ tab' \in [Tabs -> [refreshing : BOOLEAN, page : {"app", "leaving", "login"}]]
      /\ tab'[t] = v /\ \A u \in Tabs \ {t} : tab'[u] = tab[u]
  BY Flagged
<1>2. \A c \in Requests : call[c].pc \in {"queued", "refreshing"} => call[c].tab \in Tabs
  BY DEF CallsInv, CallOK
<1>3. \A c \in Requests : call'[c].pc \in {"queued", "refreshing"} => call'[c] = call[c] /\ call[c].tab # t
  OBVIOUS
<1>4. \A c \in Requests : call'[c].pc \in {"queued", "refreshing"} => tab'[call'[c].tab].refreshing
  BY <1>1, <1>2, <1>3 DEF TabsInv
<1>5. \A u \in Tabs : tab'[u].refreshing => \E c \in Requests : call'[c].tab = u /\ call'[c].pc = "refreshing"
  BY <1>1 DEF TabsInv
<1>6. \A c \in Requests, d \in Requests :
        (call'[c].pc = "refreshing" /\ call'[d].pc = "refreshing" /\ call'[c].tab = call'[d].tab) => c = d
  BY <1>3 DEF TabsInv
<1> QED
  BY <1>1, <1>4, <1>5, <1>6 DEF TabsInv

\* Every step keeps the tabs right.
LEMMA TabsStep == ASSUME CallsInv, TabsInv, Step PROVE TabsInv'
<1>0. /\ \A c \in Requests : call[c].pc \in {"sent", "queued", "refreshing"} => call[c].tab \in Tabs
      /\ \A c \in Requests : call[c].pc = "asked" /\ call[c].kind # "other" => call[c].tab \in Tabs
      /\ \A c \in Requests : call[c] = NoCall => call[c].pc = "idle"
      /\ tab \in [Tabs -> [refreshing : BOOLEAN, page : {"app", "leaving", "login"}]]
  BY DEF CallsInv, CallOK, TabsInv, NoCall
<1>1. CASE UNCHANGED <<call, tab>>
  BY <1>0, <1>1, QuietStep DEF Quiet
<1>2. ASSUME NEW c \in Requests, ApiShape(c), PageStep(c) PROVE TabsInv'
  BY <1>0, <1>2, QuietStep DEF Quiet, ApiShape, PageStep
<1>3. ASSUME NEW c \in Requests, AnsweredShape(c), PageStep(c) PROVE TabsInv'
  <2>0. call[c].pc = "sent" /\ call[c].tab \in Tabs /\ \A d \in Requests \ {c} : call'[d] = call[d]
    BY <1>0, <1>3 DEF AnsweredShape, PageStep
  <2>1. CASE call'[c].pc \in {"ok", "failed"} /\ UNCHANGED tab
    BY <1>0, <2>0, <2>1, QuietStep DEF Quiet
  <2>2. CASE /\ call'[c].pc = "queued" /\ Keeps(c, {"pc", "retry"}) /\ UNCHANGED tab
             /\ tab[call[c].tab].refreshing
    <3>1. call'[c].tab = call[c].tab
      BY <2>2 DEF Keeps, CallFields
    <3> QED
      BY <2>0, <2>2, <3>1 DEF TabsInv
  <2>3. CASE /\ call'[c].pc = "refreshing" /\ Keeps(c, {"pc", "retry", "with", "before"})
             /\ ~ tab[call[c].tab].refreshing /\ tab' = [tab EXCEPT ![call[c].tab].refreshing = TRUE]
    <3>1. call'[c].tab = call[c].tab
      BY <2>3 DEF Keeps, CallFields
    <3>2. /\ [tab[call[c].tab] EXCEPT !.refreshing = TRUE] \in [refreshing : BOOLEAN, page : {"app", "leaving", "login"}]
          /\ [tab[call[c].tab] EXCEPT !.refreshing = TRUE].refreshing = TRUE
      BY <1>0, <2>0
    <3>3. /\ tab' \in [Tabs -> [refreshing : BOOLEAN, page : {"app", "leaving", "login"}]]
          /\ tab'[call[c].tab].refreshing = TRUE /\ \A u \in Tabs \ {call[c].tab} : tab'[u] = tab[u]
      BY <2>0, <2>3, <3>2, Flagged
    <3>4. \A d \in Requests \ {c} : call[d].pc = "refreshing" => call[d].tab # call[c].tab
      BY <2>3 DEF TabsInv
    <3>5. \A d \in Requests : call'[d].pc \in {"queued", "refreshing"} => tab'[call'[d].tab].refreshing
      BY <1>0, <2>0, <3>1, <3>3 DEF TabsInv
    <3>6. \A u \in Tabs : tab'[u].refreshing => \E d \in Requests : call'[d].tab = u /\ call'[d].pc = "refreshing"
      <4>1. ASSUME NEW u \in Tabs \ {call[c].tab}, tab'[u].refreshing
            PROVE  \E d \in Requests : call'[d].tab = u /\ call'[d].pc = "refreshing"
        BY <2>0, <3>3, <4>1 DEF TabsInv
      <4> QED
        BY <2>3, <3>1, <4>1
    <3> QED
      BY <2>0, <3>1, <3>3, <3>4, <3>5, <3>6 DEF TabsInv
  <2> QED
    BY <1>3, <2>1, <2>2, <2>3 DEF AnsweredShape
<1>4. ASSUME NEW c \in Requests, PersistShape(c) \/ SignedOutShape(c), PageStep(c) PROVE TabsInv'
  <2>1. call[c].tab \in Tabs /\ call[c].pc = "asked" /\ call'[c].pc = "ok"
        /\ \E p \in {"app", "login"} : tab' = [tab EXCEPT ![call[c].tab].page = p]
    BY <1>0, <1>4 DEF PersistShape, SignedOutShape
  <2> QED
    BY <1>4, <2>1, Turned DEF PageStep
<1>5. ASSUME NEW c \in Requests, ForgetShape(c), PageStep(c) PROVE TabsInv'
  BY <1>0, <1>5, Turned DEF ForgetShape, PageStep
<1>6. ASSUME NEW c \in Requests, LoginShape(c) \/ LogoutShape(c) \/ OtherAsks(c) PROVE TabsInv'
  BY <1>0, <1>6, QuietStep DEF Quiet, LoginShape, LogoutShape, OtherAsks
<1>9. ASSUME NEW c \in Requests, OtherDone(c), PageStep(c) PROVE TabsInv'
  BY <1>0, <1>9, QuietStep DEF Quiet, OtherDone, PageStep
<1>7. ASSUME NEW c \in Requests, ArriveShape(c) \/ ForeignShape(c) \/ OutShape(c) PROVE TabsInv'
  <2>1. call[c].pc = "refreshing" /\ call[c].tab \in Tabs
    BY <1>0, <1>7 DEF ArriveShape, ForeignShape, OutShape
  <2>2. \E v \in [refreshing : BOOLEAN, page : {"app", "leaving", "login"}] :
          v.refreshing = FALSE /\ tab' = [tab EXCEPT ![call[c].tab] = v]
    <3>1. CASE tab' = [tab EXCEPT ![call[c].tab].refreshing = FALSE]
      <4>1. LET v == [tab[call[c].tab] EXCEPT !.refreshing = FALSE]
            IN  v \in [refreshing : BOOLEAN, page : {"app", "leaving", "login"}] /\ v.refreshing = FALSE
        BY <1>0, <2>1
      <4> QED
        BY <3>1, <4>1
    <3>2. CASE tab' = [tab EXCEPT ![call[c].tab] = [refreshing |-> FALSE, page |-> "leaving"]]
      BY <3>2
    <3> QED
      BY <1>7, <3>1, <3>2 DEF ArriveShape, ForeignShape, OutShape
  <2>3. \A d \in Requests : \/ call'[d] = call[d] /\ ~ (call[d].tab = call[c].tab /\ call[d].pc \in {"queued", "refreshing"})
                            \/ call[d].tab = call[c].tab /\ call'[d].pc \notin {"queued", "refreshing"}
    <3>1. \A d \in Waiting(call[c].tab) \cup {c} : call'[d].pc \in {"sent", "failed"} /\ call[d].tab = call[c].tab
      BY <1>7 DEF ArriveShape, ForeignShape, OutShape, Resumes, Stops, Waiting
    <3>2. \A d \in Requests \ (Waiting(call[c].tab) \cup {c}) :
            call'[d] = call[d] /\ ~ (call[d].tab = call[c].tab /\ call[d].pc \in {"queued", "refreshing"})
      BY <1>7, <2>1 DEF ArriveShape, ForeignShape, OutShape, Waiting, TabsInv
    <3> QED
      BY <3>1, <3>2
  <2> QED
    BY <2>1, <2>2, <2>3, TabsOver
<1>8. ASSUME NEW t \in Tabs, UnloadShape(t) PROVE TabsInv'
  <2>1. [refreshing |-> FALSE, page |-> "login"] \in [refreshing : BOOLEAN, page : {"app", "leaving", "login"}]
    OBVIOUS
  <2>2. \A d \in Requests : \/ call'[d] = call[d] /\ ~ (call[d].tab = t /\ call[d].pc \in {"queued", "refreshing"})
                            \/ call[d].tab = t /\ call'[d].pc \notin {"queued", "refreshing"}
    BY <1>8 DEF UnloadShape, Unsettled, Stops
  <2> QED
    BY <1>8, <2>1, <2>2, TabsOver DEF UnloadShape
<1> QED
  BY <1>1, <1>2, <1>3, <1>4, <1>5, <1>6, <1>7, <1>8, <1>9 DEF Step, CookieShape

\* The tabs are right at the start.
LEMMA TabsStart == ASSUME Init PROVE TabsInv
BY DEF Init, TabsInv, NoCall

\* Which is OneRefreshPerTab.
LEMMA OneRefresh == ASSUME CallsInv, TabsInv PROVE OneRefreshPerTab
<1>1. \A c \in Requests : call[c].pc \in {"queued", "refreshing"} => call[c].tab \in Tabs
  BY DEF CallsInv, CallOK
<1> QED
  BY <1>1 DEF TabsInv, OneRefreshPerTab, Waiting

-----------------------------------------------------------------------------
(* What a step does to a call as seen from the other invariants.           *)

Asked(c) ==
  /\ call[c].kind = "api" /\ call'[c].kind \in {"api", "logout", "other"}
  /\ call[c].got = FALSE /\ call'[c].got = FALSE
  /\ req[c].pc = "idle" /\ call'[c].with \in {store.refresh, cookie} /\ call'[c].before = Arrived
OtherIsThere == faults'.foreign # 0 \/ \E c \in Requests : call[c].with = Other
Lasts(c) ==
  /\ call[c].got => call'[c].got
  /\ call'[c].kind = call[c].kind \/ call[c] = NoCall
  /\ (call'[c].with = call[c].with /\ call'[c].before = call[c].before) \/ Asked(c)
  /\ call'[c].access = call[c].access \/ call'[c].access = store.token \/ call'[c].access \in Arrived' \cup {NoOne}
     \/ (call'[c].access = Other /\ OtherIsThere)
HeldOf(x) == x \in {store.token, store.refresh, cookie, NoOne} \/ x \in Arrived' \/ (x = Other /\ OtherIsThere)
Changes ==
  /\ \A c \in Requests : Lasts(c)
  /\ HeldOf(store'.token) /\ HeldOf(store'.refresh) /\ HeldOf(cookie') /\ jar' = jar
  /\ faults'.foreign = 0 => faults.foreign = 0

\* A call of which only fields that matter to nobody else change.
LEMMA LastsKeeping ==
  ASSUME NEW c \in Requests, NEW F \in SUBSET {"pc", "retry", "sends", "got"}, Keeps(c, F), call[c].got => call'[c].got
  PROVE  Lasts(c)
BY DEF Keeps, Lasts, CallFields

\* A call that began from nothing.
LEMMA LastsBegun ==
  ASSUME NEW c \in Requests, call[c] = NoCall, call'[c].access = store.token,
         call'[c].with = NoOne, call'[c].before = {}
  PROVE  Lasts(c)
BY DEF Lasts, NoCall

\* Every step changes no more than that.
LEMMA Changing == ASSUME CallsInv, Step PROVE Changes
<1>0. StoreInv /\ \A c \in Requests : CallOK(c) /\ ReqOK(c)
  BY DEF CallsInv
<1>1. \A c \in Requests : call'[c] = call[c] => Lasts(c)
  BY DEF Lasts
<1>2. store' = store /\ cookie' = cookie =>
        HeldOf(store'.token) /\ HeldOf(store'.refresh) /\ HeldOf(cookie')
  BY DEF HeldOf
<1>3. store' = Empty /\ cookie' \in {NoOne, cookie} =>
        HeldOf(store'.token) /\ HeldOf(store'.refresh) /\ HeldOf(cookie')
  BY DEF HeldOf, Empty
<1>4. \A c \in Requests : (call'[c].got = TRUE /\ store' = [token |-> c, refresh |-> c] /\ cookie' = SetCookie(c)) =>
        HeldOf(store'.token) /\ HeldOf(store'.refresh) /\ HeldOf(cookie')
  BY DEF HeldOf, SetCookie, Arrived
<1>17. faults'.foreign = 0 => faults.foreign = 0
  <2>1. \/ UNCHANGED faults \/ faults' = [faults EXCEPT !.lost = @ + 1]
        \/ faults' = [faults EXCEPT !.expired = @ + 1] \/ faults' = [faults EXCEPT !.foreign = @ + 1]
    BY DEF Step, Served, ApiShape, AnsweredShape, PersistShape, SignedOutShape, ForgetShape, ArriveShape, ForeignShape,
           OutShape, LoginShape, LogoutShape, UnloadShape, OtherAsks, OtherDone, CookieShape
  <2> QED
    BY <1>0, <2>1 DEF StoreInv
<1>5. CASE UNCHANGED <<call, store, cookie, jar>>
  BY <1>1, <1>2, <1>5, <1>17 DEF Changes
<1>18. CASE CookieShape
  <2>1. cookie' = Other => OtherIsThere
    BY <1>0, <1>18 DEF CookieShape, OtherIsThere, StoreInv
  <2> QED
    BY <1>1, <1>17, <1>18, <2>1, NoOneAssumption, OtherAssumption DEF CookieShape, Changes, HeldOf
<1>19. ASSUME NEW c \in Requests, OtherAsks(c) PROVE Changes
  <2>1. req[c].pc = "idle" /\ call[c].kind = "api" /\ call[c].got = FALSE
    BY <1>0, <1>19 DEF OtherAsks, NoCall, ReqOK
  <2>2. Lasts(c)
    BY <1>19, <2>1 DEF OtherAsks, Lasts, Asked
  <2> QED
    BY <1>1, <1>2, <1>17, <1>19, <2>2 DEF Changes, OtherAsks
<1>20. ASSUME NEW c \in Requests, OtherDone(c), PageStep(c) PROVE Changes
  <2>1. call'[c].got = call[c].got
    BY <1>20 DEF OtherDone, Keeps, CallFields
  <2>2. Lasts(c)
    BY <1>20, <2>1, LastsKeeping DEF OtherDone
  <2>3. HeldOf(cookie')
    BY <1>20 DEF OtherDone, HeldOf
  <2> QED
    BY <1>1, <1>17, <1>20, <2>2, <2>3 DEF Changes, HeldOf, OtherDone, PageStep
<1>21. ASSUME NEW c \in Requests, ForeignShape(c) PROVE Changes
  <2>1. OtherIsThere
    BY <1>0, <1>21 DEF ForeignShape, ReqOK, OtherIsThere
  <2>2. ASSUME NEW d \in Requests, Resumes(d, Other), call'[d].got = call[d].got PROVE Lasts(d)
    BY <2>1, <2>2 DEF Resumes, Keeps, CallFields, Lasts
  <2>3. \A d \in Requests : Lasts(d)
    BY <1>1, <1>21, <2>2 DEF ForeignShape, Waiting
  <2>4. HeldOf(store'.token) /\ HeldOf(store'.refresh) /\ HeldOf(cookie')
    BY <1>21, <2>1 DEF ForeignShape, SetCookie, HeldOf
  <2> QED
    BY <1>17, <1>21, <2>3, <2>4 DEF Changes, ForeignShape
<1>6. ASSUME NEW c \in Requests, ApiShape(c), PageStep(c) PROVE Changes
  BY <1>17, <1>1, <1>2, <1>6, LastsBegun DEF Changes, ApiShape, PageStep
<1>7. ASSUME NEW c \in Requests, AnsweredShape(c), PageStep(c) PROVE Changes
  <2>1. CASE Keeps(c, {"pc"})
    <3>1. call'[c].got = call[c].got
      BY <2>1 DEF Keeps, CallFields
    <3>2. Lasts(c)
      BY <2>1, <3>1, LastsKeeping
    <3> QED
      BY <1>17, <1>1, <1>2, <1>7, <3>2 DEF Changes, AnsweredShape, PageStep
  <2>2. CASE Keeps(c, {"pc", "retry"})
    <3>1. call'[c].got = call[c].got
      BY <2>2 DEF Keeps, CallFields
    <3>2. Lasts(c)
      BY <2>2, <3>1, LastsKeeping
    <3> QED
      BY <1>17, <1>1, <1>2, <1>7, <3>2 DEF Changes, AnsweredShape, PageStep
  <2>3. CASE /\ call'[c].with = Presented /\ call'[c].before = Arrived
             /\ Keeps(c, {"pc", "retry", "with", "before"}) /\ call[c].retry = FALSE
    <3>1. call'[c].got = call[c].got /\ call'[c].kind = call[c].kind /\ call'[c].access = call[c].access
      BY <2>3 DEF Keeps, CallFields
    <3>2. call[c].pc = "sent" /\ call[c].kind = "api" /\ call[c].got = FALSE
      BY <1>0, <1>7, <2>3 DEF AnsweredShape, CallOK
    <3>3. req[c].pc = "idle"
      BY <1>0, <2>3, <3>2 DEF ReqOK
    <3>4. Lasts(c)
      BY <2>3, <3>1, <3>2, <3>3 DEF Lasts, Asked, Presented
    <3> QED
      BY <1>17, <1>1, <1>2, <1>7, <3>4 DEF Changes, AnsweredShape, PageStep
  <2> QED
    BY <1>7, <2>1, <2>2, <2>3 DEF AnsweredShape
<1>8. ASSUME NEW c \in Requests, PersistShape(c), PageStep(c) PROVE Changes
  <2>1. Lasts(c)
    BY <1>8, LastsKeeping DEF PersistShape
  <2> QED
    BY <1>17, <1>1, <1>4, <1>8, <2>1 DEF Changes, PersistShape, PageStep
<1>9. ASSUME NEW c \in Requests, SignedOutShape(c), PageStep(c) PROVE Changes
  <2>1. call[c].got = FALSE
    BY <1>0, <1>9 DEF SignedOutShape, CallOK
  <2>2. Lasts(c)
    BY <1>9, <2>1, LastsKeeping DEF SignedOutShape
  <2> QED
    BY <1>17, <1>1, <1>3, <1>9, <2>2 DEF Changes, SignedOutShape, PageStep
<1>10. ASSUME NEW c \in Requests, ForgetShape(c), PageStep(c) PROVE Changes
  BY <1>17, <1>1, <1>3, <1>10, LastsBegun DEF Changes, ForgetShape, PageStep
<1>11. ASSUME NEW c \in Requests, LoginShape(c) PROVE Changes
  BY <1>17, <1>1, <1>2, <1>11, LastsBegun DEF Changes, LoginShape
<1>12. ASSUME NEW c \in Requests, LogoutShape(c) PROVE Changes
  <2>1. req[c].pc = "idle" /\ call[c].kind = "api" /\ call[c].got = FALSE
    BY <1>12 DEF LogoutShape, Asks, NoCall
  <2>2. Lasts(c)
    BY <1>12, <2>1 DEF LogoutShape, Lasts, Asked, Presented
  <2> QED
    BY <1>17, <1>1, <1>2, <1>12, <2>2 DEF Changes, LogoutShape
<1>13. ASSUME NEW c \in Requests, ArriveShape(c) PROVE Changes
  <2>1. call'[c].got = TRUE /\ c \in Arrived'
    BY <1>13 DEF ArriveShape, Arrived
  <2>2. ASSUME NEW d \in Requests, Resumes(d, c), call'[d].got = call[d].got \/ d = c PROVE Lasts(d)
    BY <2>1, <2>2 DEF Resumes, Keeps, CallFields, Lasts
  <2>3. \A d \in Requests : Lasts(d)
    BY <1>1, <1>13, <2>2 DEF ArriveShape, Waiting
  <2> QED
    BY <1>17, <1>4, <1>13, <2>1, <2>3 DEF Changes, ArriveShape
<1>14. ASSUME NEW d \in Requests, NEW pc, Stops(d, pc) PROVE Lasts(d)
  <2>1. Keeps(d, {"pc"}) /\ call'[d].got = call[d].got
    BY <1>14 DEF Stops, Keeps, CallFields
  <2> QED
    BY <2>1, LastsKeeping
<1>15. ASSUME NEW c \in Requests, OutShape(c) PROVE Changes
  BY <1>17, <1>1, <1>3, <1>14, <1>15 DEF Changes, OutShape
<1>16. ASSUME NEW t \in Tabs, UnloadShape(t) PROVE Changes
  BY <1>17, <1>1, <1>2, <1>14, <1>16 DEF Changes, UnloadShape
<1> QED
  BY <1>5, <1>6, <1>7, <1>8, <1>9, <1>10, <1>11, <1>12, <1>13, <1>15, <1>16,
     <1>18, <1>19, <1>20, <1>21 DEF Step

\* What the browser holds or presents came with an answer that arrived, or
\* from another app.
HeldInv ==
  /\ \A x \in {store.token, store.refresh, cookie} : x \in Requests => x \in Arrived
  /\ \A c \in Requests : call[c].access \in Requests => call[c].access \in Arrived
  /\ \A c \in Requests : call[c].with \in Requests => call[c].with \in call[c].before
  /\ faults.foreign = 0 => /\ Other \notin {store.token, store.refresh, cookie}
                           /\ \A c \in Requests : Other \notin {call[c].access, call[c].with}

\* At the start the browser holds the session of a seed.
LEMMA HeldStart == ASSUME Init PROVE HeldInv
<1>1. PICK s \in Seeds : store = [token |-> s, refresh |-> s] /\ cookie = SetCookie(s)
  BY DEF Init
<1>2. \A x \in {store.token, store.refresh, cookie} : x \notin Requests
  BY <1>1, SeedsAssumption, NoOneAssumption DEF SetCookie
<1>3. Other \notin {store.token, store.refresh, cookie, NoOne}
  BY <1>1, OtherAssumption DEF SetCookie, TokenIds
<1> QED
  BY <1>2, <1>3, NoOneAssumption DEF Init, NoCall, HeldInv

\* Every step keeps it so.
LEMMA HeldStep == ASSUME CallsInv, HeldInv, Step PROVE HeldInv'
<1>0. Changes
  BY Changing
<1>1. Arrived \subseteq Arrived'
  BY <1>0 DEF Changes, Lasts, Arrived
<1>2. \A x \in {store.refresh, cookie} : x \in Requests => x \in Arrived
  BY DEF HeldInv
<1>3. \A x \in {store'.token, store'.refresh, cookie'} : x \in Requests => x \in Arrived'
  BY <1>0, <1>1, NoOneAssumption, OtherAssumption DEF Changes, HeldOf, HeldInv, TokenIds
<1>4. \A c \in Requests : call'[c].access \in Requests => call'[c].access \in Arrived'
  BY <1>0, <1>1, NoOneAssumption, OtherAssumption DEF Changes, Lasts, HeldInv, TokenIds
<1>5. \A c \in Requests : call'[c].with \in Requests => call'[c].with \in call'[c].before
  BY <1>0, <1>2 DEF Changes, Lasts, Asked, HeldInv
<1>6. ASSUME faults'.foreign = 0
      PROVE  /\ Other \notin {store'.token, store'.refresh, cookie'}
             /\ \A c \in Requests : Other \notin {call'[c].access, call'[c].with}
  <2>1. /\ Other \notin {store.token, store.refresh, cookie, NoOne} /\ ~ OtherIsThere
        /\ \A c \in Requests : Other \notin {call[c].access, call[c].with}
    BY <1>0, <1>6, OtherAssumption DEF Changes, HeldInv, OtherIsThere
  <2>2. Other \notin Arrived'
    BY OtherAssumption DEF Arrived, TokenIds
  <2> QED
    BY <1>0, <2>1, <2>2 DEF Changes, Lasts, Asked, HeldOf
<1> QED
  BY <1>3, <1>4, <1>5, <1>6 DEF HeldInv

\* The two ways in which what a refresh would present changes, what makes a
\* token live, and how a call comes to be a sign-out.
Given(c) ==
  /\ call[c].got = FALSE /\ call'[c].got = TRUE /\ call[c].kind \in {"api", "login"}
  /\ store' = [token |-> c, refresh |-> c] /\ cookie' = SetCookie(c)
  /\ UNCHANGED <<tokens, req>> /\ req[c].pc = "done" /\ req[c].ans = "session"
Keeping == store'.refresh \in {store.refresh, NoOne, Other} /\ cookie' \in {cookie, NoOne, Other}

\* What a refresh would present is kept, cleared, replaced by another
\* account's, or given by an answer.
LEMMA Presenting == ASSUME CallsInv, Step PROVE Keeping \/ \E c \in Requests : Given(c)
<1>0. \A c \in Requests : CallOK(c) /\ ReqOK(c)
  BY DEF CallsInv
<1>1. CASE UNCHANGED <<store, cookie>>
  BY <1>1 DEF Keeping
<1>2. CASE store' = Empty /\ cookie' \in {cookie, NoOne}
  BY <1>2 DEF Keeping, Empty
<1>3. ASSUME NEW c \in Requests, PersistShape(c) \/ ArriveShape(c) PROVE Given(c)
  <2>1. call[c].got = FALSE /\ call[c].kind \in {"api", "login"} /\ req[c].pc = "done" /\ req[c].ans = "session"
    BY <1>0, <1>3 DEF CallOK, ReqOK, PersistShape, ArriveShape
  <2> QED
    BY <1>3, <2>1 DEF Given, PersistShape, ArriveShape, server
<1>4. CASE CookieShape
  BY <1>4 DEF Keeping, CookieShape
<1>5. ASSUME NEW c \in Requests, OtherDone(c) PROVE Keeping
  BY <1>5 DEF Keeping, OtherDone
<1>6. ASSUME NEW c \in Requests, ForeignShape(c) PROVE Keeping
  <2>1. store'.refresh = Other /\ cookie' \in {Other, NoOne}
    BY <1>6 DEF ForeignShape, SetCookie
  <2> QED
    BY <2>1 DEF Keeping
<1> QED
  BY <1>1, <1>2, <1>3, <1>4, <1>5, <1>6
     DEF Step, ApiShape, AnsweredShape, LoginShape, LogoutShape, OtherAsks, OutShape, SignedOutShape, ForgetShape,
         UnloadShape

\* A token becomes live only by a request whose answer is yet to arrive.
LEMMA Living ==
  ASSUME CallsInv, Step, NEW t \in TokenIds, tokens'[t].state = "live"
  PROVE  tokens[t].state = "live" \/ (t \in Requests /\ call[t].got = FALSE)
<1>0. \A c \in Requests : CallOK(c) /\ ReqOK(c)
  BY DEF CallsInv
<1>1. CASE UNCHANGED tokens
  BY <1>1
<1>2. CASE Fewer
  BY <1>2 DEF Fewer
<1>3. ASSUME NEW r \in Requests, OneMore(r), call[r].got = FALSE
      PROVE  tokens[t].state = "live" \/ (t \in Requests /\ call[t].got = FALSE)
  BY <1>3 DEF OneMore
<1>4. ASSUME NEW r \in Requests, Issues(r) \/ LoginShape(r) PROVE OneMore(r) /\ call[r].got = FALSE
  BY <1>0, <1>4 DEF Issues, LoginShape, ReqOK, NoCall
<1> QED
  BY <1>1, <1>2, <1>3, <1>4
     DEF Step, Served, Finds, Catches, Replaces, Signs, Misses, ApiShape, AnsweredShape, PersistShape, SignedOutShape,
         ForgetShape, ArriveShape, ForeignShape, OutShape, LogoutShape, OtherAsks, OtherDone, CookieShape,
         UnloadShape, server

\* A call is a sign-out from the step in which it begins.
LEMMA Leaving ==
  ASSUME CallsInv, Step, NEW c \in Requests, call'[c].kind = "logout"
  PROVE  (call[c].kind = "logout" /\ call'[c].before = call[c].before /\ call'[c].with = call[c].with) \/ LogoutShape(c)
<1>1. Lasts(c)
  BY Changing DEF Changes
<1>2. CASE call[c].kind = "logout"
  BY <1>1, <1>2 DEF Lasts, Asked
<1>3. CASE call[c].kind # "logout"
  <2>1. call[c] = NoCall
    BY <1>1, <1>3 DEF Lasts
  <2>2. call[c].pc = "idle" /\ \A u : c \notin Waiting(u)
    BY <2>1 DEF NoCall, Waiting
  <2>3. call'[c] # call[c]
    BY <1>3
  <2>5. ASSUME NEW d \in Requests, PageStep(d),
               \/ AnsweredShape(d) \/ PersistShape(d) \/ SignedOutShape(d) \/ ForgetShape(d) \/ ApiShape(d)
               \/ OtherDone(d)
        PROVE  FALSE
    BY <1>3, <2>2, <2>3, <2>5 DEF PageStep, AnsweredShape, PersistShape, SignedOutShape, ForgetShape, ApiShape,
                              OtherDone
  <2>6. ASSUME NEW d \in Requests, ArriveShape(d) \/ ForeignShape(d) \/ OutShape(d) PROVE FALSE
    BY <2>2, <2>3, <2>6 DEF ArriveShape, ForeignShape, OutShape
  <2>7. ASSUME NEW d \in Requests, LoginShape(d) \/ OtherAsks(d) PROVE FALSE
    BY <1>3, <2>3, <2>7 DEF LoginShape, OtherAsks
  <2>8. ASSUME NEW d \in Requests, LogoutShape(d) PROVE LogoutShape(c)
    BY <2>3, <2>8 DEF LogoutShape
  <2>9. ASSUME NEW t \in Tabs, UnloadShape(t) PROVE FALSE
    BY <2>2, <2>3, <2>9 DEF UnloadShape, Unsettled
  <2> QED
    BY <2>3, <2>5, <2>6, <2>7, <2>8, <2>9 DEF Step, CookieShape
<1> QED
  BY <1>2, <1>3

\* A token the browser could present once a sign-out was sent; the one in
\* storage may outlast a sign-out that presented another account's token,
\* until its answer arrives.
OutInv ==
  \A c \in Requests : call[c].kind = "logout" =>
    \A k \in {store.refresh, cookie} \ {NoOne, Other} :
      tokens[k].state = "live" => \/ k \in Requests \ call[c].before
                                  \/ k # cookie /\ call[c].with = Other /\ call[c].pc # "ok"

\* At the start nobody has signed out.
LEMMA OutStart == ASSUME Init PROVE OutInv
BY DEF Init, OutInv, NoCall

\* When a sign-out is over the storage has been cleared.
LEMMA Clearing ==
  ASSUME CallsInv, Step, NEW c \in Requests, call[c].kind = "logout", call[c].pc # "ok", call'[c].pc = "ok"
  PROVE  SignedOutShape(c)
<1>0. call[c].pc \in {"asked", "gone"} /\ call[c] # NoCall
  BY DEF CallsInv, CallOK, NoCall
<1>1. call'[c] # call[c]
  OBVIOUS
<1>2. ASSUME NEW d \in Requests, PageStep(d),
             \/ ApiShape(d) \/ AnsweredShape(d) \/ PersistShape(d) \/ SignedOutShape(d) \/ ForgetShape(d)
             \/ OtherDone(d)
      PROVE  SignedOutShape(c)
  BY <1>0, <1>1, <1>2 DEF PageStep, ApiShape, AnsweredShape, PersistShape, ForgetShape, OtherDone
<1>3. ASSUME NEW d \in Requests, ArriveShape(d) \/ ForeignShape(d) \/ OutShape(d) PROVE FALSE
  BY <1>0, <1>1, <1>3 DEF ArriveShape, ForeignShape, OutShape, Waiting
<1>4. ASSUME NEW d \in Requests, LoginShape(d) \/ LogoutShape(d) \/ OtherAsks(d) PROVE FALSE
  BY <1>0, <1>1, <1>4 DEF LoginShape, LogoutShape, OtherAsks
<1>5. ASSUME NEW t \in Tabs, UnloadShape(t) PROVE FALSE
  BY <1>1, <1>5 DEF UnloadShape, Stops
<1> QED
  BY <1>1, <1>2, <1>3, <1>4, <1>5 DEF Step, CookieShape

\* Every step keeps it so.
LEMMA OutInvStep == ASSUME CallsInv, HeldInv, OutInv, Step PROVE OutInv'
<1>0. StoreInv /\ \A c \in Requests : CallOK(c)
  BY DEF CallsInv
<1>1. ASSUME NEW c \in Requests, call'[c].kind = "logout",
             NEW k \in {store'.refresh, cookie'} \ {NoOne, Other}, tokens'[k].state = "live"
      PROVE  \/ k \in Requests \ call'[c].before
             \/ k # cookie' /\ call'[c].with = Other /\ call'[c].pc # "ok"
  <2>1. CASE \E d \in Requests : Given(d)
    <3>1. PICK d \in Requests : Given(d)
      BY <2>1
    <3>2. k = d /\ d \notin Arrived
      BY <1>1, <3>1 DEF Given, SetCookie, Arrived
    <3>3. ~ LogoutShape(c)
      BY <3>1, NoOneAssumption DEF Given, LogoutShape
    <3>4. call'[c].before \subseteq Arrived
      BY <1>0, <1>1, <3>3, Leaving DEF CallOK
    <3> QED
      BY <3>2, <3>4
  <2>2. CASE Keeping
    <3>1. k \in {store.refresh, cookie} \ {NoOne, Other} /\ k \in TokenIds /\ (k # cookie => k # cookie')
      BY <1>0, <1>1, <2>2 DEF Keeping, StoreInv, Known
    <3>2. tokens[k].state = "live"
      BY <1>1, <3>1, Living DEF HeldInv, Arrived
    <3>3. CASE LogoutShape(c)
      <4>1. CASE Presented \in {NoOne, Other}
        BY <1>0, <1>1, <3>1, <3>3, <4>1 DEF LogoutShape, StoreInv, Presented
      <4>2. CASE Presented \notin {NoOne, Other}
        BY <1>0, <1>1, <3>1, <3>3, <4>2 DEF LogoutShape, StoreInv, Presented
      <4> QED
        BY <4>1, <4>2
    <3>4. CASE call[c].kind = "logout" /\ call'[c].before = call[c].before /\ call'[c].with = call[c].with
      <4>1. CASE SignedOutShape(c) /\ call[c].pc # "ok"
        <5>1. k = cookie' /\ k = cookie
          BY <1>1, <2>2, <4>1 DEF SignedOutShape, Empty, Keeping
        <5> QED
          BY <3>1, <3>2, <3>4, <5>1 DEF OutInv
      <4>2. CASE call'[c].pc = "ok" => call[c].pc = "ok"
        BY <3>1, <3>2, <3>4, <4>2 DEF OutInv
      <4> QED
        BY <3>4, <4>1, <4>2, Clearing
    <3> QED
      BY <1>1, <3>3, <3>4, Leaving
  <2> QED
    BY <2>1, <2>2, Presenting
<1> QED
  BY <1>1 DEF OutInv

\* Which is more than SignedOutStays.
LEMMA OutMeans == ASSUME OutInv PROVE SignedOutStays
BY DEF OutInv, SignedOutStays

-----------------------------------------------------------------------------
(* Why a token is found revoked.                                           *)

\* A request only goes on, an answered one stays as it is.
LEMMA Going ==
  ASSUME CallsInv, Step, NEW d \in Requests
  PROVE  /\ req[d].pc # "idle" => req'[d].pc # "idle" /\ req'[d].arg = req[d].arg /\ req'[d].before = req[d].before
         /\ req[d].pc = "done" => req'[d] = req[d]
<1>1. CASE UNCHANGED req
  BY <1>1
<1>2. ASSUME NEW r \in Requests, req[r].pc = "idle", ServerMove(r) PROVE d # r => req'[d] = req[d]
  BY <1>2 DEF ServerMove
<1>3. ASSUME NEW r \in Requests, NEW pc \in {"done", "mark", "reread"}, NEW ans, Goes(r, pc, ans)
      PROVE  /\ d # r => req'[d] = req[d]
             /\ req'[r].pc # "idle" /\ req'[r].arg = req[r].arg /\ req'[r].before = req[r].before /\ req[r].pc # "done"
  BY <1>3 DEF Goes, ServerMove, Fields
<1>4. ASSUME NEW r \in Requests, Served(r) \/ LoginShape(r) \/ LogoutShape(r) \/ OtherAsks(r), ~ UNCHANGED req
      PROVE  /\ req[d].pc # "idle" => req'[d].pc # "idle" /\ req'[d].arg = req[d].arg /\ req'[d].before = req[d].before
             /\ req[d].pc = "done" => req'[d] = req[d]
  <2>1. CASE Finds(r) \/ LoginShape(r) \/ LogoutShape(r) \/ OtherAsks(r)
    BY <1>2, <1>4, <2>1 DEF Finds, LoginShape, LogoutShape, OtherAsks, Asks, server
  <2>2. CASE Catches(r) \/ Issues(r) \/ Replaces(r) \/ Signs(r) \/ Misses(r)
    <3>1. \E pc \in {"done", "mark", "reread"}, ans \in {"reused", "none", "error", "session", "refused"} :
            Goes(r, pc, ans)
      BY <2>2 DEF Catches, Issues, Replaces, Signs, Misses
    <3> QED
      BY <1>3, <3>1
  <2> QED
    BY <1>4, <2>1, <2>2 DEF Served
<1> QED
  BY <1>1, <1>4
     DEF Step, ApiShape, AnsweredShape, PersistShape, SignedOutShape, ForgetShape, ArriveShape, ForeignShape, OutShape,
         OtherDone, CookieShape, UnloadShape, server

\* How an answer comes to have arrived.
LEMMA Hearing ==
  ASSUME CallsInv, Step, NEW d \in Requests, call[d].got = FALSE, call'[d].got = TRUE
  PROVE  Given(d) \/ SignedOutShape(d)
<1>0. \A c \in Requests : CallOK(c) /\ ReqOK(c)
  BY DEF CallsInv
<1>1. call'[d] # call[d]
  OBVIOUS
<1>2. ASSUME NEW c \in Requests, PageStep(c),
             \/ ApiShape(c) \/ AnsweredShape(c) \/ PersistShape(c) \/ SignedOutShape(c) \/ ForgetShape(c)
             \/ OtherDone(c)
      PROVE  c = d /\ (PersistShape(d) \/ SignedOutShape(d))
  BY <1>1, <1>2 DEF PageStep, ApiShape, AnsweredShape, ForgetShape, OtherDone, Keeps, CallFields
<1>3. ASSUME NEW c \in Requests, OutShape(c) \/ ForeignShape(c) PROVE FALSE
  BY <1>1, <1>3 DEF OutShape, ForeignShape, Stops, Keeps, CallFields
<1>4. ASSUME NEW t \in Tabs, UnloadShape(t) PROVE FALSE
  BY <1>1, <1>4 DEF UnloadShape, Stops, Keeps, CallFields
<1>5. ASSUME NEW c \in Requests, LoginShape(c) \/ LogoutShape(c) \/ OtherAsks(c) PROVE FALSE
  BY <1>1, <1>5 DEF LoginShape, LogoutShape, OtherAsks
<1>6. ASSUME NEW c \in Requests, ArriveShape(c) PROVE c = d
  BY <1>1, <1>6 DEF ArriveShape
<1>7. PersistShape(d) \/ ArriveShape(d) \/ SignedOutShape(d)
  BY <1>1, <1>2, <1>3, <1>4, <1>5, <1>6 DEF Step, CookieShape
<1>8. ASSUME PersistShape(d) \/ ArriveShape(d) PROVE Given(d)
  <2>1. call[d].kind \in {"api", "login"} /\ req[d].pc = "done" /\ req[d].ans = "session"
    BY <1>0, <1>8 DEF CallOK, ReqOK, PersistShape, ArriveShape
  <2> QED
    BY <1>8, <2>1 DEF Given, PersistShape, ArriveShape, server
<1> QED
  BY <1>7, <1>8

\* How a token comes to be revoked, and how it is found to be.
LEMMA Revoking ==
  ASSUME CallsInv, Step, NEW t \in TokenIds, tokens'[t].state = "revoked", tokens[t].state # "revoked"
  PROVE  \E d \in Requests : \/ req'[d].pc # "idle" /\ req'[d].arg = t
                             \/ req'[d].pc = "done" /\ req'[d].ans = "reused"
<1>0. StoreInv
  BY DEF CallsInv
<1>1. ASSUME NEW r \in Requests, Catches(r) PROVE req'[r].pc = "done" /\ req'[r].ans = "reused"
  BY <1>1 DEF Catches, Goes, Fields
<1>2. ASSUME NEW r \in Requests, Replaces(r) PROVE req'[r].pc # "idle" /\ req'[r].arg = t
  BY <1>2 DEF Replaces, Goes, Fields
<1>3. ASSUME NEW r \in Requests, Issues(r) \/ LoginShape(r) PROVE FALSE
  BY <1>3 DEF Issues, LoginShape, OneMore
<1>7. ASSUME NEW r \in Requests, OtherAsks(r) PROVE req'[r].pc # "idle" /\ req'[r].arg = t
  BY <1>0, <1>7 DEF OtherAsks, RevokedOne, StoreInv, Asks, server
<1>4. ASSUME NEW r \in Requests, LogoutShape(r) PROVE req'[r].pc # "idle" /\ req'[r].arg = t
  <2>1. t = Presented
    BY <1>0, <1>4 DEF LogoutShape, RevokedOne, StoreInv
  <2> QED
    BY <1>4, <2>1 DEF LogoutShape, Asks
<1>5. tokens' # tokens
  OBVIOUS
<1>6. ASSUME NEW k \in Seeds, tokens'[k].state = "gone", \A x \in TokenIds \ {k} : tokens'[x] = tokens[x] PROVE FALSE
  BY <1>6
<1> QED
  BY <1>1, <1>2, <1>3, <1>4, <1>5, <1>6, <1>7
     DEF Step, Served, Finds, Signs, Misses, ApiShape, AnsweredShape, PersistShape, SignedOutShape, ForgetShape,
         ArriveShape, ForeignShape, OutShape, OtherDone, CookieShape, UnloadShape, server

\* A request finds a token revoked when it is looked up.
LEMMA Alarming ==
  ASSUME CallsInv, Step, NEW c \in Requests, req'[c].pc = "reuse" \/ req'[c].ans = "reused"
  PROVE  \/ req[c].pc = "reuse" \/ req[c].ans = "reused"
         \/ /\ Finds(c) /\ UNCHANGED <<call, jar>>
            /\ call[c].with \in TokenIds /\ tokens[call[c].with].state = "revoked"
<1>1. CASE req'[c] = req[c]
  BY <1>1
<1>2. ASSUME NEW r \in Requests, Served(r), UNCHANGED <<call, jar>>, c = r
      PROVE  \/ req[c].pc = "reuse" \/ req[c].ans = "reused"
             \/ Finds(c) /\ call[c].with \in TokenIds /\ tokens[call[c].with].state = "revoked"
  <2>1. CASE Finds(r)
    BY <1>2, <2>1 DEF Finds
  <2>2. CASE Catches(r)
    BY <1>2, <2>2 DEF Catches
  <2>3. CASE Issues(r) \/ Replaces(r) \/ Signs(r) \/ Misses(r)
    BY <1>2, <2>3 DEF Issues, Replaces, Signs, Misses, Goes, Fields
  <2> QED
    BY <1>2, <2>1, <2>2, <2>3 DEF Served
<1>3. ASSUME NEW r \in Requests, LoginShape(r) \/ LogoutShape(r) \/ OtherAsks(r), r = c PROVE req'[c] = req[c]
  BY <1>3 DEF LoginShape, LogoutShape, OtherAsks, Asks, server
<1>4. ASSUME NEW r \in Requests, Served(r) \/ LoginShape(r) \/ LogoutShape(r) \/ OtherAsks(r), r # c
      PROVE  req'[c] = req[c]
  BY <1>4 DEF Served, Finds, Catches, Issues, Replaces, Signs, Misses, LoginShape, LogoutShape, OtherAsks, Asks, Goes,
              ServerMove, server
<1> QED
  BY <1>1, <1>2, <1>3, <1>4
     DEF Step, ApiShape, AnsweredShape, PersistShape, SignedOutShape, ForgetShape, ArriveShape, ForeignShape, OutShape,
         OtherDone, CookieShape, UnloadShape, server

\* A revoked token was presented before, or an alarm ended its session.
Outlives(d) == jar = "domain" /\ call[d].kind = "logout"
Excused(c) ==
  /\ call[c].with \in TokenIds
  /\ \E d \in Requests \ {c} : \/ d \notin call[c].before /\ req[d].arg = call[c].with
                               \/ d \in Alarms /\ d \in req[c].before
                               \/ Outlives(d)
AlarmInv ==
  /\ \A d \in Arrived : \A x \in {store.refresh, cookie} \ {NoOne, Other} : call[d].with # x \/ Outlives(d)
  /\ \A c \in Requests, d \in Requests :
       (call[c].kind \in {"api", "other"} /\ call[c].with \notin {NoOne, Other} /\ d \in call[c].before)
         => (call[d].with # call[c].with \/ Outlives(d))
  /\ \A t \in TokenIds : tokens[t].state = "revoked" =>
       \/ \E d \in Requests : req[d].pc # "idle" /\ req[d].arg = t
       \/ \E d \in Requests : d \in Alarms
  /\ \A c \in Requests : req[c].pc = "reuse" \/ req[c].ans = "reused" => Excused(c)

\* At the start no token is revoked.
LEMMA AlarmStart == ASSUME Init PROVE AlarmInv
<1>1. \A c \in Requests : req[c] = Idle /\ call[c] = NoCall
  BY DEF Init, SessionsInit
<1>2. Arrived = {} /\ \A c \in Requests : call[c].before = {} /\ req[c].pc = "idle" /\ req[c].ans = "none"
  BY <1>1 DEF Arrived, NoCall, Idle
<1>3. \A t \in TokenIds : tokens[t].state # "revoked"
  BY DEF Init, SessionsInit, NoToken
<1> QED
  BY <1>2, <1>3 DEF AlarmInv

\* Every step keeps the reasons.
LEMMA AlarmStep == ASSUME CallsInv, HeldInv, AlarmInv, Step PROVE AlarmInv'
<1>0. StoreInv /\ (\A c \in Requests : CallOK(c) /\ ReqOK(c)) /\ Changes
  BY Changing DEF CallsInv
<1>1. /\ \A d \in Requests : Outlives(d) => Outlives(d)'
      /\ Arrived \subseteq Arrived' /\ \A d \in Arrived : call'[d].with = call[d].with
  BY <1>0 DEF Changes, Lasts, Asked, Arrived, Outlives, NoCall
<1>2. \A d \in Arrived' : \A x \in {store'.refresh, cookie'} \ {NoOne, Other} : call'[d].with # x \/ Outlives(d)'
  <2>1. ASSUME NEW d \in Requests, call'[d].got, NEW x \in {store'.refresh, cookie'} \ {NoOne, Other},
               NEW c \in Requests, Given(c)
        PROVE  call'[d].with # x
    <3>1. x = c /\ c \notin Arrived
      BY <2>1 DEF Given, SetCookie, Arrived
    <3>2. call'[d].with = call[d].with \/ call'[d].with \in {store.refresh, cookie}
      BY <1>0 DEF Changes, Lasts, Asked
    <3>3. call'[d].with \in Requests => call'[d].with \in Arrived
      BY <1>0, <3>2 DEF HeldInv, CallOK
    <3> QED
      BY <3>1, <3>3
  <2>2. ASSUME NEW d \in Requests, call'[d].got, NEW x \in {store'.refresh, cookie'} \ {NoOne, Other},
               Keeping, ~ Given(d)
        PROVE  call'[d].with # x \/ Outlives(d)'
    <3>1. x \in {store.refresh, cookie}
      BY <2>2 DEF Keeping
    <3>2. CASE call[d].got
      BY <1>1, <2>2, <3>1, <3>2 DEF AlarmInv, Arrived
    <3>3. CASE ~ call[d].got
      <4>1. call[d].got = FALSE /\ call'[d].got = TRUE
        <5>1. call[d].got \in BOOLEAN
          BY <1>0 DEF CallOK
        <5>2. CallsInv'
          BY CallsStep
        <5>3. call'[d].got \in BOOLEAN
          BY <5>2 DEF CallsInv, CallOK
        <5> QED
          BY <2>2, <3>3, <5>1, <5>3
      <4>2. SignedOutShape(d)
        BY <2>2, <4>1, Hearing
      <4>3. cookie' # NoOne /\ jar = "domain"
        BY <1>0, <2>2, <4>1, <4>2 DEF SignedOutShape, Empty, StoreInv
      <4>4. call'[d].kind = "logout" /\ jar' = jar
        BY <4>2 DEF SignedOutShape, Keeps, CallFields
      <4> QED
        BY <4>3, <4>4 DEF Outlives
    <3> QED
      BY <3>2, <3>3
  <2> QED
    BY <2>1, <2>2, Presenting DEF Arrived
<1>3. \A c \in Requests, d \in Requests :
        (call'[c].kind \in {"api", "other"} /\ call'[c].with \notin {NoOne, Other} /\ d \in call'[c].before)
          => (call'[d].with # call'[c].with \/ Outlives(d)')
  <2>1. ASSUME NEW c \in Requests, NEW d \in Requests,
               call'[c].kind \in {"api", "other"}, call'[c].with \notin {NoOne, Other}, d \in call'[c].before
        PROVE  call'[d].with # call'[c].with \/ Outlives(d)'
    <3>1. Lasts(c)
      BY <1>0 DEF Changes
    <3>2. CASE call'[c].with = call[c].with /\ call'[c].before = call[c].before
      <4>1. d \in Arrived /\ call[c].kind \in {"api", "other"}
        BY <1>0, <2>1, <3>1, <3>2 DEF CallOK, Lasts, NoCall
      <4> QED
        BY <1>1, <2>1, <3>2, <4>1 DEF AlarmInv
    <3>3. CASE Asked(c)
      BY <1>1, <2>1, <3>3 DEF AlarmInv, Asked
    <3> QED
      BY <3>1, <3>2, <3>3 DEF Lasts
  <2> QED
    BY <2>1
<1>4. \A d \in Requests : d \in Alarms => d \in Alarms'
  BY Going DEF Alarms
<1>5. \A d \in Requests : req[d].pc # "idle" => req'[d].pc # "idle" /\ req'[d].arg = req[d].arg
  BY Going
<1>6. \A t \in TokenIds : tokens'[t].state = "revoked" =>
        \/ \E d \in Requests : req'[d].pc # "idle" /\ req'[d].arg = t
        \/ \E d \in Requests : d \in Alarms'
  <2>1. ASSUME NEW t \in TokenIds, tokens'[t].state = "revoked", tokens[t].state # "revoked"
        PROVE  \/ \E d \in Requests : req'[d].pc # "idle" /\ req'[d].arg = t
               \/ \E d \in Requests : d \in Alarms'
    BY <2>1, Revoking DEF Alarms
  <2>2. ASSUME NEW t \in TokenIds, tokens[t].state = "revoked"
        PROVE  \/ \E d \in Requests : req'[d].pc # "idle" /\ req'[d].arg = t
               \/ \E d \in Requests : d \in Alarms'
    BY <1>4, <1>5, <2>2 DEF AlarmInv
  <2> QED
    BY <2>1, <2>2
<1>7. ASSUME NEW c \in Requests, req'[c].pc = "reuse" \/ req'[c].ans = "reused" PROVE Excused(c)'
  <2>1. CASE req[c].pc = "reuse" \/ req[c].ans = "reused"
    <3>1. Excused(c)
      BY <2>1 DEF AlarmInv
    <3>2. req[c].pc # "idle"
      BY <1>0, <2>1 DEF ReqOK, Idle
    <3>3. call'[c].with = call[c].with /\ call'[c].before = call[c].before /\ req'[c].before = req[c].before
      BY <1>0, <3>2, Going DEF Changes, Lasts, Asked
    <3>4. \A d \in Requests : req[d].arg = call[c].with => req'[d].arg = call[c].with
      BY <1>0, <1>5, <3>1, NoOneAssumption, SeedsAssumption DEF Excused, ReqOK, Idle, TokenIds
    <3> QED
      BY <1>1, <1>4, <3>1, <3>3, <3>4 DEF Excused
  <2>2. CASE /\ Finds(c) /\ UNCHANGED <<call, jar>>
             /\ call[c].with \in TokenIds /\ tokens[call[c].with].state = "revoked"
    <3>1. /\ call[c].kind \in {"api", "other"} /\ call[c].with \notin {NoOne, Other}
          /\ req[c].pc = "idle" /\ req'[c].before = Finished
      BY <1>0, <2>2, NoOneAssumption, SeedsAssumption, OtherAssumption DEF Finds, Foreigner, CallOK, TokenIds
    <3>2. CASE \E d \in Requests : d \in Alarms
      <4>1. PICK d \in Requests : d \in Alarms
        BY <3>2
      <4>2. d # c /\ d \in Finished
        BY <3>1, <4>1 DEF Alarms, Finished
      <4> QED
        BY <1>4, <2>2, <3>1, <4>1, <4>2 DEF Excused
    <3>3. CASE \E d \in Requests : req[d].pc # "idle" /\ req[d].arg = call[c].with
      <4>1. PICK d \in Requests : req[d].pc # "idle" /\ req[d].arg = call[c].with
        BY <3>3
      <4>2. d # c /\ req'[d].arg = call[c].with /\ call[d].with = call[c].with
        BY <1>0, <1>5, <3>1, <4>1 DEF ReqOK
      <4>3. d \in call[c].before => Outlives(d)
        BY <3>1, <4>2 DEF AlarmInv
      <4> QED
        BY <1>1, <2>2, <4>2, <4>3 DEF Excused
    <3> QED
      BY <2>2, <3>2, <3>3 DEF AlarmInv
  <2> QED
    BY <1>7, <2>1, <2>2, Alarming
<1> QED
  BY <1>2, <1>3, <1>6, <1>7 DEF AlarmInv

\* Which is more than FalseAlarmNeedsOverlap.
LEMMA AlarmMeans == ASSUME AlarmInv PROVE FalseAlarmNeedsOverlap
BY DEF AlarmInv, Excused, Outlives, Alarms, FalseAlarmNeedsOverlap, Before

-----------------------------------------------------------------------------
(* One tab, every answer delivered.                                        *)

\* As long as the hypothesis of OneTabNeverFails lasts.
Peace ==
  /\ faults.lost = 0 /\ faults.foreign = 0
  /\ \A k \in TokenIds : tokens[k].state # "gone"
  /\ \A c \in Requests : call[c].kind = "api" /\ (call[c].sends = 2 => call[c].access \in fresh)
  /\ \A c \in Requests, d \in Requests : NoOne \in {call[c].tab, call[d].tab} \/ call[c].tab = call[d].tab
Undisturbed ==
  /\ Presented # NoOne
  /\ \A t \in Tabs : tab[t].page # "leaving"
  /\ \A c \in Requests : call[c].pc \notin {"failed", "gone"} /\ req[c].ans \in {"none", "session"} /\ req[c].pc # "reuse"
  /\ \A c \in Requests : call[c].pc # "refreshing" => req[c].pc \in {"idle", "done"}
  /\ \A c \in Requests : call[c].pc = "refreshing" =>
       /\ call[c].with = Presented
       /\ req[c].pc \in {"idle", "rotate", "mark"} => tokens[Presented].state = "live"
       /\ req[c].pc \in {"mark", "reread", "done"} => tokens[c].state = "live"
  /\ (\A c \in Requests : call[c].pc # "refreshing") => tokens[Presented].state = "live"
PeaceInv == Peace => Undisturbed

\* The hypothesis, once false, stays false.
LEMMA PeaceBefore == ASSUME CallsInv, HeldInv, Step, Peace' PROVE Peace
<1>0. StoreInv /\ (\A c \in Requests : CallOK(c) /\ ReqOK(c)) /\ Changes
  BY Changing DEF CallsInv
<1>1. faults.lost = 0 /\ faults.foreign = 0
  <2>1. \/ UNCHANGED faults \/ faults' = [faults EXCEPT !.lost = @ + 1]
        \/ faults' = [faults EXCEPT !.expired = @ + 1] \/ faults' = [faults EXCEPT !.foreign = @ + 1]
    BY DEF Step, Served, ApiShape, AnsweredShape, PersistShape, SignedOutShape, ForgetShape, ArriveShape, ForeignShape,
           OutShape, LoginShape, LogoutShape, OtherAsks, OtherDone, CookieShape, UnloadShape
  <2> QED
    BY <1>0, <2>1 DEF Peace, StoreInv
<1>7. ~ CookieShape /\ \A c \in Requests : ~ ForeignShape(c)
  <2>1. ~ CookieShape
    BY <1>0, <1>1 DEF CookieShape, Peace, StoreInv
  <2>2. \A c \in Requests : ForeignShape(c) => call[c].with = Other
    BY <1>0 DEF ForeignShape, ReqOK
  <2> QED
    BY <1>1, <2>1, <2>2 DEF HeldInv
<1>2. \A k \in TokenIds : tokens[k].state # "gone"
  <2>1. CASE UNCHANGED tokens
    BY <2>1 DEF Peace
  <2>2. CASE Fewer
    BY <2>2 DEF Peace, Fewer
  <2>3. ASSUME NEW r \in Requests, OneMore(r), req[r].pc \in {"idle", "rotate"}
        PROVE  \A k \in TokenIds : tokens[k].state # "gone"
    <3>1. tokens[r].state = "none"
      BY <1>0, <2>3 DEF StoreInv, NoToken
    <3> QED
      BY <2>3, <3>1 DEF Peace, OneMore
  <2>4. ASSUME NEW r \in Requests, Issues(r) \/ LoginShape(r) PROVE OneMore(r) /\ req[r].pc \in {"idle", "rotate"}
    BY <2>4 DEF Issues, LoginShape, Asks
  <2> QED
    BY <1>7, <2>1, <2>2, <2>3, <2>4
       DEF Step, Served, Finds, Catches, Replaces, Signs, Misses, ApiShape, AnsweredShape, PersistShape, SignedOutShape,
           ForgetShape, ArriveShape, OutShape, LogoutShape, OtherAsks, OtherDone, UnloadShape, server
<1>3. \A c \in Requests : call[c].kind = "api"
  BY <1>0 DEF Changes, Lasts, Peace, NoCall
<1>4. \A c \in Requests : call[c].sends = 2 => call[c].access \in fresh
  <2>1. ASSUME NEW c \in Requests, call[c].sends = 2 PROVE call'[c].sends = 2 /\ call'[c].access = call[c].access
    <3>1. call[c].pc \notin {"idle", "queued", "refreshing"} /\ call[c] # NoCall /\ call[c].retry = TRUE
      BY <1>0, <2>1 DEF CallOK, NoCall
    <3>2. CASE call'[c] = call[c]
      BY <2>1, <3>2
    <3>3. CASE AnsweredShape(c) \/ PersistShape(c) \/ SignedOutShape(c) \/ OtherDone(c)
      BY <2>1, <3>1, <3>3 DEF AnsweredShape, PersistShape, SignedOutShape, OtherDone, Keeps, CallFields
    <3>4. ASSUME NEW d \in Requests, PageStep(d), d # c PROVE call'[c] = call[c]
      BY <3>4 DEF PageStep
    <3>5. ASSUME NEW d \in Requests, ArriveShape(d) \/ OutShape(d) PROVE call'[c] = call[c]
      BY <3>1, <3>5 DEF ArriveShape, OutShape, Waiting
    <3>6. ASSUME NEW d \in Requests, LoginShape(d) \/ LogoutShape(d) \/ OtherAsks(d) PROVE call'[c] = call[c]
      BY <3>1, <3>6 DEF LoginShape, LogoutShape, OtherAsks
    <3>7. ASSUME NEW t \in Tabs, UnloadShape(t)
          PROVE  call'[c] = call[c] \/ (call'[c].sends = 2 /\ call'[c].access = call[c].access)
      BY <2>1, <3>7 DEF UnloadShape, Stops, Keeps, CallFields
    <3>8. ~ ApiShape(c) /\ ~ ForgetShape(c)
      BY <3>1 DEF ApiShape, ForgetShape
    <3> QED
      BY <1>7, <3>2, <3>3, <3>4, <3>5, <3>6, <3>7, <3>8 DEF Step
  <2>2. fresh' \subseteq fresh \/ \E r \in Requests : fresh' = fresh \cup {r} /\ call[r].got = FALSE
    <3>1. ASSUME NEW r \in Requests, Signs(r) \/ LoginShape(r)
          PROVE  fresh' = fresh \cup {r} /\ call[r].got = FALSE
      BY <1>0, <3>1 DEF Signs, LoginShape, ReqOK, NoCall
    <3> QED
      BY <1>7, <3>1 DEF Step, Served, Finds, Catches, Issues, Replaces, Misses, ApiShape, AnsweredShape, PersistShape,
                        SignedOutShape, ForgetShape, ArriveShape, OutShape, LogoutShape, OtherAsks, OtherDone,
                        UnloadShape
  <2> QED
    BY <2>1, <2>2 DEF Peace, HeldInv, Arrived
<1>5. \A c \in Requests : call[c].tab = NoOne \/ call'[c].tab = call[c].tab
  <2>1. ASSUME NEW c \in Requests, call'[c] # call[c] PROVE call[c] = NoCall \/ \E F : Keeps(c, F) /\ "tab" \notin F
    <3>1. \A pc : Stops(c, pc) => \E F : Keeps(c, F) /\ "tab" \notin F
      BY DEF Stops
    <3>2. \A x : Resumes(c, x) => \E F : Keeps(c, F) /\ "tab" \notin F
      BY DEF Resumes
    <3>3. AnsweredShape(c) \/ PersistShape(c) \/ SignedOutShape(c) \/ OtherDone(c) =>
            \E F : Keeps(c, F) /\ "tab" \notin F
      BY DEF AnsweredShape, PersistShape, SignedOutShape, OtherDone
    <3>4. ASSUME NEW d \in Requests, PageStep(d) PROVE d = c
      BY <2>1, <3>4 DEF PageStep
    <3>5. ASSUME NEW d \in Requests, ArriveShape(d) \/ OutShape(d) PROVE \E F : Keeps(c, F) /\ "tab" \notin F
      BY <2>1, <3>1, <3>2, <3>5 DEF ArriveShape, OutShape
    <3>6. ASSUME NEW d \in Requests, LoginShape(d) \/ LogoutShape(d) \/ OtherAsks(d) PROVE call[c] = NoCall
      BY <2>1, <3>6 DEF LoginShape, LogoutShape, OtherAsks
    <3>7. ASSUME NEW t \in Tabs, UnloadShape(t) PROVE \E F : Keeps(c, F) /\ "tab" \notin F
      BY <2>1, <3>1, <3>7 DEF UnloadShape
    <3>8. ApiShape(c) \/ ForgetShape(c) => call[c] = NoCall
      BY DEF ApiShape, ForgetShape
    <3> QED
      BY <1>7, <2>1, <3>3, <3>4, <3>5, <3>6, <3>7, <3>8 DEF Step
  <2> QED
    BY <2>1 DEF Keeps, CallFields, NoCall
<1>6. \A c \in Requests, d \in Requests : NoOne \in {call[c].tab, call[d].tab} \/ call[c].tab = call[d].tab
  BY <1>5 DEF Peace
<1> QED
  BY <1>1, <1>2, <1>3, <1>4, <1>6 DEF Peace

\* At the start the session the browser presents is live.
LEMMA PeaceStart == ASSUME Init PROVE PeaceInv
<1>1. PICK s \in Seeds : store = [token |-> s, refresh |-> s] /\ cookie = SetCookie(s)
  BY DEF Init
<1>2. Presented = s /\ s # NoOne /\ tokens[s].state = "live"
  BY <1>1, SeedsAssumption DEF Init, SessionsInit, Presented, SetCookie, TokenIds
<1>3. \A c \in Requests : call[c].pc = "idle" /\ req[c].pc = "idle" /\ req[c].ans = "none"
  BY DEF Init, SessionsInit, NoCall, Idle
<1> QED
  BY <1>2, <1>3 DEF Init, PeaceInv, Undisturbed

\* While it lasts one call at most asks for a new session, and a request at
\* the server is that call's.
LEMMA Alone ==
  ASSUME CallsInv, TabsInv, Peace, Undisturbed, NEW c \in Requests, call[c].pc = "refreshing"
  PROVE  \A d \in Requests \ {c} : call[d].pc # "refreshing" /\ req[d].pc \in {"idle", "done"}
<1>1. \A d \in Requests : call[d].pc = "refreshing" => call[d].tab \in Tabs
  BY DEF CallsInv, CallOK
<1>2. \A d \in Requests : call[d].pc = "refreshing" => call[d].tab = call[c].tab
  BY <1>1, BrowserAssumption DEF Peace
<1> QED
  BY <1>2 DEF TabsInv, Undisturbed

\* The server goes on with the one refresh under way.
LEMMA PeaceServed ==
  ASSUME CallsInv, TabsInv, HeldInv, Peace, Undisturbed, Peace', NEW r \in Requests, Served(r),
         UNCHANGED <<call, tab, store, cookie, jar, faults>>
  PROVE  Undisturbed'
<1>0. StoreInv /\ CallOK(r) /\ ReqOK(r)
  BY DEF CallsInv
<1>1. call[r].pc = "refreshing"
  BY DEF Served, Finds, Foreigner, Catches, Issues, Replaces, Signs, Misses, Undisturbed, Peace
<1>2. \A d \in Requests \ {r} : call[d].pc # "refreshing" /\ req[d].pc \in {"idle", "done"}
  BY <1>1, Alone
<1>3. /\ call[r].with = Presented /\ Presented # NoOne /\ Presented' = Presented /\ Presented \in TokenIds
      /\ r # Presented
  BY <1>0, <1>1 DEF Undisturbed, Presented, CallOK, StoreInv, Known, HeldInv, Arrived, Peace
<1>4. \A d \in Requests \ {r} : req'[d] = req[d]
  BY DEF Served, Finds, Catches, Issues, Replaces, Signs, Misses, Goes, ServerMove
<1>5. /\ req'[r].ans \in {"none", "session"} /\ req'[r].pc # "reuse"
      /\ req'[r].pc \in {"idle", "rotate", "mark"} => tokens'[Presented].state = "live"
      /\ req'[r].pc \in {"mark", "reread", "done"} => tokens'[r].state = "live"
  <2>1. CASE Finds(r)
    BY <1>1, <1>3, <2>1, OtherAssumption DEF Finds, Undisturbed
  <2>2. CASE Catches(r)
    BY <2>2 DEF Catches, Undisturbed
  <2>3. CASE Issues(r)
    BY <1>1, <1>3, <2>3 DEF Issues, OneMore, Goes, Fields, Undisturbed
  <2>4. CASE Replaces(r)
    <3>1. req[r].arg = Presented
      BY <1>0, <1>3, <2>4 DEF Replaces, ReqOK
    <3>2. Goes(r, "reread", "none") /\ tokens'[r] = tokens[r]
      BY <1>3, <2>4, <3>1 DEF Replaces, Peace, TokenIds
    <3> QED
      BY <1>1, <2>4, <3>2 DEF Replaces, Goes, Fields, Undisturbed
  <2>5. CASE Signs(r)
    BY <1>1, <2>5 DEF Signs, Goes, Fields, Undisturbed
  <2>6. CASE Misses(r)
    BY <2>6 DEF Misses, Peace
  <2> QED
    BY <2>1, <2>2, <2>3, <2>4, <2>5, <2>6 DEF Served
<1> QED
  BY <1>1, <1>2, <1>3, <1>4, <1>5 DEF Undisturbed

\* No step disturbs a tab at peace.
LEMMA PeaceStep == ASSUME CallsInv, TabsInv, HeldInv, PeaceInv, Step PROVE PeaceInv'
<1> SUFFICES ASSUME Peace' PROVE Undisturbed'
  BY DEF PeaceInv
<1>0. StoreInv /\ (\A c \in Requests : CallOK(c) /\ ReqOK(c)) /\ Peace /\ Undisturbed
  BY PeaceBefore DEF CallsInv, PeaceInv
<1>1. ASSUME NEW c \in Requests, Served(c), UNCHANGED <<call, tab, store, cookie, jar, faults>> PROVE Undisturbed'
  BY <1>0, <1>1, PeaceServed
<1>2. ASSUME NEW c \in Requests, LoginShape(c) \/ LogoutShape(c) \/ ForgetShape(c) \/ OtherAsks(c) PROVE FALSE
  BY <1>2 DEF LoginShape, LogoutShape, ForgetShape, OtherAsks, Peace
<1>3. ASSUME NEW c \in Requests, PersistShape(c) \/ SignedOutShape(c) \/ OtherDone(c) PROVE FALSE
  BY <1>0, <1>3 DEF PersistShape, SignedOutShape, OtherDone, Peace
<1>11. ASSUME NEW c \in Requests, ForeignShape(c) PROVE FALSE
  BY <1>0, <1>11 DEF ForeignShape, Undisturbed
<1>12. ~ CookieShape
  BY <1>0 DEF CookieShape, Peace, StoreInv
<1>4. ASSUME NEW c \in Requests, OutShape(c) PROVE FALSE
  <2>1. call[c].kind = "api" /\ req[c].ans = "session"
    BY <1>0, <1>4 DEF OutShape, Undisturbed, Peace, ReqOK
  <2>2. faults' = [faults EXCEPT !.lost = @ + 1] /\ faults.lost = 0 /\ faults'.lost = 0
    BY <1>0, <1>4, <2>1 DEF OutShape, Peace
  <2> QED
    BY <1>0, <2>2 DEF StoreInv
<1>5. ASSUME NEW t \in Tabs, UnloadShape(t) PROVE FALSE
  BY <1>0, <1>5 DEF UnloadShape, Undisturbed
<1>6. ASSUME NEW c \in Requests, ApiShape(c), PageStep(c) PROVE Undisturbed'
  <2>1. /\ UNCHANGED <<tokens, req, tab, store, cookie>> /\ call[c].pc = "idle" /\ call'[c].pc = "sent"
        /\ \A d \in Requests \ {c} : call'[d] = call[d]
    BY <1>6 DEF ApiShape, PageStep, server, NoCall
  <2>2. req[c].pc \in {"idle", "done"} /\ Presented' = Presented
    BY <1>0, <2>1 DEF Undisturbed, Presented
  <2> QED
    BY <1>0, <2>1, <2>2 DEF Undisturbed
<1>7. ASSUME NEW c \in Requests, AnsweredShape(c), PageStep(c) PROVE Undisturbed'
  <2>1. /\ UNCHANGED <<tokens, req, store, cookie>> /\ call[c].pc = "sent" /\ Presented' = Presented
        /\ \A d \in Requests \ {c} : call'[d] = call[d]
    BY <1>7 DEF AnsweredShape, PageStep, server, Presented
  <2>2. CASE call'[c].pc \in {"ok", "queued"} /\ UNCHANGED tab
    BY <1>0, <2>1, <2>2 DEF Undisturbed
  <2>3. CASE call[c].retry = TRUE /\ call[c].access \notin fresh
    <3>1. call[c].sends = 2
      BY <1>0, <2>1, <2>3 DEF CallOK
    <3> QED
      BY <1>0, <2>3, <3>1 DEF Peace
  <2>4. CASE /\ call'[c].pc = "refreshing" /\ call'[c].with = Presented /\ call[c].retry = FALSE
             /\ ~ tab[call[c].tab].refreshing /\ tab' = [tab EXCEPT ![call[c].tab].refreshing = TRUE]
    <3>1. req[c].pc = "idle" /\ call[c].tab \in Tabs
      BY <1>0, <2>1, <2>4 DEF ReqOK, CallOK, Peace
    <3>2. \A d \in Requests : call[d].pc # "refreshing"
      <4>1. ASSUME NEW d \in Requests, call[d].pc = "refreshing" PROVE FALSE
        <5>1. call[d].tab \in Tabs
          BY <1>0, <4>1 DEF CallOK
        <5>2. call[d].tab = call[c].tab
          BY <1>0, <3>1, <5>1, BrowserAssumption DEF Peace
        <5> QED
          BY <2>4, <4>1, <5>2 DEF TabsInv
      <4> QED
        BY <4>1
    <3>3. tokens[Presented].state = "live"
      BY <1>0, <3>2 DEF Undisturbed
    <3>4. \A t \in Tabs : tab'[t].page # "leaving"
      BY <1>0, <2>4, <3>1 DEF TabsInv, Undisturbed
    <3> QED
      BY <1>0, <2>1, <2>4, <3>1, <3>2, <3>3, <3>4 DEF Undisturbed
  <2> QED
    BY <1>7, <2>2, <2>3, <2>4 DEF AnsweredShape
<1>8. ASSUME NEW c \in Requests, ArriveShape(c) PROVE Undisturbed'
  <2>1. Presented' = c /\ c # NoOne
    BY <1>8, NoOneAssumption DEF ArriveShape, Presented, SetCookie
  <2>2. tokens'[c].state = "live" /\ UNCHANGED req
    BY <1>0, <1>8 DEF ArriveShape, Undisturbed, server
  <2>3. call[c].pc = "refreshing" /\ call[c].tab \in Tabs
    BY <1>0, <1>8 DEF ArriveShape, CallOK
  <2>4. \A d \in Requests : call'[d].pc \notin {"refreshing", "failed", "gone"} /\ req[d].pc \in {"idle", "done"}
    <3>1. \A d \in Requests \ {c} : call[d].pc # "refreshing" /\ req[d].pc \in {"idle", "done"}
      BY <1>0, <2>3, Alone
    <3>2. call'[c].pc = "sent" /\ \A d \in Waiting(call[c].tab) : call'[d].pc = "sent"
      BY <1>8 DEF ArriveShape, Resumes
    <3> QED
      BY <1>0, <1>8, <3>1, <3>2 DEF ArriveShape, Undisturbed
  <2>5. \A t \in Tabs : tab'[t].page # "leaving"
    BY <1>0, <1>8, <2>3 DEF TabsInv, Undisturbed, ArriveShape
  <2> QED
    BY <1>0, <2>1, <2>2, <2>4, <2>5 DEF Undisturbed
<1>9. ASSUME UNCHANGED <<req, call, tab, store, cookie>>, UNCHANGED tokens PROVE Undisturbed'
  BY <1>0, <1>9 DEF Undisturbed, Presented
<1>10. ASSUME NEW k \in Seeds, tokens'[k].state = "gone" PROVE FALSE
  BY <1>10 DEF Peace, TokenIds
<1> QED
  BY <1>1, <1>2, <1>3, <1>4, <1>5, <1>6, <1>7, <1>8, <1>9, <1>10, <1>11, <1>12 DEF Step

\* Which is more than OneTabNeverFails.
LEMMA PeaceMeans == ASSUME PeaceInv PROVE OneTabNeverFails
BY DEF PeaceInv, Peace, Undisturbed, OneTabNeverFails

-----------------------------------------------------------------------------
(* The theorems.                                                           *)

\* The invariant of every behaviour.
IInv == CallsInv /\ RecordsInv /\ TabsInv /\ HeldInv /\ OutInv /\ AlarmInv /\ PeaceInv

\* It holds at the start.
LEMMA IInvStart == Init => IInv
BY CallsStart, RecordsStart, TabsStart, HeldStart, OutStart, AlarmStart, PeaceStart DEF IInv

\* Every step keeps it.
LEMMA IInvStep == IInv /\ [Next]_bvars => IInv'
<1> SUFFICES ASSUME IInv, [Next]_bvars PROVE IInv'
  OBVIOUS
<1>1. Step /\ RecordsInv'
  BY Steps, RecordsStep DEF IInv
<1> QED
  BY <1>1, CallsStep, TabsStep, HeldStep, OutInvStep, AlarmStep, PeaceStep DEF IInv

\* So it always holds.
LEMMA IInvAlways == Spec => []IInv
BY IInvStart, IInvStep, PTL DEF Spec

\* The interceptor retries a call once at most, has one refresh per tab
\* under way, and in one tab that loses no answer, and whose cookie no other
\* app uses, no call fails because its access token expired: for any calls,
\* tabs and sessions, and however many access tokens expire.
THEOREM BrowserSafety == Spec => []BrowserInv
<1>1. IInv => BrowserInv
  BY Typed, OneRefresh, PeaceMeans DEF IInv, BrowserInv
<1> QED
  BY <1>1, IInvAlways, PTL

\* After a sign-out of the storefront the browser presents no session of the
\* account that was there before: what works came with a later answer.
THEOREM SignedOutSafety == Spec => []SignedOutStays
<1>1. IInv => SignedOutStays
  BY OutMeans DEF IInv
<1> QED
  BY <1>1, IInvAlways, PTL

\* The server takes a session of the app for stolen only when two requests
\* held its token at once, an answer was lost, another app presented it from
\* the cookie they share, a cookie outlived a sign-out, or after an earlier
\* alarm: whatever the other apps do to the cookie.
THEOREM AlarmSafety == Spec => []FalseAlarmNeedsOverlap
<1>1. IInv => FalseAlarmNeedsOverlap
  BY AlarmMeans DEF IInv
<1> QED
  BY <1>1, IInvAlways, PTL

=============================================================================
