---------------------------- MODULE Identity_proofs ----------------------------
(***************************************************************************)
(* Proofs about Identity, for any requests, sessions, limits and initial   *)
(* accounts, and any mix of operations.                                    *)
(***************************************************************************)
EXTENDS Identity, FiniteSetTheorems, TLAPS

-----------------------------------------------------------------------------
(* The frame.                                                              *)

Fields == {"op", "pc", "arg", "ans", "snap", "before"}

FrameInv ==
  /\ load \in Workloads
  /\ DOMAIN req = Requests
  /\ \A r \in Requests :
        /\ DOMAIN req[r] = Fields
        /\ req[r].pc = "idle" => req[r] = Idle
        /\ req[r].pc # "idle" => req[r].op \in load
        /\ req[r].before \subseteq Finished \ {r}

\* A request goes on; what it began with, it keeps.
Moves(r) ==
  /\ req[r].pc # "done" /\ UNCHANGED load
  /\ DOMAIN req' = Requests /\ DOMAIN req'[r] = Fields
  /\ \A d \in Requests \ {r} : req'[d] = req[d]
  /\ req'[r].before = IF req[r].pc = "idle" THEN Finished ELSE req[r].before
  /\ req[r].pc # "idle" => req'[r].op = req[r].op /\ req'[r].arg = req[r].arg
  /\ req'[r].pc # "idle" /\ req'[r].op \in load

Begins(r, op, x, doc, pc, ans) ==
  /\ Moves(r) /\ req[r].pc = "idle"
  /\ req'[r].op = op /\ req'[r].arg = x /\ req'[r].snap = doc /\ req'[r].pc = pc /\ req'[r].ans = ans

Goes(r, pc, ans) ==
  /\ Moves(r) /\ req[r].pc # "idle"
  /\ req'[r].pc = pc /\ req'[r].ans = ans /\ req'[r].snap = req[r].snap

\* A request that goes on keeps the frame.
LEMMA FrameMoves == ASSUME FrameInv, NEW r \in Requests, Moves(r) PROVE FrameInv'
<1>1. Finished \subseteq Finished' /\ r \notin Finished
  BY DEF Moves, Finished
<1>2. \A d \in Requests : req'[d].before \subseteq Finished' \ {d}
  BY <1>1 DEF FrameInv, Moves
<1> QED
  BY <1>2 DEF FrameInv, Moves

\* What the model's Enter does to the request.
LEMMA EnterBegins ==
  ASSUME FrameInv, NEW r \in Requests
  PROVE  \A op, x, doc, pc, ans :
           Enter(r, op, x, doc, pc, ans) /\ pc # "idle" => Begins(r, op, x, doc, pc, ans)
BY DEF FrameInv, Enter, Begins, Moves, Fields

\* What the model's Answer and Goto do to the request.
LEMMA AnswerGoes ==
  ASSUME FrameInv, NEW r \in Requests, req[r].pc \notin {"idle", "done"}, UNCHANGED load
  PROVE  /\ \A ans : Answer(r, ans) => Goes(r, "done", ans)
         /\ \A pc : Goto(r, pc) /\ pc # "idle" => Goes(r, pc, req[r].ans)
BY DEF FrameInv, Answer, Goto, Goes, Moves, Fields

-----------------------------------------------------------------------------
(* The sessions.                                                           *)

RefreshOps == {"refresh", "sellerRefresh"}
Renewed(a) == req[a].op \in RefreshOps /\ req[a].ans = "session"

\* A token in a rotation was issued before, and none of the rotations that
\* the request finds answered was of this token.
Rotation(r) ==
  /\ req[r].ans = "session" => req[r].pc = "done"
  /\ req[r].pc \in {"rotate", "mark", "reread", "reuse"} => req[r].op \in RefreshOps
  /\ req[r].op \in RefreshOps =>
       /\ req[r].pc \in {"rotate", "mark", "reread", "reuse", "done"}
       /\ req[r].pc # "done" => req[r].ans = "none"
       /\ (req[r].pc \in {"rotate", "mark", "reread"} \/ req[r].ans = "session") =>
            /\ req[r].arg \in TokenIds /\ tokens[req[r].arg].state # "none"
            /\ req[r].arg \in Requests => req[req[r].arg].pc = "done"
            /\ \A a \in Before(r) : Renewed(a) => req[a].arg # req[r].arg
       /\ (req[r].pc = "reread" \/ req[r].ans = "session") =>
            tokens[req[r].arg].state \in {"revoked", "gone"}

TokensInv ==
  /\ tokens \in [TokenIds -> TokenRecord]
  /\ \A r \in Requests : req[r].pc \notin {"mark", "reread", "done"} => tokens[r].state = "none"
  /\ \A t \in TokenIds : \A x \in tokens[t].line : x \in Requests => req[x].pc # "idle"
  /\ \A r \in Requests : Rotation(r)

\* Requests that have revoked every session, answered or not.
Purged(e) ==
  \/ req[e].ans \in {"ended", "reused"}
  \/ req[e].pc = "saveAdmin" /\ (req[e].op \in {"ban", "delete"} \/ req[e].arg = "deactivate")
  \/ req[e].pc = "sellerSave" /\ req[e].op = "sellerBan"

\* What a session of this line may say to one that revoked all.
Spared(L, e) == (\E x \in L : Preceded(x, e)) => \E x \in L : Overlap(x, e)

EndedInv ==
  /\ \A e \in Requests : Purged(e) =>
       /\ req[e].pc # "idle"
       /\ \A t \in TokenIds : tokens[t].state = "live" => Spared(tokens[t].line, e)
  /\ \A r \in Requests : req[r].pc = "rotate" =>
       \A e \in Before(r) : Purged(e) => Spared(tokens[req[r].arg].line, e)

SessionsInv == FrameInv /\ TokensInv /\ EndedInv

\* Tokens are revoked, or expire; none comes back.
Shrinks ==
  /\ tokens' \in [TokenIds -> TokenRecord]
  /\ \A t \in TokenIds :
       /\ tokens'[t].line = tokens[t].line
       /\ \/ tokens'[t].state = tokens[t].state
          \/ tokens[t].state # "none" /\ tokens'[t].state \in {"revoked", "gone"}

\* A line the request e has spared stays spared.
LEMMA SparedKept ==
  ASSUME NEW r \in Requests, Moves(r), NEW e \in Requests, req[e].pc # "idle",
         NEW t \in TokenIds, \A x \in tokens[t].line : x \in Requests => req[x].pc # "idle",
         tokens'[t].line = tokens[t].line, Spared(tokens[t].line, e)
  PROVE  Spared(tokens[t].line, e)'
<1>1. \A x \in tokens[t].line : x \in Requests => Before(x)' = Before(x)
  BY DEF Moves, Before
<1>2. Before(e)' = Before(e)
  BY DEF Moves, Before
<1> QED
  BY <1>1, <1>2 DEF Spared, Preceded, Overlap

\* A step that issues nothing, and counts as an end of all sessions only if
\* it left none.
LEMMA ShrinkStep ==
  ASSUME SessionsInv, NEW r \in Requests, Moves(r), Shrinks,
         req[r].pc \in {"mark", "reread"} => req'[r].pc \in {"reread", "done"},
         Rotation(r)',
         Purged(r)' => Purged(r) \/ \A t \in TokenIds : tokens'[t].state # "live",
         req'[r].pc = "rotate" => req[r].pc = "idle" /\ tokens[req'[r].arg].state = "live"
  PROVE  SessionsInv'
<1>0. FrameInv /\ TokensInv /\ EndedInv
  BY DEF SessionsInv
<1>1. FrameInv'
  BY <1>0, FrameMoves
<1>2. \A d \in Requests \ {r} : req'[d] = req[d]
  BY DEF Moves
<1>3. TokensInv'
  <2>1. \A d \in Requests \ {r} : Rotation(d)'
    <3> SUFFICES ASSUME NEW d \in Requests \ {r} PROVE Rotation(d)'
      OBVIOUS
    <3>1. Rotation(d) /\ req'[d] = req[d] /\ req[d].before \subseteq Finished \ {d}
      BY <1>0, <1>2 DEF TokensInv, FrameInv
    <3>2. \A a \in Before(d) : a # r /\ req'[a] = req[a]
      BY <1>2, <3>1 DEF Before, Moves, Finished
    <3>3. \A a \in Before(d) : Renewed(a)' = Renewed(a)
      BY <3>2 DEF Renewed
    <3>4. Before(d)' = Before(d)
      BY <3>1 DEF Before
    <3>5. req[d].arg \in Requests /\ req[req[d].arg].pc = "done" => req'[req[d].arg].pc = "done"
      BY <1>2 DEF Moves
    <3> QED
      BY <3>1, <3>2, <3>3, <3>4, <3>5 DEF Rotation, Shrinks
  <2>2. \A d \in Requests : req'[d].pc \notin {"mark", "reread", "done"} => tokens'[d].state = "none"
    BY <1>0, <1>2 DEF TokensInv, Shrinks, Moves, TokenIds
  <2>3. \A t \in TokenIds : \A x \in tokens'[t].line : x \in Requests => req'[x].pc # "idle"
    BY <1>0, <1>2 DEF TokensInv, Shrinks, Moves
  <2> QED
    BY <2>1, <2>2, <2>3 DEF TokensInv, Shrinks
<1>4. \A t \in TokenIds : \A x \in tokens[t].line : x \in Requests => req[x].pc # "idle"
  BY <1>0 DEF TokensInv
<1>5. ASSUME NEW e \in Requests, Purged(e)', NEW t \in TokenIds, tokens'[t].state = "live"
      PROVE  Spared(tokens[t].line, e)'
  <2>1. Purged(e) /\ tokens[t].state = "live"
    BY <1>2, <1>5 DEF Purged, Shrinks
  <2>2. Spared(tokens[t].line, e) /\ req[e].pc # "idle" /\ tokens'[t].line = tokens[t].line
    BY <1>0, <2>1 DEF EndedInv, Shrinks
  <2> QED
    BY <1>4, <2>2, SparedKept
<1>6. ASSUME NEW d \in Requests, req'[d].pc = "rotate", NEW e \in Requests, e \in Before(d)', Purged(e)',
             NEW t, t = req'[d].arg
      PROVE  t \in TokenIds /\ Spared(tokens[t].line, e)'
  <2>1. t \in TokenIds
    <3>1. Rotation(d)'
      BY <1>3 DEF TokensInv
    <3> QED
      BY <1>6, <3>1 DEF Rotation
  <2>2. e # r /\ req[e].pc = "done" /\ Purged(e)
    BY <1>0, <1>2, <1>6 DEF FrameInv, Before, Finished, Moves, Purged
  <2>3. Spared(tokens[t].line, e)
    <3>1. CASE d = r
      BY <1>0, <1>6, <2>1, <2>2, <3>1 DEF EndedInv
    <3>2. CASE d # r
      BY <1>0, <1>2, <1>6, <2>2, <3>2 DEF EndedInv, Before
    <3> QED
      BY <3>1, <3>2
  <2>4. tokens'[t].line = tokens[t].line
    BY <2>1 DEF Shrinks
  <2>5. Spared(tokens[t].line, e)'
    BY <1>4, <2>1, <2>2, <2>3, <2>4, SparedKept
  <2> QED
    BY <2>1, <2>5
<1>7. EndedInv'
  <2>1. \A e \in Requests : Purged(e)' => req'[e].pc # "idle"
    BY <1>0, <1>2 DEF EndedInv, Purged, Moves
  <2> QED
    BY <1>1, <1>5, <1>6, <2>1 DEF EndedInv, FrameInv, Before, Finished
<1> QED
  BY <1>1, <1>3, <1>7 DEF SessionsInv

\* A step that issues a session: of no line, or of the line of the token
\* that is rotated.
LEMMA IssueStep ==
  ASSUME SessionsInv, NEW r \in Requests, Moves(r), NEW L, Issue(r, L),
         req[r].pc \notin {"idle", "mark", "reread", "done"}, req'[r].pc \in {"mark", "done"},
         ~ Purged(r)', Rotation(r)',
         L = {} \/ (req[r].pc = "rotate" /\ L = tokens[req[r].arg].line)
  PROVE  SessionsInv'
<1>0. FrameInv /\ TokensInv /\ EndedInv
  BY DEF SessionsInv
<1>1. FrameInv'
  BY <1>0, FrameMoves
<1>2. \A d \in Requests \ {r} : req'[d] = req[d]
  BY DEF Moves
<1>3. r \in TokenIds /\ tokens[r].state = "none" /\ r \notin Seeds
  BY <1>0, SeedsAssumption DEF TokensInv, TokenIds
<1>4. /\ L \subseteq TokenIds
      /\ \A x \in L : x \in Requests => req[x].pc # "idle"
  BY <1>0 DEF TokensInv, Rotation, TokenRecord
<1>5. /\ tokens' \in [TokenIds -> TokenRecord]
      /\ tokens'[r].state = "live" /\ tokens'[r].line = L \cup {r}
      /\ \A t \in TokenIds \ {r} : tokens'[t] = tokens[t]
  BY <1>0, <1>3, <1>4 DEF TokensInv, Issue, TokenRecord
<1>6. TokensInv'
  <2>1. ASSUME NEW d \in Requests \ {r}
        PROVE  Rotation(d)'
    <3>1. Rotation(d) /\ req'[d] = req[d] /\ req[d].before \subseteq Finished \ {d}
      BY <1>0, <1>2 DEF TokensInv, FrameInv
    <3>2. \A a \in Before(d) : a # r /\ req'[a] = req[a]
      BY <1>2, <3>1 DEF Before, Moves, Finished
    <3>3. \A a \in Before(d) : Renewed(a)' = Renewed(a)
      BY <3>2 DEF Renewed
    <3>4. Before(d)' = Before(d)
      BY <3>1 DEF Before
    <3>5. req[d].arg \in Requests /\ req[req[d].arg].pc = "done" => req'[req[d].arg].pc = "done"
      BY <1>2 DEF Moves
    <3>6. req[d].arg \in TokenIds /\ tokens[req[d].arg].state # "none" => tokens'[req[d].arg] = tokens[req[d].arg]
      BY <1>3, <1>5
    <3> QED
      BY <3>1, <3>2, <3>3, <3>4, <3>5, <3>6 DEF Rotation
  <2>2. \A d \in Requests : req'[d].pc \notin {"mark", "reread", "done"} => tokens'[d].state = "none"
    BY <1>0, <1>2, <1>5 DEF TokensInv, TokenIds
  <2>3. \A t \in TokenIds : \A x \in tokens'[t].line : x \in Requests => req'[x].pc # "idle"
    BY <1>0, <1>2, <1>4, <1>5 DEF TokensInv, Moves
  <2> QED
    BY <1>5, <2>1, <2>2, <2>3 DEF TokensInv
<1>7. \A t \in TokenIds : \A x \in tokens[t].line : x \in Requests => req[x].pc # "idle"
  BY <1>0 DEF TokensInv
<1>8. ASSUME NEW e \in Requests, Purged(e)', NEW t \in TokenIds, tokens'[t].state = "live"
      PROVE  Spared(tokens[t].line, e)'
  <2>1. e # r /\ Purged(e) /\ req[e].pc # "idle"
    BY <1>0, <1>2, <1>8 DEF Purged, EndedInv
  <2>2. CASE t # r
    <3>1. tokens[t].state = "live" /\ tokens'[t].line = tokens[t].line
      BY <1>5, <1>8, <2>2
    <3>2. Spared(tokens[t].line, e)
      BY <1>0, <2>1, <3>1 DEF EndedInv
    <3> QED
      BY <1>7, <2>1, <3>1, <3>2, SparedKept
  <2>3. CASE t = r /\ e \notin Before(r)
    <3>1. Before(e)' = Before(e) /\ Before(r)' = Before(r) /\ r \notin Before(e)
      BY <1>0, <2>1 DEF Moves, Before, FrameInv, Finished
    <3>2. Overlap(r, e)' /\ r \in tokens'[t].line
      BY <1>5, <2>3, <3>1 DEF Overlap
    <3> QED
      BY <3>2 DEF Spared
  <2>4. CASE t = r /\ e \in Before(r)
    <3>1. Before(e)' = Before(e) /\ r \notin Before(e)
      BY <1>0, <2>1 DEF Moves, Before, FrameInv, Finished
    <3>2. ~ Preceded(r, e)'
      BY <1>3, <3>1 DEF Preceded
    <3>3. CASE L = {}
      <4>1. tokens'[t].line = {r}
        BY <1>5, <2>4, <3>3
      <4> QED
        BY <3>2, <4>1 DEF Spared
    <3>4. CASE req[r].pc = "rotate" /\ L = tokens[req[r].arg].line
      <4>1. PICK p : p = req[r].arg
        OBVIOUS
      <4>2. p \in TokenIds /\ p # r /\ L = tokens[p].line /\ tokens'[p].line = tokens[p].line
        BY <1>0, <1>3, <1>5, <3>4, <4>1 DEF TokensInv, Rotation
      <4>3. Spared(tokens[p].line, e)
        BY <1>0, <2>1, <2>4, <3>4, <4>1 DEF EndedInv
      <4>4. Spared(tokens[p].line, e)'
        BY <1>7, <2>1, <4>2, <4>3, SparedKept
      <4> QED
        BY <1>5, <2>4, <3>2, <4>2, <4>4 DEF Spared
    <3> QED
      BY <3>3, <3>4
  <2> QED
    BY <2>2, <2>3, <2>4
<1>9. ASSUME NEW d \in Requests, req'[d].pc = "rotate", NEW e \in Requests, e \in Before(d)', Purged(e)',
             NEW t, t = req'[d].arg
      PROVE  Spared(tokens[t].line, e)'
  <2>1. d # r /\ req[d].pc = "rotate" /\ Rotation(d) /\ req[d] = req'[d]
    BY <1>0, <1>2, <1>9 DEF TokensInv
  <2>2. t \in TokenIds /\ tokens'[t].line = tokens[t].line
    BY <1>3, <1>5, <1>9, <2>1 DEF Rotation
  <2>3. Purged(e) /\ req[e].pc # "idle" /\ e \in Before(d)
    BY <1>0, <1>2, <1>9, <2>1 DEF Purged, EndedInv, Before
  <2>4. Spared(tokens[t].line, e)
    BY <1>0, <1>9, <2>1, <2>3 DEF EndedInv
  <2> QED
    BY <1>7, <2>2, <2>3, <2>4, SparedKept
<1>10. EndedInv'
  <2>1. \A e \in Requests : Purged(e)' => req'[e].pc # "idle"
    BY <1>0, <1>2 DEF EndedInv, Purged, Moves
  <2> QED
    BY <1>1, <1>8, <1>9, <2>1 DEF EndedInv, FrameInv, Before, Finished
<1> QED
  BY <1>1, <1>6, <1>10 DEF SessionsInv

\* Time passes.
LEMMA TimeStep ==
  ASSUME SessionsInv, UNCHANGED <<req, load>>, Shrinks
  PROVE  SessionsInv'
<1>0. FrameInv /\ TokensInv /\ EndedInv
  BY DEF SessionsInv
<1>1. FrameInv'
  BY <1>0 DEF FrameInv, Finished
<1>2. TokensInv'
  <2>1. \A d \in Requests : Rotation(d)'
    BY <1>0 DEF TokensInv, Rotation, Renewed, Before, Shrinks
  <2>2. \A d \in Requests : req'[d].pc \notin {"mark", "reread", "done"} => tokens'[d].state = "none"
    BY <1>0 DEF TokensInv, Shrinks, TokenIds
  <2> QED
    BY <1>0, <2>1, <2>2 DEF TokensInv, Shrinks
<1>3. \A e \in Requests : Purged(e)' = Purged(e)
  BY DEF Purged
<1>4. ASSUME NEW e \in Requests, NEW t \in TokenIds, Spared(tokens[t].line, e)
      PROVE  Spared(tokens[t].line, e)'
  <2>1. tokens'[t].line = tokens[t].line
    BY DEF Shrinks
  <2> QED
    BY <1>4, <2>1 DEF Spared, Preceded, Overlap, Before
<1>5. EndedInv'
  <2>1. ASSUME NEW d \in Requests, req'[d].pc = "rotate", NEW e \in Requests, e \in Before(d)', Purged(e)',
               NEW t, t = req'[d].arg
        PROVE  Spared(tokens[t].line, e)'
    <3>1. t \in TokenIds
      BY <1>0, <2>1 DEF TokensInv, Rotation
    <3>2. Spared(tokens[t].line, e)
      BY <1>0, <1>3, <2>1 DEF EndedInv, Before
    <3> QED
      BY <1>4, <3>1, <3>2
  <2>2. \A e \in Requests : Purged(e)' => req'[e].pc # "idle"
    BY <1>0, <1>3 DEF EndedInv
  <2>3. \A e \in Requests, t \in TokenIds : Purged(e)' /\ tokens'[t].state = "live" => Spared(tokens[t].line, e)'
    BY <1>0, <1>3, <1>4 DEF EndedInv, Shrinks
  <2> QED
    BY <1>1, <2>1, <2>2, <2>3 DEF EndedInv, FrameInv, Before, Finished
<1> QED
  BY <1>1, <1>2, <1>5 DEF SessionsInv

-----------------------------------------------------------------------------
(* Every step, as the sessions see it.                                     *)

\* A step that neither rotates, issues nor ends a session.
LEMMA QuietStep ==
  ASSUME SessionsInv, NEW r \in Requests, Moves(r), UNCHANGED tokens,
         req'[r].op \notin RefreshOps, req'[r].pc \notin {"rotate", "mark", "reread", "reuse"},
         Purged(r)' => Purged(r), req'[r].ans = "session" => req'[r].pc = "done"
  PROVE  SessionsInv'
<1>1. Shrinks
  BY DEF SessionsInv, TokensInv, Shrinks
<1>2. Rotation(r)'
  BY DEF Rotation
<1>3. req[r].pc \notin {"mark", "reread"}
  BY DEF SessionsInv, TokensInv, Rotation, Moves
<1> QED
  BY <1>1, <1>2, <1>3, ShrinkStep

\* A request that begins and is no refresh.
LEMMA QuietBegin ==
  ASSUME SessionsInv, NEW r \in Requests, UNCHANGED tokens
  PROVE  \A op, x, doc, pc, ans :
           /\ Enter(r, op, x, doc, pc, ans)
           /\ op \notin RefreshOps /\ pc \notin {"idle", "rotate", "mark", "reread", "reuse"}
           /\ ans \notin {"session", "ended", "reused"}
           /\ pc = "saveAdmin" => op \notin {"ban", "delete"} /\ x # "deactivate"
           /\ pc = "sellerSave" => op # "sellerBan"
           => SessionsInv'
<1>1. FrameInv
  BY DEF SessionsInv
<1> QED
  BY <1>1, EnterBegins, QuietStep DEF Begins, Purged

\* A request that goes on and is no refresh.
LEMMA QuietGoes ==
  ASSUME SessionsInv, NEW r \in Requests, UNCHANGED tokens,
         req[r].pc \notin {"rotate", "mark", "reread", "reuse"}
  PROVE  \A pc, ans :
           /\ Goes(r, pc, ans)
           /\ pc \notin {"rotate", "mark", "reread", "reuse", "saveAdmin", "sellerSave"}
           /\ ans \in {"ended", "reused"} => Purged(r)
           /\ ans = "session" => pc = "done" \/ ans = req[r].ans
           => SessionsInv'
<1>1. ASSUME Moves(r), req[r].pc # "idle" PROVE req'[r].op \notin RefreshOps /\ req[r].ans # "session"
  BY <1>1 DEF SessionsInv, TokensInv, Rotation, Moves
<1> QED
  BY <1>1, QuietStep DEF Goes, Purged

\* ... as the handlers write it.
LEMMA QuietAnswers ==
  ASSUME SessionsInv, NEW r \in Requests, UNCHANGED <<load, tokens>>,
         req[r].pc \notin {"idle", "done", "rotate", "mark", "reread", "reuse"}
  PROVE  /\ \A ans : Answer(r, ans) /\ ans \notin {"session", "ended", "reused"} => SessionsInv'
         /\ \A pc : /\ Goto(r, pc)
                   /\ pc \notin {"idle", "rotate", "mark", "reread", "reuse", "saveAdmin", "sellerSave"}
                   => SessionsInv'
<1>1. FrameInv
  BY DEF SessionsInv
<1>2. req[r].ans \in {"ended", "reused"} => Purged(r)
  BY DEF Purged
<1> QED
  BY <1>1, <1>2, AnswerGoes, QuietGoes

\* A token somebody holds was issued, and its request is done.
LEMMA NothingUnknown ==
  ASSUME SessionsInv, NEW t \in Held
  PROVE  /\ t \in TokenIds /\ tokens[t].state \in {"live", "revoked", "gone"}
         /\ t \in Requests => req[t].pc = "done" 
BY DEF SessionsInv, TokensInv, TokenRecord, Held, Rotation

\* A refresh looks up the token it is shown.
LEMMA FindStep ==
  ASSUME SessionsInv, NEW r \in Requests, NEW op \in RefreshOps, NEW doc, RotateFind(r, op, doc)
  PROVE  SessionsInv'
<1>0. FrameInv /\ TokensInv
  BY DEF SessionsInv
<1>1. PICK t \in Held :
        \/ tokens[t].state = "gone" /\ Enter(r, op, t, doc, "done", "refused")
        \/ tokens[t].state = "revoked" /\ Enter(r, op, t, doc, "reuse", "none")
        \/ tokens[t].state = "live" /\ Enter(r, op, t, doc, "rotate", "none")
  BY DEF RotateFind
<1>2. UNCHANGED tokens /\ Shrinks
  BY <1>0 DEF RotateFind, TokensInv, Shrinks
<1>3. \/ tokens[t].state = "gone" /\ Begins(r, op, t, doc, "done", "refused")
      \/ tokens[t].state = "revoked" /\ Begins(r, op, t, doc, "reuse", "none")
      \/ tokens[t].state = "live" /\ Begins(r, op, t, doc, "rotate", "none")
  BY <1>0, <1>1, EnterBegins
<1>4. /\ Moves(r) /\ req[r].pc = "idle" /\ req'[r].op = op /\ req'[r].arg = t
      /\ req'[r].pc \in {"done", "reuse", "rotate"} /\ req'[r].ans \in {"refused", "none"} /\ ~ Purged(r)'
      /\ req'[r].pc # "done" => req'[r].ans = "none"
      /\ req'[r].pc = "rotate" => tokens[t].state = "live"
  BY <1>3 DEF Begins, Purged
<1>5. t \in TokenIds /\ (t \in Requests => req[t].pc = "done")
  BY NothingUnknown
<1>6. ASSUME tokens[t].state = "live"
      PROVE  \A a \in Before(r)' : Renewed(a)' => req'[a].arg # t
  <2> SUFFICES ASSUME NEW a \in Before(r)', Renewed(a)', req'[a].arg = t PROVE FALSE
    OBVIOUS
  <2>1. a \in Finished /\ a # r /\ req'[a] = req[a]
    BY <1>4 DEF Before, Moves, Finished
  <2>2. Renewed(a) /\ Rotation(a) /\ req[a].arg = t
    BY <1>0, <2>1 DEF Renewed, TokensInv, Finished
  <2>3. tokens[t].state \in {"revoked", "gone"}
    BY <2>2 DEF Rotation, Renewed
  <2> QED
    BY <1>6, <2>3
<1>7. Rotation(r)'
  <2>1. t \in Requests => req'[t].pc = "done"
    BY <1>4, <1>5 DEF Moves
  <2> QED
    BY <1>2, <1>4, <1>5, <1>6, <2>1 DEF Rotation
<1> QED
  BY <1>2, <1>4, <1>7, ShrinkStep

\* What is written when sessions end only takes sessions away.
LEMMA RevokedShrinks ==
  ASSUME SessionsInv
  PROVE  /\ tokens' = RevokedAll => Shrinks /\ \A t \in TokenIds : tokens'[t].state # "live"
         /\ \A t \in TokenIds : tokens' = RevokedOne(t) => Shrinks
         /\ \A t \in TokenIds : tokens' = Rotated(t) /\ tokens[t].state \notin {"none", "gone"} =>
              Shrinks /\ tokens'[t].state = "revoked"
         /\ \A t \in TokenIds :
              tokens' = [tokens EXCEPT ![t].state = "gone"] /\ tokens[t].state # "none" => Shrinks
         /\ UNCHANGED tokens => Shrinks
<1>1. tokens \in [TokenIds -> TokenRecord]
  BY DEF SessionsInv, TokensInv
<1>2. tokens' = RevokedAll => Shrinks /\ \A t \in TokenIds : tokens'[t].state # "live"
  BY <1>1 DEF RevokedAll, Shrinks, TokenRecord
<1>3. \A t \in TokenIds : tokens' = RevokedOne(t) => Shrinks
  BY <1>1 DEF RevokedOne, Shrinks, TokenRecord
<1>4. \A t \in TokenIds : tokens' = Rotated(t) /\ tokens[t].state \notin {"none", "gone"} =>
              Shrinks /\ tokens'[t].state = "revoked"
  BY <1>1 DEF Rotated, Shrinks, TokenRecord
<1>5. \A t \in TokenIds :
              tokens' = [tokens EXCEPT ![t].state = "gone"] /\ tokens[t].state # "none" => Shrinks
  BY <1>1 DEF Shrinks, TokenRecord
<1> QED
  BY <1>1, <1>2, <1>3, <1>4, <1>5 DEF Shrinks

\* A step after which no session is left.
LEMMA PurgeStep ==
  ASSUME SessionsInv, NEW r \in Requests, tokens' = RevokedAll, Moves(r),
         req'[r].pc \notin {"rotate", "mark", "reread", "reuse"}, req'[r].ans # "session",
         req[r].pc \notin {"mark", "reread"}, req'[r].op \in RefreshOps => req'[r].pc = "done"
  PROVE  SessionsInv'
<1>1. Rotation(r)'
  BY DEF Rotation
<1> QED
  BY <1>1, RevokedShrinks, ShrinkStep

\* Reuse detected: the whole line is revoked.
LEMMA ReuseStep == ASSUME SessionsInv, NEW r \in Requests, ReuseRevoke(r) PROVE SessionsInv'
<1>1. /\ tokens' = RevokedAll /\ req[r].pc = "reuse" /\ UNCHANGED load /\ Answer(r, "reused") /\ FrameInv
  BY DEF ReuseRevoke, At, SessionsInv
<1>2. Goes(r, "done", "reused")
  BY <1>1, AnswerGoes
<1> QED
  BY <1>1, <1>2, PurgeStep DEF Goes

\* Sessions ended by a change of password or status.
LEMMA EndStep == ASSUME SessionsInv, NEW r \in Requests, EndSessions(r) PROVE SessionsInv'
<1>1. /\ tokens' = RevokedAll /\ req[r].pc = "revoke" /\ UNCHANGED load /\ Answer(r, "ended") /\ FrameInv
  BY DEF EndSessions, At, SessionsInv
<1>2. Goes(r, "done", "ended")
  BY <1>1, AnswerGoes
<1> QED
  BY <1>1, <1>2, PurgeStep DEF Goes

\* The handlers that end the sessions before they save.
LEMMA RevokeFirstStep ==
  ASSUME SessionsInv, NEW r \in Requests, RevokeFirst(r) \/ SellerRevokeFirst(r)
  PROVE  SessionsInv'
<1>1. /\ tokens' = RevokedAll /\ req[r].pc \in {"revokeFirst", "sellerRevokeFirst"} /\ UNCHANGED load /\ FrameInv
      /\ Goto(r, "saveAdmin") \/ Goto(r, "sellerSave")
  BY DEF RevokeFirst, SellerRevokeFirst, At, SessionsInv
<1>2. Goes(r, "saveAdmin", req[r].ans) \/ Goes(r, "sellerSave", req[r].ans)
  BY <1>1, AnswerGoes
<1>3. req[r].op \notin RefreshOps /\ req[r].ans # "session"
  BY <1>1 DEF SessionsInv, TokensInv, Rotation
<1> QED
  BY <1>1, <1>2, <1>3, PurgeStep DEF Goes, Moves

\* A rotation issues the successor.
LEMMA RotateIssueStep == ASSUME SessionsInv, NEW r \in Requests, RotateIssue(r) PROVE SessionsInv'
<1>1. /\ req[r].pc = "rotate" /\ UNCHANGED load /\ Goto(r, "mark") /\ FrameInv /\ TokensInv
      /\ Issue(r, tokens[req[r].arg].line)
  BY DEF RotateIssue, At, SessionsInv
<1>2. Goes(r, "mark", req[r].ans)
  BY <1>1, AnswerGoes
<1>3. Rotation(r) /\ tokens[r].state = "none"
  BY <1>1 DEF TokensInv
<1>4. /\ Moves(r) /\ req'[r].pc = "mark" /\ req'[r].ans = "none" /\ req'[r].op = req[r].op /\ req'[r].arg = req[r].arg
      /\ req[r].op \in RefreshOps /\ ~ Purged(r)'
  BY <1>1, <1>2, <1>3 DEF Goes, Moves, Rotation, Purged
<1>5. tokens'[req[r].arg] = tokens[req[r].arg] /\ req[r].arg \in TokenIds /\ tokens[req[r].arg].state # "none"
  BY <1>1, <1>3 DEF Issue, Rotation, TokensInv
<1>6. Before(r)' = Before(r) /\ \A a \in Before(r) : Renewed(a)' = Renewed(a) /\ req'[a].arg = req[a].arg
  BY <1>1, <1>4 DEF Before, Renewed, Moves, FrameInv, Finished
<1>7. req[r].arg \in Requests => req'[req[r].arg].pc = "done"
  BY <1>1, <1>3, <1>4 DEF Rotation, Moves
<1>8. Rotation(r)'
  BY <1>1, <1>3, <1>4, <1>5, <1>6, <1>7 DEF Rotation
<1> QED
  BY <1>1, <1>4, <1>8, IssueStep

\* What the mark and the second read keep of a rotation.
LEMMA RotationGoes ==
  ASSUME SessionsInv, NEW r \in Requests, req[r].pc \in {"mark", "reread"}, Moves(r), Shrinks,
         tokens'[req[r].arg].state \in {"revoked", "gone"},
         \/ req'[r].pc = "reread" /\ req'[r].ans = "none"
         \/ req'[r].pc = "done" /\ req'[r].ans \in {"session", "refused", "error"}
  PROVE  SessionsInv'
<1>0. FrameInv /\ TokensInv /\ Rotation(r)
  BY DEF SessionsInv, TokensInv
<1>1. req'[r].op = req[r].op /\ req'[r].arg = req[r].arg /\ req[r].op \in RefreshOps /\ req[r].arg \in TokenIds
  BY <1>0 DEF Moves, Rotation
<1>2. Before(r)' = Before(r) /\ \A a \in Before(r) : Renewed(a)' = Renewed(a) /\ req'[a].arg = req[a].arg
  BY <1>0 DEF Before, Renewed, Moves, FrameInv, Finished
<1>3. req[r].arg \in Requests => req'[req[r].arg].pc = "done"
  BY <1>0 DEF Rotation, Moves
<1>4. Rotation(r)'
  BY <1>0, <1>1, <1>2, <1>3 DEF Rotation
<1> QED
  BY <1>4, ShrinkStep DEF Purged

\* A rotation writes down which token replaced which.
LEMMA MarkStep == ASSUME SessionsInv, NEW r \in Requests, RotateMark(r) PROVE SessionsInv'
<1>1. req[r].pc = "mark" /\ UNCHANGED load /\ FrameInv /\ Rotation(r)
  BY DEF RotateMark, At, SessionsInv, TokensInv
<1>2. req[r].arg \in TokenIds /\ tokens[req[r].arg].state # "none" /\ req[r].ans = "none"
  BY <1>1 DEF Rotation
<1>3. CASE tokens[req[r].arg].state = "gone" /\ Answer(r, "error") /\ UNCHANGED tokens
  BY <1>1, <1>3, AnswerGoes, RevokedShrinks, RotationGoes DEF Goes
<1>4. CASE tokens[req[r].arg].state # "gone" /\ tokens' = Rotated(req[r].arg) /\ Goto(r, "reread")
  <2>1. Shrinks /\ tokens'[req[r].arg].state = "revoked"
    BY <1>2, <1>4, RevokedShrinks
  <2> QED
    BY <1>1, <1>2, <1>4, <2>1, AnswerGoes, RotationGoes DEF Goes
<1> QED
  BY <1>3, <1>4 DEF RotateMark

\* After the rotation, a refresh reads the account again.
LEMMA RereadStep ==
  ASSUME SessionsInv, NEW r \in Requests, RefreshReread(r) \/ SellerReread(r)
  PROVE  SessionsInv'
<1>1. /\ req[r].pc = "reread" /\ UNCHANGED load /\ FrameInv /\ Rotation(r) /\ UNCHANGED tokens
      /\ Answer(r, "session") \/ Answer(r, "refused")
  BY DEF RefreshReread, SellerReread, At, SessionsInv, TokensInv
<1>2. tokens[req[r].arg].state \in {"revoked", "gone"}
  BY <1>1 DEF Rotation
<1> QED
  BY <1>1, <1>2, AnswerGoes, RevokedShrinks, RotationGoes DEF Goes

\* A new session.
LEMMA OpenStep ==
  ASSUME SessionsInv, NEW r \in Requests, OpenSession(r) \/ SellerSession(r)
  PROVE  SessionsInv'
<1>1. req[r].pc \in {"issue", "sellerIssue"} /\ UNCHANGED load /\ Issue(r, {}) /\ Answer(r, "session") /\ FrameInv
  BY DEF OpenSession, SellerSession, At, SessionsInv
<1>2. Goes(r, "done", "session")
  BY <1>1, AnswerGoes
<1>3. req'[r].op \notin RefreshOps
  BY <1>1, <1>2 DEF Goes, Moves, SessionsInv, TokensInv, Rotation
<1>4. Rotation(r)'
  BY <1>2, <1>3 DEF Rotation, Goes
<1> QED
  BY <1>1, <1>2, <1>4, IssueStep DEF Goes, Purged

\* A logout.
LEMMA LogoutStep ==
  ASSUME SessionsInv, NEW r \in Requests, NEW doc, Logout(r, doc) \/ LogoutEverywhere(r, doc)
  PROVE  SessionsInv'
<1>0. FrameInv
  BY DEF SessionsInv
<1>1. CASE Logout(r, doc)
  <2>1. PICK t \in Held : Enter(r, "logout", t, doc, "done", "ok") /\ tokens' = RevokedOne(t)
    BY <1>1 DEF Logout
  <2>2. Begins(r, "logout", t, doc, "done", "ok")
    BY <1>0, <2>1, EnterBegins
  <2>3. Shrinks
    BY <2>1, NothingUnknown, RevokedShrinks
  <2>4. Rotation(r)'
    BY <2>2 DEF Rotation, Begins, RefreshOps
  <2> QED
    BY <2>2, <2>3, <2>4, ShrinkStep DEF Begins, Purged
<1>2. CASE LogoutEverywhere(r, doc)
  <2>1. Begins(r, "logoutAll", NoOne, doc, "done", "ended")
    BY <1>0, <1>2, EnterBegins DEF LogoutEverywhere
  <2> QED
    BY <1>2, <2>1, PurgeStep DEF Begins, LogoutEverywhere
<1> QED
  BY <1>1, <1>2

-----------------------------------------------------------------------------
(* The handlers that leave the sessions alone.                             *)

\* The users' handlers, up to their first await.
LEMMA UserBegins ==
  ASSUME SessionsInv, NEW r \in Requests,
         \/ Login(r) \/ StaffLogin(r) \/ Register(r) \/ GoogleLogin(r)
         \/ ChangePassword(r) \/ ForgotPassword(r) \/ ResetPassword(r)
         \/ VerifyEmail(r) \/ ResendVerification(r)
         \/ SetCustomerBan(r) \/ SoftDeleteCustomer(r) \/ RestoreCustomer(r) \/ UpdateStaff(r)
         \/ CreateStaff(r) \/ SeedSuperAdmin(r) \/ StaffCall(r) \/ AddAddress(r) \/ RemoveAddress(r)
  PROVE  SessionsInv'
<1>1. CASE Login(r) \/ StaffLogin(r)
  BY <1>1, QuietBegin DEF Login, StaffLogin, Authenticate, RefreshOps
<1>2. CASE Register(r) \/ GoogleLogin(r)
  BY <1>2, QuietBegin DEF Register, GoogleLogin, RefreshOps
<1>3. CASE ChangePassword(r) \/ ForgotPassword(r) \/ ResetPassword(r)
  BY <1>3, QuietBegin DEF ChangePassword, ForgotPassword, ResetPassword, RefreshOps
<1>4. CASE VerifyEmail(r) \/ ResendVerification(r)
  BY <1>4, QuietBegin DEF VerifyEmail, ResendVerification, RefreshOps
<1>5. CASE SetCustomerBan(r) \/ SoftDeleteCustomer(r) \/ RestoreCustomer(r)
  BY <1>5, QuietBegin, IdentityAssumption
     DEF SetCustomerBan, SoftDeleteCustomer, RestoreCustomer, AdminRead, RefreshOps
<1>6. CASE UpdateStaff(r)
  BY <1>6, QuietBegin DEF UpdateStaff, AdminRead, RefreshOps
<1>7. CASE CreateStaff(r) \/ SeedSuperAdmin(r) \/ StaffCall(r)
  BY <1>7, QuietBegin DEF CreateStaff, SeedSuperAdmin, StaffCall, RefreshOps
<1>8. CASE AddAddress(r) \/ RemoveAddress(r)
  BY <1>8, QuietBegin DEF AddAddress, RemoveAddress, RefreshOps
<1> QED
  BY <1>1, <1>2, <1>3, <1>4, <1>5, <1>6, <1>7, <1>8

\* The users' handlers, after their first read.
LEMMA UserGoes ==
  ASSUME SessionsInv, NEW r \in Requests,
         \/ RegisterFailedAttempt(r) \/ ClearFailedAttempts(r) \/ RegisterCreate(r)
         \/ GoogleByEmail(r) \/ GoogleLink(r) \/ GoogleCreate(r)
         \/ SetPassword(r) \/ SetResetLink(r) \/ SetVerified(r) \/ SetVerificationLink(r)
         \/ AdminSave(r) \/ StaffCreate(r) \/ SaveAddress(r) \/ DropAddress(r)
  PROVE  SessionsInv'
<1>0. FrameInv /\ TokensInv
  BY DEF SessionsInv
<1>1. CASE RegisterFailedAttempt(r) \/ ClearFailedAttempts(r)
  BY <1>0, <1>1, QuietAnswers DEF RegisterFailedAttempt, ClearFailedAttempts, At
<1>2. CASE RegisterCreate(r) \/ GoogleCreate(r) \/ StaffCreate(r)
  BY <1>0, <1>2, QuietAnswers DEF RegisterCreate, GoogleCreate, StaffCreate, CreateUser, At
<1>3. CASE GoogleByEmail(r)
  <2>1. /\ req[r].pc = "byEmail" /\ UNCHANGED <<load, tokens>>
        /\ req' = [req EXCEPT ![r].pc = IF user.exists THEN "link" ELSE "googleCreate", ![r].snap = user]
    BY <1>3 DEF GoogleByEmail, At
  <2>2. Moves(r) /\ req'[r].pc \in {"link", "googleCreate"} /\ req'[r].ans = req[r].ans /\ req'[r].op = req[r].op
    BY <1>0, <2>1 DEF Moves, FrameInv, Fields
  <2>3. req[r].op \notin RefreshOps /\ req[r].ans # "session" /\ (Purged(r)' => Purged(r))
    BY <1>0, <2>1, <2>2 DEF TokensInv, Rotation, Purged
  <2> QED
    BY <2>1, <2>2, <2>3, QuietStep
<1>4. CASE GoogleLink(r) \/ SetPassword(r)
  BY <1>0, <1>4, QuietAnswers DEF GoogleLink, SetPassword, At
<1>5. CASE SetResetLink(r) \/ SetVerified(r) \/ SetVerificationLink(r)
  BY <1>0, <1>5, QuietAnswers DEF SetResetLink, SetVerified, SetVerificationLink, At
<1>6. CASE AdminSave(r)
  <2>1. /\ req[r].pc = "saveAdmin" /\ UNCHANGED <<load, tokens>>
        /\ Answer(r, IF req[r].op \in {"ban", "delete"} \/ req[r].arg = "deactivate" THEN "ended" ELSE "ok")
    BY <1>6 DEF AdminSave, At
  <2> QED
    BY <1>0, <2>1, AnswerGoes, QuietGoes DEF Purged
<1>7. CASE SaveAddress(r) \/ DropAddress(r)
  BY <1>0, <1>7, QuietAnswers DEF SaveAddress, DropAddress, At
<1> QED
  BY <1>1, <1>2, <1>3, <1>4, <1>5, <1>6, <1>7

\* The sellers' handlers, up to their first await.
LEMMA SellerBegins ==
  ASSUME SessionsInv, NEW r \in Requests,
         \/ SellerRegister(r) \/ SellerLogin(r) \/ SellerGoogleLogin(r) \/ SellerCall(r)
         \/ UpdateBankDetails(r) \/ UploadBusinessCertificate(r)
         \/ SetSellerStatus(r) \/ SoftDeleteSeller(r) \/ RestoreSeller(r) \/ SetSellerBan(r)
  PROVE  SessionsInv'
<1>1. CASE SellerRegister(r) \/ SellerLogin(r)
  BY <1>1, QuietBegin DEF SellerRegister, SellerLogin, RefreshOps
<1>2. CASE SellerGoogleLogin(r) \/ SellerCall(r)
  BY <1>2, QuietBegin DEF SellerGoogleLogin, GoogleOutcome, SellerCall, RefreshOps
<1>3. CASE UpdateBankDetails(r) \/ UploadBusinessCertificate(r)
  BY <1>3, QuietBegin DEF UpdateBankDetails, UploadBusinessCertificate, RefreshOps
<1>4. CASE SetSellerStatus(r) \/ SoftDeleteSeller(r) \/ RestoreSeller(r) \/ SetSellerBan(r)
  BY <1>4, QuietBegin
     DEF SetSellerStatus, SoftDeleteSeller, RestoreSeller, SetSellerBan, SellerAdminRead, RefreshOps
<1> QED
  BY <1>1, <1>2, <1>3, <1>4

\* The sellers' handlers, after their first read.
LEMMA SellerGoes ==
  ASSUME SessionsInv, NEW r \in Requests,
         \/ SellerCreate(r) \/ SellerLoginFails(r) \/ SellerLoginClears(r) \/ SellerLink(r)
         \/ SaveBankDetails(r) \/ SaveCertificate(r) \/ WriteSellerStatus(r) \/ SellerAdminSave(r)
  PROVE  SessionsInv'
<1>0. FrameInv
  BY DEF SessionsInv
<1>1. CASE SellerCreate(r) \/ SellerLoginFails(r) \/ SellerLoginClears(r)
  BY <1>0, <1>1, QuietAnswers DEF SellerCreate, SellerLoginFails, SellerLoginClears, At
<1>2. CASE SellerLink(r) \/ SaveBankDetails(r) \/ SaveCertificate(r) \/ WriteSellerStatus(r)
  BY <1>0, <1>2, QuietAnswers DEF SellerLink, SaveBankDetails, SaveCertificate, WriteSellerStatus, At
<1>3. CASE SellerAdminSave(r)
  <2>1. /\ req[r].pc = "sellerSave" /\ UNCHANGED <<load, tokens>>
        /\ \/ Goto(r, "revoke") \/ Answer(r, "ok")
           \/ req[r].op = "sellerBan" /\ Answer(r, "ended")
    BY <1>3 DEF SellerAdminSave, At
  <2> QED
    BY <1>0, <2>1, AnswerGoes, QuietGoes DEF Purged
<1> QED
  BY <1>1, <1>2, <1>3

\* A token expires.
LEMMA ExpiryStep == ASSUME SessionsInv, NEW t \in TokenIds, TokenExpires(t) PROVE SessionsInv'
<1>1. Shrinks
  BY RevokedShrinks DEF TokenExpires
<1> QED
  BY <1>1, TimeStep DEF TokenExpires

\* The invariant of the sessions, at the start and over every step.
LEMMA SessionsStart == ASSUME IdentityInit PROVE SessionsInv
<1>1. /\ load \in Workloads /\ req = [r \in Requests |-> Idle]
      /\ \E exists :
           tokens = [t \in TokenIds |-> IF t \in Seeds /\ exists THEN [state |-> "live", line |-> {t}] ELSE NoToken]
  BY DEF IdentityInit, SessionsInit
<1>2. FrameInv
  BY <1>1 DEF FrameInv, Idle, Fields
<1>3. tokens \in [TokenIds -> TokenRecord]
  BY <1>1 DEF NoToken, TokenRecord
<1>4. \A r \in Requests : tokens[r].state = "none" /\ Rotation(r)
  BY <1>1, SeedsAssumption DEF TokenIds, NoToken, Rotation, Idle, RefreshOps
<1>5. \A t \in TokenIds : \A x \in tokens[t].line : x \notin Requests
  BY <1>1, SeedsAssumption DEF TokenIds, NoToken
<1>6. TokensInv
  BY <1>3, <1>4, <1>5 DEF TokensInv
<1>7. EndedInv
  BY <1>1 DEF EndedInv, Purged, Idle
<1> QED
  BY <1>2, <1>6, <1>7 DEF SessionsInv

\* Every step of the system keeps the invariant of the sessions.
LEMMA SessionsStep == ASSUME SessionsInv, [IdentityNext]_ivars PROVE SessionsInv'
<1>1. ASSUME UNCHANGED ivars PROVE SessionsInv'
  BY <1>1, TimeStep, RevokedShrinks DEF ivars
<1>2. ASSUME NEW r \in Requests, UserStep(r) PROVE SessionsInv'
  BY <1>2, UserBegins, UserGoes, OpenStep, FindStep, RereadStep, ReuseStep, RotateIssueStep, MarkStep, EndStep,
     LogoutStep, RevokeFirstStep DEF UserStep, Refresh, RefreshOps
<1>3. ASSUME NEW r \in Requests, SellerStep(r) PROVE SessionsInv'
  BY <1>3, SellerBegins, SellerGoes, OpenStep, FindStep, RereadStep, ReuseStep, RotateIssueStep, MarkStep, EndStep,
     RevokeFirstStep DEF SellerStep, SellerRefresh, RefreshOps
<1>4. ASSUME UserTime \/ SellerTime PROVE SessionsInv'
  <2>1. CASE UNCHANGED <<tokens, req, load>>
    BY <2>1, TimeStep, RevokedShrinks
  <2> QED
    BY <1>4, <2>1, ExpiryStep DEF UserTime, SellerTime, LockExpires, BanExpires, LinkExpires,
                                 SellerLockExpires, SellerBanExpires
<1> QED
  BY <1>1, <1>2, <1>3, <1>4 DEF IdentityNext

\* The inductive invariant of the sessions, of both collections.
THEOREM SessionsInvariant == IdentitySpec => []SessionsInv
<1> QED
  BY SessionsStart, SessionsStep, PTL DEF IdentitySpec

\* A refresh token buys one session: of two refreshes with one token, one
\* after the other, one is refused.
THEOREM RotationSafety == IdentitySpec => []RotationIsSingleUse
<1>1. ASSUME SessionsInv PROVE RotationIsSingleUse
  <2>1. \A r \in Refreshes : /\ r \in Requests /\ Renewed(r) /\ Rotation(r)
    BY <1>1 DEF Refreshes, Renewed, RefreshOps, Finished, SessionsInv, TokensInv
  <2> QED
    BY <2>1 DEF RotationIsSingleUse, Overlap, Rotation, Renewed
<1> QED
  BY <1>1, SessionsInvariant, PTL

\* A sign-out of every device, a new password, a ban, a deactivation, a
\* suspension and a replayed token end the sessions that were open.
THEOREM EndedSafety == IdentitySpec => []EndedSessionsStayEnded
<1>1. ASSUME SessionsInv PROVE EndedSessionsStayEnded
  BY <1>1 DEF EndedSessionsStayEnded, Enders, Usable, Held, Finished, SessionsInv, EndedInv, Purged, Spared
<1> QED
  BY <1>1, SessionsInvariant, PTL

-----------------------------------------------------------------------------
(* The documents.                                                          *)

UserFields == {"exists", "role", "active", "deleted", "banned", "fails", "lock", "pw", "google",
               "reset", "verified", "vtok", "book", "ver"}
SellerFields == {"exists", "status", "deleted", "banned", "cert", "fails", "lock", "pw", "google",
                 "bank", "recipient"}

\* Steps of a handler that write the mark an account is closed by.
Pending == {"revokeFirst", "saveAdmin", "sellerRevokeFirst", "sellerSave", "setStatus"}

\* A request that will not be let in.
Out(r) ==
  /\ req[r].ans \notin {"session", "allowed"}
  /\ req[r].pc \notin {"issue", "clear", "create", "googleCreate", "sellerIssue", "sellerClear"}
  /\ req[r].pc = "link" => Unavailable(Snap(r))
  /\ req[r].pc = "sellerLink" => Closed(Snap(r))

\* How a request begins that reads the document, and what it may go on to.
Reads(r, doc, shut) ==
  /\ Moves(r) /\ req[r].pc = "idle" /\ req'[r].snap = doc
  /\ req'[r].pc # "revoke"
  /\ req'[r].pc = "setPassword" => req'[r].op \in {"changePassword", "resetPassword"}
  /\ req'[r].pc = "setStatus" => req'[r].op = "status"
  /\ Closes(r)' => (doc.exists \/ req'[r].pc = "done") /\ req'[r].ans # "ended"
  /\ doc.exists /\ shut => Out(r)'

\* The seller's document, up to the first await of a handler.
LEMMA SellerReads ==
  ASSUME FrameInv, NEW r \in Requests,
         \/ SellerRegister(r) \/ SellerLogin(r) \/ SellerGoogleLogin(r) \/ SellerRefresh(r) \/ SellerCall(r)
         \/ UpdateBankDetails(r) \/ UploadBusinessCertificate(r)
         \/ SetSellerStatus(r) \/ SoftDeleteSeller(r) \/ RestoreSeller(r) \/ SetSellerBan(r)
  PROVE  /\ Reads(r, seller, seller.status = "suspended") /\ UNCHANGED seller
         /\ req'[r].pc = "setStatus" => seller.exists /\ (req'[r].arg = "approved" => seller.cert)
<1>1. CASE SellerRegister(r)
  BY <1>1, EnterBegins DEF SellerRegister, Begins, Reads, Out, Closes
<1>2. CASE SellerLogin(r)
  BY <1>2, EnterBegins DEF SellerLogin, Begins, Reads, Out, Closes, Closed
<1>3. CASE SellerGoogleLogin(r)
  BY <1>3, EnterBegins DEF SellerGoogleLogin, GoogleOutcome, Begins, Reads, Out, Closes, Closed, Snap
<1>4. CASE SellerRefresh(r)
  BY <1>4, EnterBegins DEF SellerRefresh, RotateFind, Begins, Reads, Out, Closes
<1>5. CASE SellerCall(r)
  BY <1>5, EnterBegins DEF SellerCall, Admitted, AdmittedApproved, Closed, Begins, Reads, Out, Closes
<1>6. CASE UpdateBankDetails(r) \/ UploadBusinessCertificate(r)
  BY <1>6, EnterBegins DEF UpdateBankDetails, UploadBusinessCertificate, Begins, Reads, Out, Closes
<1>7. CASE SetSellerStatus(r)
  BY <1>7, EnterBegins DEF SetSellerStatus, SellerAdminRead, MayBecome, Begins, Reads, Out, Closes
<1>8. CASE SoftDeleteSeller(r) \/ RestoreSeller(r) \/ SetSellerBan(r)
  BY <1>8, EnterBegins DEF SoftDeleteSeller, RestoreSeller, SetSellerBan, SellerAdminRead, Begins, Reads, Out, Closes
<1> QED
  BY <1>1, <1>2, <1>3, <1>4, <1>5, <1>6, <1>7, <1>8

\* How a request goes on that does not write the mark.
Continues(r) ==
  /\ Moves(r) /\ req[r].pc # "idle"
  /\ req'[r].pc \in Pending => req[r].pc \in Pending /\ req'[r].snap = req[r].snap
  /\ req'[r].pc \notin {"setStatus", "setPassword"}
  /\ req'[r].pc = "revoke" => req[r].pc = "setPassword"
  /\ req'[r].ans = "ended" => req[r].ans = "ended" \/ req[r].pc = "revoke"

SellerKeeps ==
  /\ DOMAIN seller' = SellerFields
  /\ seller.exists => seller'.exists /\ seller'.status = seller.status /\ (seller.cert => seller'.cert)

\* The seller's document, under the handlers' later steps.
LEMMA SellerContinues ==
  ASSUME FrameInv, NEW r \in Requests, DOMAIN seller = SellerFields,
         ApprovedHasCertificate,
         \/ SellerCreate(r) \/ SellerLoginFails(r) \/ SellerLoginClears(r) \/ SellerSession(r) \/ SellerLink(r)
         \/ SellerReread(r) \/ SaveBankDetails(r) \/ SaveCertificate(r) \/ SellerRevokeFirst(r)
         \/ (ReuseRevoke(r) \/ RotateIssue(r) \/ RotateMark(r) \/ EndSessions(r)) /\ UNCHANGED seller
  PROVE  /\ Continues(r) /\ req'[r].snap = req[r].snap
         /\ SellerKeeps /\ ApprovedHasCertificate'
         /\ seller.exists /\ seller.status = "suspended" /\ Out(r) => Out(r)'
<1> USE DEF Continues, SellerKeeps, ApprovedHasCertificate, Pending
<1>1. CASE SellerCreate(r)
  BY <1>1, AnswerGoes DEF SellerCreate, At, NewSeller, SellerFields, Goes, Out
<1>2. CASE SellerLoginFails(r)
  BY <1>2, AnswerGoes DEF SellerLoginFails, At, SSave, SaveChanges, SellerFields, Goes, Out, Snap
<1>3. CASE SellerLoginClears(r)
  BY <1>3, AnswerGoes DEF SellerLoginClears, At, SSave, SaveChanges, SellerFields, Goes, Out, Snap
<1>4. CASE SellerSession(r)
  BY <1>4, AnswerGoes DEF SellerSession, At, Goes, Out, Snap
<1>5. CASE SellerLink(r)
  BY <1>5, AnswerGoes DEF SellerLink, At, SSave, SaveChanges, SellerFields, Goes, Out, Snap
<1>6. CASE SellerReread(r)
  BY <1>6, AnswerGoes DEF SellerReread, At, Goes, Out
<1>7. CASE SaveBankDetails(r)
  BY <1>7, AnswerGoes DEF SaveBankDetails, At, SSave, SaveChanges, BankChange, SellerFields, Goes, Out, Snap
<1>8. CASE SaveCertificate(r)
  BY <1>8, AnswerGoes DEF SaveCertificate, At, SellerFields, Goes, Out
<1>9. CASE SellerRevokeFirst(r)
  BY <1>9, AnswerGoes DEF SellerRevokeFirst, At, Goes, Out
<1>10. CASE (ReuseRevoke(r) \/ RotateIssue(r) \/ RotateMark(r) \/ EndSessions(r)) /\ UNCHANGED seller
  BY <1>10, AnswerGoes DEF ReuseRevoke, RotateIssue, RotateMark, EndSessions, At, Goes, Out
<1> QED
  BY <1>1, <1>2, <1>3, <1>4, <1>5, <1>6, <1>7, <1>8, <1>9, <1>10

\* How a request writes the mark.
Marks(r) ==
  /\ Moves(r) /\ req[r].pc \in Pending /\ req[r].op \in Admin /\ req'[r].snap = req[r].snap
  /\ req'[r].pc \in {"revoke", "done"} /\ (Out(r) => Out(r)')

\* The seller's document, under the administrators' saves.
LEMMA SellerMarks ==
  ASSUME FrameInv, NEW r \in Requests, DOMAIN seller = SellerFields,
         ApprovedHasCertificate,
         req[r].pc = "setStatus" =>
           seller.exists /\ (req[r].arg = "approved" => seller.cert) /\ req[r].op = "status",
         WriteSellerStatus(r) \/ SellerAdminSave(r)
  PROVE  /\ Marks(r) /\ ApprovedHasCertificate'
         /\ DOMAIN seller' = SellerFields
         /\ seller'.exists = seller.exists /\ seller'.cert = seller.cert
         /\ Closes(r) /\ Snap(r).status = seller.status =>
              seller'.status = "suspended" \/ (req'[r].pc = "done" /\ req'[r].ans # "ended")
<1> USE DEF Marks, ApprovedHasCertificate, Pending, Closes, Admin
<1>1. CASE WriteSellerStatus(r)
  BY <1>1, AnswerGoes DEF WriteSellerStatus, At, SellerFields, Goes, Out
<1>2. CASE SellerAdminSave(r)
  <2>1. req[r].pc = "sellerSave" /\ UNCHANGED load
    BY <1>2 DEF SellerAdminSave, At
  <2>2. \/ Goes(r, "revoke", req[r].ans) \/ Goes(r, "done", "ok")
        \/ req[r].op = "sellerBan" /\ Goes(r, "done", "ended")
    BY <1>2, <2>1, AnswerGoes DEF SellerAdminSave
  <2>3. req[r].op \in {"sellerDelete", "sellerRestore", "sellerBan", "sellerUnban"}
    BY <1>2 DEF SellerAdminSave
  <2>4. Marks(r)
    BY <2>1, <2>2, <2>3 DEF Goes, Out
  <2>5. /\ DOMAIN seller' = SellerFields
        /\ seller'.exists = seller.exists /\ seller'.cert = seller.cert
        /\ seller'.bank = seller.bank /\ seller'.recipient = seller.recipient
        /\ \/ seller'.status \in {seller.status, "pending"}
           \/ seller'.status = "suspended" /\ req[r].op \in {"sellerDelete", "sellerBan"}
        /\ req[r].op \in {"sellerDelete", "sellerBan"} /\ Snap(r).status = seller.status =>
             seller'.status = "suspended"
    BY <1>2 DEF SellerAdminSave, SSave, SaveChanges, SellerFields
  <2> QED
    BY <2>3, <2>4, <2>5
<1> QED
  BY <1>1, <1>2

\* The user's document, up to the first await of a handler.
LEMMA UserReads ==
  ASSUME FrameInv, NEW r \in Requests,
         \/ Login(r) \/ StaffLogin(r) \/ Register(r) \/ GoogleLogin(r) \/ Refresh(r)
         \/ (Logout(r, user) \/ LogoutEverywhere(r, user)) /\ UNCHANGED user
         \/ ChangePassword(r) \/ ForgotPassword(r) \/ ResetPassword(r)
         \/ VerifyEmail(r) \/ ResendVerification(r)
         \/ SetCustomerBan(r) \/ SoftDeleteCustomer(r) \/ RestoreCustomer(r) \/ UpdateStaff(r)
         \/ CreateStaff(r) \/ SeedSuperAdmin(r) \/ StaffCall(r) \/ AddAddress(r) \/ RemoveAddress(r)
  PROVE  Reads(r, user, user.active = FALSE) /\ UNCHANGED user
<1> USE EnterBegins DEF Begins, Reads, Out, Closes
<1>1. CASE Login(r) \/ StaffLogin(r)
  BY <1>1 DEF Login, StaffLogin, Authenticate, Unavailable
<1>2. CASE Register(r)
  BY <1>2 DEF Register
<1>3. CASE GoogleLogin(r)
  BY <1>3 DEF GoogleLogin, Unavailable, Banned
<1>4. CASE Refresh(r)
  BY <1>4 DEF Refresh, RotateFind
<1>5. CASE (Logout(r, user) \/ LogoutEverywhere(r, user)) /\ UNCHANGED user
  BY <1>5 DEF Logout, LogoutEverywhere
<1>6. CASE ChangePassword(r) \/ ForgotPassword(r) \/ ResetPassword(r)
  BY <1>6 DEF ChangePassword, ForgotPassword, ResetPassword
<1>7. CASE VerifyEmail(r) \/ ResendVerification(r)
  BY <1>7 DEF VerifyEmail, ResendVerification
<1>8. CASE SetCustomerBan(r) \/ SoftDeleteCustomer(r) \/ RestoreCustomer(r)
  BY <1>8 DEF SetCustomerBan, SoftDeleteCustomer, RestoreCustomer, AdminRead, IsCustomer
<1>9. CASE UpdateStaff(r)
  BY <1>9 DEF UpdateStaff, AdminRead
<1>10. CASE CreateStaff(r) \/ SeedSuperAdmin(r)
  BY <1>10 DEF CreateStaff, SeedSuperAdmin
<1>11. CASE StaffCall(r)
  BY <1>11 DEF StaffCall
<1>12. CASE AddAddress(r) \/ RemoveAddress(r)
  BY <1>12 DEF AddAddress, RemoveAddress
<1> QED
  BY <1>1, <1>2, <1>3, <1>4, <1>5, <1>6, <1>7, <1>8, <1>9, <1>10, <1>11, <1>12

UserKeeps ==
  /\ DOMAIN user' = UserFields
  /\ user.exists => user'.exists /\ user'.active = user.active

\* The user's document, under the handlers' later steps.
LEMMA UserContinues ==
  ASSUME FrameInv, NEW r \in Requests, DOMAIN user = UserFields,
         \/ RegisterFailedAttempt(r) \/ ClearFailedAttempts(r) \/ OpenSession(r) \/ RegisterCreate(r)
         \/ GoogleByEmail(r) \/ GoogleLink(r) \/ GoogleCreate(r) \/ RefreshReread(r)
         \/ (ReuseRevoke(r) \/ RotateIssue(r) \/ RotateMark(r) \/ EndSessions(r)) /\ UNCHANGED user
         \/ SetPassword(r) \/ SetResetLink(r) \/ SetVerified(r) \/ SetVerificationLink(r)
         \/ RevokeFirst(r) \/ StaffCreate(r) \/ SaveAddress(r) \/ DropAddress(r)
  PROVE  /\ Continues(r) /\ UserKeeps
         /\ user.exists /\ user.active = FALSE /\ Out(r) => Out(r)'
<1> USE DEF Continues, UserKeeps, Pending
<1>1. CASE RegisterFailedAttempt(r)
  BY <1>1, AnswerGoes DEF RegisterFailedAttempt, At, Save, SaveChanges, UserFields, Goes, Out
<1>2. CASE ClearFailedAttempts(r)
  BY <1>2, AnswerGoes DEF ClearFailedAttempts, At, Save, SaveChanges, UserFields, Goes, Out
<1>3. CASE OpenSession(r)
  BY <1>3, AnswerGoes DEF OpenSession, At, Goes, Out
<1>4. CASE RegisterCreate(r) \/ GoogleCreate(r) \/ StaffCreate(r)
  BY <1>4, AnswerGoes
     DEF RegisterCreate, GoogleCreate, StaffCreate, CreateUser, EmailTaken, NewUser, At, UserFields, Goes, Out
<1>5. CASE GoogleByEmail(r)
  <2>1. /\ req[r].pc = "byEmail" /\ UNCHANGED <<load, user>>
        /\ req' = [req EXCEPT ![r].pc = IF user.exists THEN "link" ELSE "googleCreate", ![r].snap = user]
    BY <1>5 DEF GoogleByEmail, At
  <2>2. Moves(r) /\ req'[r].pc = (IF user.exists THEN "link" ELSE "googleCreate")
        /\ req'[r].ans = req[r].ans /\ req'[r].snap = user
    BY <2>1 DEF Moves, FrameInv, Fields
  <2> QED
    BY <2>1, <2>2 DEF Out, Snap, Unavailable
<1>6. CASE GoogleLink(r)
  BY <1>6, AnswerGoes DEF GoogleLink, At, Save, SaveChanges, UserFields, Goes, Out, Snap
<1>7. CASE RefreshReread(r)
  BY <1>7, AnswerGoes DEF RefreshReread, MayRenew, At, Goes, Out
<1>8. CASE (ReuseRevoke(r) \/ RotateIssue(r) \/ RotateMark(r) \/ EndSessions(r)) /\ UNCHANGED user
  BY <1>8, AnswerGoes DEF ReuseRevoke, RotateIssue, RotateMark, EndSessions, At, Goes, Out
<1>9. CASE SetPassword(r)
  BY <1>9, AnswerGoes DEF SetPassword, NewPassword, At, Save, SaveChanges, UserFields, Goes, Out
<1>10. CASE SetResetLink(r)
  BY <1>10, AnswerGoes DEF SetResetLink, At, Save, SaveChanges, UserFields, Goes, Out
<1>11. CASE SetVerified(r)
  BY <1>11, AnswerGoes DEF SetVerified, At, Save, SaveChanges, UserFields, Goes, Out
<1>12. CASE SetVerificationLink(r)
  BY <1>12, AnswerGoes DEF SetVerificationLink, At, Save, SaveChanges, UserFields, Goes, Out
<1>13. CASE RevokeFirst(r)
  BY <1>13, AnswerGoes DEF RevokeFirst, At, Goes, Out
<1>14. CASE SaveAddress(r) \/ DropAddress(r)
  <2>1. /\ req[r].pc \in {"saveAddress", "dropAddress"} /\ UNCHANGED load
        /\ Answer(r, "ok") \/ Answer(r, "error")
        /\ UNCHANGED user \/ \E book : user' = Replaces(book)
    BY <1>14 DEF SaveAddress, DropAddress, At
  <2>2. UserKeeps
    BY <2>1 DEF Replaces, UserFields
  <2> QED
    BY <2>1, <2>2, AnswerGoes DEF Goes, Out
<1> QED
  BY <1>1, <1>2, <1>3, <1>4, <1>5, <1>6, <1>7, <1>8, <1>9, <1>10, <1>11, <1>12, <1>13, <1>14

\* The user's document, under the administrators' saves.
LEMMA UserMarks ==
  ASSUME FrameInv, NEW r \in Requests, DOMAIN user = UserFields, AdminSave(r)
  PROVE  /\ Marks(r) /\ DOMAIN user' = UserFields /\ user'.exists = user.exists
         /\ Closes(r) /\ Snap(r).active = user.active => user'.active = FALSE
<1>1. req[r].pc = "saveAdmin" /\ UNCHANGED load
  BY DEF AdminSave, At
<1>2. Goes(r, "done", "ended") \/ Goes(r, "done", "ok")
  BY <1>1, AnswerGoes DEF AdminSave
<1>3. req[r].op \in {"ban", "unban", "delete", "restore", "updateStaff"}
  BY DEF AdminSave
<1>4. Marks(r)
  BY <1>1, <1>2, <1>3 DEF Marks, Goes, Out, Pending, Admin
<1>5. DOMAIN user' = UserFields /\ user'.exists = user.exists
  BY DEF AdminSave, Save, SaveChanges, UserFields
<1>6. Closes(r) /\ Snap(r).active = user.active => user'.active = FALSE
  BY DEF AdminSave, Save, SaveChanges, Snap, UserFields, Closes, StaffRoles
<1> QED
  BY <1>4, <1>5, <1>6

\* The account in play, the field that closes it and its value then.
Doc == IF load \in SellerWorkloads THEN seller ELSE user
Mark(d) == IF load \in SellerWorkloads THEN d.status ELSE d.active
Shut == Doc.exists /\ Mark(Doc) = IF load \in SellerWorkloads THEN "suspended" ELSE FALSE

StepsInv ==
  \A r \in Requests :
     /\ req[r].pc = "setPassword" => req[r].op \in {"changePassword", "resetPassword"}
     /\ req[r].pc = "setStatus" => req[r].op = "status"

\* A request that closes the account when every other request that may
\* change the mark was answered before it began.
Sole(e) == Closes(e) /\ \A a \in Requests \ {e} : req[a].op \in Admin => a \in Before(e)

\* What it read is still so when it writes; then the account is shut, and
\* whoever begins after its answer stays out.
ClosedInv ==
  \A e \in Requests : Sole(e) =>
     /\ req[e].ans = "ended" \/ req[e].pc = "revoke" => Shut
     /\ req[e].pc \in Pending => Doc.exists /\ Mark(Snap(e)) = Mark(Doc)
     /\ req[e].ans = "ended" => \A r \in Requests : e \in Before(r) => Out(r)

DocInv ==
  /\ FrameInv /\ StepsInv /\ ClosedInv /\ ApprovedHasCertificate
  /\ load \notin SellerWorkloads => seller = NoSeller /\ DOMAIN user = UserFields
  /\ load \in SellerWorkloads =>
       /\ DOMAIN seller = SellerFields
       /\ \A r \in Requests :
            req[r].pc = "setStatus" => seller.exists /\ (req[r].arg = "approved" => seller.cert)

\* A request that is the only change of status was so before the step, or has just begun.
LEMMA StillSole ==
  ASSUME FrameInv, NEW r \in Requests, Moves(r), NEW e \in Requests, Sole(e)'
  PROVE  /\ e # r \/ req[r].pc # "idle" => Sole(e) /\ Closes(e)
         /\ e # r => Before(e)' = Before(e) /\ (req'[r].op \in Admin => r \in Before(e) /\ req[r].pc = "done")
<1>1. /\ \A d \in Requests \ {r} : req'[d] = req[d]
      /\ req[r].pc # "idle" => req'[r].op = req[r].op /\ req'[r].arg = req[r].arg /\ req'[r].before = req[r].before
      /\ req[r].pc = "idle" => req[r].op \notin Admin
  BY DEF Moves, FrameInv, Idle, Admin
<1>2. e # r \/ req[r].pc # "idle" => Closes(e) /\ Before(e)' = Before(e)
  BY <1>1 DEF Sole, Closes, Before
<1>3. ASSUME e # r \/ req[r].pc # "idle", NEW a \in Requests \ {e}, req[a].op \in Admin PROVE a \in Before(e)
  <2>1. req'[a].op = req[a].op
    BY <1>1, <1>3
  <2> QED
    BY <1>2, <1>3, <2>1 DEF Sole
<1>4. ASSUME e # r, req'[r].op \in Admin PROVE r \in Before(e) /\ req[r].pc = "done"
  <2>1. r \in Before(e)
    BY <1>2, <1>4 DEF Sole
  <2> QED
    BY <2>1 DEF FrameInv, Finished, Before
<1> QED
  BY <1>2, <1>3, <1>4 DEF Sole

\* A request begins: if the account is closed, it is turned away.
LEMMA ReadsClosed ==
  ASSUME FrameInv, StepsInv, ClosedInv, NEW r \in Requests, Reads(r, Doc, Shut), UNCHANGED Doc
  PROVE  StepsInv' /\ ClosedInv'
<1>0. Moves(r) /\ req[r].pc = "idle" /\ UNCHANGED load /\ \A d \in Requests \ {r} : req'[d] = req[d]
  BY DEF Reads, Moves
<1>1. StepsInv'
  BY <1>0 DEF StepsInv, Reads
<1>2. Shut' = Shut /\ \A d : Mark(d)' = Mark(d)
  BY <1>0 DEF Shut, Mark
<1>3. ASSUME NEW e \in Requests, Sole(e)', e # r
      PROVE  /\ req'[e].ans = "ended" \/ req'[e].pc = "revoke" => Shut'
             /\ req'[e].pc \in Pending => Doc'.exists /\ Mark(Snap(e))' = Mark(Doc)'
             /\ req'[e].ans = "ended" => \A d \in Requests : e \in Before(d)' => Out(d)'
  <2>1. Sole(e) /\ req'[e] = req[e]
    BY <1>0, <1>3, StillSole
  <2>2. req'[e].ans = "ended" \/ req'[e].pc = "revoke" => Shut'
    BY <1>2, <2>1 DEF ClosedInv
  <2>3. req'[e].pc \in Pending => Doc'.exists /\ Mark(Snap(e))' = Mark(Doc)'
    BY <1>0, <2>1 DEF ClosedInv, Snap, Mark
  <2>4. ASSUME req'[e].ans = "ended", NEW d \in Requests, e \in Before(d)' PROVE Out(d)'
    <3>1. CASE d = r
      BY <2>1, <2>4, <3>1 DEF ClosedInv, Reads, Shut
    <3>2. CASE d # r
      <4>1. Out(d) /\ req'[d] = req[d]
        BY <1>0, <2>1, <2>4, <3>2 DEF ClosedInv, Before
      <4> QED
        BY <4>1 DEF Out, Snap
    <3> QED
      BY <3>1, <3>2
  <2> QED
    BY <2>2, <2>3, <2>4
<1>4. ASSUME Sole(r)'
      PROVE  /\ req'[r].ans # "ended" /\ req'[r].pc # "revoke"
             /\ req'[r].pc \in Pending => Doc'.exists /\ Mark(Snap(r))' = Mark(Doc)'
  BY <1>4 DEF Sole, Reads, Pending, Snap, Mark
<1> QED
  BY <1>1, <1>3, <1>4 DEF ClosedInv

\* A request that goes on does not reopen a closed account.
LEMMA ContinuesClosed ==
  ASSUME FrameInv, StepsInv, ClosedInv, NEW r \in Requests, Continues(r),
         Doc.exists => Doc'.exists /\ Mark(Doc)' = Mark(Doc),
         Shut /\ Out(r) => Out(r)'
  PROVE  StepsInv' /\ ClosedInv'
<1>0. Moves(r) /\ req[r].pc # "idle" /\ UNCHANGED load /\ \A d \in Requests \ {r} : req'[d] = req[d]
  BY DEF Continues, Moves
<1>1. StepsInv'
  BY <1>0 DEF StepsInv, Continues, Moves
<1>2. Shut => Shut'
  BY <1>0 DEF Shut
<1>3. ASSUME NEW e \in Requests, Sole(e)'
      PROVE  /\ req'[e].ans = "ended" \/ req'[e].pc = "revoke" => Shut'
             /\ req'[e].pc \in Pending => Doc'.exists /\ Mark(Snap(e))' = Mark(Doc)'
             /\ req'[e].ans = "ended" => \A d \in Requests : e \in Before(d)' => Out(d)'
  <2>1. Sole(e) /\ Closes(e)
    BY <1>0, <1>3, StillSole
  <2>2. req'[e].ans = "ended" \/ req'[e].pc = "revoke" => Shut
    BY <1>0, <2>1 DEF ClosedInv, Continues, StepsInv, Closes
  <2>3. ASSUME req'[e].pc \in Pending PROVE Doc'.exists /\ Mark(Snap(e))' = Mark(Doc)'
    <3>1. req[e].pc \in Pending /\ req'[e].snap = req[e].snap
      BY <1>0, <2>3 DEF Continues
    <3>2. Doc.exists /\ Mark(Snap(e)) = Mark(Doc)
      BY <2>1, <3>1 DEF ClosedInv
    <3>3. Mark(Snap(e))' = Mark(Snap(e))
      BY <1>0, <3>1 DEF Mark, Snap
    <3> QED
      BY <3>2, <3>3
  <2>4. ASSUME req'[e].ans = "ended", NEW d \in Requests, e \in Before(d)' PROVE Out(d)'
    <3>1. Shut /\ e \in Before(d)
      BY <1>0, <2>2, <2>4 DEF Before, Moves
    <3>2. e \in Finished
      BY <3>1 DEF FrameInv, Before
    <3>3. e # r \/ req[e].ans = "ended"
      BY <2>4, <3>2 DEF Finished, Continues
    <3>4. req[e].ans = "ended"
      BY <1>0, <2>4, <3>3
    <3>5. Out(d)
      BY <2>1, <3>1, <3>4 DEF ClosedInv
    <3>6. CASE d # r
      BY <1>0, <3>5, <3>6 DEF Out, Snap
    <3> QED
      BY <3>1, <3>5, <3>6
  <2> QED
    BY <1>2, <2>2, <2>3, <2>4
<1> QED
  BY <1>1, <1>3 DEF ClosedInv

\* An administrator's save of the status.
LEMMA MarksClosed ==
  ASSUME FrameInv, StepsInv, ClosedInv, NEW r \in Requests, Marks(r), Doc'.exists = Doc.exists,
         Closes(r) /\ Mark(Snap(r)) = Mark(Doc) /\ Doc.exists => Shut' \/ (req'[r].pc = "done" /\ req'[r].ans # "ended")
  PROVE  StepsInv' /\ ClosedInv'
<1>0. /\ Moves(r) /\ req[r].pc \notin {"idle", "done"} /\ \A d \in Requests \ {r} : req'[d] = req[d]
      /\ req'[r].op \in Admin /\ req'[r].pc \in {"revoke", "done"}
  BY DEF Marks, Moves, Pending
<1>1. StepsInv'
  BY <1>0 DEF StepsInv
<1>2. ASSUME NEW e \in Requests, Sole(e)' PROVE e = r /\ Sole(r) /\ Closes(r)
  BY <1>0, <1>2, StillSole
<1>3. ASSUME Sole(r)'
      PROVE  /\ req'[r].ans = "ended" \/ req'[r].pc = "revoke" => Shut'
             /\ \A d \in Requests : r \notin Before(d)'
  <2>1. Doc.exists /\ Mark(Snap(r)) = Mark(Doc) /\ Closes(r)
    BY <1>2, <1>3 DEF ClosedInv, Marks
  <2>2. \A d \in Requests : Before(d)' = Before(d) /\ r \notin Before(d)
    BY <1>0 DEF FrameInv, Finished, Before, Moves
  <2> QED
    BY <2>1, <2>2
<1> QED
  BY <1>0, <1>1, <1>2, <1>3 DEF ClosedInv, Pending

\* Time does not reopen an account.
LEMMA TimeClosed ==
  ASSUME FrameInv, StepsInv, ClosedInv, UNCHANGED <<req, load>>, Doc'.exists = Doc.exists, Mark(Doc)' = Mark(Doc)
  PROVE  FrameInv' /\ StepsInv' /\ ClosedInv'
<1>1. FrameInv' /\ StepsInv' /\ Shut' = Shut
  BY DEF FrameInv, Finished, StepsInv, Shut
<1>2. \A e \in Requests : Sole(e)' = Sole(e) /\ Out(e)' = Out(e) /\ Before(e)' = Before(e)
  BY DEF Sole, Closes, Before, Out, Snap
<1>3. \A e \in Requests : Mark(Snap(e))' = Mark(Snap(e))
  BY DEF Mark, Snap
<1> QED
  BY <1>1, <1>2, <1>3 DEF ClosedInv

\* The documents' invariant, over a user's step.
LEMMA DocUserStep ==
  ASSUME DocInv, NEW r \in Requests, load \notin SellerWorkloads, UNCHANGED seller, UserStep(r)
  PROVE  DocInv'
<1>0. /\ FrameInv /\ StepsInv /\ ClosedInv /\ DOMAIN user = UserFields
      /\ Doc = user /\ Mark(Doc) = user.active /\ (Shut <=> user.exists /\ user.active = FALSE)
  BY DEF DocInv, Doc, Mark, Shut
<1>1. ASSUME Moves(r), DOMAIN user' = UserFields, StepsInv' /\ ClosedInv' PROVE DocInv'
  <2>1. FrameInv' /\ load' = load
    BY <1>0, <1>1, FrameMoves DEF Moves
  <2>2. ApprovedHasCertificate'
    BY DEF DocInv, ApprovedHasCertificate
  <2> QED
    BY <1>1, <2>1, <2>2 DEF DocInv
<1>2. ASSUME load' = load PROVE Doc' = user' /\ Mark(Doc)' = user'.active
  BY <1>2 DEF Doc, Mark
<1>3. CASE Reads(r, user, user.active = FALSE) /\ UNCHANGED user
  <2>1. Moves(r) /\ UNCHANGED load
    BY <1>3 DEF Reads, Moves
  <2>2. Reads(r, Doc, Shut) /\ UNCHANGED Doc
    BY <1>0, <1>2, <1>3, <2>1 DEF Reads
  <2> QED
    BY <1>0, <1>1, <1>3, <2>1, <2>2, ReadsClosed
<1>4. CASE Continues(r) /\ UserKeeps /\ (user.exists /\ user.active = FALSE /\ Out(r) => Out(r)')
  <2>1. Moves(r) /\ UNCHANGED load
    BY <1>4 DEF Continues, Moves
  <2>2. StepsInv' /\ ClosedInv'
    BY <1>0, <1>2, <1>4, <2>1, ContinuesClosed DEF UserKeeps
  <2> QED
    BY <1>1, <1>4, <2>1, <2>2 DEF UserKeeps
<1>5. CASE AdminSave(r)
  <2>1. /\ Marks(r) /\ DOMAIN user' = UserFields /\ user'.exists = user.exists
        /\ Closes(r) /\ Snap(r).active = user.active => user'.active = FALSE
    BY <1>0, <1>5, UserMarks
  <2>2. Moves(r) /\ UNCHANGED load
    BY <2>1 DEF Marks, Moves
  <2>3. Doc' = user' /\ Mark(Snap(r)) = Snap(r).active /\ (Shut' <=> user'.exists /\ user'.active = FALSE)
    BY <1>0, <2>2 DEF Doc, Mark, Shut
  <2>4. StepsInv' /\ ClosedInv'
    BY <1>0, <2>1, <2>3, MarksClosed
  <2> QED
    BY <1>1, <2>1, <2>2, <2>4
<1> QED
  BY <1>0, <1>3, <1>4, <1>5, UserReads, UserContinues DEF UserStep

\* The documents' invariant, over a seller's step.
LEMMA DocSellerStep ==
  ASSUME DocInv, NEW r \in Requests, load \in SellerWorkloads, SellerStep(r)
  PROVE  DocInv'
<1>0. /\ FrameInv /\ StepsInv /\ ClosedInv /\ DOMAIN seller = SellerFields /\ ApprovedHasCertificate
      /\ Doc = seller /\ Mark(Doc) = seller.status /\ (Shut <=> seller.exists /\ seller.status = "suspended")
      /\ req[r].pc = "setStatus" =>
           seller.exists /\ (req[r].arg = "approved" => seller.cert) /\ req[r].op = "status"
  BY DEF DocInv, Doc, Mark, Shut, StepsInv
<1>1. ASSUME Moves(r), DOMAIN seller' = SellerFields, ApprovedHasCertificate', StepsInv' /\ ClosedInv',
             seller.exists => seller'.exists /\ (seller.cert => seller'.cert),
             (req'[r].snap = req[r].snap /\ req[r].pc # "idle") \/ req'[r].snap = seller,
             req'[r].pc = "setStatus" => seller'.exists /\ (req'[r].arg = "approved" => seller'.cert)
      PROVE  DocInv'
  <2>1. FrameInv' /\ load' = load /\ \A d \in Requests \ {r} : req'[d] = req[d]
    BY <1>0, <1>1, FrameMoves DEF Moves
  <2>2. ASSUME NEW d \in Requests
        PROVE  req'[d].pc = "setStatus" => seller'.exists /\ (req'[d].arg = "approved" => seller'.cert)
    <3>1. CASE d = r
      BY <1>1, <3>1
    <3>2. CASE d # r
      BY <1>1, <2>1, <3>2 DEF DocInv, Snap
    <3> QED
      BY <3>1, <3>2
  <2> QED
    BY <1>1, <2>1, <2>2 DEF DocInv, Snap
<1>2. ASSUME load' = load PROVE Doc' = seller' /\ Mark(Doc)' = seller'.status
  BY <1>2 DEF Doc, Mark
<1>3. CASE /\ Reads(r, seller, seller.status = "suspended") /\ UNCHANGED seller
           /\ req'[r].pc = "setStatus" => seller.exists /\ (req'[r].arg = "approved" => seller.cert)
  <2>1. Moves(r) /\ UNCHANGED load /\ req'[r].snap = seller
    BY <1>3 DEF Reads, Moves
  <2>2. Reads(r, Doc, Shut) /\ UNCHANGED Doc
    BY <1>0, <1>2, <1>3, <2>1 DEF Reads
  <2>3. ApprovedHasCertificate'
    BY <1>0, <1>3 DEF ApprovedHasCertificate
  <2> QED
    BY <1>0, <1>1, <1>3, <2>1, <2>2, <2>3, ReadsClosed
<1>4. CASE /\ Continues(r) /\ req'[r].snap = req[r].snap /\ SellerKeeps /\ ApprovedHasCertificate'
           /\ seller.exists /\ seller.status = "suspended" /\ Out(r) => Out(r)'
  <2>1. Moves(r) /\ UNCHANGED load /\ req[r].pc # "idle" /\ req'[r].pc # "setStatus"
    BY <1>4 DEF Continues, Moves
  <2>2. StepsInv' /\ ClosedInv'
    BY <1>0, <1>2, <1>4, <2>1, ContinuesClosed DEF SellerKeeps
  <2> QED
    BY <1>1, <1>4, <2>1, <2>2 DEF SellerKeeps
<1>5. CASE WriteSellerStatus(r) \/ SellerAdminSave(r)
  <2>0. req[r].pc # "idle"
    BY <1>5 DEF WriteSellerStatus, SellerAdminSave, At
  <2>1. /\ Marks(r) /\ ApprovedHasCertificate'
        /\ DOMAIN seller' = SellerFields
        /\ seller'.exists = seller.exists /\ seller'.cert = seller.cert
        /\ Closes(r) /\ Snap(r).status = seller.status =>
             seller'.status = "suspended" \/ (req'[r].pc = "done" /\ req'[r].ans # "ended")
    BY <1>0, <1>5, <2>0, SellerMarks
  <2>2. Moves(r) /\ UNCHANGED load /\ req'[r].snap = req[r].snap /\ req'[r].pc # "setStatus"
    BY <2>1 DEF Marks, Moves
  <2>3. Doc' = seller' /\ Mark(Snap(r)) = Snap(r).status /\ (Shut' <=> seller'.exists /\ seller'.status = "suspended")
    BY <1>0, <2>2 DEF Doc, Mark, Shut
  <2>4. StepsInv' /\ ClosedInv'
    BY <1>0, <2>1, <2>3, MarksClosed
  <2> QED
    BY <1>1, <2>0, <2>1, <2>2, <2>4
<1>6. ASSUME \/ SellerCreate(r) \/ SellerLoginFails(r) \/ SellerLoginClears(r) \/ SellerSession(r) \/ SellerLink(r)
             \/ SellerReread(r) \/ SaveBankDetails(r) \/ SaveCertificate(r) \/ SellerRevokeFirst(r)
             \/ (ReuseRevoke(r) \/ RotateIssue(r) \/ RotateMark(r) \/ EndSessions(r)) /\ UNCHANGED seller
      PROVE  DocInv'
  <2>1. req[r].pc # "idle"
    BY <1>6 DEF SellerCreate, SellerLoginFails, SellerLoginClears, SellerSession, SellerLink, SellerReread,
                SaveBankDetails, SaveCertificate, SellerRevokeFirst, ReuseRevoke, RotateIssue, RotateMark,
                EndSessions, At
  <2> QED
    BY <1>0, <1>4, <1>6, <2>1, SellerContinues
<1> QED
  BY <1>0, <1>3, <1>5, <1>6, SellerReads DEF SellerStep

\* The documents' invariant, over time.
LEMMA DocTime ==
  ASSUME DocInv,
         \/ UNCHANGED ivars
         \/ load \notin SellerWorkloads /\ UserTime /\ UNCHANGED seller
         \/ load \in SellerWorkloads /\ SellerTime
  PROVE  DocInv'
<1>1. UNCHANGED <<req, load>>
  BY DEF ivars, UserTime, SellerTime, LockExpires, BanExpires, LinkExpires, SellerLockExpires, SellerBanExpires,
         TokenExpires
<1>2. CASE load \notin SellerWorkloads
  <2>1. UNCHANGED seller /\ DOMAIN user' = UserFields /\ user'.exists = user.exists /\ user'.active = user.active
    BY <1>2 DEF DocInv, ivars, UserTime, LockExpires, BanExpires, LinkExpires, UserFields
  <2> QED
    BY <1>1, <1>2, <2>1, TimeClosed
       DEF DocInv, Doc, Mark, ApprovedHasCertificate
<1>3. CASE load \in SellerWorkloads
  <2>1. /\ DOMAIN seller' = SellerFields /\ seller'.exists = seller.exists /\ seller'.status = seller.status
        /\ seller'.cert = seller.cert /\ seller'.bank = seller.bank /\ seller'.recipient = seller.recipient
    BY <1>3 DEF DocInv, ivars, SellerTime, SellerLockExpires, SellerBanExpires, SellerFields
  <2>2. ApprovedHasCertificate'
    BY <2>1 DEF DocInv, ApprovedHasCertificate
  <2>3. FrameInv' /\ StepsInv' /\ ClosedInv'
    BY <1>1, <1>3, <2>1, TimeClosed DEF DocInv, Doc, Mark
  <2> QED
    BY <1>1, <1>3, <2>1, <2>2, <2>3 DEF DocInv, Snap
<1> QED
  BY <1>2, <1>3

\* The documents' invariant, at the start.
LEMMA DocStart == ASSUME IdentityInit PROVE DocInv
<1>1. FrameInv /\ req = [r \in Requests |-> Idle]
  BY SessionsStart DEF SessionsInv, IdentityInit, SessionsInit
<1>2. \A r \in Requests : req[r] = Idle
  BY <1>1
<1>3. StepsInv /\ ClosedInv
  BY <1>2 DEF StepsInv, ClosedInv, Idle, Sole, Closes, Pending
<1>4. load \notin SellerWorkloads => seller = NoSeller /\ DOMAIN user = UserFields
  BY IdentityAssumption DEF IdentityInit, UserRecord, UserFields, Nobody, NewUser
<1>5. load \in SellerWorkloads => DOMAIN seller = SellerFields
  BY IdentityAssumption DEF IdentityInit, SellerRecord, SellerFields
<1>6. ApprovedHasCertificate
  BY IdentityAssumption DEF IdentityInit, NoSeller, NewSeller,
     ApprovedHasCertificate
<1> QED
  BY <1>1, <1>2, <1>3, <1>4, <1>5, <1>6 DEF DocInv, Idle

\* The documents' invariant, over every step.
LEMMA DocStep == ASSUME DocInv, [IdentityNext]_ivars PROVE DocInv'
<1> QED
  BY DocUserStep, DocSellerStep, DocTime DEF IdentityNext

\* Once an account is deactivated, archived or suspended, and nobody
\* changes it back, no request begun later is let in.
THEOREM ClosedSafety == IdentitySpec => []ClosedAccountStaysOut
<1>1. ASSUME DocInv PROVE ClosedAccountStaysOut
  BY <1>1 DEF DocInv, ClosedInv, ClosedAccountStaysOut, Sole, Out, Finished
<1> QED
  BY <1>1, DocStart, DocStep, PTL DEF IdentitySpec

-----------------------------------------------------------------------------
(* The stages of a user's request, and the few shapes a step of it has.    *)

(* Which steps a user's request takes. *)
UserStage(op, pc) ==
  \/ op \in {"login", "staffLogin"} /\ pc \in {"fail", "clear", "issue"}
  \/ op = "register" /\ pc \in {"create", "issue"}
  \/ op = "google" /\ pc \in {"byEmail", "link", "googleCreate", "issue"}
  \/ op = "refresh" /\ pc \in {"rotate", "mark", "reread", "reuse"}
  \/ op \in {"changePassword", "resetPassword"} /\ pc \in {"setPassword", "revoke"}
  \/ op = "forgotPassword" /\ pc = "setLink"
  \/ op = "verify" /\ pc = "setVerified"
  \/ op = "resend" /\ pc = "setVtok"
  \/ op \in {"ban", "unban", "delete", "restore", "updateStaff"} /\ pc \in {"revokeFirst", "saveAdmin"}
  \/ op \in {"createStaff", "seed"} /\ pc = "createStaff"
  \/ op = "addAddress" /\ pc = "saveAddress"
  \/ op = "removeAddress" /\ pc = "dropAddress"

LoginOps == {"login", "staffLogin", "sellerLogin"}

\* What a login has seen that goes on.
LoginOpens(r, doc) ==
  req'[r].op \in LoginOps /\ req'[r].pc # "done" =>
     /\ doc.exists /\ doc.lock # "future"
     /\ req'[r].pc \in {"issue", "sellerIssue"} => doc.fails = 0 /\ doc.lock = "none"

UserOpens(r) ==
  /\ Moves(r) /\ req[r].pc = "idle" /\ UNCHANGED user /\ req'[r].snap = user
  /\ req'[r].pc # "done" => req'[r].ans = "none" /\ UserStage(req'[r].op, req'[r].pc)
  /\ req'[r].ans \notin {"wrong", "session", "created"}
  /\ LoginOpens(r, user)
  /\ req'[r].pc # "revoke"
  /\ req'[r].op = "resetPassword" =>
       /\ req'[r].ans # "ended"
       /\ req'[r].pc # "done" =>
            /\ user.exists /\ user.reset = req'[r].arg /\ req'[r].arg \in Requests
            /\ req[req'[r].arg].pc = "done" /\ req[req'[r].arg].op = "forgotPassword"
  /\ req'[r].op = "forgotPassword" => req'[r].pc = IF user.exists THEN "setLink" ELSE "done"
  /\ req'[r].op \in {"register", "createStaff", "seed"} => req'[r].pc # "issue"
  /\ req'[r].op = "addAddress" => req'[r].ans # "ok" /\ (req'[r].pc # "done" => user.exists)
  /\ req'[r].op = "removeAddress" => req'[r].ans # "ok" /\ \E a \in user.book : req'[r].arg = a.id
  /\ req'[r].op \in {"createStaff", "seed"} => req'[r].arg \in StaffRoles

\* Which of a user's requests begin, and how.
LEMMA UserOpening ==
  ASSUME FrameInv, NEW r \in Requests,
         \/ Login(r) \/ StaffLogin(r) \/ Register(r) \/ GoogleLogin(r) \/ Refresh(r)
         \/ (Logout(r, user) \/ LogoutEverywhere(r, user)) /\ UNCHANGED user
         \/ ChangePassword(r) \/ ForgotPassword(r) \/ ResetPassword(r)
         \/ VerifyEmail(r) \/ ResendVerification(r)
         \/ SetCustomerBan(r) \/ SoftDeleteCustomer(r) \/ RestoreCustomer(r) \/ UpdateStaff(r)
         \/ CreateStaff(r) \/ SeedSuperAdmin(r) \/ StaffCall(r) \/ AddAddress(r) \/ RemoveAddress(r)
  PROVE  UserOpens(r)
<1> USE EnterBegins DEF Begins, UserOpens, LoginOpens, LoginOps, UserStage, StaffRoles
<1>1. CASE Login(r)
  BY <1>1 DEF Login, Authenticate, MustClear
<1>2. CASE StaffLogin(r)
  BY <1>2 DEF StaffLogin, Authenticate, MustClear
<1>3. CASE Register(r) \/ GoogleLogin(r)
  BY <1>3 DEF Register, GoogleLogin
<1>4. CASE Refresh(r)
  BY <1>4 DEF Refresh, RotateFind
<1>5. CASE (Logout(r, user) \/ LogoutEverywhere(r, user)) /\ UNCHANGED user
  BY <1>5 DEF Logout, LogoutEverywhere
<1>6. CASE ChangePassword(r) \/ ForgotPassword(r)
  BY <1>6 DEF ChangePassword, ForgotPassword
<1>7. CASE ResetPassword(r)
  BY <1>7 DEF ResetPassword
<1>8. CASE VerifyEmail(r) \/ ResendVerification(r)
  BY <1>8 DEF VerifyEmail, ResendVerification
<1>9. CASE SetCustomerBan(r) \/ SoftDeleteCustomer(r) \/ RestoreCustomer(r)
  BY <1>9 DEF SetCustomerBan, SoftDeleteCustomer, RestoreCustomer, AdminRead
<1>10. CASE UpdateStaff(r)
  BY <1>10 DEF UpdateStaff, AdminRead
<1>11. CASE CreateStaff(r) \/ SeedSuperAdmin(r)
  BY <1>11 DEF CreateStaff, SeedSuperAdmin
<1>12. CASE StaffCall(r)
  BY <1>12 DEF StaffCall
<1>13. CASE AddAddress(r) \/ RemoveAddress(r)
  BY <1>13 DEF AddAddress, RemoveAddress
<1> QED
  BY <1>1, <1>2, <1>3, <1>4, <1>5, <1>6, <1>7, <1>8, <1>9, <1>10, <1>11, <1>12, <1>13

\* Steps that leave alone what the others are about.
UserKeepsMost ==
  /\ user'.exists = user.exists /\ user'.fails = user.fails /\ user'.lock = user.lock
  /\ user'.pw = user.pw /\ user'.reset = user.reset /\ user'.book = user.book /\ user'.ver = user.ver

PassesBy(r) ==
  /\ Moves(r) /\ req[r].pc \notin {"idle", "fail", "clear", "create", "createStaff", "googleCreate",
                                 "setPassword", "setLink", "saveAddress", "dropAddress"}
  /\ req'[r].pc # "done" =>
       /\ req'[r].ans = req[r].ans
       /\ UserStage(req[r].op, req[r].pc) =>
            UserStage(req[r].op, req'[r].pc) /\ req'[r].pc \notin {"setPassword", "revoke", "fail", "clear"}
       /\ req'[r].pc = "issue" => req[r].pc = "link"
  /\ req[r].pc = "issue" => req'[r].pc = "done" /\ req'[r].ans = "session"
  /\ req'[r].pc = "done" =>
       \/ req'[r].ans \notin {"wrong", "session", "created", "ended"}
       \/ req[r].pc \in {"issue", "reread"} /\ req'[r].ans = "session"
       \/ req[r].pc \in {"revoke", "saveAdmin"} /\ req'[r].ans = "ended"
  /\ UserKeepsMost

\* The handlers that leave attempts, password, link and book alone.
LEMMA UserPassing ==
  ASSUME FrameInv, NEW r \in Requests, user \in UserRecord,
         \/ OpenSession(r) \/ GoogleByEmail(r) \/ GoogleLink(r) \/ RefreshReread(r)
         \/ (ReuseRevoke(r) \/ RotateIssue(r) \/ RotateMark(r) \/ EndSessions(r)) /\ UNCHANGED user
         \/ SetVerified(r) \/ SetVerificationLink(r) \/ RevokeFirst(r) \/ AdminSave(r)
  PROVE  PassesBy(r) /\ user' \in UserRecord
<1>0. DOMAIN user = UserFields
  BY DEF UserRecord, UserFields
<1> USE DEF PassesBy, UserKeepsMost, UserStage
<1>1. CASE OpenSession(r)
  BY <1>1, AnswerGoes DEF OpenSession, At, Goes
<1>2. CASE GoogleByEmail(r)
  <2>1. /\ req[r].pc = "byEmail" /\ UNCHANGED <<load, user>>
        /\ req' = [req EXCEPT ![r].pc = IF user.exists THEN "link" ELSE "googleCreate", ![r].snap = user]
    BY <1>2 DEF GoogleByEmail, At
  <2>2. Moves(r) /\ req'[r].pc = (IF user.exists THEN "link" ELSE "googleCreate") /\ req'[r].ans = req[r].ans
    BY <2>1 DEF Moves, FrameInv, Fields
  <2> QED
    BY <2>1, <2>2
<1>3. CASE GoogleLink(r)
  <2>1. req[r].pc = "link" /\ UNCHANGED load
    BY <1>3 DEF GoogleLink, At
  <2>2. Goes(r, "done", "refused") \/ Goes(r, "issue", req[r].ans)
    BY <1>3, <2>1, AnswerGoes DEF GoogleLink
  <2>3. UserKeepsMost
    BY <1>0, <1>3 DEF GoogleLink, Save, SaveChanges, UserFields
  <2>4. user' \in UserRecord
    BY <1>0, <1>3 DEF GoogleLink, Save, SaveChanges, UserRecord, UserFields
  <2> QED
    BY <2>1, <2>2, <2>3, <2>4 DEF Goes
<1>4. CASE RefreshReread(r)
  BY <1>4, AnswerGoes DEF RefreshReread, At, Goes
<1>5. CASE (ReuseRevoke(r) \/ RotateIssue(r) \/ RotateMark(r) \/ EndSessions(r)) /\ UNCHANGED user
  BY <1>5, AnswerGoes DEF ReuseRevoke, RotateIssue, RotateMark, EndSessions, At, Goes
<1>6. CASE SetVerified(r)
  <2>1. req[r].pc = "setVerified" /\ UNCHANGED load
    BY <1>6 DEF SetVerified, At
  <2>2. Goes(r, "done", "ok")
    BY <1>6, <2>1, AnswerGoes DEF SetVerified
  <2>3. UserKeepsMost
    BY <1>0, <1>6 DEF SetVerified, Save, SaveChanges, UserFields
  <2>4. user' \in UserRecord
    BY <1>0, <1>6 DEF SetVerified, Save, SaveChanges, UserRecord, UserFields
  <2> QED
    BY <2>1, <2>2, <2>3, <2>4 DEF Goes
<1>7. CASE SetVerificationLink(r)
  <2>1. req[r].pc = "setVtok" /\ UNCHANGED load
    BY <1>7 DEF SetVerificationLink, At
  <2>2. Goes(r, "done", "ok")
    BY <1>7, <2>1, AnswerGoes DEF SetVerificationLink
  <2>3. UserKeepsMost
    BY <1>0, <1>7 DEF SetVerificationLink, Save, SaveChanges, UserFields
  <2>4. user' \in UserRecord
    BY <1>0, <1>7 DEF SetVerificationLink, Save, SaveChanges, UserRecord, UserFields
  <2> QED
    BY <2>1, <2>2, <2>3, <2>4 DEF Goes
<1>8. CASE RevokeFirst(r)
  BY <1>8, AnswerGoes DEF RevokeFirst, At, Goes
<1>9. CASE AdminSave(r)
  <2>1. req[r].pc = "saveAdmin" /\ UNCHANGED load
    BY <1>9 DEF AdminSave, At
  <2>2. Goes(r, "done", "ended") \/ Goes(r, "done", "ok")
    BY <1>9, <2>1, AnswerGoes DEF AdminSave
  <2>3. UserKeepsMost
    BY <1>0, <1>9 DEF AdminSave, Save, SaveChanges, UserFields
  <2>4. user' \in UserRecord
    <3>1. /\ user' = [f \in UserFields |-> user'[f]]
          /\ \A f \in UserFields \ {"role", "active", "deleted", "banned"} : user'[f] = user[f]
      BY <1>0, <1>9 DEF AdminSave, Save, SaveChanges, UserFields
    <3>2. /\ user'.active \in {user.active, TRUE, FALSE} /\ user'.deleted \in {user.deleted, TRUE, FALSE}
          /\ user'.banned \in {user.banned, TRUE, FALSE}
      BY <1>0, <1>9 DEF AdminSave, Save, SaveChanges, UserFields
    <3>3. user'.role \in StaffRoles \cup {user.role}
      BY <1>0, <1>9 DEF AdminSave, Save, SaveChanges, UserFields
    <3>4. /\ user'.active \in BOOLEAN /\ user'.deleted \in BOOLEAN /\ user'.banned \in BOOLEAN
          /\ user'.role \in {Customer} \cup StaffRoles
      BY <3>2, <3>3 DEF UserRecord
    <3> QED
      BY <3>1, <3>2, <3>3, <3>4 DEF UserRecord, UserFields
  <2> QED
    BY <2>1, <2>2, <2>3, <2>4 DEF Goes
<1> QED
  BY <1>1, <1>2, <1>3, <1>4, <1>5, <1>6, <1>7, <1>8, <1>9

UserKeepsBut(S) == \A f \in UserFields \ S : user'[f] = user[f]

Created(r) ==
  /\ ~ user.exists /\ user'.exists
  /\ user'.fails = 0 /\ user'.lock = "none" /\ user'.reset = NoOne /\ user'.book = {} /\ user'.ver = 0
  /\ \/ req[r].pc = "googleCreate" /\ req'[r].pc = "issue" /\ req'[r].ans = req[r].ans
     \/ req[r].pc = "create" /\ req'[r].pc = "issue" /\ req'[r].ans = req[r].ans /\ user'.pw = r
     \/ req[r].pc = "createStaff" /\ req'[r].pc = "done" /\ req'[r].ans = "created" /\ user'.pw = r

\* The handlers that create the document.
LEMMA UserCreating ==
  ASSUME FrameInv, NEW r \in Requests, user \in UserRecord,
         req[r].pc = "createStaff" => req[r].arg \in StaffRoles,
         RegisterCreate(r) \/ GoogleCreate(r) \/ StaffCreate(r)
  PROVE  /\ Moves(r) /\ req[r].pc \in {"create", "googleCreate", "createStaff"} /\ user' \in UserRecord
         /\ Created(r) \/ (UNCHANGED user /\ user.exists /\ req'[r].pc = "done" /\ req'[r].ans = "refused")
<1>0. ASSUME NEW role \in {Customer} \cup StaffRoles, NEW google \in BOOLEAN, NEW vtok \in Requests \cup {NoOne},
             user' = NewUser(role, IF google THEN NoOne ELSE r, google, vtok)
      PROVE  /\ user' \in UserRecord /\ user'.exists /\ (~ google => user'.pw = r)
             /\ user'.fails = 0 /\ user'.lock = "none" /\ user'.reset = NoOne /\ user'.book = {} /\ user'.ver = 0
  BY <1>0, AttemptsAssumption DEF NewUser, UserRecord
<1>1. user.exists \in BOOLEAN
  BY DEF UserRecord
<1>2. CASE RegisterCreate(r)
  BY <1>0, <1>1, <1>2, AnswerGoes DEF RegisterCreate, CreateUser, EmailTaken, At, Goes, Created
<1>3. CASE GoogleCreate(r)
  BY <1>0, <1>1, <1>3, AnswerGoes DEF GoogleCreate, CreateUser, EmailTaken, At, Goes, Created
<1>4. CASE StaffCreate(r)
  <2>1. /\ req[r].pc = "createStaff" /\ UNCHANGED load /\ req[r].arg \in StaffRoles
        /\ IF user.exists THEN Answer(r, "refused") /\ UNCHANGED user
           ELSE Answer(r, "created") /\ user' = NewUser(req[r].arg, IF FALSE THEN NoOne ELSE r, FALSE, NoOne)
    BY <1>4 DEF StaffCreate, CreateUser, EmailTaken, At
  <2>2. Goes(r, "done", IF user.exists THEN "refused" ELSE "created")
    BY <2>1, AnswerGoes
  <2>3. CASE user.exists
    BY <2>1, <2>2, <2>3 DEF Goes
  <2>4. CASE ~ user.exists
    <3>1. user' \in UserRecord /\ user'.exists /\ user'.pw = r
          /\ user'.fails = 0 /\ user'.lock = "none" /\ user'.reset = NoOne /\ user'.book = {} /\ user'.ver = 0
      BY <1>0, <2>1, <2>4
    <3> QED
      BY <1>1, <2>1, <2>2, <2>4, <3>1 DEF Goes, Created
  <2> QED
    BY <2>3, <2>4
<1> QED
  BY <1>2, <1>3, <1>4

\* What a wrong and a right password write.
CountsFailure(r, doc, new, T) ==
  IF Snap(r).fails + 1 >= T
    THEN /\ new.fails = IF Snap(r).fails # 0 THEN 0 ELSE doc.fails
         /\ new.lock = IF Snap(r).lock # "future" THEN "future" ELSE doc.lock
    ELSE new.fails = Snap(r).fails + 1 /\ new.lock = doc.lock
Clears(r, doc, new) ==
  /\ new.fails = IF Snap(r).fails # 0 THEN 0 ELSE doc.fails
  /\ new.lock = IF Snap(r).lock # "none" THEN "none" ELSE doc.lock

\* The save of a wrong password.
LEMMA UserFailing ==
  ASSUME FrameInv, NEW r \in Requests, user \in UserRecord, RegisterFailedAttempt(r),
         Snap(r).fails \in 0 .. MaxLoginAttempts - 1
  PROVE  /\ Moves(r) /\ req[r].pc = "fail" /\ req'[r].pc = "done" /\ req'[r].ans = "wrong"
         /\ user' \in UserRecord /\ UserKeepsBut({"fails", "lock"})
         /\ CountsFailure(r, user, user', MaxLoginAttempts)
<1>0. DOMAIN user = UserFields
  BY DEF UserRecord, UserFields
<1>1. req[r].pc = "fail" /\ UNCHANGED load /\ Answer(r, "wrong")
  BY DEF RegisterFailedAttempt, At
<1>2. Goes(r, "done", "wrong")
  BY <1>1, AnswerGoes
<1>3. user' = [f \in UserFields |-> user'[f]] /\ UserKeepsBut({"fails", "lock"})
  BY <1>0 DEF RegisterFailedAttempt, Save, SaveChanges, UserFields, UserKeepsBut
<1>4. CountsFailure(r, user, user', MaxLoginAttempts)
  BY <1>0, AttemptsAssumption
     DEF RegisterFailedAttempt, LocksAt, Save, SaveChanges, UserFields, CountsFailure, Snap
<1>5. user'.fails \in 0 .. MaxLoginAttempts - 1 /\ user'.lock \in {"none", "future", "past"}
  BY <1>4, AttemptsAssumption DEF CountsFailure, UserRecord
<1>6. user' \in UserRecord
  BY <1>3, <1>5 DEF UserKeepsBut, UserFields, UserRecord
<1> QED
  BY <1>1, <1>2, <1>3, <1>4, <1>6 DEF Goes

\* The save of a right password.
LEMMA UserClearing ==
  ASSUME FrameInv, NEW r \in Requests, user \in UserRecord, ClearFailedAttempts(r)
  PROVE  /\ Moves(r) /\ req[r].pc = "clear" /\ req'[r].pc = "issue" /\ req'[r].ans = req[r].ans
         /\ user' \in UserRecord /\ UserKeepsBut({"fails", "lock"})
         /\ Clears(r, user, user')
<1>0. DOMAIN user = UserFields
  BY DEF UserRecord, UserFields
<1>1. req[r].pc = "clear" /\ UNCHANGED load /\ Goto(r, "issue")
  BY DEF ClearFailedAttempts, At
<1>2. Goes(r, "issue", req[r].ans)
  BY <1>1, AnswerGoes
<1>3. user' = [f \in UserFields |-> user'[f]] /\ UserKeepsBut({"fails", "lock"})
  BY <1>0 DEF ClearFailedAttempts, Save, SaveChanges, UserFields, UserKeepsBut
<1>4. Clears(r, user, user')
  BY <1>0 DEF ClearFailedAttempts, Save, SaveChanges, UserFields, Clears, Snap
<1>5. user'.fails \in 0 .. MaxLoginAttempts - 1 /\ user'.lock \in {"none", "future", "past"}
  BY <1>4, AttemptsAssumption DEF Clears, UserRecord
<1>6. user' \in UserRecord
  BY <1>3, <1>5 DEF UserKeepsBut, UserFields, UserRecord
<1> QED
  BY <1>1, <1>2, <1>3, <1>4, <1>6 DEF Goes

\* What a new password and a new link write.
LEMMA UserLinking ==
  ASSUME FrameInv, NEW r \in Requests, user \in UserRecord, SetPassword(r) \/ SetResetLink(r)
  PROVE  /\ Moves(r) /\ user' \in UserRecord
         /\ \/ /\ req[r].pc = "setPassword" /\ req'[r].pc = "revoke" /\ req'[r].ans = req[r].ans
               /\ UserKeepsBut({"pw", "reset"})
               /\ user'.reset = IF req[r].op = "resetPassword" /\ Snap(r).reset # NoOne THEN NoOne ELSE user.reset
            \/ /\ req[r].pc = "setLink" /\ req'[r].pc = "done" /\ req'[r].ans = "ok"
               /\ UserKeepsBut({"reset"})
               /\ user'.reset = IF Snap(r).reset # r THEN r ELSE user.reset
<1>0. DOMAIN user = UserFields
  BY DEF UserRecord, UserFields
<1>1. CASE SetPassword(r)
  <2>1. req[r].pc = "setPassword" /\ UNCHANGED load /\ Goto(r, "revoke")
    BY <1>1 DEF SetPassword, At
  <2>2. Goes(r, "revoke", req[r].ans)
    BY <2>1, AnswerGoes
  <2>3. user' = [f \in UserFields |-> user'[f]] /\ UserKeepsBut({"pw", "reset"})
    BY <1>0, <1>1 DEF SetPassword, NewPassword, Save, SaveChanges, UserFields, UserKeepsBut
  <2>4. user'.reset = IF req[r].op = "resetPassword" /\ Snap(r).reset # NoOne THEN NoOne ELSE user.reset
    BY <1>0, <1>1 DEF SetPassword, NewPassword, Save, SaveChanges, UserFields, Snap
  <2>5. user'.pw \in {user.pw, r}
    BY <1>0, <1>1 DEF SetPassword, NewPassword, Save, SaveChanges, UserFields, Snap
  <2>6. user' \in UserRecord
    BY <2>3, <2>4, <2>5 DEF UserKeepsBut, UserFields, UserRecord
  <2> QED
    BY <2>1, <2>2, <2>3, <2>4, <2>6 DEF Goes
<1>2. CASE SetResetLink(r)
  <2>1. req[r].pc = "setLink" /\ UNCHANGED load /\ Answer(r, "ok")
    BY <1>2 DEF SetResetLink, At
  <2>2. Goes(r, "done", "ok")
    BY <2>1, AnswerGoes
  <2>3. user' = [f \in UserFields |-> user'[f]] /\ UserKeepsBut({"reset"})
    BY <1>0, <1>2 DEF SetResetLink, Save, SaveChanges, UserFields, UserKeepsBut
  <2>4. user'.reset = IF Snap(r).reset # r THEN r ELSE user.reset
    BY <1>0, <1>2 DEF SetResetLink, Save, SaveChanges, UserFields, Snap
  <2>5. user' \in UserRecord
    BY <2>3, <2>4 DEF UserKeepsBut, UserFields, UserRecord
  <2> QED
    BY <2>1, <2>2, <2>3, <2>4, <2>5 DEF Goes
<1> QED
  BY <1>1, <1>2

Ids(book) == {a.id : a \in book}

\* What a change of the address book writes, if it is not refused: whoever
\* replaces the book replaces the one it read.
LEMMA UserAddressing ==
  ASSUME FrameInv, NEW r \in Requests, user \in UserRecord, SaveAddress(r) \/ DropAddress(r),
         Snap(r).book \subseteq Address, user.ver = Snap(r).ver => user.book = Snap(r).book
  PROVE  /\ Moves(r) /\ user' \in UserRecord /\ req'[r].pc = "done"
         /\ \/ req'[r].ans = "error" /\ UNCHANGED user
            \/ /\ req'[r].ans = "ok" /\ UserKeepsBut({"book", "ver"}) /\ user'.ver = user.ver + 1
               /\ \/ req[r].pc = "saveAddress" /\ Ids(user'.book) = Ids(user.book) \cup {r}
                  \/ req[r].pc = "dropAddress" /\ Ids(user'.book) = Ids(user.book) \ {req[r].arg}
<1>0. DOMAIN user = UserFields /\ user.book \subseteq Address /\ user.ver \in Nat
  BY DEF UserRecord, UserFields
<1>1. ASSUME NEW book \in SUBSET Address, user' = Replaces(book)
      PROVE  user' \in UserRecord /\ UserKeepsBut({"book", "ver"}) /\ user'.ver = user.ver + 1 /\ user'.book = book
  <2>1. user' = [f \in UserFields |-> user'[f]] /\ UserKeepsBut({"book", "ver"})
    BY <1>0, <1>1 DEF Replaces, UserKeepsBut, UserFields
  <2>2. user'.ver = user.ver + 1 /\ user'.book = book
    BY <1>0, <1>1 DEF Replaces, UserFields
  <2>3. user' \in UserRecord
    BY <1>0, <2>1, <2>2 DEF UserKeepsBut, UserFields, UserRecord
  <2> QED
    BY <2>1, <2>2, <2>3
<1>2. CASE SaveAddress(r)
  <2>1. req[r].pc = "saveAddress" /\ UNCHANGED load
    BY <1>2 DEF SaveAddress, At
  <2>2. \/ Answer(r, "error") /\ UNCHANGED user
        \/ Answer(r, "ok") /\ user' = Replaces(user.book \cup {NewAddress(r)})
        \/ Answer(r, "ok") /\ user' = Replaces(Unset(user.book) \cup {NewAddress(r)})
    BY <1>2 DEF SaveAddress, Stale
  <2>3. NewAddress(r) \in Address /\ NewAddress(r).id = r
    BY DEF NewAddress, Address
  <2>4. Unset(user.book) \subseteq Address /\ Ids(Unset(user.book)) = Ids(user.book)
    <3>1. ASSUME NEW a \in Address PROVE [a EXCEPT !.default = FALSE] \in Address /\ [a EXCEPT !.default = FALSE].id = a.id
      BY DEF Address
    <3>2. Unset(user.book) \subseteq Address
      BY <1>0, <3>1 DEF Unset
    <3>3. \A i : i \in Ids(Unset(user.book)) <=> i \in Ids(user.book)
      <4>1. ASSUME NEW a \in user.book
            PROVE  [a EXCEPT !.default = FALSE] \in Unset(user.book) /\ [a EXCEPT !.default = FALSE].id = a.id
        BY <1>0, <3>1 DEF Unset
      <4>2. ASSUME NEW b \in Unset(user.book) PROVE \E a \in user.book : b.id = a.id
        BY <1>0, <3>1, <4>2 DEF Unset
      <4> QED
        BY <4>1, <4>2 DEF Ids
    <3> QED
      BY <3>2, <3>3
  <2>5. Answer(r, "error") \/ Answer(r, "ok")
    BY <2>2
  <2>6. Goes(r, "done", "error") \/ Goes(r, "done", "ok")
    BY <2>1, <2>5, AnswerGoes
  <2>7. CASE Answer(r, "error") /\ UNCHANGED user
    BY <2>1, <2>7, AnswerGoes DEF Goes
  <2>8. ASSUME NEW book \in SUBSET Address, Ids(book) = Ids(user.book), Answer(r, "ok"),
               user' = Replaces(book \cup {NewAddress(r)})
        PROVE  /\ user' \in UserRecord /\ Goes(r, "done", "ok") /\ UserKeepsBut({"book", "ver"})
               /\ user'.ver = user.ver + 1 /\ Ids(user'.book) = Ids(user.book) \cup {r}
    <3>1. book \cup {NewAddress(r)} \in SUBSET Address
      BY <2>3
    <3>2. Ids(book \cup {NewAddress(r)}) = Ids(book) \cup {r}
      BY <2>3 DEF Ids
    <3> QED
      BY <1>1, <2>1, <2>8, <3>1, <3>2, AnswerGoes
  <2> QED
    BY <1>0, <2>1, <2>2, <2>4, <2>7, <2>8 DEF Goes
<1>3. CASE DropAddress(r)
  <2>1. req[r].pc = "dropAddress" /\ UNCHANGED load
    BY <1>3 DEF DropAddress, At
  <2>2. \/ Answer(r, "error") /\ UNCHANGED user
        \/ Answer(r, "ok") /\ user' = Replaces({a \in user.book : a.id # req[r].arg})
    BY <1>3 DEF DropAddress, Stale
  <2>3. CASE Answer(r, "error") /\ UNCHANGED user
    BY <2>1, <2>3, AnswerGoes DEF Goes
  <2>4. CASE Answer(r, "ok") /\ user' = Replaces({a \in user.book : a.id # req[r].arg})
    <3>1. Goes(r, "done", "ok")
      BY <2>1, <2>4, AnswerGoes
    <3>2. {a \in user.book : a.id # req[r].arg} \in SUBSET Address
      BY <1>0
    <3>3. Ids({a \in user.book : a.id # req[r].arg}) = Ids(user.book) \ {req[r].arg}
      BY DEF Ids
    <3> QED
      BY <1>1, <2>1, <2>4, <3>1, <3>2, <3>3 DEF Goes
  <2> QED
    BY <2>2, <2>3, <2>4
<1> QED
  BY <1>2, <1>3

-----------------------------------------------------------------------------
(* The same for the sellers' requests.                                     *)

SellerStage(op, pc) ==
  \/ op = "sellerRegister" /\ pc = "sellerCreate"
  \/ op = "sellerLogin" /\ pc \in {"sellerFail", "sellerClear", "sellerIssue"}
  \/ op = "sellerGoogle" /\ pc \in {"sellerLink", "sellerIssue"}
  \/ op = "sellerRefresh" /\ pc \in {"rotate", "mark", "reread", "reuse"}
  \/ op = "bankDetails" /\ pc = "recipient"
  \/ op = "certificate" /\ pc = "upload"
  \/ op = "status" /\ pc \in {"setStatus", "revoke"}
  \/ /\ op \in {"sellerDelete", "sellerRestore", "sellerBan", "sellerUnban"}
     /\ pc \in {"sellerRevokeFirst", "sellerSave", "revoke"}

SellerOps == {"sellerRegister", "sellerLogin", "sellerGoogle", "sellerRefresh", "sellerCall", "bankDetails",
              "certificate", "status", "sellerDelete", "sellerRestore", "sellerBan", "sellerUnban"}

Statuses == {"pending", "approved", "suspended"}

SellerOpens(r) ==
  /\ Moves(r) /\ req[r].pc = "idle" /\ UNCHANGED seller /\ req'[r].snap = seller
  /\ req'[r].op \in SellerOps
  /\ req'[r].pc # "done" => req'[r].ans = "none" /\ SellerStage(req'[r].op, req'[r].pc)
  /\ req'[r].ans \notin {"wrong", "session", "created"}
  /\ LoginOpens(r, seller)
  /\ req'[r].op = "status" => req'[r].arg \in Statuses
  /\ req'[r].op = "bankDetails" => req'[r].arg \in Details
  /\ req'[r].pc = "recipient" => seller.exists

\* Which of a seller's requests begin, and how.
LEMMA SellerOpening ==
  ASSUME FrameInv, NEW r \in Requests,
         \/ SellerRegister(r) \/ SellerLogin(r) \/ SellerGoogleLogin(r) \/ SellerRefresh(r) \/ SellerCall(r)
         \/ UpdateBankDetails(r) \/ UploadBusinessCertificate(r) \/ SetSellerStatus(r)
         \/ SoftDeleteSeller(r) \/ RestoreSeller(r) \/ SetSellerBan(r)
  PROVE  SellerOpens(r)
<1> USE EnterBegins DEF Begins, SellerOpens, LoginOpens, LoginOps, SellerStage, SellerOps, Statuses
<1>1. CASE SellerRegister(r)
  BY <1>1 DEF SellerRegister
<1>2. CASE SellerLogin(r)
  BY <1>2 DEF SellerLogin
<1>3. CASE SellerGoogleLogin(r)
  BY <1>3 DEF SellerGoogleLogin, GoogleOutcome
<1>4. CASE SellerRefresh(r)
  BY <1>4 DEF SellerRefresh, RotateFind
<1>5. CASE SellerCall(r)
  BY <1>5 DEF SellerCall
<1>6. CASE UpdateBankDetails(r) \/ UploadBusinessCertificate(r)
  BY <1>6 DEF UpdateBankDetails, UploadBusinessCertificate, Admitted
<1>7. CASE SetSellerStatus(r)
  BY <1>7 DEF SetSellerStatus, SellerAdminRead
<1>8. CASE SoftDeleteSeller(r) \/ RestoreSeller(r) \/ SetSellerBan(r)
  BY <1>8 DEF SoftDeleteSeller, RestoreSeller, SetSellerBan, SellerAdminRead
<1> QED
  BY <1>1, <1>2, <1>3, <1>4, <1>5, <1>6, <1>7, <1>8

SellerKeepsBut(S) == \A f \in SellerFields \ S : seller'[f] = seller[f]

SellerPassesBy(r) ==
  /\ Moves(r) /\ req[r].pc \notin {"idle", "sellerFail", "sellerClear", "sellerCreate"}
  /\ req'[r].pc # "done" =>
       /\ req'[r].ans = req[r].ans
       /\ SellerStage(req[r].op, req[r].pc) => SellerStage(req[r].op, req'[r].pc)
       /\ req'[r].pc = "sellerIssue" => req[r].pc = "sellerLink"
       /\ req'[r].pc \notin {"setStatus", "recipient", "sellerFail", "sellerClear"}
  /\ req[r].pc = "sellerIssue" => req'[r].pc = "done" /\ req'[r].ans = "session"
  /\ req'[r].pc = "done" =>
       \/ req'[r].ans \notin {"wrong", "session", "created"}
       \/ req[r].pc \in {"sellerIssue", "reread"} /\ req'[r].ans = "session"
  /\ SellerKeepsBut({"status", "deleted", "banned", "cert", "google", "bank", "recipient"})
  /\ SaveBankDetails(r) \/ (seller'.bank = seller.bank /\ seller'.recipient = seller.recipient)

\* The handlers that leave the attempts alone.
LEMMA SellerPassing ==
  ASSUME FrameInv, NEW r \in Requests, seller \in SellerRecord,
         req[r].pc = "setStatus" => req[r].op = "status" /\ req[r].arg \in Statuses,
         req[r].pc = "recipient" => req[r].arg \in Details,
         req[r].pc = "sellerSave" => req[r].op \in {"sellerDelete", "sellerRestore", "sellerBan", "sellerUnban"},
         \/ SellerSession(r) \/ SellerLink(r) \/ SellerReread(r)
         \/ (ReuseRevoke(r) \/ RotateIssue(r) \/ RotateMark(r) \/ EndSessions(r)) /\ UNCHANGED seller
         \/ SaveBankDetails(r) \/ SaveCertificate(r) \/ WriteSellerStatus(r)
         \/ SellerRevokeFirst(r) \/ SellerAdminSave(r)
  PROVE  SellerPassesBy(r) /\ seller' \in SellerRecord
<1>0. DOMAIN seller = SellerFields
  BY DEF SellerRecord, SellerFields
<1>a. ASSUME UNCHANGED seller
      PROVE  SellerKeepsBut({"status", "deleted", "banned", "cert", "google", "bank", "recipient"}) /\ seller' \in SellerRecord
  BY <1>a DEF SellerKeepsBut
<1> USE DEF SellerPassesBy, SellerStage
<1>1. CASE SellerSession(r) \/ SellerReread(r)
  BY <1>1, <1>a, AnswerGoes DEF SellerSession, SellerReread, At, Goes
<1>2. CASE (ReuseRevoke(r) \/ RotateIssue(r) \/ RotateMark(r) \/ EndSessions(r)) /\ UNCHANGED seller
  BY <1>2, <1>a, AnswerGoes DEF ReuseRevoke, RotateIssue, RotateMark, EndSessions, At, Goes
<1>3. CASE SellerRevokeFirst(r)
  BY <1>3, <1>a, AnswerGoes DEF SellerRevokeFirst, At, Goes
<1>4. ASSUME NEW S \in SUBSET {"status", "deleted", "banned", "cert", "google", "bank", "recipient"},
             seller' = [f \in SellerFields |-> seller'[f]], SellerKeepsBut(S),
             seller'.status \in Statuses, seller'.deleted \in BOOLEAN, seller'.banned \in BOOLEAN,
             seller'.cert \in BOOLEAN, seller'.google \in BOOLEAN,
             seller'.bank \in Details \cup {NoOne}, seller'.recipient \in Recipients
      PROVE  /\ seller' \in SellerRecord
             /\ SellerKeepsBut({"status", "deleted", "banned", "cert", "google", "bank", "recipient"})
  <2>1. SellerKeepsBut({"status", "deleted", "banned", "cert", "google", "bank", "recipient"})
    BY <1>4 DEF SellerKeepsBut
  <2>2. seller'.exists = seller.exists /\ seller'.fails = seller.fails /\ seller'.lock = seller.lock /\ seller'.pw = seller.pw
    BY <2>1 DEF SellerKeepsBut, SellerFields
  <2> QED
    BY <1>4, <2>1, <2>2 DEF SellerFields, SellerRecord, Statuses
<1>b. /\ seller.status \in Statuses /\ seller.deleted \in BOOLEAN /\ seller.banned \in BOOLEAN
      /\ seller.cert \in BOOLEAN /\ seller.google \in BOOLEAN
      /\ seller.bank \in Details \cup {NoOne} /\ seller.recipient \in Recipients
  BY DEF SellerRecord, Statuses
<1>5. CASE SellerLink(r)
  <2>1. req[r].pc = "sellerLink" /\ UNCHANGED load
    BY <1>5 DEF SellerLink, At
  <2>2. Goes(r, "done", "refused") \/ Goes(r, "sellerIssue", req[r].ans)
    BY <1>5, <2>1, AnswerGoes DEF SellerLink
  <2>3. seller' = [f \in SellerFields |-> seller'[f]] /\ SellerKeepsBut({"google"}) /\ seller'.google \in {seller.google, TRUE}
    BY <1>0, <1>5 DEF SellerLink, SSave, SaveChanges, SellerFields, SellerKeepsBut
  <2>4. seller'.status = seller.status /\ seller'.deleted = seller.deleted /\ seller'.banned = seller.banned
        /\ seller'.cert = seller.cert /\ seller'.bank = seller.bank /\ seller'.recipient = seller.recipient
    BY <2>3 DEF SellerKeepsBut, SellerFields
  <2> QED
    BY <1>b, <1>4, <2>1, <2>2, <2>3, <2>4 DEF Goes
<1>6. CASE SaveBankDetails(r)
  <2>1. req[r].pc = "recipient" /\ UNCHANGED load /\ req[r].arg \in Details
    BY <1>6 DEF SaveBankDetails, At
  <2>2. Goes(r, "done", "ok") \/ Goes(r, "done", "error")
    BY <1>6, <2>1, AnswerGoes DEF SaveBankDetails
  <2>3. CASE UNCHANGED seller
    BY <1>a, <2>1, <2>2, <2>3 DEF Goes
  <2>4. CASE SSave(r, BankChange(r))
    <3>1. seller' = [f \in SellerFields |-> seller'[f]] /\ SellerKeepsBut({"bank", "recipient"})
          /\ seller'.bank \in {seller.bank, req[r].arg} /\ seller'.recipient \in {seller.recipient, Account(req[r].arg)}
      BY <1>0, <2>4 DEF BankChange, SSave, SaveChanges, SellerFields, SellerKeepsBut
    <3>2. seller'.status = seller.status /\ seller'.deleted = seller.deleted /\ seller'.banned = seller.banned
          /\ seller'.cert = seller.cert /\ seller'.google = seller.google
      BY <3>1 DEF SellerKeepsBut, SellerFields
    <3>3. seller'.bank \in Details \cup {NoOne} /\ seller'.recipient \in Recipients
      BY <1>b, <2>1, <3>1 DEF Recipients
    <3> QED
      BY <1>b, <1>4, <2>1, <2>2, <2>4, <3>1, <3>2, <3>3, <1>6 DEF Goes
  <2> QED
    BY <1>6, <2>3, <2>4 DEF SaveBankDetails
<1>7. CASE SaveCertificate(r)
  <2>1. req[r].pc = "upload" /\ UNCHANGED load
    BY <1>7 DEF SaveCertificate, At
  <2>2. Goes(r, "done", "ok")
    BY <1>7, <2>1, AnswerGoes DEF SaveCertificate
  <2>3. seller' = [f \in SellerFields |-> seller'[f]] /\ SellerKeepsBut({"cert"}) /\ seller'.cert = TRUE
    BY <1>0, <1>7 DEF SaveCertificate, SellerFields, SellerKeepsBut
  <2>4. seller'.status = seller.status /\ seller'.deleted = seller.deleted /\ seller'.banned = seller.banned
        /\ seller'.google = seller.google /\ seller'.bank = seller.bank /\ seller'.recipient = seller.recipient
    BY <2>3 DEF SellerKeepsBut, SellerFields
  <2> QED
    BY <1>b, <1>4, <2>1, <2>2, <2>3, <2>4 DEF Goes
<1>8. CASE WriteSellerStatus(r)
  <2>1. req[r].pc = "setStatus" /\ UNCHANGED load /\ req[r].op = "status" /\ req[r].arg \in Statuses
    BY <1>8 DEF WriteSellerStatus, At
  <2>2. Goes(r, "done", "ok") \/ Goes(r, "revoke", req[r].ans)
    BY <1>8, <2>1, AnswerGoes DEF WriteSellerStatus
  <2>3. seller' = [f \in SellerFields |-> seller'[f]] /\ SellerKeepsBut({"status"}) /\ seller'.status = req[r].arg
    BY <1>0, <1>8 DEF WriteSellerStatus, SellerFields, SellerKeepsBut
  <2>4. seller'.cert = seller.cert /\ seller'.deleted = seller.deleted /\ seller'.banned = seller.banned
        /\ seller'.google = seller.google /\ seller'.bank = seller.bank /\ seller'.recipient = seller.recipient
    BY <2>3 DEF SellerKeepsBut, SellerFields
  <2> QED
    BY <1>b, <1>4, <2>1, <2>2, <2>3, <2>4 DEF Goes
<1>9. CASE SellerAdminSave(r)
  <2>1. req[r].pc = "sellerSave" /\ UNCHANGED load
        /\ req[r].op \in {"sellerDelete", "sellerRestore", "sellerBan", "sellerUnban"}
    BY <1>9 DEF SellerAdminSave, At
  <2>2. Goes(r, "done", "ok") \/ Goes(r, "done", "ended") \/ Goes(r, "revoke", req[r].ans)
    BY <1>9, <2>1, AnswerGoes DEF SellerAdminSave
  <2>3. seller' = [f \in SellerFields |-> seller'[f]] /\ SellerKeepsBut({"status", "deleted", "banned"})
    BY <1>0, <1>9 DEF SellerAdminSave, SSave, SaveChanges, SellerFields, SellerKeepsBut
  <2>4. seller'.status \in {seller.status, "suspended", "pending"} /\ seller'.deleted \in {seller.deleted, TRUE, FALSE}
        /\ seller'.banned \in {seller.banned, TRUE, FALSE}
    BY <1>0, <1>9 DEF SellerAdminSave, SSave, SaveChanges, SellerFields
  <2>5. seller'.cert = seller.cert /\ seller'.google = seller.google /\ seller'.bank = seller.bank
        /\ seller'.recipient = seller.recipient
    BY <2>3 DEF SellerKeepsBut, SellerFields
  <2>6. seller'.status \in Statuses /\ seller'.deleted \in BOOLEAN /\ seller'.banned \in BOOLEAN
    BY <1>b, <2>4 DEF Statuses
  <2> QED
    BY <1>b, <1>4, <2>1, <2>2, <2>3, <2>5, <2>6 DEF Goes
<1> QED
  BY <1>1, <1>2, <1>3, <1>5, <1>6, <1>7, <1>8, <1>9

\* The handler that creates the document.
LEMMA SellerCreating ==
  ASSUME FrameInv, NEW r \in Requests, seller \in SellerRecord, SellerCreate(r)
  PROVE  /\ Moves(r) /\ req[r].pc = "sellerCreate" /\ req'[r].pc = "done" /\ seller' \in SellerRecord
         /\ \/ req'[r].ans = "refused" /\ seller.exists /\ UNCHANGED seller
            \/ /\ req'[r].ans = "created" /\ ~ seller.exists /\ seller'.exists
               /\ seller'.recipient = Account(seller'.bank) /\ seller'.fails = 0 /\ seller'.lock = "none"
<1>1. req[r].pc = "sellerCreate" /\ UNCHANGED load /\ seller.exists \in BOOLEAN
  BY DEF SellerCreate, At, SellerRecord
<1>2. CASE seller.exists
  BY <1>1, <1>2, AnswerGoes DEF SellerCreate, Goes
<1>3. CASE ~ seller.exists
  <2>1. Goes(r, "done", "created")
    BY <1>1, <1>3, AnswerGoes DEF SellerCreate
  <2>2. PICK cert \in BOOLEAN : seller' = NewSeller(req[r].arg = "google", cert)
    BY <1>3 DEF SellerCreate
  <2>3. /\ seller' \in SellerRecord /\ seller'.exists /\ seller'.fails = 0 /\ seller'.lock = "none"
        /\ seller'.recipient = Account(seller'.bank)
    BY <2>2, SellerAttemptsAssumption DEF NewSeller, SellerRecord, Recipients, Account
  <2> QED
    BY <1>1, <1>3, <2>1, <2>3 DEF Goes
<1> QED
  BY <1>2, <1>3

\* The save of a wrong password.
LEMMA SellerFailing ==
  ASSUME FrameInv, NEW r \in Requests, seller \in SellerRecord, SellerLoginFails(r),
         Snap(r).fails \in 0 .. SellerMaxAttempts - 1
  PROVE  /\ Moves(r) /\ req[r].pc = "sellerFail" /\ req'[r].pc = "done" /\ req'[r].ans = "wrong"
         /\ seller' \in SellerRecord /\ SellerKeepsBut({"fails", "lock"})
         /\ CountsFailure(r, seller, seller', SellerMaxAttempts)
<1>0. DOMAIN seller = SellerFields
  BY DEF SellerRecord, SellerFields
<1>1. req[r].pc = "sellerFail" /\ UNCHANGED load /\ Answer(r, "wrong")
  BY DEF SellerLoginFails, At
<1>2. Goes(r, "done", "wrong")
  BY <1>1, AnswerGoes
<1>3. seller' = [f \in SellerFields |-> seller'[f]] /\ SellerKeepsBut({"fails", "lock"})
  BY <1>0 DEF SellerLoginFails, SSave, SaveChanges, SellerFields, SellerKeepsBut
<1>4. CountsFailure(r, seller, seller', SellerMaxAttempts)
  BY <1>0, SellerAttemptsAssumption DEF SellerLoginFails, SSave, SaveChanges, SellerFields, CountsFailure, Snap
<1>5. seller'.fails \in 0 .. SellerMaxAttempts - 1 /\ seller'.lock \in {"none", "future", "past"}
  BY <1>4, SellerAttemptsAssumption DEF CountsFailure, SellerRecord
<1>6. seller' \in SellerRecord
  BY <1>3, <1>5 DEF SellerKeepsBut, SellerFields, SellerRecord
<1> QED
  BY <1>1, <1>2, <1>3, <1>4, <1>6 DEF Goes

\* The save of a right password.
LEMMA SellerClearing ==
  ASSUME FrameInv, NEW r \in Requests, seller \in SellerRecord, SellerLoginClears(r)
  PROVE  /\ Moves(r) /\ req[r].pc = "sellerClear" /\ req'[r].pc = "sellerIssue" /\ req'[r].ans = req[r].ans
         /\ seller' \in SellerRecord /\ SellerKeepsBut({"fails", "lock"})
         /\ Clears(r, seller, seller')
<1>0. DOMAIN seller = SellerFields
  BY DEF SellerRecord, SellerFields
<1>1. req[r].pc = "sellerClear" /\ UNCHANGED load /\ Goto(r, "sellerIssue")
  BY DEF SellerLoginClears, At
<1>2. Goes(r, "sellerIssue", req[r].ans)
  BY <1>1, AnswerGoes
<1>3. seller' = [f \in SellerFields |-> seller'[f]] /\ SellerKeepsBut({"fails", "lock"})
  BY <1>0 DEF SellerLoginClears, SSave, SaveChanges, SellerFields, SellerKeepsBut
<1>4. Clears(r, seller, seller')
  BY <1>0 DEF SellerLoginClears, SSave, SaveChanges, SellerFields, Clears, Snap
<1>5. seller'.fails \in 0 .. SellerMaxAttempts - 1 /\ seller'.lock \in {"none", "future", "past"}
  BY <1>4, SellerAttemptsAssumption DEF Clears, SellerRecord
<1>6. seller' \in SellerRecord
  BY <1>3, <1>5 DEF SellerKeepsBut, SellerFields, SellerRecord
<1> QED
  BY <1>1, <1>2, <1>3, <1>4, <1>6 DEF Goes

-----------------------------------------------------------------------------
(* What the documents hold, and what a handler holds between two awaits.   *)

Ongoing(r) == req[r].pc \notin {"idle", "done"}

\* What a user's request holds between its awaits, and what a seller's.
UserReady(r) ==
  Ongoing(r) =>
    /\ req[r].ans = "none" /\ UserStage(req[r].op, req[r].pc)
    /\ req[r].pc = "createStaff" => req[r].arg \in StaffRoles
    /\ req[r].pc = "fail" => Snap(r).fails \in 0 .. MaxLoginAttempts - 1
    /\ req[r].pc \in {"saveAddress", "dropAddress"} =>
         /\ Snap(r).book \subseteq Address /\ Snap(r).ver \in Nat /\ Snap(r).ver <= user.ver
         /\ user.ver = Snap(r).ver => user.book = Snap(r).book
    /\ req[r].op \in LoginOps \/ req[r].pc \in {"setLink", "saveAddress", "dropAddress"} => user.exists

UserInv ==
  /\ user \in UserRecord
  /\ ~ user.exists => user.fails = 0 /\ user.lock = "none" /\ user.reset = NoOne /\ user.book = {}
  /\ \A r \in Requests : UserReady(r)

SellerReady(r) ==
  /\ req[r].pc # "idle" => req[r].op \in SellerOps
  /\ Ongoing(r) =>
       /\ req[r].ans = "none" /\ SellerStage(req[r].op, req[r].pc)
       /\ req[r].pc = "setStatus" => req[r].arg \in Statuses
       /\ req[r].pc = "recipient" => req[r].arg \in Details
       /\ req[r].pc = "sellerFail" => Snap(r).fails \in 0 .. SellerMaxAttempts - 1
       /\ req[r].op \in LoginOps => seller.exists

SellerInv ==
  /\ seller \in SellerRecord
  /\ ~ seller.exists => seller.fails = 0 /\ seller.lock = "none"
  /\ \A r \in Requests : SellerReady(r)

BasicInv ==
  /\ FrameInv
  /\ IF load \in SellerWorkloads THEN SellerInv /\ user = Nobody ELSE UserInv /\ seller = NoSeller

\* The steps of a request, by what they do to the document.
UserCreates(r) ==
  /\ Moves(r) /\ req[r].pc \in {"create", "googleCreate", "createStaff"}
  /\ Created(r) \/ (UNCHANGED user /\ user.exists /\ req'[r].pc = "done" /\ req'[r].ans = "refused")
UserFails(r) ==
  /\ Moves(r) /\ req[r].pc = "fail" /\ req'[r].pc = "done" /\ req'[r].ans = "wrong"
  /\ UserKeepsBut({"fails", "lock"}) /\ CountsFailure(r, user, user', MaxLoginAttempts)
UserClears(r) ==
  /\ Moves(r) /\ req[r].pc = "clear" /\ req'[r].pc = "issue" /\ req'[r].ans = req[r].ans
  /\ UserKeepsBut({"fails", "lock"}) /\ Clears(r, user, user')
UserLinks(r) ==
  /\ Moves(r)
  /\ \/ /\ req[r].pc = "setPassword" /\ req'[r].pc = "revoke" /\ req'[r].ans = req[r].ans
        /\ UserKeepsBut({"pw", "reset"})
        /\ user'.reset = IF req[r].op = "resetPassword" /\ Snap(r).reset # NoOne THEN NoOne ELSE user.reset
     \/ /\ req[r].pc = "setLink" /\ req'[r].pc = "done" /\ req'[r].ans = "ok"
        /\ UserKeepsBut({"reset"})
        /\ user'.reset = IF Snap(r).reset # r THEN r ELSE user.reset
UserAddresses(r) ==
  /\ Moves(r) /\ req'[r].pc = "done" /\ req[r].pc \in {"saveAddress", "dropAddress"}
  /\ \/ req'[r].ans = "error" /\ UNCHANGED user
     \/ /\ req'[r].ans = "ok" /\ UserKeepsBut({"book", "ver"}) /\ user'.ver = user.ver + 1
        /\ \/ req[r].pc = "saveAddress" /\ Ids(user'.book) = Ids(user.book) \cup {r}
           \/ req[r].pc = "dropAddress" /\ Ids(user'.book) = Ids(user.book) \ {req[r].arg}

UserShape(r) ==
  \/ UserOpens(r) \/ PassesBy(r) \/ UserCreates(r) \/ UserFails(r)
  \/ UserClears(r) \/ UserLinks(r) \/ UserAddresses(r)

\* Every step of a user's request has one of these shapes.
LEMMA UserShapes ==
  ASSUME FrameInv, UserInv, NEW r \in Requests, UserStep(r)
  PROVE  UserShape(r) /\ user' \in UserRecord
<1>0. user \in UserRecord /\ UserReady(r)
  BY DEF UserInv
<1> USE DEF UserShape
<1>1. CASE \/ Login(r) \/ StaffLogin(r) \/ Register(r) \/ GoogleLogin(r) \/ Refresh(r)
           \/ (Logout(r, user) \/ LogoutEverywhere(r, user)) /\ UNCHANGED user
           \/ ChangePassword(r) \/ ForgotPassword(r) \/ ResetPassword(r)
           \/ VerifyEmail(r) \/ ResendVerification(r)
           \/ SetCustomerBan(r) \/ SoftDeleteCustomer(r) \/ RestoreCustomer(r) \/ UpdateStaff(r)
           \/ CreateStaff(r) \/ SeedSuperAdmin(r) \/ StaffCall(r) \/ AddAddress(r) \/ RemoveAddress(r)
  <2>1. UserOpens(r)
    BY <1>1, UserOpening
  <2> QED
    BY <1>0, <2>1 DEF UserOpens
<1>2. CASE \/ OpenSession(r) \/ GoogleByEmail(r) \/ GoogleLink(r) \/ RefreshReread(r)
           \/ (ReuseRevoke(r) \/ RotateIssue(r) \/ RotateMark(r) \/ EndSessions(r)) /\ UNCHANGED user
           \/ SetVerified(r) \/ SetVerificationLink(r) \/ RevokeFirst(r) \/ AdminSave(r)
  BY <1>0, <1>2, UserPassing
<1>3. CASE RegisterCreate(r) \/ GoogleCreate(r) \/ StaffCreate(r)
  <2>1. req[r].pc = "createStaff" => req[r].arg \in StaffRoles
    BY <1>0 DEF UserReady, Ongoing
  <2> QED
    BY <1>0, <1>3, <2>1, UserCreating DEF UserCreates
<1>4. CASE RegisterFailedAttempt(r)
  <2>1. Snap(r).fails \in 0 .. MaxLoginAttempts - 1
    BY <1>0, <1>4 DEF UserReady, Ongoing, RegisterFailedAttempt, At
  <2> QED
    BY <1>0, <1>4, <2>1, UserFailing DEF UserFails
<1>5. CASE ClearFailedAttempts(r)
  BY <1>0, <1>5, UserClearing DEF UserClears
<1>6. CASE SetPassword(r) \/ SetResetLink(r)
  BY <1>0, <1>6, UserLinking DEF UserLinks
<1>7. CASE SaveAddress(r) \/ DropAddress(r)
  <2>1. req[r].pc \in {"saveAddress", "dropAddress"}
    BY <1>7 DEF SaveAddress, DropAddress, At
  <2>2. Snap(r).book \subseteq Address /\ (user.ver = Snap(r).ver => user.book = Snap(r).book)
    BY <1>0, <2>1 DEF UserReady, Ongoing
  <2> QED
    BY <1>0, <1>7, <2>1, <2>2, UserAddressing DEF UserAddresses
<1> QED
  BY <1>1, <1>2, <1>3, <1>4, <1>5, <1>6, <1>7 DEF UserStep

SellerCreates(r) ==
  /\ Moves(r) /\ req[r].pc = "sellerCreate" /\ req'[r].pc = "done"
  /\ \/ req'[r].ans = "refused" /\ seller.exists /\ UNCHANGED seller
     \/ /\ req'[r].ans = "created" /\ ~ seller.exists /\ seller'.exists
        /\ seller'.recipient = Account(seller'.bank) /\ seller'.fails = 0 /\ seller'.lock = "none"
SellerFails(r) ==
  /\ Moves(r) /\ req[r].pc = "sellerFail" /\ req'[r].pc = "done" /\ req'[r].ans = "wrong"
  /\ SellerKeepsBut({"fails", "lock"}) /\ CountsFailure(r, seller, seller', SellerMaxAttempts)
SellerClears(r) ==
  /\ Moves(r) /\ req[r].pc = "sellerClear" /\ req'[r].pc = "sellerIssue" /\ req'[r].ans = req[r].ans
  /\ SellerKeepsBut({"fails", "lock"}) /\ Clears(r, seller, seller')

SellerShape(r) ==
  SellerOpens(r) \/ SellerPassesBy(r) \/ SellerCreates(r) \/ SellerFails(r) \/ SellerClears(r)

\* Every step of a seller's request has one of these shapes.
LEMMA SellerShapes ==
  ASSUME FrameInv, SellerInv, NEW r \in Requests, SellerStep(r)
  PROVE  SellerShape(r) /\ seller' \in SellerRecord
<1>0. seller \in SellerRecord /\ SellerReady(r)
  BY DEF SellerInv
<1> USE DEF SellerShape
<1>1. CASE \/ SellerRegister(r) \/ SellerLogin(r) \/ SellerGoogleLogin(r) \/ SellerRefresh(r) \/ SellerCall(r)
           \/ UpdateBankDetails(r) \/ UploadBusinessCertificate(r) \/ SetSellerStatus(r)
           \/ SoftDeleteSeller(r) \/ RestoreSeller(r) \/ SetSellerBan(r)
  <2>1. SellerOpens(r)
    BY <1>1, SellerOpening
  <2> QED
    BY <1>0, <2>1 DEF SellerOpens
<1>2. CASE \/ SellerSession(r) \/ SellerLink(r) \/ SellerReread(r)
           \/ (ReuseRevoke(r) \/ RotateIssue(r) \/ RotateMark(r) \/ EndSessions(r)) /\ UNCHANGED seller
           \/ SaveBankDetails(r) \/ SaveCertificate(r) \/ WriteSellerStatus(r)
           \/ SellerRevokeFirst(r) \/ SellerAdminSave(r)
  <2>1. /\ req[r].pc = "setStatus" => req[r].op = "status" /\ req[r].arg \in Statuses
        /\ req[r].pc = "recipient" => req[r].arg \in Details
        /\ req[r].pc = "sellerSave" => req[r].op \in {"sellerDelete", "sellerRestore", "sellerBan", "sellerUnban"}
    BY <1>0 DEF SellerReady, Ongoing, SellerStage
  <2> QED
    BY <1>0, <1>2, <2>1, SellerPassing
<1>3. CASE SellerCreate(r)
  BY <1>0, <1>3, SellerCreating DEF SellerCreates
<1>4. CASE SellerLoginFails(r)
  <2>1. Snap(r).fails \in 0 .. SellerMaxAttempts - 1
    BY <1>0, <1>4 DEF SellerReady, Ongoing, SellerLoginFails, At
  <2> QED
    BY <1>0, <1>4, <2>1, SellerFailing DEF SellerFails
<1>5. CASE SellerLoginClears(r)
  BY <1>0, <1>5, SellerClearing DEF SellerClears
<1> QED
  BY <1>1, <1>2, <1>3, <1>4, <1>5 DEF SellerStep

-----------------------------------------------------------------------------
(* Every step keeps it.                                                    *)

\* No step but a creation lets a document appear, and none lets one vanish.
LEMMA UserMoves ==
  ASSUME NEW r \in Requests, UserShape(r)
  PROVE  /\ Moves(r) /\ (user.exists => user'.exists)
         /\ user'.exists => user.exists \/ Created(r)
  BY DEF UserShape, UserOpens, PassesBy, UserKeepsMost, UserCreates, Created, UserFails, UserClears, UserLinks,
         UserAddresses, UserKeepsBut, UserFields

\* What a user's handler holds stays good while another one moves.
LEMMA UserReadyStep ==
  ASSUME FrameInv, UserInv, NEW r \in Requests, UserShape(r), user' \in UserRecord
  PROVE  UserReady(r)'
<1>0. user \in UserRecord /\ UserReady(r) /\ Moves(r)
  BY UserMoves DEF UserInv
<1> USE DEF UserReady, Ongoing
<1>1. CASE UserOpens(r)
  <2>1. /\ req'[r].op = "createStaff" \/ req'[r].op = "seed" => req'[r].arg \in StaffRoles
        /\ Ongoing(r)' => req'[r].ans = "none" /\ UserStage(req'[r].op, req'[r].pc)
        /\ req'[r].snap = user /\ UNCHANGED user
    BY <1>1 DEF UserOpens
  <2>2. (Ongoing(r)' /\ req'[r].pc = "createStaff") => req'[r].arg \in StaffRoles
    BY <2>1 DEF UserStage
  <2>3. Snap(r)' = user /\ user.fails \in 0 .. MaxLoginAttempts - 1 /\ user.book \subseteq Address /\ user.ver \in Nat
    BY <1>0, <2>1 DEF Snap, UserRecord
  <2>4. Ongoing(r)' => (req'[r].op \in LoginOps \/ req'[r].pc \in {"setLink", "saveAddress"} => user.exists)
    BY <1>1, <2>1 DEF UserOpens, LoginOpens, UserStage
  <2>5. (Ongoing(r)' /\ req'[r].pc = "dropAddress") => user.exists
    BY <1>1, <2>1 DEF UserOpens, UserInv, UserStage
  <2> QED
    BY <2>1, <2>2, <2>3, <2>4, <2>5
<1>2. CASE PassesBy(r)
  <2>1. /\ req'[r].op = req[r].op
        /\ Ongoing(r)' => Ongoing(r) /\ req'[r].ans = "none" /\ UserStage(req'[r].op, req'[r].pc)
    BY <1>0, <1>2 DEF PassesBy, Moves
  <2>2. Ongoing(r)' => req'[r].pc \notin {"createStaff", "fail", "setLink", "saveAddress", "dropAddress"}
    BY <1>0, <1>2, <2>1 DEF PassesBy, UserStage
  <2>3. user'.exists = user.exists
    BY <1>2 DEF PassesBy, UserKeepsMost
  <2> QED
    BY <1>0, <2>1, <2>2, <2>3
<1>3. CASE UserCreates(r)
  BY <1>0, <1>3 DEF UserCreates, Created, Moves, UserStage, LoginOps
<1>4. CASE UserFails(r) \/ UserAddresses(r)
  BY <1>4 DEF UserFails, UserAddresses
<1>5. CASE UserClears(r)
  BY <1>0, <1>5 DEF UserClears, Moves, UserStage, LoginOps, UserKeepsBut, UserFields
<1>6. CASE UserLinks(r)
  BY <1>0, <1>6 DEF UserLinks, Moves, UserStage, LoginOps
<1> QED
  BY <1>1, <1>2, <1>3, <1>4, <1>5, <1>6 DEF UserShape

\* A user's step keeps the types, and moves no more than its shape says.
LEMMA UserDocStep ==
  ASSUME FrameInv, UserInv, NEW r \in Requests, UserStep(r)
  PROVE  UserInv' /\ UserShape(r)
<1>0. UserShape(r) /\ user' \in UserRecord /\ user \in UserRecord
  BY UserShapes DEF UserInv
<1>1. Moves(r) /\ (user.exists => user'.exists) /\ (user'.exists => user.exists \/ Created(r))
  BY <1>0, UserMoves
<1>2. ~ user'.exists => user'.fails = 0 /\ user'.lock = "none" /\ user'.reset = NoOne /\ user'.book = {}
  <2>1. SUFFICES ASSUME ~ user'.exists PROVE user'.fails = 0 /\ user'.lock = "none" /\ user'.reset = NoOne /\ user'.book = {}
    OBVIOUS
  <2>2. ~ user.exists /\ user.fails = 0 /\ user.lock = "none" /\ user.reset = NoOne /\ user.book = {} /\ UserReady(r)
    BY <1>1, <2>1 DEF UserInv
  <2>3. ~ UserFails(r) /\ ~ UserClears(r) /\ ~ UserAddresses(r) /\ (UserLinks(r) => req[r].pc # "setLink")
    BY <2>2 DEF UserReady, Ongoing, UserFails, UserClears, UserAddresses, UserLinks, UserStage, LoginOps
  <2> QED
    BY <1>0, <2>1, <2>2, <2>3 DEF UserShape, UserOpens, PassesBy, UserKeepsMost, UserCreates, Created, UserLinks,
       UserKeepsBut, UserFields
<1>3. ASSUME NEW d \in Requests \ {r} PROVE UserReady(d)'
  <2>1. UserReady(d) /\ req'[d] = req[d] /\ Snap(d)' = Snap(d)
    BY <1>1 DEF UserInv, Moves, Snap
  <2>2. \/ user'.ver = user.ver /\ user'.book = user.book
        \/ user'.ver = user.ver + 1
        \/ ~ user.exists
    BY <1>0 DEF UserShape, UserOpens, PassesBy, UserKeepsMost, UserCreates, Created, UserFails, UserClears, UserLinks,
       UserAddresses, UserKeepsBut, UserFields
  <2>3. user.ver \in Nat
    BY <1>0 DEF UserRecord
  <2>4. CASE ~ user.exists
    BY <1>1, <2>1, <2>4 DEF UserReady, Ongoing
  <2>5. CASE user'.ver = user.ver /\ user'.book = user.book
    BY <1>1, <2>1, <2>5 DEF UserReady, Ongoing
  <2>6. CASE user'.ver = user.ver + 1
    BY <1>1, <2>1, <2>3, <2>6 DEF UserReady, Ongoing
  <2> QED
    BY <2>2, <2>4, <2>5, <2>6
<1>4. UserReady(r)'
  BY <1>0, UserReadyStep
<1> QED
  BY <1>0, <1>2, <1>3, <1>4 DEF UserInv

\* No step but a creation lets the seller appear, and none lets it vanish.
LEMMA SellerMoves ==
  ASSUME NEW r \in Requests, SellerShape(r)
  PROVE  Moves(r) /\ (seller.exists => seller'.exists)
  BY DEF SellerShape, SellerOpens, SellerPassesBy, SellerCreates, SellerFails, SellerClears,
         SellerKeepsBut, SellerFields

\* What a seller's handler holds stays good while another one moves.
LEMMA SellerReadyStep ==
  ASSUME FrameInv, SellerInv, NEW r \in Requests, SellerShape(r)
  PROVE  SellerReady(r)'
<1>0. seller \in SellerRecord /\ SellerReady(r) /\ Moves(r)
  BY SellerMoves DEF SellerInv
<1> USE DEF SellerReady, Ongoing
<1>1. CASE SellerOpens(r)
  <2>1. Snap(r)' = seller /\ seller.fails \in 0 .. SellerMaxAttempts - 1
    BY <1>0, <1>1 DEF Snap, SellerRecord, SellerOpens
  <2> QED
    BY <1>1, <2>1 DEF SellerOpens, SellerStage, LoginOpens
<1>2. CASE SellerPassesBy(r)
  <2>1. req'[r].op = req[r].op /\ req[r].pc # "idle" /\ seller'.exists = seller.exists
    BY <1>0, <1>2 DEF SellerPassesBy, Moves, SellerKeepsBut, SellerFields
  <2>2. Ongoing(r)' => Ongoing(r) /\ req'[r].ans = "none" /\ SellerStage(req'[r].op, req'[r].pc)
    BY <1>0, <1>2, <2>1 DEF SellerPassesBy, Moves
  <2>3. Ongoing(r)' => req'[r].pc \notin {"setStatus", "recipient", "sellerFail"}
    BY <1>0, <1>2, <2>1, <2>2 DEF SellerPassesBy, SellerStage
  <2> QED
    BY <1>0, <2>1, <2>2, <2>3
<1>3. CASE SellerCreates(r) \/ SellerFails(r)
  BY <1>0, <1>3 DEF SellerCreates, SellerFails, Moves
<1>4. CASE SellerClears(r)
  BY <1>0, <1>4 DEF SellerClears, Moves, SellerStage, SellerKeepsBut, SellerFields
<1> QED
  BY <1>1, <1>2, <1>3, <1>4 DEF SellerShape

\* A seller's step keeps the types, and moves no more than its shape says.
LEMMA SellerDocStep ==
  ASSUME FrameInv, SellerInv, NEW r \in Requests, SellerStep(r)
  PROVE  SellerInv' /\ SellerShape(r)
<1>0. SellerShape(r) /\ seller' \in SellerRecord /\ seller \in SellerRecord
  BY SellerShapes DEF SellerInv
<1>1. Moves(r) /\ (seller.exists => seller'.exists)
  BY <1>0, SellerMoves
<1>2. ~ seller'.exists => seller'.fails = 0 /\ seller'.lock = "none"
  <2>1. SUFFICES ASSUME ~ seller'.exists PROVE seller'.fails = 0 /\ seller'.lock = "none"
    OBVIOUS
  <2>2. ~ seller.exists /\ seller.fails = 0 /\ seller.lock = "none" /\ SellerReady(r)
    BY <1>1, <2>1 DEF SellerInv
  <2>3. ~ SellerFails(r) /\ ~ SellerClears(r)
    BY <2>2 DEF SellerReady, Ongoing, SellerFails, SellerClears, SellerStage, LoginOps
  <2> QED
    BY <1>0, <2>1, <2>2, <2>3 DEF SellerShape, SellerOpens, SellerPassesBy, SellerCreates, SellerKeepsBut, SellerFields
<1>3. ASSUME NEW d \in Requests \ {r} PROVE SellerReady(d)'
  <2>1. SellerReady(d) /\ req'[d] = req[d] /\ Snap(d)' = Snap(d)
    BY <1>1 DEF SellerInv, Moves, Snap
  <2> QED
    BY <1>1, <2>1 DEF SellerReady, Ongoing
<1>4. SellerReady(r)'
  BY <1>0, SellerReadyStep
<1> QED
  BY <1>0, <1>2, <1>3, <1>4 DEF SellerInv

\* Time passes: a lock, a ban or a link runs out.
UserAges ==
  /\ UserKeepsBut({"lock", "banned", "reset"})
  /\ user'.lock = user.lock \/ (user.lock = "future" /\ user'.lock = "past")
  /\ user'.reset \in {user.reset, NoOne}

\* Time moves the user's locks and links only.
LEMMA UserAging ==
  ASSUME UserInv, UserTime
  PROVE  UNCHANGED <<req, load>> /\ UserAges /\ UserInv'
<1>0. DOMAIN user = UserFields /\ user \in UserRecord
  BY DEF UserInv, UserRecord, UserFields
<1>1. UNCHANGED <<req, load>>
  BY DEF UserTime, LockExpires, BanExpires, LinkExpires, TokenExpires
<1>2. UserAges
  BY <1>0 DEF UserTime, LockExpires, BanExpires, LinkExpires, UserAges, UserKeepsBut, UserFields
<1>3. user' \in UserRecord
  <2>0. user = [f \in UserFields |-> user[f]]
    BY <1>0 DEF UserRecord, UserFields
  <2>1. user' = [f \in UserFields |-> user'[f]] /\ user'.banned \in {user.banned, FALSE}
    BY <1>0, <2>0 DEF UserTime, LockExpires, BanExpires, LinkExpires, UserFields
  <2>2. user'.banned \in BOOLEAN /\ user'.lock \in {"none", "future", "past"} /\ user'.reset \in Requests \cup {NoOne}
    BY <1>0, <1>2, <2>1 DEF UserRecord, UserAges
  <2> QED
    BY <1>0, <1>2, <2>1, <2>2 DEF UserAges, UserKeepsBut, UserFields, UserRecord
<1>4. /\ user'.exists = user.exists /\ user'.fails = user.fails /\ user'.book = user.book /\ user'.ver = user.ver
      /\ user'.lock = user.lock \/ (user.lock = "future" /\ user'.lock = "past")
      /\ user'.reset \in {user.reset, NoOne}
  BY <1>2 DEF UserAges, UserKeepsBut, UserFields
<1>5. \A r \in Requests : UserReady(r)'
  BY <1>1, <1>4 DEF UserInv, UserReady, Ongoing, Snap
<1>6. ~ user'.exists => user'.fails = 0 /\ user'.lock = "none" /\ user'.reset = NoOne /\ user'.book = {}
  BY <1>4 DEF UserInv
<1> QED
  BY <1>1, <1>2, <1>3, <1>5, <1>6 DEF UserInv

SellerAges ==
  /\ SellerKeepsBut({"lock", "banned"})
  /\ seller'.lock = seller.lock \/ (seller.lock = "future" /\ seller'.lock = "past")

\* Time moves the seller's lock only.
LEMMA SellerAging ==
  ASSUME SellerInv, SellerTime
  PROVE  UNCHANGED <<req, load>> /\ SellerAges /\ SellerInv'
<1>0. DOMAIN seller = SellerFields /\ seller \in SellerRecord
  BY DEF SellerInv, SellerRecord, SellerFields
<1>1. UNCHANGED <<req, load>>
  BY DEF SellerTime, SellerLockExpires, SellerBanExpires, TokenExpires
<1>2. SellerAges
  BY <1>0 DEF SellerTime, SellerLockExpires, SellerBanExpires, SellerAges, SellerKeepsBut, SellerFields
<1>3. seller' \in SellerRecord
  BY <1>0 DEF SellerTime, SellerLockExpires, SellerBanExpires, SellerRecord, SellerFields
<1>4. /\ seller'.exists = seller.exists /\ seller'.fails = seller.fails
      /\ seller'.lock = seller.lock \/ (seller.lock = "future" /\ seller'.lock = "past")
  BY <1>2 DEF SellerAges, SellerKeepsBut, SellerFields
<1>5. \A r \in Requests : SellerReady(r)'
  BY <1>1, <1>4 DEF SellerInv, SellerReady, Ongoing, Snap
<1> QED
  BY <1>1, <1>2, <1>3, <1>4, <1>5 DEF SellerInv

\* Types and stages, at the start.
LEMMA BasicStart == ASSUME IdentityInit PROVE BasicInv
<1>1. FrameInv /\ req = [r \in Requests |-> Idle]
  BY SessionsStart DEF SessionsInv, IdentityInit, SessionsInit
<1>2. \A r \in Requests : req[r].pc = "idle"
  BY <1>1 DEF Idle
<1>3. (\A r \in Requests : UserReady(r)) /\ \A r \in Requests : SellerReady(r)
  BY <1>2 DEF UserReady, SellerReady, Ongoing
<1>4. load \in SellerWorkloads => user = Nobody /\ SellerInv
  BY <1>3, IdentityAssumption DEF IdentityInit, SellerInv
<1>5. load \notin SellerWorkloads => seller = NoSeller /\ UserInv
  BY <1>3, IdentityAssumption DEF IdentityInit, UserInv
<1> QED
  BY <1>1, <1>4, <1>5 DEF BasicInv

\* Types and stages, over every step.
LEMMA BasicStep == ASSUME BasicInv, [IdentityNext]_ivars PROVE BasicInv'
<1>1. CASE UNCHANGED ivars
  <2>1. (\A r \in Requests : UserReady(r)') \/ ~ UserInv
    BY <1>1 DEF UserInv, UserReady, Ongoing, Snap, ivars
  <2>2. (\A r \in Requests : SellerReady(r)') \/ ~ SellerInv
    BY <1>1 DEF SellerInv, SellerReady, Ongoing, Snap, ivars
  <2>3. FrameInv'
    BY <1>1 DEF BasicInv, FrameInv, Finished, ivars
  <2> QED
    BY <1>1, <2>1, <2>2, <2>3 DEF BasicInv, UserInv, SellerInv, ivars
<1>2. CASE load \notin SellerWorkloads /\ UNCHANGED seller /\ UserTime
  <2>1. UNCHANGED <<req, load>> /\ UserInv' /\ FrameInv'
    BY <1>2, UserAging DEF BasicInv, FrameInv, Finished
  <2> QED
    BY <1>2, <2>1 DEF BasicInv
<1>3. ASSUME load \notin SellerWorkloads, UNCHANGED seller, NEW r \in Requests, UserStep(r)
      PROVE  BasicInv'
  <2>1. UserInv' /\ Moves(r) /\ FrameInv'
    BY <1>3, UserDocStep, UserMoves, FrameMoves DEF BasicInv
  <2> QED
    BY <1>3, <2>1 DEF BasicInv, Moves
<1>4. CASE load \in SellerWorkloads /\ UNCHANGED user /\ SellerTime
  <2>1. UNCHANGED <<req, load>> /\ SellerInv' /\ FrameInv'
    BY <1>4, SellerAging DEF BasicInv, FrameInv, Finished
  <2> QED
    BY <1>4, <2>1 DEF BasicInv
<1>5. ASSUME load \in SellerWorkloads, UNCHANGED user, NEW r \in Requests, SellerStep(r)
      PROVE  BasicInv'
  <2>1. SellerInv' /\ Moves(r) /\ FrameInv'
    BY <1>5, SellerDocStep, SellerMoves, FrameMoves DEF BasicInv
  <2> QED
    BY <1>5, <2>1 DEF BasicInv, Moves
<1> QED
  BY <1>1, <1>2, <1>3, <1>4, <1>5 DEF IdentityNext

-----------------------------------------------------------------------------
(* The bank details and the recipient code.                                *)

Matches(s) == s.recipient = Account(s.bank)

\* A change of the bank details that is under way read a document whose code
\* was that of its account; a code that has changed since is the work of an
\* overlapping change to another account.
BankReady(r) ==
  req[r].pc = "recipient" =>
    /\ seller.exists /\ Matches(Snap(r))
    /\ seller.recipient # Snap(r).recipient =>
         \E q \in BankChanges : q \notin Before(r) /\ Account(req[q].arg) # Snap(r).recipient

BankInv == BankClash \/ (Matches(seller) /\ \A r \in Requests : BankReady(r))

\* What was answered stays answered, and a clash stays one.
LEMMA BankKept ==
  ASSUME FrameInv, NEW r \in Requests, Moves(r)
  PROVE  /\ BankChanges \subseteq BankChanges'
         /\ \A q \in BankChanges : q # r /\ req'[q] = req[q]
         /\ BankClash => BankClash'
<1>1. \A q \in BankChanges : q \in Requests /\ q # r /\ req'[q] = req[q]
  BY DEF BankChanges, Finished, Moves
<1>2. BankChanges \subseteq BankChanges'
  BY <1>1 DEF BankChanges, Finished
<1>3. BankClash => BankClash'
  BY <1>1, <1>2 DEF BankClash, Overlap, Before, Snap
<1> QED
  BY <1>1, <1>2, <1>3

\* A step that leaves both fields alone, or creates the document, leaves
\* every other request's change as it was.
LEMMA BankQuiet ==
  ASSUME FrameInv, BankInv, NEW r \in Requests, Moves(r),
         seller.exists => seller'.exists,
         \/ seller'.bank = seller.bank /\ seller'.recipient = seller.recipient
         \/ ~ seller.exists /\ Matches(seller'),
         req'[r].pc = "recipient" => req[r].pc = "idle" /\ seller.exists /\ req'[r].snap = seller
  PROVE  BankInv'
<1>0. SUFFICES ASSUME ~ BankClash PROVE BankInv'
  BY BankKept DEF BankInv
<1>1. Matches(seller) /\ \A d \in Requests : BankReady(d)
  BY <1>0 DEF BankInv
<1>2. Matches(seller')
  BY <1>1 DEF Matches
<1>3. ASSUME NEW d \in Requests PROVE BankReady(d)'
  <2>1. CASE d = r
    BY <1>1, <2>1 DEF BankReady, Matches, Snap
  <2>2. CASE d # r
    <3>1. req'[d] = req[d] /\ BankReady(d)
      BY <1>1, <2>2 DEF Moves
    <3> QED
      BY <3>1, BankKept DEF BankReady, Matches, Snap, Before
  <2> QED
    BY <2>1, <2>2
<1> QED
  BY <1>2, <1>3 DEF BankInv, Matches

\* The save of a change, the only one to write them.
LEMMA BankSaved ==
  ASSUME FrameInv, BankInv, NEW r \in Requests, DOMAIN seller = SellerFields,
         req[r].op = "bankDetails", req[r].arg \in Details, SaveBankDetails(r)
  PROVE  BankInv'
<1>1. req[r].pc = "recipient" /\ UNCHANGED load /\ r \notin BankChanges
  BY DEF SaveBankDetails, At, BankChanges, Finished
<1>2. Goes(r, "done", "ok") \/ Goes(r, "done", "error")
  BY <1>1, AnswerGoes DEF SaveBankDetails
<1>3. Moves(r) /\ req'[r].pc = "done" /\ Snap(r)' = Snap(r)
  BY <1>2 DEF Goes, Snap
<1>4. CASE UNCHANGED seller
  BY <1>3, <1>4, BankQuiet
<1>5. CASE SSave(r, BankChange(r)) /\ Answer(r, "ok")
  <2> DEFINE mine == Account(req[r].arg)
  <2>0. SUFFICES ASSUME ~ BankClash, ~ BankClash' PROVE BankInv'
    BY <1>3, BankKept DEF BankInv
  <2>1. /\ Matches(seller) /\ seller.exists /\ Matches(Snap(r))
        /\ seller.recipient # Snap(r).recipient =>
             \E q \in BankChanges : q \notin Before(r) /\ Account(req[q].arg) # Snap(r).recipient
    BY <1>1, <2>0 DEF BankInv, BankReady
  <2>2. /\ seller'.exists = seller.exists
        /\ seller'.bank = IF req[r].arg # Snap(r).bank THEN req[r].arg ELSE seller.bank
        /\ seller'.recipient = IF mine # Snap(r).recipient THEN mine ELSE seller.recipient
    BY <1>5 DEF SSave, SaveChanges, BankChange, SellerFields
  <2>3. r \in BankChanges' /\ req'[r].arg = req[r].arg /\ Before(r)' = Before(r)
    BY <1>1, <1>2, <1>3, <1>5, AnswerGoes DEF BankChanges, Finished, Goes, Moves, Before
  <2>4. ASSUME NEW d \in Requests PROVE r \notin Before(d)
    BY <1>1 DEF FrameInv, Finished, Before
  <2> HIDE DEF mine
  <2>5. CASE mine # Snap(r).recipient
    <3>1. Matches(seller')
      BY <2>1, <2>2, <2>5 DEF Matches, mine
    <3> QED
      <4>1. ASSUME NEW d \in Requests PROVE BankReady(d)'
        <5>1. CASE d = r
          BY <1>3, <5>1 DEF BankReady
        <5>2. CASE d # r
          <6>1. req'[d] = req[d] /\ BankReady(d)
            BY <1>3, <2>0, <5>2 DEF Moves, BankInv
          <6>2. SUFFICES ASSUME req[d].pc = "recipient", seller'.recipient # Snap(d).recipient
                         PROVE  \E q \in BankChanges' : q \notin Before(d) /\ Account(req'[q].arg) # Snap(d).recipient
            BY <2>1, <2>2, <6>1 DEF BankReady, Matches, Snap, Before
          <6>3. r \in BankChanges' /\ r \notin Before(d) /\ Account(req'[r].arg) # Snap(d).recipient
            BY <2>2, <2>3, <2>4, <2>5, <6>2 DEF mine
          <6> QED
            BY <6>3
        <5> QED
          BY <5>1, <5>2
      <4> QED
        BY <3>1, <4>1 DEF BankInv, Matches
  <2>6. CASE mine = Snap(r).recipient
    <3>1. ASSUME seller.recipient # Snap(r).recipient PROVE FALSE
      <4>1. PICK q \in BankChanges : q \notin Before(r) /\ Account(req[q].arg) # Snap(r).recipient
        BY <2>1, <3>1
      <4>2. q \in BankChanges' /\ q # r /\ req'[q] = req[q] /\ q \in Requests
        BY <1>3, BankKept DEF BankChanges, Finished
      <4>3. Overlap(r, q)'
        BY <2>3, <2>4, <4>1, <4>2 DEF Overlap, Before
      <4> QED
        BY <1>3, <2>0, <2>3, <2>6, <4>1, <4>2, <4>3 DEF BankClash, mine
    <3>2. seller'.recipient = seller.recipient /\ Matches(seller')
      BY <2>1, <2>2, <2>6, <3>1 DEF Matches, mine
    <3>3. ASSUME NEW d \in Requests PROVE BankReady(d)'
      <4>1. CASE d = r
        BY <1>3, <4>1 DEF BankReady
      <4>2. CASE d # r
        <5>1. req'[d] = req[d] /\ BankReady(d)
          BY <1>3, <2>0, <4>2 DEF Moves, BankInv
        <5> QED
          BY <1>3, <2>2, <3>2, <5>1, BankKept DEF BankReady, Matches, Snap, Before
      <4> QED
        BY <4>1, <4>2
    <3> QED
      BY <3>2, <3>3 DEF BankInv, Matches
  <2> QED
    BY <2>5, <2>6
<1> QED
  BY <1>4, <1>5 DEF SaveBankDetails

\* The bank details, over every step.
LEMMA BankStep == ASSUME BasicInv, BankInv, [IdentityNext]_ivars PROVE BankInv'
<1>0. FrameInv
  BY DEF BasicInv
<1>1. ASSUME UNCHANGED req, seller'.exists = seller.exists, seller'.bank = seller.bank, seller'.recipient = seller.recipient
      PROVE  BankInv'
  BY <1>1 DEF BankInv, BankReady, BankClash, BankChanges, Overlap, Finished, Before, Snap, Matches
<1>2. CASE UNCHANGED ivars
  BY <1>1, <1>2 DEF ivars
<1>3. CASE load \notin SellerWorkloads /\ UNCHANGED seller /\ UserTime
  BY <1>1, <1>3 DEF UserTime, LockExpires, BanExpires, LinkExpires, TokenExpires
<1>4. ASSUME load \notin SellerWorkloads, UNCHANGED seller, NEW r \in Requests, UserStep(r) PROVE BankInv'
  <2>1. UserInv /\ UserShape(r) /\ Moves(r) /\ user \in UserRecord
    BY <1>0, <1>4, UserDocStep, UserMoves DEF BasicInv, UserInv
  <2>2. Ongoing(r)' => UserStage(req'[r].op, req'[r].pc)
    BY <1>0, <1>4, <2>1, UserDocStep DEF UserInv, UserReady
  <2>3. req'[r].pc # "recipient"
    BY <2>2 DEF Ongoing, UserStage
  <2> QED
    BY <1>0, <1>4, <2>1, <2>3, BankQuiet
<1>5. CASE load \in SellerWorkloads /\ UNCHANGED user /\ SellerTime
  <2>1. UNCHANGED req /\ SellerAges
    BY <1>5, SellerAging DEF BasicInv
  <2> QED
    BY <1>1, <2>1 DEF SellerAges, SellerKeepsBut, SellerFields
<1>6. ASSUME load \in SellerWorkloads, NEW r \in Requests, SellerStep(r) PROVE BankInv'
  <2>1. SellerInv /\ SellerShape(r) /\ Moves(r) /\ (seller.exists => seller'.exists)
    BY <1>0, <1>6, SellerDocStep, SellerMoves DEF BasicInv
  <2>2. CASE SellerOpens(r)
    BY <1>0, <2>1, <2>2, BankQuiet DEF SellerOpens
  <2>3. CASE SaveBankDetails(r)
    <3>1. req[r].pc = "recipient" /\ SellerReady(r) /\ DOMAIN seller = SellerFields
      BY <2>1, <2>3 DEF SaveBankDetails, At, SellerInv, SellerRecord, SellerFields
    <3>2. req[r].op = "bankDetails" /\ req[r].arg \in Details
      BY <3>1 DEF SellerReady, Ongoing, SellerStage
    <3> QED
      BY <1>0, <2>3, <3>1, <3>2, BankSaved
  <2>4. CASE SellerPassesBy(r) /\ ~ SaveBankDetails(r)
    BY <1>0, <2>1, <2>4, BankQuiet DEF SellerPassesBy
  <2>5. CASE SellerCreates(r)
    BY <1>0, <2>1, <2>5, BankQuiet DEF SellerCreates, Matches
  <2>6. CASE SellerFails(r) \/ SellerClears(r)
    <3>1. seller'.bank = seller.bank /\ seller'.recipient = seller.recipient /\ req'[r].pc # "recipient"
      BY <2>6 DEF SellerFails, SellerClears, SellerKeepsBut, SellerFields
    <3> QED
      BY <1>0, <2>1, <3>1, BankQuiet
  <2> QED
    BY <2>1, <2>2, <2>3, <2>4, <2>5, <2>6 DEF SellerShape
<1> QED
  BY <1>2, <1>3, <1>4, <1>5, <1>6 DEF IdentityNext

LEMMA BankStart == ASSUME IdentityInit PROVE BankInv
<1>1. \A r \in Requests : req[r].pc = "idle"
  BY DEF IdentityInit, SessionsInit, Idle
<1>2. Matches(seller)
  BY IdentityAssumption DEF IdentityInit, Matches, NoSeller, NewSeller, Account
<1> QED
  BY <1>1, <1>2 DEF BankInv, BankReady

\* A seller is approved only with a certificate, and its recipient is the
\* account on file unless two changes of the details clashed.
THEOREM SellerSafety == IdentitySpec => []SellerDocumentInv
<1>1. (DocInv /\ BankInv) => SellerDocumentInv
  BY DEF DocInv, BankInv, Matches, SellerDocumentInv, RecipientIsTheAccountOnFile
<1>2. IdentityInit => DocInv /\ BasicInv /\ BankInv
  BY DocStart, BasicStart, BankStart
<1>3. (DocInv /\ BasicInv /\ BankInv) /\ [IdentityNext]_ivars => (DocInv /\ BasicInv /\ BankInv)'
  BY DocStep, BasicStep, BankStep
<1> QED
  BY <1>1, <1>2, <1>3, PTL DEF IdentitySpec

-----------------------------------------------------------------------------
(* Attempts: which logins have failed, succeeded, or hold a count.         *)

\* A count that starts again at its limit is a count modulo the limit.
LEMMA Rolls ==
  ASSUME NEW n \in Nat, NEW T \in Nat \ {0}
  PROVE  /\ n % T \in 0 .. (T - 1) /\ n % T <= n /\ (n < T => n % T = n)
         /\ (n + 1) % T = IF (n % T) + 1 < T THEN (n % T) + 1 ELSE 0
         /\ 0 % T = 0
<1>1. n % T \in 0 .. (T - 1) /\ 0 % T = 0 /\ n \div T \in Int
  OBVIOUS
<1>2. n = (T * (n \div T)) + (n % T)
  OBVIOUS
<1>3. ASSUME NEW q \in Int, NEW m \in 0 .. (T - 1) PROVE ((T * q) + m) % T = m
  OBVIOUS
<1>4. PICK q \in Int : q = n \div T
  BY <1>1
<1>5. PICK m \in 0 .. (T - 1) : m = n % T
  BY <1>1
<1>6. n = (T * q) + m
  BY <1>2, <1>4, <1>5
<1>7. CASE m + 1 < T
  <2>1. n + 1 = (T * q) + (m + 1) /\ m + 1 \in 0 .. (T - 1)
    BY <1>6, <1>7
  <2>2. (n + 1) % T = m + 1
    BY <1>3, <2>1
  <2> QED
    BY <1>1, <1>5, <1>7, <2>2
<1>8. CASE m + 1 >= T
  <2>1. n + 1 = (T * (q + 1)) + 0 /\ 0 \in 0 .. (T - 1) /\ q + 1 \in Int
    BY <1>6, <1>8
  <2>2. (n + 1) % T = 0
    BY <1>3, <2>1
  <2> QED
    BY <1>1, <1>5, <1>8, <2>2
<1>9. n < T => n % T = n
  <2>1. SUFFICES ASSUME n < T PROVE n % T = n
    OBVIOUS
  <2>2. n = (T * 0) + n /\ n \in 0 .. (T - 1)
    BY <2>1
  <2> QED
    BY <1>3, <2>2
<1>10. n % T <= n
  <2>1. CASE n < T
    BY <1>9, <2>1
  <2>2. CASE n >= T
    BY <1>1, <2>2
  <2> QED
    BY <2>1, <2>2
<1> QED
  BY <1>1, <1>7, <1>8, <1>9, <1>10

FailPcs  == {"fail", "sellerFail"}
ClearPcs == {"clear", "sellerClear"}
IssuePcs == {"issue", "sellerIssue"}
AtIssue(r) == req[r].op \in LoginOps /\ req[r].pc \in IssuePcs

Wrong  == {r \in Logins : req[r].ans = "wrong"}
Opened == {r \in Logins : req[r].ans = "session"}

Counted ==
  /\ Doc.fails = Cardinality(Failures) % Threshold
  /\ Doc.lock # "none" <=> Cardinality(Failures) >= Threshold

\* What the stages of a request say of logins, of either collection.
LoginsTidy ==
  /\ Threshold \in Nat \ {0} /\ Doc.fails \in 0 .. Threshold - 1
  /\ \A r \in Requests :
       /\ req[r].pc \in FailPcs \cup ClearPcs => req[r].op \in LoginOps
       /\ req[r].op \in LoginOps /\ Ongoing(r) =>
            req[r].ans = "none" /\ req[r].pc \in FailPcs \cup ClearPcs \cup IssuePcs
       /\ req[r].pc \in FailPcs => Snap(r).fails \in 0 .. Threshold - 1

\* A lock needs as many wrong passwords as the limit, whatever overlaps.
LockInv ==
  /\ IsFiniteSet(Wrong) /\ Doc.fails <= Cardinality(Wrong)
  /\ Doc.lock # "none" => Cardinality(Wrong) >= Threshold
  /\ \A r \in Requests : req[r].pc \in FailPcs => Snap(r).fails <= Cardinality(Wrong)

\* Logins one after the other are counted exactly: the one that is going on
\* has read the count as it is.
CountInv ==
  Serial(Logins) =>
    /\ (\A r \in Requests : ~ AtIssue(r)) => Counted
    /\ \A r \in Requests : AtIssue(r) => Doc.fails = 0 /\ Doc.lock = "none"
    /\ \A r \in Requests : req[r].pc \in FailPcs \cup ClearPcs =>
         Snap(r).fails = Doc.fails /\ Snap(r).lock = Doc.lock /\ Doc.lock # "future"

\* The steps of a request, by what they do to attempts.
Aside(r) ==
  /\ req'[r].op \notin LoginOps /\ req'[r].pc \notin FailPcs \cup ClearPcs
  /\ Doc'.fails = Doc.fails /\ Doc'.lock = Doc.lock
LoginBegins(r) ==
  /\ req[r].pc = "idle" /\ req'[r].op \in LoginOps /\ req'[r].snap = Doc
  /\ Doc'.fails = Doc.fails /\ Doc'.lock = Doc.lock
  /\ \/ req'[r].pc = "done" /\ req'[r].ans \notin {"wrong", "session"}
     \/ /\ req'[r].ans = "none" /\ req'[r].pc \in FailPcs \cup ClearPcs \cup IssuePcs
        /\ Doc.lock # "future" /\ (req'[r].pc \in IssuePcs => Doc.fails = 0 /\ Doc.lock = "none")
LoginOpened(r) ==
  /\ AtIssue(r) /\ req'[r].pc = "done" /\ req'[r].ans = "session"
  /\ Doc'.fails = Doc.fails /\ Doc'.lock = Doc.lock
LoginFailed(r) ==
  /\ req[r].op \in LoginOps /\ req[r].pc \in FailPcs /\ req'[r].pc = "done" /\ req'[r].ans = "wrong"
  /\ CountsFailure(r, Doc, Doc', Threshold)
LoginCleared(r) ==
  /\ req[r].op \in LoginOps /\ req[r].pc \in ClearPcs /\ req'[r].pc \in IssuePcs /\ req'[r].ans = req[r].ans
  /\ Clears(r, Doc, Doc')
AttemptStep(r) ==
  Moves(r) /\ (Aside(r) \/ LoginBegins(r) \/ LoginOpened(r) \/ LoginFailed(r) \/ LoginCleared(r))

\* What the attempts need to know of the types and stages.
LEMMA Tidy == ASSUME BasicInv PROVE LoginsTidy
<1>1. CASE load \in SellerWorkloads
  <2>1. seller \in SellerRecord /\ \A r \in Requests : SellerReady(r)
    BY <1>1 DEF BasicInv, SellerInv
  <2>2. Doc = seller /\ Threshold = SellerMaxAttempts
    BY <1>1 DEF Doc, Threshold
  <2>3. Threshold \in Nat \ {0} /\ Doc.fails \in 0 .. Threshold - 1
    BY <2>1, <2>2, SellerAttemptsAssumption DEF SellerRecord
  <2>4. ASSUME NEW r \in Requests
        PROVE  /\ req[r].pc \in FailPcs \cup ClearPcs => req[r].op \in LoginOps
               /\ req[r].op \in LoginOps /\ Ongoing(r) =>
                    req[r].ans = "none" /\ req[r].pc \in FailPcs \cup ClearPcs \cup IssuePcs
               /\ req[r].pc \in FailPcs => Snap(r).fails \in 0 .. Threshold - 1
    BY <2>1, <2>2 DEF SellerReady, Ongoing, SellerStage, LoginOps, FailPcs, ClearPcs, IssuePcs
  <2> QED
    BY <2>3, <2>4 DEF LoginsTidy
<1>2. CASE load \notin SellerWorkloads
  <2>1. user \in UserRecord /\ \A r \in Requests : UserReady(r)
    BY <1>2 DEF BasicInv, UserInv
  <2>2. Doc = user /\ Threshold = MaxLoginAttempts
    BY <1>2 DEF Doc, Threshold
  <2>3. Threshold \in Nat \ {0} /\ Doc.fails \in 0 .. Threshold - 1
    BY <2>1, <2>2, AttemptsAssumption DEF UserRecord
  <2>4. ASSUME NEW r \in Requests
        PROVE  /\ req[r].pc \in FailPcs \cup ClearPcs => req[r].op \in LoginOps
               /\ req[r].op \in LoginOps /\ Ongoing(r) =>
                    req[r].ans = "none" /\ req[r].pc \in FailPcs \cup ClearPcs \cup IssuePcs
               /\ req[r].pc \in FailPcs => Snap(r).fails \in 0 .. Threshold - 1
    BY <2>1, <2>2 DEF UserReady, Ongoing, UserStage, LoginOps, FailPcs, ClearPcs, IssuePcs
  <2> QED
    BY <2>3, <2>4 DEF LoginsTidy
<1> QED
  BY <1>1, <1>2

\* A user's step, as the attempts see it.
LEMMA UserAttempts ==
  ASSUME BasicInv, load \notin SellerWorkloads, NEW r \in Requests, UserShape(r)
  PROVE  AttemptStep(r)
<1>0. UserReady(r) /\ UserInv /\ Moves(r) /\ UNCHANGED load
  BY UserMoves DEF BasicInv, UserInv, Moves
<1>1. Doc = user /\ Doc' = user' /\ Threshold = MaxLoginAttempts
  BY <1>0 DEF Doc, Threshold
<1>2. req[r].pc # "idle" => req'[r].op = req[r].op /\ Ongoing(r)
  BY <1>0 DEF Moves, Ongoing
<1> USE DEF AttemptStep, FailPcs, ClearPcs, IssuePcs, LoginOps
<1>3. CASE UserOpens(r)
  <2>1. CASE req'[r].op \notin LoginOps
    BY <1>0, <1>1, <1>3, <2>1 DEF UserOpens, UserStage, Aside
  <2>2. CASE req'[r].op \in LoginOps
    BY <1>0, <1>1, <1>3, <2>2 DEF UserOpens, UserStage, LoginOpens, LoginBegins
  <2> QED
    BY <2>1, <2>2
<1>4. CASE PassesBy(r)
  <2>1. user'.fails = user.fails /\ user'.lock = user.lock
    BY <1>4 DEF PassesBy, UserKeepsMost
  <2>2. CASE req[r].op \notin LoginOps
    BY <1>0, <1>1, <1>2, <1>4, <2>1, <2>2 DEF PassesBy, UserReady, Ongoing, UserStage, Aside
  <2>3. CASE req[r].op \in LoginOps
    BY <1>0, <1>1, <1>2, <1>4, <2>1, <2>3 DEF PassesBy, UserReady, UserStage, AtIssue, LoginOpened
  <2> QED
    BY <2>2, <2>3
<1>5. CASE UserCreates(r)
  BY <1>0, <1>1, <1>2, <1>5 DEF UserCreates, Created, UserInv, UserReady, UserStage, Aside
<1>6. CASE UserFails(r)
  BY <1>0, <1>1, <1>2, <1>6 DEF UserFails, UserReady, UserStage, LoginFailed
<1>7. CASE UserClears(r)
  BY <1>0, <1>1, <1>2, <1>7 DEF UserClears, UserReady, UserStage, LoginCleared
<1>8. CASE UserLinks(r) \/ UserAddresses(r)
  BY <1>0, <1>1, <1>2, <1>8 DEF UserLinks, UserAddresses, UserReady, UserStage, UserKeepsBut, UserFields, Aside
<1> QED
  BY <1>3, <1>4, <1>5, <1>6, <1>7, <1>8 DEF UserShape

\* A seller's step, as the attempts see it.
LEMMA SellerAttempts ==
  ASSUME BasicInv, load \in SellerWorkloads, NEW r \in Requests, SellerShape(r)
  PROVE  AttemptStep(r)
<1>0. SellerReady(r) /\ SellerInv /\ Moves(r) /\ UNCHANGED load
  BY SellerMoves DEF BasicInv, SellerInv, Moves
<1>1. Doc = seller /\ Doc' = seller' /\ Threshold = SellerMaxAttempts
  BY <1>0 DEF Doc, Threshold
<1>2. req[r].pc # "idle" => req'[r].op = req[r].op /\ Ongoing(r)
  BY <1>0 DEF Moves, Ongoing
<1> USE DEF AttemptStep, FailPcs, ClearPcs, IssuePcs, LoginOps
<1>3. CASE SellerOpens(r)
  <2>1. CASE req'[r].op \notin LoginOps
    BY <1>0, <1>1, <1>3, <2>1 DEF SellerOpens, SellerStage, Aside
  <2>2. CASE req'[r].op \in LoginOps
    BY <1>0, <1>1, <1>3, <2>2 DEF SellerOpens, SellerStage, LoginOpens, LoginBegins
  <2> QED
    BY <2>1, <2>2
<1>4. CASE SellerPassesBy(r)
  <2>1. seller'.fails = seller.fails /\ seller'.lock = seller.lock
    BY <1>4 DEF SellerPassesBy, SellerKeepsBut, SellerFields
  <2>2. CASE req[r].op \notin LoginOps
    BY <1>0, <1>1, <1>2, <1>4, <2>1, <2>2 DEF SellerPassesBy, SellerReady, Ongoing, SellerStage, Aside
  <2>3. CASE req[r].op \in LoginOps
    BY <1>0, <1>1, <1>2, <1>4, <2>1, <2>3 DEF SellerPassesBy, SellerReady, SellerStage, AtIssue, LoginOpened
  <2> QED
    BY <2>2, <2>3
<1>5. CASE SellerCreates(r)
  BY <1>0, <1>1, <1>2, <1>5 DEF SellerCreates, SellerInv, SellerReady, SellerStage, Aside
<1>6. CASE SellerFails(r)
  BY <1>0, <1>1, <1>2, <1>6 DEF SellerFails, SellerReady, SellerStage, LoginFailed
<1>7. CASE SellerClears(r)
  BY <1>0, <1>1, <1>2, <1>7 DEF SellerClears, SellerReady, SellerStage, LoginCleared
<1> QED
  BY <1>3, <1>4, <1>5, <1>6, <1>7 DEF SellerShape

-----------------------------------------------------------------------------
(* Attempts: each kind of step keeps the lock and the count.               *)

\* A request that goes on leaves what it is not about as it was.
LEMMA SerialBefore ==
  ASSUME FrameInv, NEW r \in Requests, Moves(r), Serial(Logins)'
  PROVE  Serial(Logins)
<1>1. ASSUME NEW d \in Logins PROVE d \in Logins' /\ Before(d)' = Before(d) /\ d \in Requests
  BY <1>1 DEF Logins, FrameInv, Idle, Moves, Before
<1> QED
  BY <1>1 DEF Serial, Overlap

\* Of logins one after the other, one is going on at most.
LEMMA OneLogin ==
  ASSUME FrameInv, Serial(Logins), NEW a \in Logins, NEW b \in Logins, Ongoing(a), Ongoing(b)
  PROVE  a = b
  BY DEF FrameInv, Serial, Overlap, Logins, Ongoing, Finished, Before

\* A verdict is final; a failure is a wrong password no login succeeded after.
LEMMA Verdicts ==
  ASSUME FrameInv, LoginsTidy
  PROVE  /\ Failures = {w \in Wrong : \A s \in Opened : w \notin Before(s)}
         /\ Wrong \subseteq Finished /\ Opened \subseteq Finished /\ Failures \subseteq Wrong
<1>1. \A d \in Logins : req[d].pc # "idle" /\ (req[d].ans \in {"wrong", "session"} => req[d].pc = "done")
  BY DEF FrameInv, LoginsTidy, Logins, LoginOps, Idle, Ongoing
<1>2. Failures = {w \in Wrong : \A s \in Opened : w \notin Before(s)}
  BY DEF Failures, Wrong, Opened
<1> QED
  BY <1>1, <1>2 DEF Wrong, Opened, Logins, Finished

\* A step that ends no login keeps both sets of logins.
LEMMA NoVerdict ==
  ASSUME FrameInv, LoginsTidy, LoginsTidy', NEW r \in Requests, Moves(r),
         req'[r].op \in LoginOps => req'[r].ans \notin {"wrong", "session"}
  PROVE  Wrong' = Wrong /\ Failures' = Failures
<1>0. FrameInv'
  BY FrameMoves
<1>1. r \notin Wrong /\ r \notin Opened
  BY Verdicts DEF Finished, Moves
<1>2. r \notin Wrong' /\ r \notin Opened'
  BY DEF Wrong, Opened, Logins, LoginOps
<1>3. \A d \in Requests \ {r} : req'[d] = req[d]
  BY DEF Moves
<1>4. Wrong' = Wrong /\ Opened' = Opened
  BY <1>1, <1>2, <1>3 DEF Wrong, Opened, Logins
<1>5. \A s \in Opened : Before(s)' = Before(s)
  BY <1>1, <1>3 DEF Opened, Logins, Before
<1>6. Failures = {w \in Wrong : \A s \in Opened : w \notin Before(s)}
  BY Verdicts
<1>7. Failures' = {w \in Wrong' : \A s \in Opened' : w \notin Before(s)'}
  BY DEF Failures, Wrong, Opened
<1> QED
  BY <1>4, <1>5, <1>6, <1>7

\* A wrong password adds one to the wrong ones.
LEMMA WrongVerdict ==
  ASSUME FrameInv, LoginsTidy, LoginsTidy', NEW r \in Requests, Moves(r),
         req[r].op \in LoginOps, req[r].pc # "idle", req'[r].ans = "wrong"
  PROVE  /\ Wrong' = Wrong \cup {r} /\ r \notin Wrong
         /\ Failures' = Failures \cup {r} /\ r \notin Failures
<1>0. FrameInv' /\ r \notin Finished /\ r \in Logins'
  BY FrameMoves DEF Finished, Moves, Logins, LoginOps
<1>1. r \notin Wrong /\ r \notin Opened
  BY <1>0, Verdicts
<1>2. r \in Wrong' /\ r \notin Opened'
  BY <1>0 DEF Wrong, Opened
<1>3. \A d \in Requests \ {r} : req'[d] = req[d]
  BY DEF Moves
<1>4. Wrong' = Wrong \cup {r} /\ Opened' = Opened
  BY <1>1, <1>2, <1>3 DEF Wrong, Opened, Logins
<1>5. \A s \in Opened : Before(s)' = Before(s) /\ r \notin Before(s)
  BY <1>0, <1>1, <1>3 DEF Opened, Logins, Before, FrameInv
<1>6. Failures = {w \in Wrong : \A s \in Opened : w \notin Before(s)}
  BY Verdicts
<1>7. Failures' = {w \in Wrong' : \A s \in Opened' : w \notin Before(s)'}
  BY DEF Failures, Wrong, Opened
<1> QED
  BY <1>1, <1>4, <1>5, <1>6, <1>7

\* A right password starts the count again.
LEMMA RightVerdict ==
  ASSUME FrameInv, LoginsTidy, LoginsTidy', NEW r \in Requests, Moves(r),
         req[r].op \in LoginOps, req[r].pc # "idle", req'[r].ans = "session"
  PROVE  Wrong' = Wrong /\ (Serial(Logins) => Failures' = {})
<1>0. FrameInv' /\ r \notin Finished /\ r \in Logins /\ r \in Logins'
  BY FrameMoves DEF Finished, Moves, Logins, LoginOps
<1>1. r \notin Wrong
  BY <1>0, Verdicts
<1>2. r \in Opened' /\ r \notin Wrong'
  BY <1>0 DEF Opened, Wrong
<1>3. \A d \in Requests \ {r} : req'[d] = req[d]
  BY DEF Moves
<1>4. Wrong' = Wrong
  BY <1>1, <1>2, <1>3 DEF Wrong, Logins
<1>5. ASSUME Serial(Logins), NEW w \in Wrong PROVE w \in Before(r)'
  <2>1. w \in Logins /\ w # r /\ ~ Overlap(w, r) /\ r \notin Before(w)
    BY <1>0, <1>1, <1>5 DEF Wrong, Serial, Before, FrameInv, Logins
  <2>2. w \in Before(r)
    BY <2>1 DEF Overlap, Logins
  <2> QED
    BY <2>2 DEF Before, Moves
<1>6. Failures' = {w \in Wrong' : \A s \in Opened' : w \notin Before(s)'}
  BY DEF Failures, Wrong, Opened
<1> QED
  BY <1>2, <1>4, <1>5, <1>6

\* No more failures are stored than passwords were wrong.
LEMMA LockStep ==
  ASSUME FrameInv, LoginsTidy, LoginsTidy', LockInv, NEW r \in Requests, AttemptStep(r)
  PROVE  LockInv'
<1>0. Moves(r) /\ Threshold' = Threshold /\ Threshold \in Nat \ {0}
  BY DEF AttemptStep, Moves, Threshold, LoginsTidy
<1>1. \A d \in Requests \ {r} : req'[d] = req[d] /\ Snap(d)' = Snap(d)
  BY <1>0 DEF Moves, Snap
<1>2. IsFiniteSet(Wrong) /\ Cardinality(Wrong) \in Nat
  BY FS_CardinalityType DEF LockInv
<1>3. Doc.fails \in Nat /\ Doc'.fails \in Nat
  BY DEF LoginsTidy
<1>4. ASSUME Wrong' = Wrong, Doc'.fails \in {Doc.fails, 0}, Doc'.lock \in {Doc.lock, "none"},
             req'[r].pc \in FailPcs => req'[r].snap = Doc
      PROVE  LockInv'
  <2>1. \A d \in Requests : req'[d].pc \in FailPcs => Snap(d)'.fails <= Cardinality(Wrong)
    BY <1>1, <1>4 DEF LockInv, Snap
  <2>2. 0 <= Cardinality(Wrong)
    BY <1>2
  <2> QED
    BY <1>0, <1>4, <2>1, <2>2 DEF LockInv
<1>5. CASE Aside(r)
  <2>1. Wrong' = Wrong
    BY <1>0, <1>5, NoVerdict DEF Aside
  <2> QED
    BY <1>4, <1>5, <2>1 DEF Aside
<1>6. CASE LoginBegins(r)
  <2>1. Wrong' = Wrong
    BY <1>0, <1>6, NoVerdict DEF LoginBegins
  <2> QED
    BY <1>4, <1>6, <2>1 DEF LoginBegins
<1>7. CASE LoginOpened(r)
  <2>1. Wrong' = Wrong
    BY <1>0, <1>7, RightVerdict DEF LoginOpened, AtIssue, IssuePcs
  <2> QED
    BY <1>4, <1>7, <2>1 DEF LoginOpened, FailPcs
<1>8. CASE LoginCleared(r)
  <2>1. req'[r].ans \notin {"wrong", "session"}
    BY <1>0, <1>8 DEF LoginCleared, LoginsTidy, ClearPcs, Ongoing, Moves
  <2>2. Wrong' = Wrong
    BY <1>0, <2>1, NoVerdict
  <2>3. Doc'.fails \in {Doc.fails, 0} /\ Doc'.lock \in {Doc.lock, "none"} /\ req'[r].pc \notin FailPcs
    BY <1>8 DEF LoginCleared, Clears, IssuePcs, FailPcs
  <2> QED
    BY <1>4, <2>2, <2>3
<1>9. CASE LoginFailed(r)
  <2>1. Wrong' = Wrong \cup {r} /\ r \notin Wrong
    BY <1>0, <1>9, WrongVerdict DEF LoginFailed, FailPcs
  <2>2. IsFiniteSet(Wrong') /\ Cardinality(Wrong') = Cardinality(Wrong) + 1
    BY <1>2, <2>1, FS_AddElement
  <2>3. Snap(r).fails \in Nat /\ Snap(r).fails <= Cardinality(Wrong)
    BY <1>9 DEF LoginFailed, LoginsTidy, LockInv
  <2>4. Doc'.fails <= Cardinality(Wrong) + 1 /\ (Doc'.lock # "none" => Cardinality(Wrong) + 1 >= Threshold)
    BY <1>0, <1>2, <1>3, <1>9, <2>3 DEF LoginFailed, CountsFailure, LockInv
  <2>5. \A d \in Requests : req'[d].pc \in FailPcs => Snap(d)'.fails <= Cardinality(Wrong) + 1
    <3>1. ASSUME NEW d \in Requests, req'[d].pc \in FailPcs PROVE Snap(d)'.fails <= Cardinality(Wrong) + 1
      <4>1. d # r /\ req[d].pc \in FailPcs /\ Snap(d)' = Snap(d)
        BY <1>1, <1>9, <3>1 DEF LoginFailed, FailPcs
      <4>2. Snap(d).fails \in Nat /\ Snap(d).fails <= Cardinality(Wrong)
        BY <4>1 DEF LoginsTidy, LockInv
      <4> QED
        BY <1>2, <4>1, <4>2
    <3> QED
      BY <3>1
  <2> QED
    BY <1>0, <2>2, <2>4, <2>5 DEF LockInv
<1> QED
  BY <1>5, <1>6, <1>7, <1>8, <1>9 DEF AttemptStep

\* Logins one after the other are counted one by one.
LEMMA CountStep ==
  ASSUME FrameInv, LoginsTidy, LoginsTidy', IsFiniteSet(Wrong), CountInv, NEW r \in Requests, AttemptStep(r)
  PROVE  CountInv'
<1>0. Moves(r) /\ FrameInv' /\ Threshold' = Threshold /\ Threshold \in Nat \ {0}
  BY FrameMoves DEF AttemptStep, Moves, Threshold, LoginsTidy
<1>1. SUFFICES ASSUME Serial(Logins)'
               PROVE  /\ (\A d \in Requests : ~ AtIssue(d)') => Counted'
                      /\ \A d \in Requests : AtIssue(d)' => Doc'.fails = 0 /\ Doc'.lock = "none"
                      /\ \A d \in Requests : req'[d].pc \in FailPcs \cup ClearPcs =>
                           Snap(d)'.fails = Doc'.fails /\ Snap(d)'.lock = Doc'.lock /\ Doc'.lock # "future"
  BY DEF CountInv
<1>2. /\ (\A d \in Requests : ~ AtIssue(d)) => Counted
      /\ \A d \in Requests : AtIssue(d) => Doc.fails = 0 /\ Doc.lock = "none"
      /\ \A d \in Requests : req[d].pc \in FailPcs \cup ClearPcs =>
           Snap(d).fails = Doc.fails /\ Snap(d).lock = Doc.lock /\ Doc.lock # "future"
  BY <1>0, <1>1, SerialBefore DEF CountInv
<1>3. \A d \in Requests \ {r} :
        req'[d] = req[d] /\ Snap(d)' = Snap(d) /\ (AtIssue(d)' <=> AtIssue(d)) /\ (Ongoing(d)' <=> Ongoing(d))
  BY <1>0 DEF Moves, Snap, AtIssue, Ongoing
<1>4. \A d \in Requests : AtIssue(d) \/ req[d].pc \in FailPcs \cup ClearPcs => d \in Logins /\ Ongoing(d)
  BY DEF LoginsTidy, AtIssue, Logins, LoginOps, Ongoing, FailPcs, ClearPcs, IssuePcs
<1>5. \A d \in Requests : AtIssue(d)' \/ req'[d].pc \in FailPcs \cup ClearPcs => d \in Logins' /\ Ongoing(d)'
  BY DEF LoginsTidy, AtIssue, Logins, LoginOps, Ongoing, FailPcs, ClearPcs, IssuePcs
<1>6. IsFiniteSet(Failures) /\ Cardinality(Failures) \in Nat
  BY Verdicts, FS_Subset, FS_CardinalityType
<1>7. ASSUME Failures' = Failures, Doc'.fails = Doc.fails, Doc'.lock = Doc.lock
      PROVE  Counted' <=> Counted
  BY <1>0, <1>7 DEF Counted
\* A login that is going on is the only one.
<1>8. ASSUME r \in Logins', Ongoing(r)', NEW d \in Requests \ {r}
      PROVE  ~ AtIssue(d) /\ req[d].pc \notin FailPcs \cup ClearPcs
  <2>1. AtIssue(d) \/ req[d].pc \in FailPcs \cup ClearPcs => d \in Logins' /\ Ongoing(d)'
    BY <1>3, <1>5, <1>8
  <2>2. d \in Logins' /\ Ongoing(d)' => d = r
    BY <1>0, <1>1, <1>8, <1>3 DEF FrameInv, Serial, Overlap, Logins, Ongoing, Finished, Before
  <2> QED
    BY <1>8, <2>1, <2>2
<1>9. ASSUME r \in Logins, Ongoing(r), NEW d \in Requests \ {r}
      PROVE  ~ AtIssue(d) /\ req[d].pc \notin FailPcs \cup ClearPcs
  <2>1. Serial(Logins)
    BY <1>0, <1>1, SerialBefore
  <2>2. d \in Logins /\ Ongoing(d) => d = r
    BY <1>9, <2>1, OneLogin
  <2> QED
    BY <1>4, <1>9, <2>2
<1>10. CASE Aside(r)
  <2>1. Failures' = Failures /\ Doc'.fails = Doc.fails /\ Doc'.lock = Doc.lock
    BY <1>0, <1>10, NoVerdict DEF Aside
  <2>2. ~ AtIssue(r)' /\ req'[r].pc \notin FailPcs \cup ClearPcs
    BY <1>10 DEF Aside, AtIssue
  <2>3. ~ AtIssue(r)
    BY <1>0, <1>10 DEF Aside, AtIssue, Moves, IssuePcs
  <2> QED
    BY <1>2, <1>3, <1>7, <2>1, <2>2, <2>3
<1>11. CASE LoginBegins(r)
  <2>1. Failures' = Failures /\ Doc'.fails = Doc.fails /\ Doc'.lock = Doc.lock /\ ~ AtIssue(r)
    BY <1>0, <1>11, NoVerdict DEF LoginBegins, AtIssue, IssuePcs
  <2>2. CASE req'[r].pc = "done"
    <3>1. ~ AtIssue(r)' /\ req'[r].pc \notin FailPcs \cup ClearPcs
      BY <2>2 DEF AtIssue, IssuePcs, FailPcs, ClearPcs
    <3> QED
      BY <1>2, <1>3, <1>7, <2>1, <3>1
  <2>3. CASE req'[r].pc # "done"
    <3>1. /\ req'[r].pc \in FailPcs \cup ClearPcs \cup IssuePcs /\ Doc.lock # "future"
          /\ req'[r].pc \in IssuePcs => Doc.fails = 0 /\ Doc.lock = "none"
          /\ Snap(r)' = Doc
      BY <1>11, <2>3 DEF LoginBegins, Snap
    <3>2. r \in Logins' /\ Ongoing(r)'
      BY <1>11, <3>1 DEF LoginBegins, Logins, LoginOps, Ongoing, FailPcs, ClearPcs, IssuePcs
    <3>3. Counted'
      BY <1>2, <1>7, <1>8, <2>1, <3>2
    <3> QED
      BY <1>3, <1>8, <2>1, <3>1, <3>2, <3>3 DEF AtIssue
  <2> QED
    BY <2>2, <2>3
<1>12. CASE LoginOpened(r)
  <2>1. r \in Logins /\ Ongoing(r) /\ AtIssue(r) /\ req[r].op \in LoginOps /\ req[r].pc # "idle"
    BY <1>4, <1>12 DEF LoginOpened, AtIssue, Ongoing
  <2>2. Serial(Logins)
    BY <1>0, <1>1, SerialBefore
  <2>3. Failures' = {} /\ Doc'.fails = 0 /\ Doc'.lock = "none"
    BY <1>0, <1>2, <1>12, <2>1, <2>2, RightVerdict DEF LoginOpened
  <2>4. Counted'
    BY <1>0, <2>3, FS_EmptySet, Rolls DEF Counted
  <2>5. ~ AtIssue(r)' /\ req'[r].pc \notin FailPcs \cup ClearPcs
    BY <1>12 DEF LoginOpened, AtIssue, IssuePcs, FailPcs, ClearPcs
  <2> QED
    BY <1>3, <1>9, <2>1, <2>4, <2>5
<1>13. CASE LoginCleared(r)
  <2>1. r \in Logins /\ Ongoing(r) /\ req[r].pc \in ClearPcs
    BY <1>4, <1>13 DEF LoginCleared
  <2>2. Doc'.fails = 0 /\ Doc'.lock = "none"
    BY <1>2, <1>13, <2>1 DEF LoginCleared, Clears
  <2>3. AtIssue(r)' /\ req'[r].pc \notin FailPcs \cup ClearPcs
    BY <1>0, <1>13, <2>1 DEF LoginCleared, AtIssue, IssuePcs, FailPcs, ClearPcs, Moves
  <2> QED
    BY <1>3, <1>9, <2>1, <2>2, <2>3
<1>14. CASE LoginFailed(r)
  <2>1. r \in Logins /\ Ongoing(r) /\ req[r].pc \in FailPcs /\ ~ AtIssue(r)
    BY <1>4, <1>14 DEF LoginFailed, AtIssue, FailPcs, IssuePcs
  <2>2. Counted /\ Snap(r).fails = Doc.fails /\ Snap(r).lock = Doc.lock /\ Doc.lock # "future"
    BY <1>2, <1>9, <2>1
  <2>3. Failures' = Failures \cup {r} /\ r \notin Failures
    BY <1>0, <1>14, WrongVerdict DEF LoginFailed, FailPcs
  <2>4. Cardinality(Failures') = Cardinality(Failures) + 1
    BY <1>6, <2>3, FS_AddElement
  <2>5. PICK n \in Nat : n = Cardinality(Failures)
    BY <1>6
  <2>6. PICK T \in Nat \ {0} : T = Threshold
    BY <1>0
  <2>7. /\ n % T \in 0 .. (T - 1) /\ n % T <= n /\ (n < T => n % T = n)
        /\ (n + 1) % T = IF (n % T) + 1 < T THEN (n % T) + 1 ELSE 0
    BY Rolls
  <2>8. Doc.fails = n % T /\ (Doc.lock # "none" <=> n >= T)
    BY <2>2, <2>5, <2>6 DEF Counted
  <2>9. IF Doc.fails + 1 >= T
          THEN Doc'.fails = 0 /\ Doc'.lock = "future"
          ELSE Doc'.fails = Doc.fails + 1 /\ Doc'.lock = Doc.lock
    BY <1>14, <2>2, <2>6 DEF LoginFailed, CountsFailure
  <2>10. PICK m \in 0 .. (T - 1) : m = n % T
    BY <2>7
  <2>11. Doc'.fails = (n + 1) % T
    BY <2>7, <2>8, <2>9, <2>10
  <2>12. Doc'.lock # "none" <=> n + 1 >= T
    <3>1. CASE m + 1 >= T
      BY <2>7, <2>8, <2>9, <2>10, <3>1
    <3>2. CASE m + 1 < T
      <4>1. n + 1 >= T <=> n >= T
        BY <2>7, <2>10, <3>2
      <4> QED
        BY <2>8, <2>9, <2>10, <3>2, <4>1
    <3> QED
      BY <3>1, <3>2
  <2>13. Counted'
    BY <1>0, <2>4, <2>5, <2>6, <2>11, <2>12 DEF Counted
  <2>14. ~ AtIssue(r)' /\ req'[r].pc \notin FailPcs \cup ClearPcs
    BY <1>14 DEF LoginFailed, AtIssue, IssuePcs, FailPcs, ClearPcs
  <2> QED
    BY <1>3, <1>9, <2>1, <2>13, <2>14
<1> QED
  BY <1>10, <1>11, <1>12, <1>13, <1>14 DEF AttemptStep

-----------------------------------------------------------------------------
(* Attempts: the property.                                                 *)

AttemptsInv == BasicInv /\ LockInv /\ CountInv

\* A lock that runs out stays one that was set; no login is between its
\* read and its save while the account is locked.
LEMMA AttemptsTime ==
  ASSUME AttemptsInv, UNCHANGED <<req, load>>, BasicInv', Doc'.fails = Doc.fails,
         Doc'.lock = Doc.lock \/ (Doc.lock = "future" /\ Doc'.lock = "past")
  PROVE  LockInv' /\ CountInv'
<1>1. /\ Logins' = Logins /\ Wrong' = Wrong /\ Failures' = Failures /\ Threshold' = Threshold
      /\ \A d \in Requests : Snap(d)' = Snap(d) /\ (AtIssue(d)' <=> AtIssue(d)) /\ Before(d)' = Before(d)
      /\ req' = req
  BY DEF Logins, Wrong, Failures, Threshold, Snap, AtIssue, Before
<1>2. Serial(Logins)' <=> Serial(Logins)
  BY <1>1 DEF Serial, Overlap, Logins
<1>3. Doc'.lock # "none" <=> Doc.lock # "none"
  OBVIOUS
<1>4. LockInv'
  BY <1>1, <1>3 DEF AttemptsInv, LockInv
<1>5. Counted' <=> Counted
  BY <1>1, <1>3 DEF Counted
<1>6. CountInv'
  BY <1>1, <1>2, <1>5 DEF AttemptsInv, CountInv
<1> QED
  BY <1>4, <1>6

\* Attempts, at the start.
LEMMA AttemptsStart == ASSUME IdentityInit PROVE AttemptsInv
<1>1. BasicInv /\ LoginsTidy
  BY BasicStart, Tidy
<1>2. \A r \in Requests : req[r].pc = "idle" /\ req[r].op = "none"
  BY DEF IdentityInit, SessionsInit, Idle
<1>3. Doc.fails = 0 /\ Doc.lock = "none"
  BY IdentityAssumption DEF IdentityInit, Doc
<1>4. Logins = {} /\ Wrong = {} /\ Failures = {}
  BY <1>2 DEF Logins, Wrong, Failures
<1>5. Threshold \in Nat \ {0}
  BY <1>1 DEF LoginsTidy
<1>6. LockInv
  BY <1>2, <1>3, <1>4, FS_EmptySet DEF LockInv, FailPcs
<1>7. CountInv
  BY <1>2, <1>3, <1>4, <1>5, FS_EmptySet, Rolls DEF CountInv, Counted, AtIssue, FailPcs, ClearPcs, IssuePcs
<1> QED
  BY <1>1, <1>6, <1>7 DEF AttemptsInv

\* Attempts, over every step.
LEMMA AttemptsStep == ASSUME AttemptsInv, LoginsTidy', [IdentityNext]_ivars PROVE AttemptsInv'
<1>0. BasicInv /\ BasicInv' /\ LoginsTidy /\ LockInv /\ CountInv /\ FrameInv /\ IsFiniteSet(Wrong)
  BY BasicStep, Tidy DEF AttemptsInv, BasicInv, LockInv
<1>2. ASSUME NEW r \in Requests, AttemptStep(r) PROVE AttemptsInv'
  BY <1>0, <1>2, LockStep, CountStep DEF AttemptsInv
<1>3. CASE UNCHANGED ivars
  <2>1. UNCHANGED <<req, load>> /\ Doc' = Doc
    BY <1>3 DEF ivars, Doc
  <2> QED
    BY <1>0, <2>1, AttemptsTime DEF AttemptsInv
<1>4. CASE load \notin SellerWorkloads /\ UNCHANGED seller /\ UserTime
  <2>1. UserInv
    BY <1>0, <1>4 DEF BasicInv
  <2>2. UNCHANGED <<req, load>> /\ UserAges
    BY <1>4, <2>1, UserAging
  <2>3. Doc'.fails = Doc.fails /\ (Doc'.lock = Doc.lock \/ (Doc.lock = "future" /\ Doc'.lock = "past"))
    BY <1>4, <2>2 DEF Doc, UserAges, UserKeepsBut, UserFields
  <2> QED
    BY <1>0, <2>2, <2>3, AttemptsTime DEF AttemptsInv
<1>5. CASE load \in SellerWorkloads /\ UNCHANGED user /\ SellerTime
  <2>1. SellerInv
    BY <1>0, <1>5 DEF BasicInv
  <2>2. UNCHANGED <<req, load>> /\ SellerAges
    BY <1>5, <2>1, SellerAging
  <2>3. Doc'.fails = Doc.fails /\ (Doc'.lock = Doc.lock \/ (Doc.lock = "future" /\ Doc'.lock = "past"))
    BY <1>5, <2>2 DEF Doc, SellerAges, SellerKeepsBut, SellerFields
  <2> QED
    BY <1>0, <2>2, <2>3, AttemptsTime DEF AttemptsInv
<1>6. ASSUME load \notin SellerWorkloads, NEW r \in Requests, UserStep(r) PROVE AttemptsInv'
  BY <1>0, <1>2, <1>6, UserDocStep, UserAttempts DEF BasicInv
<1>7. ASSUME load \in SellerWorkloads, NEW r \in Requests, SellerStep(r) PROVE AttemptsInv'
  BY <1>0, <1>2, <1>7, SellerDocStep, SellerAttempts DEF BasicInv
<1> QED
  BY <1>3, <1>4, <1>5, <1>6, <1>7 DEF IdentityNext

\* Attempts that do not overlap are counted exactly, and an account is
\* locked only by as many wrong passwords as the configuration asks for.
THEOREM AttemptsSafety == IdentitySpec => []AttemptsCountedExactly
<1>1. ASSUME AttemptsInv PROVE AttemptsCountedExactly
  <2>1. Attempts = Doc
    BY DEF Attempts, Doc
  <2>2. Wrong = {r \in Logins : req[r].ans = "wrong"}
    BY DEF Wrong
  <2>3. Logins \subseteq Finished => \A r \in Requests : ~ AtIssue(r)
    BY DEF Logins, LoginOps, AtIssue, IssuePcs, Finished
  <2>4. Logins \subseteq Finished /\ Serial(Logins) => Counted
    BY <1>1, <2>3 DEF AttemptsInv, CountInv
  <2> QED
    BY <1>1, <2>1, <2>2, <2>4 DEF AttemptsCountedExactly, AttemptsInv, LockInv, Counted
<1> QED
  BY <1>1, BasicStart, BasicStep, Tidy, AttemptsStart, AttemptsStep, PTL DEF IdentitySpec

-----------------------------------------------------------------------------
(* Registrations, and links to set a new password.                         *)

RegOps == {"register", "createStaff", "seed", "sellerRegister"}
Creator(r) == req[r].op \in RegOps /\ (req[r].pc = "issue" \/ req[r].ans \in {"session", "created"})
AsksReset(r) == req[r].op \in {"changePassword", "resetPassword"}

\* One request has created the account, and its password stands until
\* somebody asks for another.
CreatorInv ==
  /\ \A a \in Requests, b \in Requests : Creator(a) /\ Creator(b) => a = b
  /\ \A a \in Requests : Creator(a) => Doc.exists
  /\ load \notin SellerWorkloads =>
       \A a \in Requests : Creator(a) => user.pw = a \/ \E c \in Requests : AsksReset(c)

\* A request that creates nothing leaves the creator alone.
LEMMA CreatorKept ==
  ASSUME FrameInv, CreatorInv, NEW r \in Requests, Moves(r),
         Doc.exists => Doc'.exists, Creator(r)' => Creator(r),
         user'.pw = user.pw \/ AsksReset(r)'
  PROVE  CreatorInv'
<1>1. \A d \in Requests : Creator(d)' => Creator(d)
  BY DEF Moves, Creator
<1>2. \A c \in Requests : AsksReset(c) => AsksReset(c)'
  BY DEF FrameInv, Idle, Moves, AsksReset
<1> QED
  BY <1>1, <1>2 DEF CreatorInv, Moves

\* The document is created once.
LEMMA CreatorNew ==
  ASSUME FrameInv, CreatorInv, NEW r \in Requests, Moves(r), ~ Doc.exists, Doc'.exists,
         load \notin SellerWorkloads /\ Creator(r)' => user'.pw = r
  PROVE  CreatorInv'
<1>1. \A d \in Requests : Creator(d)' => d = r
  BY DEF CreatorInv, Moves, Creator
<1> QED
  BY <1>1 DEF CreatorInv, Moves

\* The creator, over a user's step.
LEMMA CreatorUser ==
  ASSUME BasicInv, CreatorInv, load \notin SellerWorkloads, NEW r \in Requests, UserShape(r)
  PROVE  CreatorInv'
<1>0. FrameInv /\ UserReady(r) /\ Moves(r) /\ UNCHANGED load /\ (user.exists => user'.exists)
  BY UserMoves DEF BasicInv, UserInv, Moves
<1>1. Doc = user /\ Doc' = user'
  BY <1>0 DEF Doc
<1>2. req[r].pc # "idle" => req'[r].op = req[r].op /\ Ongoing(r)
  BY <1>0 DEF Moves, Ongoing
<1>3. CASE UserCreates(r) /\ Created(r)
  <2>1. Creator(r)' => user'.pw = r
    BY <1>0, <1>2, <1>3 DEF Creator, RegOps, UserReady, UserStage, Created
  <2> QED
    BY <1>0, <1>1, <1>3, <2>1, CreatorNew DEF Created
<1>4. ASSUME Creator(r)' => Creator(r), user'.pw = user.pw \/ AsksReset(r)'
      PROVE  CreatorInv'
  BY <1>0, <1>1, <1>4, CreatorKept
<1>5. CASE UserOpens(r)
  BY <1>4, <1>5 DEF UserOpens, Creator, RegOps, UserStage
<1>6. CASE PassesBy(r)
  BY <1>0, <1>2, <1>4, <1>6 DEF PassesBy, UserKeepsMost, UserReady, UserStage, Creator, RegOps
<1>7. CASE UserCreates(r) /\ ~ Created(r)
  BY <1>4, <1>7 DEF UserCreates, Creator
<1>8. CASE UserFails(r) \/ UserClears(r) \/ UserAddresses(r)
  <2>1. user'.pw = user.pw
    BY <1>8 DEF UserFails, UserClears, UserAddresses, UserKeepsBut, UserFields
  <2>2. req'[r].op \notin RegOps
    BY <1>0, <1>2, <1>8 DEF UserFails, UserClears, UserAddresses, UserReady, UserStage, RegOps
  <2> QED
    BY <1>4, <2>1, <2>2 DEF Creator
<1>9. CASE UserLinks(r)
  <2>1. user'.pw = user.pw \/ AsksReset(r)'
    BY <1>0, <1>2, <1>9 DEF UserLinks, UserKeepsBut, UserFields, UserReady, UserStage, AsksReset
  <2>2. req'[r].op \notin RegOps
    BY <1>0, <1>2, <1>9 DEF UserLinks, UserReady, UserStage, RegOps
  <2> QED
    BY <1>4, <2>1, <2>2 DEF Creator
<1> QED
  BY <1>3, <1>5, <1>6, <1>7, <1>8, <1>9 DEF UserShape

\* The creator, over a seller's step.
LEMMA CreatorSeller ==
  ASSUME BasicInv, CreatorInv, load \in SellerWorkloads, UNCHANGED user, NEW r \in Requests, SellerShape(r)
  PROVE  CreatorInv'
<1>0. FrameInv /\ SellerReady(r) /\ Moves(r) /\ UNCHANGED load /\ (seller.exists => seller'.exists)
  BY SellerMoves DEF BasicInv, SellerInv, Moves
<1>1. Doc = seller /\ Doc' = seller'
  BY <1>0 DEF Doc
<1>2. req[r].pc # "idle" => req'[r].op = req[r].op /\ Ongoing(r)
  BY <1>0 DEF Moves, Ongoing
<1>3. CASE SellerCreates(r) /\ ~ seller.exists
  BY <1>0, <1>1, <1>3, CreatorNew DEF SellerCreates
<1>4. ASSUME Creator(r)' => Creator(r)
      PROVE  CreatorInv'
  BY <1>0, <1>1, <1>4, CreatorKept
<1>5. CASE SellerOpens(r)
  BY <1>4, <1>5 DEF SellerOpens, Creator, RegOps, SellerStage
<1>6. CASE SellerPassesBy(r)
  BY <1>0, <1>2, <1>4, <1>6 DEF SellerPassesBy, SellerReady, SellerStage, SellerOps, Creator, RegOps
<1>7. CASE SellerCreates(r) /\ seller.exists
  BY <1>4, <1>7 DEF SellerCreates, Creator
<1>8. CASE SellerFails(r) \/ SellerClears(r)
  <2>1. req'[r].op \notin RegOps
    BY <1>0, <1>2, <1>8 DEF SellerFails, SellerClears, SellerReady, SellerStage, RegOps
  <2> QED
    BY <1>4, <2>1 DEF Creator
<1> QED
  BY <1>3, <1>5, <1>6, <1>7, <1>8 DEF SellerShape

-----------------------------------------------------------------------------
Ended(a) == req[a].op = "resetPassword" /\ req[a].ans = "ended"
Resetting(b) == req[b].op = "resetPassword" /\ (Ongoing(b) \/ req[b].ans = "ended")
Forgotten(f) == req[f].op = "forgotPassword" /\ req[f].pc = "done"

\* What a reset holds: a link that was mailed, that no earlier reset used
\* and no later link had replaced; once it has set the password the link is
\* off the document.
LinkOf(b) ==
  /\ req[b].arg \in Requests /\ Forgotten(req[b].arg)
  /\ req[b].pc = "setPassword" => Snap(b).reset = req[b].arg
  /\ req[b].pc # "setPassword" => user.reset # req[b].arg
  /\ \A a \in Before(b) : Ended(a) => req[a].arg # req[b].arg
  /\ \A f \in Before(b) : Forgotten(f) => req[b].arg \notin Before(f)

LinksInv ==
  /\ user.reset \in Requests => Forgotten(user.reset)
  /\ \A f \in Requests : Forgotten(f) => user.reset \notin Before(f)
  /\ \A r \in Requests : req[r].pc = "setLink" => Snap(r).reset # r
  /\ \A b \in Requests : Resetting(b) => LinkOf(b)

\* Requests that are not about links, and the document's link, which may run
\* out.
LEMMA LinkElsewhere ==
  ASSUME FrameInv, LinksInv, NEW r \in Requests, Moves(r), NEW b \in Requests \ {r}, Resetting(b)',
         user'.reset # req[b].arg \/ req[b].pc = "setPassword"
  PROVE  LinkOf(b)'
<1>0. req'[b] = req[b] /\ Before(b)' = Before(b) /\ Snap(b)' = Snap(b) /\ Resetting(b) /\ LinkOf(b)
  BY DEF Moves, Before, Snap, Resetting, Ongoing, LinksInv
<1>1. \A a \in Before(b) : a \in Requests /\ a # r /\ req'[a] = req[a] /\ Before(a)' = Before(a)
  BY DEF FrameInv, Moves, Before, Finished
<1>2. req[b].arg # r /\ req'[req[b].arg] = req[req[b].arg]
  BY <1>0 DEF LinkOf, Forgotten, Moves
<1> QED
  BY <1>0, <1>1, <1>2 DEF LinkOf, Ended, Forgotten

\* A link stays what it was while nobody sets a password or asks again.
LEMMA LinkKept ==
  ASSUME FrameInv, LinksInv, NEW r \in Requests, Moves(r),
         user'.reset \in {user.reset, NoOne}, Forgotten(r)' => user'.reset \notin Finished,
         req'[r].pc # "setLink", Resetting(r)' => LinkOf(r)'
  PROVE  LinksInv'
<1>1. \A d \in Requests \ {r} : req'[d] = req[d] /\ Before(d)' = Before(d) /\ Snap(d)' = Snap(d)
  BY DEF Moves, Before, Snap
<1>2. user'.reset \in Requests => Forgotten(user.reset)'
  BY <1>1, NoOneAssumption DEF LinksInv, Forgotten, Moves
<1>3. ASSUME NEW f \in Requests, Forgotten(f)' PROVE user'.reset \notin Before(f)'
  <2>1. CASE f = r
    BY <1>3, <2>1 DEF Moves, FrameInv, Before
  <2>2. CASE f # r
    BY <1>1, <1>3, <2>2, NoOneAssumption DEF LinksInv, Forgotten, FrameInv, Before, Finished
  <2> QED
    BY <2>1, <2>2
<1>4. ASSUME NEW b \in Requests \ {r}, Resetting(b)' PROVE LinkOf(b)'
  <2>1. LinkOf(b)
    BY <1>1, <1>4 DEF LinksInv, Resetting, Ongoing
  <2>2. user'.reset # req[b].arg \/ req[b].pc = "setPassword"
    BY <2>1, NoOneAssumption DEF LinkOf
  <2> QED
    BY <1>4, <2>2, LinkElsewhere
<1>5. \A d \in Requests : req'[d].pc = "setLink" => Snap(d)'.reset # d
  BY <1>1 DEF LinksInv
<1> QED
  BY <1>2, <1>3, <1>4, <1>5 DEF LinksInv

\* The links, over a user's step.
LEMMA LinkUser ==
  ASSUME FrameInv, UserInv, LinksInv, NEW r \in Requests, UserShape(r)
  PROVE  LinksInv'
<1>0. UserReady(r) /\ Moves(r) /\ FrameInv'
  BY UserMoves, FrameMoves DEF UserInv
<1>1. req[r].pc # "idle" => req'[r].op = req[r].op /\ req'[r].arg = req[r].arg /\ Ongoing(r) /\ Before(r)' = Before(r)
  BY <1>0 DEF Moves, Ongoing, Before
<1>2. \A d \in Requests \ {r} : req'[d] = req[d] /\ Before(d)' = Before(d) /\ Snap(d)' = Snap(d)
  BY <1>0 DEF Moves, Before, Snap
<1>3. r \notin Finished /\ \A d \in Requests : Before(d) \subseteq Finished \ {d}
  BY <1>0 DEF Moves, Finished, FrameInv, Before
<1>4. CASE UserOpens(r)
  <2>0. UNCHANGED user /\ req[r].pc = "idle" /\ Before(r)' = Finished /\ Snap(r)' = user
    BY <1>0, <1>4 DEF UserOpens, Moves, Before, Snap
  <2>1. user.reset # r /\ (user.reset # NoOne => user.exists)
    BY <2>0 DEF LinksInv, Forgotten, UserInv
  <2>2. \A d \in Finished : req'[d] = req[d] /\ Before(d)' = Before(d) /\ d \in Requests /\ ~ Ongoing(d)
    BY <1>2, <2>0 DEF Finished, Ongoing
  <2>3. Resetting(r)' => LinkOf(r)'
    <3>1. SUFFICES ASSUME Resetting(r)' PROVE LinkOf(r)'
      OBVIOUS
    <3>2. /\ req'[r].op = "resetPassword" /\ req'[r].pc # "done" /\ req'[r].arg \in Requests
          /\ user.reset = req'[r].arg /\ Forgotten(req'[r].arg)
          /\ req'[r].pc = "setPassword"
      BY <1>4, <3>1 DEF UserOpens, Resetting, Ongoing, Forgotten, UserStage, LinksInv
    <3>3. ASSUME NEW a \in Finished, Ended(a)' PROVE req'[a].arg # req'[r].arg
      <4>1. Resetting(a) /\ req[a].pc = "done"
        BY <2>2, <3>3 DEF Ended, Resetting, Finished
      <4> QED
        BY <2>2, <3>2, <4>1 DEF LinksInv, LinkOf
    <3>4. ASSUME NEW f \in Finished, Forgotten(f)' PROVE req'[r].arg \notin Before(f)'
      BY <2>2, <3>2, <3>4 DEF LinksInv, Forgotten
    <3>5. Forgotten(req[r].arg)'
      BY <1>2, <2>0, <3>2 DEF Forgotten
    <3> QED
      BY <2>0, <3>2, <3>3, <3>4, <3>5 DEF LinkOf
  <2>4. user'.reset \in Requests => Forgotten(user.reset)'
    BY <1>2, <2>0, <2>1 DEF LinksInv, Forgotten
  <2>5. ASSUME NEW f \in Requests, Forgotten(f)' PROVE user'.reset \notin Before(f)'
    <3>1. CASE f = r
      <4>1. ~ user.exists
        BY <1>4, <2>5, <3>1 DEF UserOpens, Forgotten
      <4> QED
        BY <2>0, <2>1, <3>1, <4>1, NoOneAssumption DEF Finished
    <3>2. CASE f # r
      BY <1>2, <2>0, <2>5, <3>2 DEF LinksInv, Forgotten
    <3> QED
      BY <3>1, <3>2
  <2>6. ASSUME NEW b \in Requests \ {r}, Resetting(b)' PROVE LinkOf(b)'
    <3>1. LinkOf(b)
      BY <1>2, <2>6 DEF LinksInv, Resetting, Ongoing
    <3>2. user'.reset # req[b].arg \/ req[b].pc = "setPassword"
      BY <2>0, <3>1 DEF LinkOf
    <3> QED
      BY <1>0, <2>6, <3>2, LinkElsewhere
  <2>7. \A d \in Requests : req'[d].pc = "setLink" => Snap(d)'.reset # d
    BY <1>2, <2>0, <2>1 DEF LinksInv
  <2> QED
    BY <2>3, <2>4, <2>5, <2>6, <2>7 DEF LinksInv
<1>5. CASE PassesBy(r)
  <2>1. user'.reset = user.reset /\ req[r].pc # "idle"
    BY <1>5 DEF PassesBy, UserKeepsMost
  <2>2. ~ Forgotten(r)' /\ req'[r].pc # "setLink"
    BY <1>0, <1>1, <1>5 DEF PassesBy, Forgotten, UserReady, UserStage, Ongoing
  <2>3. ASSUME Resetting(r)' PROVE LinkOf(r)'
    <3>1. Resetting(r) /\ LinkOf(r) /\ req[r].pc # "setPassword" /\ req'[r].pc # "setPassword"
      BY <1>0, <1>1, <1>5, <2>1, <2>3 DEF PassesBy, Resetting, LinksInv, Ongoing, UserReady, UserStage
    <3>2. req[r].arg # r /\ req'[req[r].arg] = req[req[r].arg]
      BY <1>0, <1>2, <3>1 DEF LinkOf, Forgotten, Moves
    <3>3. \A a \in Before(r) : a # r /\ a \in Requests /\ req'[a] = req[a] /\ Before(a)' = Before(a)
      BY <1>2, <1>3 DEF Finished
    <3> QED
      BY <1>1, <2>1, <3>1, <3>2, <3>3 DEF LinkOf, Ended, Forgotten
  <2> QED
    BY <1>0, <2>1, <2>2, <2>3, LinkKept
<1>6. CASE UserCreates(r) \/ UserFails(r) \/ UserClears(r) \/ UserAddresses(r)
  <2>1. user'.reset \in {user.reset, NoOne}
    BY <1>6 DEF UserCreates, Created, UserFails, UserClears, UserAddresses, UserKeepsBut, UserFields
  <2>2. req'[r].op \notin {"forgotPassword", "resetPassword"} /\ req'[r].pc # "setLink"
    BY <1>0, <1>1, <1>6 DEF UserCreates, Created, UserFails, UserClears, UserAddresses, UserReady, UserStage
  <2> QED
    BY <1>0, <2>1, <2>2, LinkKept DEF Forgotten, Resetting
<1>7. CASE UserLinks(r) /\ req[r].pc = "setPassword"
  <2>1. /\ req'[r].pc = "revoke"
        /\ user'.reset = IF req[r].op = "resetPassword" /\ Snap(r).reset # NoOne THEN NoOne ELSE user.reset
        /\ req[r].op \in {"changePassword", "resetPassword"}
    BY <1>0, <1>1, <1>7 DEF UserLinks, UserReady, UserStage
  <2>2. ASSUME Resetting(r)' PROVE LinkOf(r)'
    <3>1. Resetting(r) /\ LinkOf(r)
      BY <1>1, <1>7, <2>2 DEF Resetting, LinksInv
    <3>2. user'.reset = NoOne
      BY <1>1, <1>7, <2>1, <2>2, <3>1, NoOneAssumption DEF Resetting, LinkOf
    <3>3. req[r].arg # r /\ req'[req[r].arg] = req[req[r].arg]
      BY <1>0, <1>2, <3>1 DEF LinkOf, Forgotten, Moves
    <3>4. \A a \in Before(r) : a # r /\ a \in Requests /\ req'[a] = req[a] /\ Before(a)' = Before(a)
      BY <1>2, <1>3 DEF Finished
    <3> QED
      BY <1>1, <1>7, <2>1, <3>1, <3>2, <3>3, <3>4, NoOneAssumption DEF LinkOf, Ended, Forgotten
  <2> QED
    BY <1>0, <2>1, <2>2, LinkKept DEF Forgotten
<1>8. CASE UserLinks(r) /\ req[r].pc # "setPassword"
  <2>1. /\ req[r].pc = "setLink" /\ req'[r].pc = "done" /\ req[r].op = "forgotPassword"
        /\ user'.reset = IF Snap(r).reset # r THEN r ELSE user.reset
    BY <1>0, <1>1, <1>8 DEF UserLinks, UserReady, UserStage
  <2>2. user'.reset = r
    BY <2>1 DEF LinksInv
  <2>3. Forgotten(r)' /\ ~ Resetting(r)'
    BY <1>1, <2>1 DEF Forgotten, Resetting
  <2>4. ASSUME NEW f \in Requests PROVE r \notin Before(f)'
    BY <1>1, <1>2, <1>3, <2>1
  <2>5. ASSUME NEW b \in Requests \ {r}, Resetting(b)' PROVE LinkOf(b)'
    <3>1. LinkOf(b)
      BY <1>2, <2>5 DEF LinksInv, Resetting, Ongoing
    <3>2. req[b].arg # r
      BY <1>0, <3>1 DEF LinkOf, Forgotten, Moves
    <3> QED
      BY <1>0, <2>2, <2>5, <3>2, LinkElsewhere
  <2>6. \A d \in Requests : req'[d].pc = "setLink" => Snap(d)'.reset # d
    BY <1>2, <2>1 DEF LinksInv
  <2> QED
    BY <2>2, <2>3, <2>4, <2>5, <2>6 DEF LinksInv
<1> QED
  BY <1>4, <1>5, <1>6, <1>7, <1>8 DEF UserShape

\* The links, when one runs out.
LEMMA LinkTime ==
  ASSUME FrameInv, LinksInv, UNCHANGED req, user'.reset \in {user.reset, NoOne}
  PROVE  LinksInv'
<1>1. \A d \in Requests : /\ Before(d)' = Before(d) /\ Snap(d)' = Snap(d) /\ (Forgotten(d)' <=> Forgotten(d))
                          /\ (Ended(d)' <=> Ended(d)) /\ (Resetting(d)' <=> Resetting(d))
  BY DEF Before, Snap, Forgotten, Ended, Resetting, Ongoing
<1>2. \A b \in Requests : Resetting(b) => LinkOf(b)'
  <2>1. ASSUME NEW b \in Requests, Resetting(b) PROVE LinkOf(b)'
    <3>1. LinkOf(b)
      BY <2>1 DEF LinksInv
    <3> QED
      BY <3>1, NoOneAssumption DEF LinkOf, Before, Ended, Forgotten, Snap
  <2> QED
    BY <2>1
<1>3. user'.reset \in Requests => Forgotten(user.reset)'
  BY NoOneAssumption DEF LinksInv, Forgotten
<1>4. \A f \in Requests : Forgotten(f)' => user'.reset \notin Before(f)'
  <2>1. \A f \in Requests : Forgotten(f) => user.reset \notin Before(f)
    BY DEF LinksInv
  <2>2. \A f \in Requests : NoOne \notin Before(f) \/ ~ Forgotten(f)
    BY NoOneAssumption DEF FrameInv, Before, Finished
  <2> QED
    BY <1>1, <2>1, <2>2
<1>5. \A r \in Requests : req'[r].pc = "setLink" => Snap(r)'.reset # r
  BY <1>1 DEF LinksInv
<1> QED
  BY <1>1, <1>2, <1>3, <1>4, <1>5 DEF LinksInv

-----------------------------------------------------------------------------
(* The address book, and the property of a user's record.                  *)

\* The book holds what was added and not removed; only an address that was
\* added is removed.
BookInv ==
  /\ Ids(user.book) = Acknowledged("addAddress") \ {req[x].arg : x \in Acknowledged("removeAddress")}
  /\ \A x \in Requests : req[x].op = "removeAddress" => req[x].arg \in Acknowledged("addAddress")

\* The book stays what it was while no address is added or removed.
LEMMA BookKept ==
  ASSUME BookInv, NEW r \in Requests, Moves(r), Ids(user'.book) = Ids(user.book),
         req'[r].op \in {"addAddress", "removeAddress"} => ~ (req'[r].pc = "done" /\ req'[r].ans = "ok"),
         req'[r].op = "removeAddress" => req'[r].arg \in Acknowledged("addAddress")
  PROVE  BookInv'
<1>1. \A d \in Requests \ {r} : req'[d] = req[d]
  BY DEF Moves
<1>2. req[r].pc # "done"
  BY DEF Moves
<1>3. Acknowledged("addAddress")' = Acknowledged("addAddress") /\ Acknowledged("removeAddress")' = Acknowledged("removeAddress")
  BY <1>1, <1>2 DEF Acknowledged, Finished
<1>4. \A x \in Acknowledged("removeAddress") : req'[x].arg = req[x].arg
  BY <1>1, <1>2 DEF Acknowledged, Finished
<1>5. {req'[x].arg : x \in Acknowledged("removeAddress")} = {req[x].arg : x \in Acknowledged("removeAddress")}
  BY <1>4
<1> QED
  BY <1>1, <1>3, <1>5 DEF BookInv

\* The book, over a user's step.
LEMMA BookUser ==
  ASSUME FrameInv, UserInv, BookInv, NEW r \in Requests, UserShape(r)
  PROVE  BookInv'
<1>0. UserReady(r) /\ Moves(r)
  BY UserMoves DEF UserInv
<1>1. req[r].pc # "idle" => req'[r].op = req[r].op /\ req'[r].arg = req[r].arg /\ Ongoing(r)
  BY <1>0 DEF Moves, Ongoing
<1>2. CASE UserOpens(r)
  <2>1. req'[r].op = "removeAddress" => req'[r].arg \in Acknowledged("addAddress")
    <3>1. req'[r].op = "removeAddress" => req'[r].arg \in Ids(user.book)
      BY <1>2 DEF UserOpens, Ids
    <3> QED
      BY <3>1 DEF BookInv
  <2> QED
    BY <1>0, <1>2, <2>1, BookKept DEF UserOpens
<1>3. CASE PassesBy(r)
  <2>1. req'[r].op \notin {"addAddress", "removeAddress"} /\ user'.book = user.book
    BY <1>0, <1>1, <1>3 DEF PassesBy, UserKeepsMost, UserReady, UserStage
  <2> QED
    BY <1>0, <2>1, BookKept
<1>4. CASE UserCreates(r) \/ UserFails(r) \/ UserClears(r) \/ UserLinks(r)
  <2>1. req'[r].op \notin {"addAddress", "removeAddress"}
    BY <1>0, <1>1, <1>4 DEF UserCreates, Created, UserFails, UserClears, UserLinks, UserReady, UserStage
  <2>2. user'.book = user.book
    BY <1>4 DEF UserCreates, Created, UserInv, UserFails, UserClears, UserLinks, UserKeepsBut, UserFields
  <2> QED
    BY <1>0, <2>1, <2>2, BookKept
<1>5. CASE UserAddresses(r)
  <2>0. req'[r].op \in {"addAddress", "removeAddress"} /\ req'[r].pc = "done"
        /\ (req'[r].op = "addAddress" <=> req[r].pc = "saveAddress")
        /\ (req'[r].op = "removeAddress" <=> req[r].pc = "dropAddress")
    BY <1>0, <1>1, <1>5 DEF UserAddresses, UserReady, UserStage
  <2>1. req'[r].op = "removeAddress" => req'[r].arg \in Acknowledged("addAddress")
    BY <1>1, <1>5, <2>0 DEF UserAddresses, BookInv
  <2>2. CASE req'[r].ans = "error" /\ UNCHANGED user
    BY <1>0, <2>1, <2>2, BookKept
  <2>3. \A d \in Requests \ {r} : req'[d] = req[d]
    BY <1>0 DEF Moves
  <2>4. r \notin Acknowledged("addAddress") /\ r \notin Acknowledged("removeAddress")
    BY <1>0 DEF Acknowledged, Finished, Moves
  <2>5. \A x \in Acknowledged("removeAddress") : req'[x].arg = req[x].arg /\ req[x].arg \in Acknowledged("addAddress")
    BY <2>3, <2>4 DEF Acknowledged, Finished, BookInv
  <2>6. CASE req'[r].ans = "ok" /\ req[r].pc = "saveAddress" /\ Ids(user'.book) = Ids(user.book) \cup {r}
    <3>1. Acknowledged("addAddress")' = Acknowledged("addAddress") \cup {r}
          /\ Acknowledged("removeAddress")' = Acknowledged("removeAddress")
      BY <2>0, <2>3, <2>4, <2>6 DEF Acknowledged, Finished
    <3>2. {req'[x].arg : x \in Acknowledged("removeAddress")} = {req[x].arg : x \in Acknowledged("removeAddress")}
      BY <2>5
    <3>3. r \notin {req[x].arg : x \in Acknowledged("removeAddress")}
      BY <2>4, <2>5
    <3>4. Ids(user'.book) = Acknowledged("addAddress")' \ {req'[x].arg : x \in Acknowledged("removeAddress")'}
      BY <2>6, <3>1, <3>2, <3>3 DEF BookInv
    <3>5. \A x \in Requests : req'[x].op = "removeAddress" => req'[x].arg \in Acknowledged("addAddress")'
      BY <2>1, <2>3, <3>1 DEF BookInv
    <3> QED
      BY <3>4, <3>5 DEF BookInv
  <2>7. CASE req'[r].ans = "ok" /\ req[r].pc = "dropAddress" /\ Ids(user'.book) = Ids(user.book) \ {req[r].arg}
    <3>1. Acknowledged("addAddress")' = Acknowledged("addAddress")
          /\ Acknowledged("removeAddress")' = Acknowledged("removeAddress") \cup {r}
      BY <2>0, <2>3, <2>4, <2>7 DEF Acknowledged, Finished
    <3>2. req'[r].arg = req[r].arg
      BY <1>1, <2>7
    <3>3. {req'[x].arg : x \in Acknowledged("removeAddress")'}
            = {req[x].arg : x \in Acknowledged("removeAddress")} \cup {req[r].arg}
      BY <2>5, <3>1, <3>2
    <3>4. Ids(user'.book) = Acknowledged("addAddress")' \ {req'[x].arg : x \in Acknowledged("removeAddress")'}
      BY <2>7, <3>1, <3>3 DEF BookInv
    <3>5. \A x \in Requests : req'[x].op = "removeAddress" => req'[x].arg \in Acknowledged("addAddress")'
      BY <2>1, <2>3, <3>1 DEF BookInv
    <3> QED
      BY <3>4, <3>5 DEF BookInv
  <2> QED
    BY <1>5, <2>2, <2>6, <2>7 DEF UserAddresses
<1> QED
  BY <1>2, <1>3, <1>4, <1>5 DEF UserShape

-----------------------------------------------------------------------------
\* The document of a user, and what its handlers know of it.
RecordInv ==
  /\ BasicInv /\ CreatorInv
  /\ load \notin SellerWorkloads => LinksInv /\ BookInv

\* The record, at the start.
LEMMA RecordStart == ASSUME IdentityInit PROVE RecordInv
<1>1. BasicInv
  BY BasicStart
<1>2. \A r \in Requests : req[r] = Idle
  BY DEF IdentityInit, SessionsInit
<1>3. \A r \in Requests : req[r].pc = "idle" /\ req[r].op = "none" /\ req[r].before = {}
  BY <1>2 DEF Idle
<1>4. CreatorInv
  BY <1>3 DEF CreatorInv, Creator, RegOps
<1>5. load \notin SellerWorkloads => user.reset = NoOne /\ user.book = {}
  BY IdentityAssumption DEF IdentityInit
<1>6. load \notin SellerWorkloads => LinksInv
  BY <1>3, <1>5, NoOneAssumption DEF LinksInv, Forgotten, Resetting
<1>7. Acknowledged("addAddress") = {}
  BY <1>3 DEF Acknowledged, Finished
<1>8. load \notin SellerWorkloads => BookInv
  BY <1>3, <1>5, <1>7 DEF BookInv, Ids
<1> QED
  BY <1>1, <1>4, <1>6, <1>8 DEF RecordInv

\* The record, over every step.
LEMMA RecordStep == ASSUME RecordInv, [IdentityNext]_ivars PROVE RecordInv'
<1>0. BasicInv /\ FrameInv /\ CreatorInv /\ BasicInv'
  BY BasicStep DEF RecordInv, BasicInv
<1>1. ASSUME UNCHANGED <<req, load>>, Doc'.exists = Doc.exists, user'.pw = user.pw
      PROVE  CreatorInv'
  BY <1>0, <1>1 DEF CreatorInv, Creator, AsksReset
<1>2. ASSUME UNCHANGED req, user'.book = user.book
      PROVE  BookInv => BookInv'
  BY <1>2 DEF BookInv, Acknowledged, Finished
<1>3. CASE UNCHANGED ivars
  <2>1. UNCHANGED <<req, load>> /\ Doc' = Doc /\ user' = user
    BY <1>3 DEF ivars, Doc
  <2> QED
    BY <1>0, <1>1, <1>2, <2>1, LinkTime DEF RecordInv
<1>4. CASE load \notin SellerWorkloads /\ UNCHANGED seller /\ UserTime
  <2>1. UNCHANGED <<req, load>> /\ UserAges
    BY <1>0, <1>4, UserAging DEF BasicInv
  <2>2. Doc'.exists = Doc.exists /\ user'.pw = user.pw /\ user'.book = user.book /\ user'.reset \in {user.reset, NoOne}
    BY <1>4, <2>1 DEF UserAges, UserKeepsBut, UserFields, Doc
  <2> QED
    BY <1>0, <1>1, <1>2, <2>1, <2>2, LinkTime DEF RecordInv
<1>5. CASE load \in SellerWorkloads /\ UNCHANGED user /\ SellerTime
  <2>1. UNCHANGED <<req, load>> /\ SellerAges
    BY <1>0, <1>5, SellerAging DEF BasicInv
  <2>2. Doc'.exists = Doc.exists
    BY <1>5, <2>1 DEF SellerAges, SellerKeepsBut, SellerFields, Doc
  <2> QED
    BY <1>0, <1>1, <1>5, <2>1, <2>2 DEF RecordInv
<1>6. ASSUME load \notin SellerWorkloads, NEW r \in Requests, UserStep(r) PROVE RecordInv'
  <2>1. UserInv /\ UserShape(r)
    BY <1>0, <1>6, UserDocStep DEF BasicInv
  <2> QED
    BY <1>0, <1>6, <2>1, CreatorUser, LinkUser, BookUser DEF RecordInv
<1>7. ASSUME load \in SellerWorkloads, UNCHANGED user, NEW r \in Requests, SellerStep(r) PROVE RecordInv'
  <2>1. SellerShape(r) /\ UNCHANGED load
    BY <1>0, <1>7, SellerDocStep, SellerMoves DEF BasicInv, Moves
  <2> QED
    BY <1>0, <1>7, <2>1, CreatorSeller DEF RecordInv
<1> QED
  BY <1>3, <1>4, <1>5, <1>6, <1>7 DEF IdentityNext

\* The types of the state, from the two invariants.
LEMMA RecordTyped == ASSUME SessionsInv, RecordInv PROVE IdentityTypeOK
<1>1. FrameTypeOK
  BY DEF SessionsInv, FrameInv, FrameTypeOK, Finished, Before, Idle
<1>2. tokens \in [TokenIds -> TokenRecord]
  BY DEF SessionsInv, TokensInv
<1>3. Nobody \in UserRecord /\ NoSeller \in SellerRecord
  <2>1. NewUser(Customer, "p0", FALSE, NoOne) \in UserRecord
    BY AttemptsAssumption DEF NewUser, UserRecord
  <2>2. NewSeller(FALSE, FALSE) \in SellerRecord
    BY SellerAttemptsAssumption DEF NewSeller, SellerRecord, Recipients, Account
  <2> QED
    BY <2>1, <2>2 DEF Nobody, NoSeller, UserRecord, SellerRecord
<1>4. user \in UserRecord /\ seller \in SellerRecord
  BY <1>3 DEF RecordInv, BasicInv, UserInv, SellerInv
<1> QED
  BY <1>1, <1>2, <1>4 DEF IdentityTypeOK, SessionsTypeOK

\* What the record's invariant says of the user's document.
LEMMA RecordSays ==
  ASSUME RecordInv
  PROVE  ResetLinksAreSpent /\ RegistrationWins /\ AddressBookIsExact
<1>0. BasicInv /\ FrameInv /\ CreatorInv
  BY DEF RecordInv, BasicInv
<1>1. load \in SellerWorkloads => \A r \in Finished : req[r].op \in SellerOps
  BY <1>0 DEF BasicInv, SellerInv, SellerReady, Finished
<1>2. ResetLinksAreSpent
  <2>1. CASE load \in SellerWorkloads
    <3>1. Resets = {}
      BY <1>1, <2>1 DEF Resets, SellerOps
    <3> QED
      BY <3>1 DEF ResetLinksAreSpent
  <2>2. CASE load \notin SellerWorkloads
    <3>1. \A a \in Resets : a \in Requests /\ Ended(a) /\ LinkOf(a)
      BY <2>2 DEF RecordInv, LinksInv, Resets, Ended, Resetting, Finished
    <3>2. ASSUME NEW a \in Resets, NEW f \in Requests, req[f].op = "forgotPassword", f \in Before(a)
          PROVE  req[a].arg \notin Before(f)
      <4>1. Forgotten(f)
        BY <1>0, <3>1, <3>2 DEF FrameInv, Before, Finished, Forgotten
      <4> QED
        BY <3>1, <3>2, <4>1 DEF LinkOf
    <3>3. ASSUME NEW a \in Resets, NEW b \in Resets, req[a].arg = req[b].arg
          PROVE  Overlap(a, b)
      BY <3>1, <3>3 DEF Overlap, LinkOf
    <3> QED
      BY <3>2, <3>3 DEF ResetLinksAreSpent
  <2> QED
    BY <2>1, <2>2
<1>3. RegistrationWins
  <2>1. \A a \in Registrations : a \in Requests /\ Creator(a)
    BY DEF Registrations, Creator, RegOps, Finished
  <2>2. Cardinality(Registrations) <= 1
    <3>1. CASE Registrations = {}
      BY <3>1, FS_EmptySet
    <3>2. ASSUME NEW a \in Registrations PROVE Cardinality(Registrations) <= 1
      <4>1. Registrations = {a}
        BY <1>0, <2>1, <3>2 DEF CreatorInv
      <4> QED
        BY <4>1, FS_Singleton
    <3> QED
      BY <3>1, <3>2
  <2> QED
    BY <1>0, <2>1, <2>2 DEF RegistrationWins, CreatorInv, AsksReset
<1>4. AddressBookIsExact
  <2>1. CASE load \in SellerWorkloads
    <3>1. Acknowledged("addAddress") = {}
      BY <1>1, <2>1 DEF Acknowledged, SellerOps
    <3>2. user.book = {}
      BY <1>0, <2>1 DEF BasicInv, Nobody, NewUser
    <3> QED
      BY <3>1, <3>2 DEF AddressBookIsExact
  <2>2. CASE load \notin SellerWorkloads
    BY <2>2 DEF RecordInv, BookInv, AddressBookIsExact, Ids
  <2> QED
    BY <2>1, <2>2
<1> QED
  BY <1>2, <1>3, <1>4

\* A user's document stays well formed, a link is spent once, one
\* registration wins and the book holds every address, although each
\* handler saves a document it read before.
THEOREM UserSafety == IdentitySpec => []UserDocumentInv
<1>1. SessionsInv /\ RecordInv => UserDocumentInv
  BY RecordTyped, RecordSays DEF UserDocumentInv
<1>2. IdentitySpec => []RecordInv
  BY RecordStart, RecordStep, PTL DEF IdentitySpec
<1> QED
  BY <1>1, <1>2, SessionsInvariant, PTL
=============================================================================
