------------------------------ MODULE Handlers ------------------------------
(***************************************************************************)
(* The frame in which the request handlers of the backend run, shared by   *)
(* the modules about one document (an account, a product, a cart).  A      *)
(* handler is cut at its awaits: req[r].pc names its next step, req[r].snap *)
(* is the document it read.                                                *)
(*                                                                         *)
(* Bounds: each request of Requests runs once; `load` is the mix of        *)
(* operations this behaviour is made of, chosen from Workloads.            *)
(***************************************************************************)
EXTENDS Integers, FiniteSets

CONSTANTS Requests,  \* the requests of a behaviour
          NoOne,     \* absence of a request, a token, a link, a password
          Workloads  \* the mixes of operations to explore

VARIABLES req,       \* the requests and how far they are
          load       \* the operations in play

ASSUME NoOneAssumption == NoOne \notin Requests

Idle == [op |-> "none", pc |-> "idle", arg |-> NoOne, ans |-> "none",
         snap |-> NoOne, before |-> {}]

Finished == {r \in Requests : req[r].pc = "done"}
Running  == {r \in Requests : req[r].pc \notin {"idle", "done"}}

\* `before` is history: the requests answered when this one began.
Before(r) == req[r].before
Overlap(a, b) == {a, b} \subseteq Requests /\ a \notin Before(b) /\ b \notin Before(a)
Serial(S) == \A a \in S, b \in S : a # b => ~Overlap(a, b)

Enter(r, op, x, doc, pc, ans) ==
    /\ req[r].pc = "idle" /\ op \in load
    /\ req' = [req EXCEPT ![r] = [op |-> op, pc |-> pc, arg |-> x, ans |-> ans,
                                  snap |-> doc, before |-> Finished]]
    /\ UNCHANGED load

At(r, pc) == req[r].pc = pc /\ UNCHANGED load
Goto(r, pc) == req' = [req EXCEPT ![r].pc = pc]
Answer(r, ans) == req' = [req EXCEPT ![r].pc = "done", ![r].ans = ans]
Snap(r) == req[r].snap

\* Mongoose save(): only the fields whose value differs from the one read
\* are written.
SaveChanges(doc, snap, new) ==
    [f \in DOMAIN doc |-> IF f \in DOMAIN new /\ new[f] # snap[f] THEN new[f] ELSE doc[f]]

FrameTypeOK ==
    /\ load \in Workloads
    /\ \A r \in Requests : /\ req[r].op \in load \cup {"none"}
                           /\ req[r].before \subseteq Requests \ {r}
=============================================================================
