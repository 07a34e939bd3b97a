------------------------------ MODULE Identity ------------------------------
(***************************************************************************)
(* Accounts and sessions together: one account, of the users or of the     *)
(* sellers collection, its refresh tokens, and the requests that race on   *)
(* them.  The workload decides which collection the account is in.         *)
(***************************************************************************)
EXTENDS Accounts, Sellers

CONSTANT SellerWorkloads  \* the workloads about a seller

\* NoOne is not an argument of updateStaff. A behaviour starts from documents
\* the schemas accept, a seller's with what its handlers keep (below); failed
\* attempts, links and addresses are those of the behaviour's own requests.
ASSUME IdentityAssumption ==
    /\ NoOne # "deactivate"
    /\ \A u \in InitialUsers :
          /\ u \in UserRecord /\ u.fails = 0 /\ u.lock = "none"
          /\ u.reset = NoOne /\ u.book = {}
    /\ \A s \in InitialSellers :
          /\ s \in SellerRecord /\ s.fails = 0 /\ s.lock = "none"
          /\ s.recipient = Account(s.bank) /\ (s.status = "approved" => s.cert)

ivars == <<tokens, req, load, user, seller>>

IdentityInit ==
    /\ load \in Workloads
    /\ IF load \in SellerWorkloads THEN user = Nobody /\ seller \in InitialSellers
                                   ELSE user \in InitialUsers /\ seller = NoSeller
    /\ SessionsInit(user.exists \/ seller.exists)

IdentityNext ==
    \/ /\ load \notin SellerWorkloads /\ UNCHANGED seller
       /\ (UserTime \/ \E r \in Requests : UserStep(r))
    \/ /\ load \in SellerWorkloads /\ UNCHANGED user
       /\ (SellerTime \/ \E r \in Requests : SellerStep(r))

IdentitySpec == IdentityInit /\ [][IdentityNext]_ivars

-----------------------------------------------------------------------------
(* Properties.                                                             *)

IdentityTypeOK ==
    /\ SessionsTypeOK
    /\ user \in UserRecord
    /\ seller \in SellerRecord

\* A sign-out of every device, a changed or reset password, a ban, a
\* deactivation, a suspension and a replayed token end the sessions that
\* were open: one that still works had a request in flight at the time.
EndedSessionsStayEnded ==
    \A e \in Enders, t \in Usable :
        (\E x \in tokens[t].line : Preceded(x, e)) => \E x \in tokens[t].line : Overlap(x, e)

\* A refresh token buys one session: two refreshes with one token that
\* both succeed were in flight together.
Refreshes == {r \in Finished : req[r].op \in {"refresh", "sellerRefresh"} /\ req[r].ans = "session"}
RotationIsSingleUse ==
    \A a \in Refreshes, b \in Refreshes : (a # b /\ req[a].arg = req[b].arg) => Overlap(a, b)

\* Requests that change whether the account may be used, and those of them
\* that close it.
Admin == {"ban", "unban", "delete", "restore", "updateStaff",
          "status", "sellerDelete", "sellerRestore", "sellerBan", "sellerUnban"}
Closes(e) ==
    \/ req[e].op \in {"delete", "sellerDelete", "sellerBan"}
    \/ req[e].op = "updateStaff" /\ req[e].arg = "deactivate"
    \/ req[e].op = "status" /\ req[e].arg = "suspended"

\* Once an account is deactivated, archived or suspended, and nobody
\* changes it back, no request begun later opens or renews a session or
\* passes a guard that reads the account, whatever was in flight.
ClosedAccountStaysOut ==
    \A e \in Finished, r \in Finished :
        (/\ Closes(e) /\ req[e].ans = "ended" /\ e \in Before(r)
         /\ \A a \in Requests \ {e} : req[a].op \in Admin => a \in Before(e))
        => req[r].ans \notin {"session", "allowed"}

\* The attempts of a password login, in the order they were answered.
Logins == {r \in Requests : req[r].op \in {"login", "staffLogin", "sellerLogin"}}
Failures == {r \in Logins : /\ req[r].ans = "wrong"
                            /\ \A s \in Logins : req[s].ans = "session" => r \notin Before(s)}
Attempts == IF load \in SellerWorkloads THEN seller ELSE user
Threshold == IF load \in SellerWorkloads THEN SellerMaxAttempts ELSE MaxLoginAttempts

\* Attempts that do not overlap are counted exactly: the counter restarts
\* at a success and at a lock, and the lock comes at the configured number.
\* Whatever overlaps, an account is locked only by as many wrong passwords
\* as the configuration asks for.
AttemptsCountedExactly ==
    /\ (Logins \subseteq Finished /\ Serial(Logins)) =>
          /\ Attempts.fails = Cardinality(Failures) % Threshold
          /\ (Attempts.lock # "none") = (Cardinality(Failures) >= Threshold)
    /\ Attempts.lock # "none" => Cardinality({r \in Logins : req[r].ans = "wrong"}) >= Threshold

\* A reset link opens the account to one request, and a link that a newer
\* one replaced to none; two resets that both succeed were in flight together.
Resets == {r \in Finished : req[r].op = "resetPassword" /\ req[r].ans = "ended"}
ResetLinksAreSpent ==
    \A a \in Resets :
        /\ \A b \in Resets : (a # b /\ req[a].arg = req[b].arg) => Overlap(a, b)
        /\ \A f \in Requests : ~(/\ req[f].op = "forgotPassword" /\ f \in Before(a)
                                 /\ req[a].arg \in Before(f))

\* Two registrations of one email race between look-up and creation: one
\* gets the account, and its password stays until its owner changes it.
Registrations == {r \in Finished : /\ req[r].op \in {"register", "createStaff", "seed", "sellerRegister"}
                                   /\ req[r].ans \in {"session", "created"}}
RegistrationWins ==
    /\ Cardinality(Registrations) <= 1
    /\ \A r \in Registrations : load \notin SellerWorkloads =>
          user.pw = r \/ \E c \in Requests : req[c].op \in {"changePassword", "resetPassword"}

\* With no address request in flight the book holds exactly the addresses
\* whose addition was answered and whose removal was not: a save that
\* replaces the array loses no other request's address and revives none.
Acknowledged(op) == {r \in Finished : req[r].op = op /\ req[r].ans = "ok"}
AddressBookIsExact ==
    (\A r \in Running : req[r].op \notin {"addAddress", "removeAddress"}) =>
        {a.id : a \in user.book}
            = Acknowledged("addAddress") \ {req[r].arg : r \in Acknowledged("removeAddress")}

\* What the handlers keep of a user's document, although each saves one it
\* read before: typed, links spent once, one registration, every address.
UserDocumentInv ==
    IdentityTypeOK /\ ResetLinksAreSpent /\ RegistrationWins /\ AddressBookIsExact

\* A seller is approved only with a certificate, checked on an earlier read.
ApprovedHasCertificate == seller.status = "approved" => seller.cert

\* Two overlapping changes of the bank details, one of which keeps the
\* account it read (a corrected name): it saves its details and leaves the
\* recipient code to the other.
BankChanges == {r \in Finished : req[r].op = "bankDetails" /\ req[r].ans = "ok"}
BankClash ==
    \E r \in BankChanges, q \in BankChanges :
        /\ Overlap(r, q) /\ Account(req[q].arg) # Account(req[r].arg)
        /\ Snap(r).recipient = Account(req[r].arg)

\* The recipient payouts are sent to is the account on file, although the
\* two are computed around a call to Paystack from a document read before;
\* only such a clash of two changes can part them.
RecipientIsTheAccountOnFile == seller.recipient = Account(seller.bank) \/ BankClash

\* What the handlers keep of a seller's document: approval and certificate,
\* and, but for a clash, account and recipient belong together.
SellerDocumentInv == ApprovedHasCertificate /\ RecipientIsTheAccountOnFile
=============================================================================
