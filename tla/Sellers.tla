------------------------------ MODULE Sellers -------------------------------
(***************************************************************************)
(* The account of one seller: seller.service.js over a document of the     *)
(* sellers collection and the middleware in front of it (sellerAuth.js).   *)
(*                                                                         *)
(* Bank details are what the seller typed: an account and the name on it.  *)
(* The recipient code Paystack returns depends on the account only, so two *)
(* Details may have one.  Left out: names, phones, the files behind a      *)
(* certificate.                                                            *)
(***************************************************************************)
EXTENDS Sessions

CONSTANTS SellerMaxAttempts,  \* config.maxLoginAttempts
          InitialSellers,     \* the documents a behaviour may start from
          Details,            \* the bank details a seller may type
          AccountOf           \* the account they name

ASSUME SellerAttemptsAssumption == SellerMaxAttempts \in Nat \ {0}
ASSUME DetailsAssumption == NoOne \notin Details

VARIABLE seller

\* The recipient code Paystack has for some details; none without details.
Account(d) == IF d = NoOne THEN NoOne ELSE AccountOf[d]
Recipients == {Account(d) : d \in Details \cup {NoOne}}

SellerRecord == [exists : BOOLEAN, status : {"pending", "approved", "suspended"},
                 deleted : BOOLEAN, banned : BOOLEAN, cert : BOOLEAN,
                 fails : 0 .. SellerMaxAttempts - 1, lock : {"none", "future", "past"},
                 pw : {"p0", NoOne}, google : BOOLEAN,
                 bank : Details \cup {NoOne}, recipient : Recipients]

\* The document register creates: always pending.
NewSeller(google, cert) ==
    [exists |-> TRUE, status |-> "pending", deleted |-> FALSE, banned |-> FALSE, cert |-> cert,
     fails |-> 0, lock |-> "none", pw |-> IF google THEN NoOne ELSE "p0", google |-> google,
     bank |-> NoOne, recipient |-> NoOne]

SSave(r, new) == seller' = SaveChanges(seller, Snap(r), new)
Closed(s) == s.deleted \/ s.banned \/ s.status = "suspended"

-----------------------------------------------------------------------------
(* Signing up and in.                                                      *)

\* register: the certificate is uploaded between the look-up and the creation.
SellerRegister(r) ==
    \E x \in {"password", "google"} :
        /\ Enter(r, "sellerRegister", x, seller, IF seller.exists THEN "done" ELSE "sellerCreate",
                 IF seller.exists THEN "refused" ELSE "none")
        /\ UNCHANGED <<seller, tokens>>

SellerCreate(r) ==
    /\ At(r, "sellerCreate")
    /\ IF seller.exists THEN Answer(r, "refused") /\ UNCHANGED seller
       ELSE /\ \E cert \in BOOLEAN : seller' = NewSeller(req[r].arg = "google", cert)
            /\ Answer(r, "created")
    /\ UNCHANGED tokens

SellerLogin(r) ==
    \E p \in {"p0", "wrong"} :
        /\ IF ~seller.exists \/ Closed(seller) THEN Enter(r, "sellerLogin", p, seller, "done", "refused")
           ELSE IF seller.lock = "future" THEN Enter(r, "sellerLogin", p, seller, "done", "locked")
           ELSE IF seller.pw = NoOne THEN Enter(r, "sellerLogin", p, seller, "done", "error")
           ELSE Enter(r, "sellerLogin", p, seller,
                      IF p = seller.pw THEN "sellerClear" ELSE "sellerFail", "none")
        /\ UNCHANGED <<seller, tokens>>

SellerLoginFails(r) ==
    /\ At(r, "sellerFail")
    /\ LET n == Snap(r).fails + 1 IN
       IF n >= SellerMaxAttempts THEN SSave(r, [fails |-> 0, lock |-> "future"])
                                 ELSE SSave(r, [fails |-> n])
    /\ Answer(r, "wrong") /\ UNCHANGED tokens

SellerLoginClears(r) ==
    /\ At(r, "sellerClear") /\ SSave(r, [fails |-> 0, lock |-> "none"])
    /\ Goto(r, "sellerIssue") /\ UNCHANGED tokens

SellerSession(r) ==
    /\ At(r, "sellerIssue") /\ Issue(r, {}) /\ Answer(r, "session") /\ UNCHANGED seller

\* decideGoogleAuthOutcome on what the two look-ups of googleLogin found.
GoogleOutcome(s) == IF ~s.exists THEN "new" ELSE IF s.google THEN "login" ELSE "link_and_login"

SellerGoogleLogin(r) ==
    /\ LET o == GoogleOutcome(seller)
           done == o = "new" \/ (o = "login" /\ Closed(seller)) IN
       Enter(r, "sellerGoogle", NoOne, seller,
             IF done THEN "done" ELSE IF o = "login" THEN "sellerIssue" ELSE "sellerLink",
             IF o = "new" THEN "new" ELSE IF done THEN "refused" ELSE "none")
    /\ UNCHANGED <<seller, tokens>>

\* The link is saved before the state of the account is looked at.
SellerLink(r) ==
    /\ At(r, "sellerLink") /\ SSave(r, [google |-> TRUE])
    /\ IF Closed(Snap(r)) THEN Answer(r, "refused") ELSE Goto(r, "sellerIssue")
    /\ UNCHANGED tokens

\* refreshSession looks at the status only.
SellerRefresh(r) == RotateFind(r, "sellerRefresh", seller) /\ UNCHANGED seller

SellerReread(r) ==
    /\ At(r, "reread")
    /\ Answer(r, IF seller.exists /\ seller.status # "suspended" THEN "session" ELSE "refused")
    /\ UNCHANGED <<seller, tokens>>

-----------------------------------------------------------------------------
(* The seller's own requests behind sellerAuth.                            *)

\* sellerAuth and requireApprovedSeller read the account on every request.
Admitted(s) == s.exists /\ ~Closed(s)
AdmittedApproved(s) == Admitted(s) /\ s.status = "approved"

SellerCall(r) ==
    \E gate \in {"any", "approved"} :
        /\ Enter(r, "sellerCall", gate, seller, "done",
                 IF (IF gate = "approved" THEN AdmittedApproved(seller) ELSE Admitted(seller))
                 THEN "allowed" ELSE "refused")
        /\ UNCHANGED <<seller, tokens>>

\* updateBankDetails: the document is read before the call to Paystack and
\* saved after it; details, or a recipient code, equal to what was read are
\* not written.
UpdateBankDetails(r) ==
    \E d \in Details :
        /\ Enter(r, "bankDetails", d, seller, IF Admitted(seller) THEN "recipient" ELSE "done",
                 IF Admitted(seller) THEN "none" ELSE "refused")
        /\ UNCHANGED <<seller, tokens>>

DetailsOnly(r) == [bank |-> req[r].arg]
BankChange(r) == [bank |-> req[r].arg, recipient |-> Account(req[r].arg)]

SaveBankDetails(r) ==
    /\ At(r, "recipient")
    /\ \/ SSave(r, BankChange(r)) /\ Answer(r, "ok")
       \/ UNCHANGED seller /\ Answer(r, "error")   \* Paystack refuses the account
    /\ UNCHANGED tokens

UploadBusinessCertificate(r) ==
    /\ Enter(r, "certificate", NoOne, seller, IF Admitted(seller) THEN "upload" ELSE "done",
             IF Admitted(seller) THEN "none" ELSE "refused")
    /\ UNCHANGED <<seller, tokens>>

SaveCertificate(r) ==
    /\ At(r, "upload") /\ seller' = [seller EXCEPT !.cert = TRUE] /\ Answer(r, "ok") /\ UNCHANGED tokens

-----------------------------------------------------------------------------
(* Administration.                                                         *)

SellerAdminRead(r, op, x, ok, pc) ==
    /\ Enter(r, op, x, seller, IF ok THEN pc ELSE "done", IF ok THEN "none" ELSE "refused")
    /\ UNCHANGED <<seller, tokens>>

\* setSellerStatus: the check and the update are separate; the update is
\* by id and writes the status whatever it has become.
MayBecome(s) == s = "approved" => seller.cert

SetSellerStatus(r) ==
    \E s \in {"pending", "approved", "suspended"} :
        SellerAdminRead(r, "status", s, seller.exists /\ MayBecome(s), "setStatus")

WriteSellerStatus(r) ==
    /\ At(r, "setStatus") /\ seller' = [seller EXCEPT !.status = req[r].arg]
    /\ IF req[r].arg = "suspended" THEN Goto(r, "revoke") ELSE Answer(r, "ok")
    /\ UNCHANGED tokens

\* softDeleteSeller saves and then revokes, a ban revokes and then saves.
SoftDeleteSeller(r) == SellerAdminRead(r, "sellerDelete", NoOne, seller.exists, "sellerSave")
RestoreSeller(r) == SellerAdminRead(r, "sellerRestore", NoOne, seller.exists, "sellerSave")
SetSellerBan(r) ==
    \/ SellerAdminRead(r, "sellerBan", NoOne, seller.exists, "sellerRevokeFirst")
    \/ SellerAdminRead(r, "sellerUnban", NoOne, seller.exists, "sellerSave")

SellerRevokeFirst(r) ==
    /\ At(r, "sellerRevokeFirst") /\ tokens' = RevokedAll /\ Goto(r, "sellerSave") /\ UNCHANGED seller

SellerAdminSave(r) ==
    /\ At(r, "sellerSave")
    /\ LET op == req[r].op
           changed == SaveChanges(seller, Snap(r), [status |-> "suspended"]) IN
       \/ /\ op = "sellerDelete"
          /\ seller' = [changed EXCEPT !.deleted = TRUE] /\ Goto(r, "revoke")
       \/ /\ op = "sellerRestore"
          /\ SSave(r, [deleted |-> FALSE, status |-> "pending"]) /\ Answer(r, "ok")
       \/ /\ op = "sellerBan"
          /\ seller' = [changed EXCEPT !.banned = TRUE] /\ Answer(r, "ended")
       \/ /\ op = "sellerUnban"
          /\ SSave(r, [banned |-> FALSE]) /\ Answer(r, "ok")
    /\ UNCHANGED tokens

SellerLockExpires == /\ seller.lock = "future" /\ seller' = [seller EXCEPT !.lock = "past"]
                     /\ UNCHANGED <<tokens, req, load>>
SellerBanExpires == /\ "sellerBan" \in load /\ seller.banned /\ seller' = [seller EXCEPT !.banned = FALSE]
                    /\ UNCHANGED <<tokens, req, load>>

NoSeller == [NewSeller(FALSE, FALSE) EXCEPT !.exists = FALSE]

SellerStep(r) ==
    \/ SellerRegister(r) \/ SellerCreate(r) \/ SellerLogin(r) \/ SellerLoginFails(r)
    \/ SellerLoginClears(r) \/ SellerSession(r) \/ SellerGoogleLogin(r) \/ SellerLink(r)
    \/ SellerRefresh(r) \/ SellerReread(r) \/ SellerCall(r)
    \/ (ReuseRevoke(r) \/ RotateIssue(r) \/ RotateMark(r) \/ EndSessions(r)) /\ UNCHANGED seller
    \/ UpdateBankDetails(r) \/ SaveBankDetails(r) \/ UploadBusinessCertificate(r) \/ SaveCertificate(r)
    \/ SetSellerStatus(r) \/ WriteSellerStatus(r) \/ SoftDeleteSeller(r) \/ RestoreSeller(r)
    \/ SetSellerBan(r) \/ SellerRevokeFirst(r) \/ SellerAdminSave(r)

SellerTime == \/ SellerLockExpires \/ SellerBanExpires
              \/ (\E t \in TokenIds : TokenExpires(t)) /\ UNCHANGED seller
=============================================================================
