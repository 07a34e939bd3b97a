------------------------------ MODULE Accounts ------------------------------
(***************************************************************************)
(* The account of one customer or staff member: user.service.js over a     *)
(* document of the users collection, with the middleware that guards the   *)
(* routes (auth.js, adminAuth.js, constants/roles.js).                     *)
(*                                                                         *)
(* Passwords, links and addresses are named by the request that made them. *)
(* Left out: mail (sendMail never throws), names, phones and currencies.   *)
(***************************************************************************)
EXTENDS Sessions

CONSTANTS MaxLoginAttempts,  \* config.maxLoginAttempts
          InitialUsers       \* the documents a behaviour may start from

ASSUME AttemptsAssumption == MaxLoginAttempts \in Nat \ {0}

VARIABLE user

Customer == "customer"
StaffRoles == {"support", "admin", "superadmin"}

SupportPermissions == {"order:view", "order:update_status", "refund:view", "customer:view"}
AdminPermissions == SupportPermissions \cup
    {"order:cancel", "refund:decide", "product:manage", "coupon:manage",
     "seller:manage", "customer:manage", "payout:manage"}
Permissions(role) == CASE role = "support"    -> SupportPermissions
                       [] role = "admin"      -> AdminPermissions
                       [] role = "superadmin" -> AdminPermissions \cup {"staff:manage"}
                       [] OTHER               -> {}

\* The permission requirePermission asks for on the routes of user.routes.js,
\* by operation; the other routes are public or open to any customer token.
RoutePermission == [ban |-> "customer:manage", unban |-> "customer:manage",
                    delete |-> "customer:manage", restore |-> "customer:manage",
                    listCustomers |-> "customer:view",
                    updateStaff |-> "staff:manage", createStaff |-> "staff:manage"]

Address == [id : Requests, default : BOOLEAN]

UserRecord == [exists : BOOLEAN, role : {Customer} \cup StaffRoles, active : BOOLEAN,
               deleted : BOOLEAN, banned : BOOLEAN, fails : 0 .. MaxLoginAttempts - 1,
               lock : {"none", "future", "past"}, pw : Requests \cup {"p0", NoOne},
               google : BOOLEAN, reset : Requests \cup {NoOne},
               verified : BOOLEAN, vtok : Requests \cup {NoOne},
               book : SUBSET Address, ver : Nat]

\* The schema's defaults under what a creation sets.
NewUser(role, pw, google, vtok) ==
    [exists |-> TRUE, role |-> role, active |-> TRUE, deleted |-> FALSE, banned |-> FALSE,
     fails |-> 0, lock |-> "none", pw |-> pw, google |-> google, reset |-> NoOne,
     verified |-> vtok = NoOne, vtok |-> vtok, book |-> {}, ver |-> 0]

Unavailable(u) == ~u.active \/ u.deleted
Banned(u) == u.banned
\* clearFailedAttempts has something to clear.
WasLocked(u) == u.lock # "none"
MustClear(u) == u.fails # 0 \/ u.lock # "none"

\* The attempt that locks.
LocksAt(n) == n >= MaxLoginAttempts

\* The unique index on email.
EmailTaken == user.exists

Passwords == {"p0"} \cup Requests \cup {"wrong"}
Save(r, new) == user' = SaveChanges(user, req[r].snap, new)

-----------------------------------------------------------------------------
(* Signing in.                                                             *)

\* authenticateByEmailPassword up to its first write; an account that only
\* ever used Google has no hash to compare with and the comparison throws.
Authenticate(r, op, roles) ==
    \E p \in Passwords :
        /\ p \in {"p0", "wrong"} \/ p = user.pw
        /\ IF ~user.exists \/ user.role \notin roles \/ Unavailable(user) \/ Banned(user)
             THEN Enter(r, op, p, user, "done", "refused")
           ELSE IF user.lock = "future" THEN Enter(r, op, p, user, "done", "locked")
           ELSE IF user.pw = NoOne THEN Enter(r, op, p, user, "done", "error")
           ELSE IF p # user.pw THEN Enter(r, op, p, user, "fail", "none")
           ELSE IF MustClear(user) THEN Enter(r, op, p, user, "clear", "none")
           ELSE Enter(r, op, p, user, "issue", "none")
        /\ UNCHANGED <<user, tokens>>

Login(r) == Authenticate(r, "login", {Customer})
StaffLogin(r) == Authenticate(r, "staffLogin", StaffRoles)

RegisterFailedAttempt(r) ==
    /\ At(r, "fail")
    /\ LET n == Snap(r).fails + 1 IN
       IF LocksAt(n) THEN Save(r, [fails |-> 0, lock |-> "future"])
                                ELSE Save(r, [fails |-> n])
    /\ Answer(r, "wrong") /\ UNCHANGED tokens

ClearFailedAttempts(r) ==
    /\ At(r, "clear") /\ Save(r, [fails |-> 0, lock |-> "none"])
    /\ Goto(r, "issue") /\ UNCHANGED tokens

\* signAccessToken, issueRefreshToken and the answer with both tokens.
OpenSession(r) ==
    /\ At(r, "issue") /\ Issue(r, {}) /\ Answer(r, "session") /\ UNCHANGED user

\* register: the email is looked up, then the document created; the unique
\* index refuses the second of two (409 from the error handler).
Register(r) ==
    /\ Enter(r, "register", NoOne, user, IF user.exists THEN "done" ELSE "create",
             IF user.exists THEN "refused" ELSE "none")
    /\ UNCHANGED <<user, tokens>>

CreateUser(r, role, google, vtok, next) ==
    /\ IF EmailTaken THEN Answer(r, "refused") /\ UNCHANGED user
       ELSE /\ user' = NewUser(role, IF google THEN NoOne ELSE r, google, vtok)
            /\ IF next = "done" THEN Answer(r, "created") ELSE Goto(r, next)
    /\ UNCHANGED tokens

RegisterCreate(r) == At(r, "create") /\ CreateUser(r, Customer, FALSE, r, "issue")

\* googleLogin: by Google id, else by email (linked), else created.
GoogleLogin(r) ==
    /\ Enter(r, "google", NoOne, user,
             IF ~(user.exists /\ user.google) THEN "byEmail"
             ELSE IF Unavailable(user) \/ Banned(user) THEN "done" ELSE "issue",
             IF user.exists /\ user.google /\ (Unavailable(user) \/ Banned(user)) THEN "refused" ELSE "none")
    /\ UNCHANGED <<user, tokens>>

GoogleByEmail(r) ==
    /\ At(r, "byEmail")
    /\ req' = [req EXCEPT ![r].pc = IF user.exists THEN "link" ELSE "googleCreate", ![r].snap = user]
    /\ UNCHANGED <<user, tokens>>

GoogleLink(r) ==
    /\ At(r, "link") /\ Save(r, [google |-> TRUE, verified |-> TRUE])
    /\ IF Unavailable(Snap(r)) \/ Banned(Snap(r)) THEN Answer(r, "refused") ELSE Goto(r, "issue")
    /\ UNCHANGED tokens

GoogleCreate(r) == At(r, "googleCreate") /\ CreateUser(r, Customer, TRUE, NoOne, "issue")

\* refreshSession: the document is read again after the rotation.
Refresh(r) == RotateFind(r, "refresh", user) /\ UNCHANGED user

Known(u) == u.exists
MayRenew(u) == u.exists /\ u.active

RefreshReread(r) ==
    /\ At(r, "reread") /\ Answer(r, IF MayRenew(user) THEN "session" ELSE "refused")
    /\ UNCHANGED <<user, tokens>>

-----------------------------------------------------------------------------
(* Passwords and links.                                                    *)

ChangePassword(r) ==
    \E p \in Passwords :
        /\ p \in {"p0", "wrong"} \/ p = user.pw
        /\ LET ok == user.exists /\ p = user.pw IN
           Enter(r, "changePassword", p, user, IF ok THEN "setPassword" ELSE "done",
                 IF ok THEN "none" ELSE "refused")
        /\ UNCHANGED <<user, tokens>>

\* changePassword's save; resetPassword also clears the link.
NewPassword(r) == IF req[r].op = "resetPassword" THEN [pw |-> r, reset |-> NoOne] ELSE [pw |-> r]

SetPassword(r) ==
    /\ At(r, "setPassword") /\ Save(r, NewPassword(r))
    /\ Goto(r, "revoke") /\ UNCHANGED tokens

ForgotPassword(r) ==
    /\ Enter(r, "forgotPassword", NoOne, user, IF user.exists THEN "setLink" ELSE "done",
             IF user.exists THEN "none" ELSE "ok")
    /\ UNCHANGED <<user, tokens>>

SetResetLink(r) ==
    /\ At(r, "setLink") /\ Save(r, [reset |-> r]) /\ Answer(r, "ok") /\ UNCHANGED tokens

\* resetPassword: any link that was mailed may come back.
ResetPassword(r) ==
    \E l \in {x \in Requests : req[x].op = "forgotPassword" /\ req[x].pc = "done"} :
        LET ok == user.exists /\ user.reset = l IN
        /\ Enter(r, "resetPassword", l, user, IF ok THEN "setPassword" ELSE "done",
                 IF ok THEN "none" ELSE "refused")
        /\ UNCHANGED <<user, tokens>>

\* verifyEmail and resendVerificationEmail; a registration mails the first link.
VerifyEmail(r) ==
    \E l \in {x \in Requests : req[x].op \in {"register", "resend"} /\ req[x].pc = "done"} :
        LET ok == user.exists /\ user.vtok = l IN
        /\ Enter(r, "verify", l, user, IF ok THEN "setVerified" ELSE "done",
                 IF ok THEN "none" ELSE "refused")
        /\ UNCHANGED <<user, tokens>>

SetVerified(r) ==
    /\ At(r, "setVerified") /\ Save(r, [verified |-> TRUE, vtok |-> NoOne])
    /\ Answer(r, "ok") /\ UNCHANGED tokens

ResendVerification(r) ==
    /\ Enter(r, "resend", NoOne, user, IF user.exists /\ ~user.verified THEN "setVtok" ELSE "done",
             IF ~user.exists THEN "refused" ELSE IF user.verified THEN "ok" ELSE "none")
    /\ UNCHANGED <<user, tokens>>

SetVerificationLink(r) ==
    /\ At(r, "setVtok") /\ Save(r, [vtok |-> r]) /\ Answer(r, "ok") /\ UNCHANGED tokens

-----------------------------------------------------------------------------
(* Administration.  Who may ask is StaffCall's question: these are the     *)
(* handlers behind that guard.                                             *)

AdminRead(r, op, x, found, pc) ==
    /\ Enter(r, op, x, user, IF found THEN pc ELSE "done", IF found THEN "none" ELSE "refused")
    /\ UNCHANGED <<user, tokens>>

IsCustomer == user.exists /\ user.role = Customer

\* The sessions are revoked before the document is saved.
RevokeFirst(r) ==
    /\ At(r, "revokeFirst") /\ tokens' = RevokedAll /\ Goto(r, "saveAdmin") /\ UNCHANGED user

SetCustomerBan(r) ==
    \/ AdminRead(r, "ban", NoOne, IsCustomer, "revokeFirst")
    \/ AdminRead(r, "unban", NoOne, IsCustomer, "saveAdmin")
SoftDeleteCustomer(r) == AdminRead(r, "delete", NoOne, IsCustomer, "revokeFirst")
RestoreCustomer(r) == AdminRead(r, "restore", NoOne, IsCustomer, "saveAdmin")

\* updateStaff: a new role, an activation or a deactivation.
UpdateStaff(r) ==
    \E x \in StaffRoles \cup {"activate", "deactivate"} :
        AdminRead(r, "updateStaff", x, user.exists /\ user.role \in StaffRoles,
                  IF x = "deactivate" THEN "revokeFirst" ELSE "saveAdmin")

\* A ban and a deletion carry their date, so they are always written.
AdminSave(r) ==
    /\ At(r, "saveAdmin")
    /\ LET op == req[r].op  x == req[r].arg IN
       \/ op = "ban" /\ user' = [user EXCEPT !.banned = TRUE]
       \/ op = "unban" /\ Save(r, [banned |-> FALSE])
       \/ /\ op = "delete"
          /\ user' = [SaveChanges(user, Snap(r), [active |-> FALSE]) EXCEPT !.deleted = TRUE]
       \/ op = "restore" /\ Save(r, [active |-> TRUE, deleted |-> FALSE])
       \/ op = "updateStaff" /\ x \in StaffRoles /\ Save(r, [role |-> x])
       \/ op = "updateStaff" /\ x = "activate" /\ Save(r, [active |-> TRUE])
       \/ op = "updateStaff" /\ x = "deactivate" /\ Save(r, [active |-> FALSE])
    /\ Answer(r, IF req[r].op \in {"ban", "delete"} \/ req[r].arg = "deactivate" THEN "ended" ELSE "ok")
    /\ UNCHANGED tokens

\* createStaff and seedSuperAdmin: look the email up, then create.
CreateStaff(r) ==
    \E role \in StaffRoles :
        /\ Enter(r, "createStaff", role, user, IF user.exists THEN "done" ELSE "createStaff",
                 IF user.exists THEN "refused" ELSE "none")
        /\ UNCHANGED <<user, tokens>>

StaffCreate(r) == At(r, "createStaff") /\ CreateUser(r, req[r].arg, FALSE, NoOne, "done")

SeedSuperAdmin(r) ==
    /\ Enter(r, "seed", "superadmin", user, IF user.exists THEN "done" ELSE "createStaff",
             IF user.exists THEN "refused" ELSE "none")
    /\ UNCHANGED <<user, tokens>>

\* A request of this staff member to a guarded route: staffAuth reads the
\* account again, requirePermission looks at the role it read.
StaffCall(r) ==
    \E op \in DOMAIN RoutePermission :
        /\ Enter(r, "staffCall", RoutePermission[op], user, "done",
                 IF /\ user.exists /\ user.active /\ user.role \in StaffRoles
                    /\ RoutePermission[op] \in Permissions(user.role)
                 THEN "allowed" ELSE "refused")
        /\ UNCHANGED <<user, tokens>>

-----------------------------------------------------------------------------
(* The address book: an array of subdocuments.  Mongoose pushes an element *)
(* blindly, but a save that replaces the array matches the version that    *)
(* was read and throws when another save changed it; both raise it.        *)

AddAddress(r) ==
    \E d \in {"default", "plain"} :
        /\ Enter(r, "addAddress", d, user, IF user.exists THEN "saveAddress" ELSE "done",
                 IF user.exists THEN "none" ELSE "refused")
        /\ UNCHANGED <<user, tokens>>

NeverStale(r) == FALSE
Stale(r) == user.ver # Snap(r).ver
Replaces(book) == [user EXCEPT !.book = book, !.ver = @ + 1]
NewAddress(r) == [id |-> r, default |-> req[r].arg = "default"]
Unset(book) == {[a EXCEPT !.default = FALSE] : a \in book}

SaveAddress(r) ==
    /\ At(r, "saveAddress")
    /\ LET replaced == req[r].arg = "default" /\ \E a \in Snap(r).book : a.default IN
       IF replaced /\ Stale(r) THEN Answer(r, "error") /\ UNCHANGED user
       ELSE /\ user' = Replaces((IF replaced THEN Unset(Snap(r).book) ELSE user.book) \cup {NewAddress(r)})
            /\ Answer(r, "ok")
    /\ UNCHANGED tokens

RemoveAddress(r) ==
    \E x \in {a.id : a \in user.book} :
        /\ Enter(r, "removeAddress", x, user, "dropAddress", "none")
        /\ UNCHANGED <<user, tokens>>

DropAddress(r) ==
    /\ At(r, "dropAddress")
    /\ IF Stale(r) THEN Answer(r, "error") /\ UNCHANGED user
       ELSE /\ user' = Replaces({a \in Snap(r).book : a.id # req[r].arg}) /\ Answer(r, "ok")
    /\ UNCHANGED tokens

-----------------------------------------------------------------------------
(* Time: the lock, a ban with an end and a reset link run out.             *)

LockExpires == /\ user.lock = "future" /\ user' = [user EXCEPT !.lock = "past"]
               /\ UNCHANGED <<tokens, req, load>>
BanExpires  == /\ "ban" \in load /\ user.banned /\ user' = [user EXCEPT !.banned = FALSE]
               /\ UNCHANGED <<tokens, req, load>>
LinkExpires == /\ user.reset # NoOne /\ user' = [user EXCEPT !.reset = NoOne]
               /\ UNCHANGED <<tokens, req, load>>

Nobody == [NewUser(Customer, "p0", FALSE, NoOne) EXCEPT !.exists = FALSE]

UserStep(r) ==
    \/ Login(r) \/ StaffLogin(r) \/ RegisterFailedAttempt(r) \/ ClearFailedAttempts(r)
    \/ OpenSession(r) \/ Register(r) \/ RegisterCreate(r)
    \/ GoogleLogin(r) \/ GoogleByEmail(r) \/ GoogleLink(r) \/ GoogleCreate(r)
    \/ Refresh(r) \/ RefreshReread(r)
    \/ (ReuseRevoke(r) \/ RotateIssue(r) \/ RotateMark(r) \/ EndSessions(r)) /\ UNCHANGED user
    \/ (Logout(r, user) \/ LogoutEverywhere(r, user)) /\ UNCHANGED user
    \/ ChangePassword(r) \/ SetPassword(r) \/ ForgotPassword(r) \/ SetResetLink(r) \/ ResetPassword(r)
    \/ VerifyEmail(r) \/ SetVerified(r) \/ ResendVerification(r) \/ SetVerificationLink(r)
    \/ SetCustomerBan(r) \/ SoftDeleteCustomer(r) \/ RestoreCustomer(r) \/ UpdateStaff(r)
    \/ RevokeFirst(r) \/ AdminSave(r)
    \/ CreateStaff(r) \/ StaffCreate(r) \/ SeedSuperAdmin(r) \/ StaffCall(r)
    \/ AddAddress(r) \/ SaveAddress(r) \/ RemoveAddress(r) \/ DropAddress(r)

UserTime == \/ LockExpires \/ BanExpires \/ LinkExpires
            \/ (\E t \in TokenIds : TokenExpires(t)) /\ UNCHANGED user

=============================================================================
