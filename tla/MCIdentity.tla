----------------------------- MODULE MCIdentity -----------------------------
(* Instances of Identity: three requests on one account.                   *)
EXTENDS Identity, TLC


MCSellerWorkloads ==
    {{"sellerLogin", "sellerRefresh", "status", "sellerDelete", "sellerRestore", "sellerCall"},
     {"sellerLogin", "sellerRefresh", "sellerBan", "sellerUnban", "sellerGoogle", "expiry"},
     {"sellerRegister", "certificate", "status", "bankDetails", "sellerGoogle"}}
MCWorkloads == MCSellerWorkloads \cup
    {{"login", "changePassword", "refresh", "logoutAll", "logout"},
     {"login", "google", "refresh", "ban", "unban", "expiry"},
     {"login", "refresh", "delete", "restore", "google"},
     {"staffLogin", "refresh", "updateStaff", "staffCall"},
     {"login", "forgotPassword", "resetPassword", "refresh"},
     {"register", "google", "createStaff", "seed", "verify", "resend"},
     {"addAddress", "removeAddress"}}

MCInitialUsers ==
    LET c == NewUser("customer", "p0", FALSE, NoOne) IN
    {Nobody, c, [c EXCEPT !.pw = NoOne, !.google = TRUE],
     [c EXCEPT !.role = "support"], [c EXCEPT !.role = "superadmin"]}
MCInitialSellers ==
    LET s == NewSeller(FALSE, TRUE) IN
    {NoSeller, [s EXCEPT !.cert = FALSE], [s EXCEPT !.status = "approved"],
     [s EXCEPT !.status = "approved", !.pw = NoOne, !.google = TRUE],
     [s EXCEPT !.status = "approved", !.bank = "a1", !.recipient = "a"]}
MCDetails == {"a1", "a2", "b1"}  \* one account under two names, and another
MCAccountOf == [d \in MCDetails |-> IF d = "b1" THEN "b" ELSE "a"]
Perms == Permutations(Requests)
=============================================================================
