----------------------------- MODULE MCBrowser ------------------------------
(* An instance of Browser: three calls, of two tabs of one app alone, or   *)
(* of one tab in the company of other apps.                                *)
EXTENDS Browser, FiniteSets

MCWorkloads ==
    {{"refresh", "login", "logout"}, {"refresh", "login", "forget"}, {"refresh", "expiry"},
     {"refresh", "login", "logout", "shared"}, {"refresh", "logout", "forget", "shared"}}

OneCompany == Shared => Cardinality(Used) <= 1 /\ faults.lost + faults.foreign <= 1
=============================================================================
