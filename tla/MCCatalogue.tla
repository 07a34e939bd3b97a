---------------------------- MODULE MCCatalogue -----------------------------
(* Instances of Catalogue: the mixes of requests on one product.           *)
EXTENDS Catalogue, TLC

MCKeys == {"single", "list"}
MCWorkloads == {{"create", "update", "read"}, {"update", "remove", "read"},
                {"update", "restock", "remove", "reserve"}, {"review", "unreview", "update"}}
=============================================================================
