---------------------------- MODULE MCApiProcess ----------------------------
(* The environments TLC starts the process in.                              *)
EXTENDS ApiProcess

Environment(production, secret, database) ==
    [production |-> production, secret |-> secret, public |-> TRUE,
     database |-> database, redis |-> "url"]

(* A complete one; a production without its secret; one whose DATABASE_URL   *)
(* is set to something else than a PostgreSQL URL; one with a bad REDIS_URL. *)
SomeConfigs == {
    Environment(TRUE, TRUE, "url"),
    Environment(TRUE, FALSE, "url"),
    Environment(TRUE, TRUE, "bad_url"),
    [Environment(FALSE, FALSE, "password") EXCEPT !.redis = "bad_url"] }
=============================================================================
