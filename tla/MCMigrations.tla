---------------------------- MODULE MCMigrations ----------------------------
(* Instance of Migrations: two vaults and two notes. *)
EXTENDS Migrations
=============================================================================
