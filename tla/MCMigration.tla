---------------------------- MODULE MCMigration ----------------------------
(* Values for the constants of Migration: mail by hand, and no faults. *)
EXTENDS Migration

CONSTANTS p1, p2, m1, s1
===========================================================================
