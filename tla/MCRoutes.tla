------------------------------- MODULE MCRoutes -------------------------------
(* Routes for TLC: one plain word, and a slash that is escaped.             *)
EXTENDS Routes

MCWord == {"x", "%2F"}
=============================================================================
