---------------------------- MODULE MCAdminPanel ----------------------------
(* A small instance of AdminPanel, with the collector's sign of life. *)
EXTENDS AdminPanel

MCInterval == {1, 2}
=============================================================================
