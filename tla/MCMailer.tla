------------------------------ MODULE MCMailer ------------------------------
(* Mailer on small instances.  Liveness is checked, so there is no symmetry *)
(* reduction, although goroutines are interchangeable.                       *)
EXTENDS Mailer
=============================================================================
