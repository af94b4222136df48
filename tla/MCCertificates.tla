--------------------------- MODULE MCCertificates ---------------------------
(* Small instances of Certificates for TLC. *)
EXTENDS Certificates
=============================================================================
