---------------------------- MODULE MCDocuments ----------------------------
(***************************************************************************)
(* A small instance of Documents: the limit is met by two uploads, and     *)
(* the scanner gives every verdict.                                        *)
(***************************************************************************)
EXTENDS Documents

AnyVerdict == ScanStatus \ {"PENDING"}
=============================================================================
