----------------------------- MODULE MCPortNumber -----------------------------
(***************************************************************************)
(* The digits at and next to those of the limits 65365, 65535 and 65536.   *)
(***************************************************************************)
EXTENDS PortNumber

MCDigits == {0, 3, 4, 5, 6, 9}
=============================================================================
