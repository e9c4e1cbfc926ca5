------------------------------ MODULE MCSendFile ------------------------------
(***************************************************************************)
(* Files of up to five bytes and a buffer of two, so that the last buffer  *)
(* may be full or not; a size_t of three bits.                             *)
(***************************************************************************)
EXTENDS SendFile

MCAllEvents == AllEvents
=============================================================================
