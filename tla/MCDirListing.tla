----------------------------- MODULE MCDirListing -----------------------------
(***************************************************************************)
(* Directories of up to four entries.  One name just fits the buffer with  *)
(* its end, one needs the whole of it and one is longer.                   *)
(***************************************************************************)
EXTENDS DirListing

MCNames == {".", "..", "just", "full", "long"}
MCLength ==
  [name \in MCNames |-> CASE name = "."    -> 2
                         [] name = ".."   -> 3
                         [] name = "just" -> 7
                         [] name = "full" -> 8
                         [] name = "long" -> 9]
=============================================================================
