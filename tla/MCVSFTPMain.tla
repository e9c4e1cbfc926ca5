------------------------------ MODULE MCVSFTPMain ------------------------------
(***************************************************************************)
(* The instances of VSFTPMain that TLC checks.                             *)
(***************************************************************************)
EXTENDS VSFTPRefinement

\* The commands that open, close or need a descriptor, and CWD.
MCLines    == {"USER ?", "PASV", "NLST", "RETR", "CWD", "other"}
MCFewLines == {"USER ?", "PASV", "RETR", "CWD", "TYPE A"}
MCAllLines == AllLines
\* The commands that open what a transfer needs, TYPE, whose mode lasts, and a
\* wrong USER, which ends the session.
MCSessionLines == {"USER ?", "PASV", "RETR", "TYPE A"}
MCDirs == {"/", "/sub"}
MCRootDir == "/"
=============================================================================
