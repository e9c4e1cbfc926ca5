---------------------------- MODULE VSFTPRefinement ----------------------------
(***************************************************************************)
(* The program implements FTPSession: the refinement mapping, from what    *)
(* serverData, the descriptor table and the thread's place are, to what    *)
(* the client's session is.                                                *)
(***************************************************************************)
EXTENDS VSFTPMain

InSession == isConnected /\ pc \notin Ended

SessionPhase ==
  CASE pc \in Ended                        -> "over"
    [] pc \notin Ended /\ ~isConnected     -> "away"
    [] InSession /\ pc = "dataAccept"      -> "waiting"
    [] InSession /\ pc \in {"prelim", "open", "send"} -> "sending"
    [] InSession /\ pc \in {"finish", "reply"} -> "ending"
    [] OTHER                               -> "idle"

Session == INSTANCE FTPSession WITH
  phase   <- SessionPhase,
  present <- InSession /\ CanWrite(desc, clientSock),
  dir     <- IF InSession THEN cwd ELSE RootDir,
  mode    <- transferModeBinary,
  said    <- IF InSession THEN replies ELSE <<>>,
  port    <- InSession /\ Is(desc, transferSock, Passive),
  ok      <- InSession /\ pc \in {"finish", "reply"} /\ retval = 0

\* The program keeps the promises of a session whatever fails and in whatever
\* order the client, the network and SIGTERM act: one last reply to what one
\* read() returned; after 150, 226 if and only if no call of the transfer has
\* returned an error (which is not yet that everything was sent: see SendFile
\* and DirListing); a data port that ends before the last reply to a transfer
\* and with the session; a directory that starts at the root and changes by CWD
\* alone; and a mode that TYPE changes to the one its reply names, if that reply
\* could be sent, and that nothing else changes but a start of the server.
ImplementsSession == Session!Spec
=============================================================================
