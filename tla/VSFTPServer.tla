----------------------------- MODULE VSFTPServer -----------------------------
(***************************************************************************)
(* The server's data (vsftp_server.c: serverData) and the operations of    *)
(* vsftp_server.c on it: creating, accepting and closing sockets, starting *)
(* and stopping, replying.  VSFTPCommands has the FTP commands and         *)
(* VSFTPMain the main loop that puts the steps together.                   *)
(*                                                                         *)
(* The process is one thread.  pc says where it is; it can be overtaken    *)
(* only where it waits (Blocking) or between the calls of a transfer, so   *)
(* those are the places where a handler is cut into steps.                 *)
(***************************************************************************)
EXTENDS Sockets, Sequences

CONSTANTS
  Lines,     \* the command lines a client sends
  MaxInbox,  \* bound: tokens a client has sent and the server not read
  MaxChunks, \* bound: buffers (RETR) or lines (NLST) of one transfer
  Dirs,      \* the directories a client can be in
  RootDir    \* the server's root directory

\* The two replies 200 to TYPE, which name the mode in words, have it as a
\* fourth digit.
SwitchingTo(binary) == IF binary THEN 2001 ELSE 2000

AllLines == {"USER", "USER ?", "SYST", "PASV", "NLST", "RETR", "PWD", "CWD", "SIZE",
             "TYPE I", "TYPE A", "TYPE ?", "HELP", "QUIT", "other"}

EOL   == "\r\n"
NoDir == "none"  \* cwd before it is first set: the static zeros, cwdLen = 0

ASSUME LinesAssumption     == Lines \subseteq AllLines
ASSUME MaxInboxAssumption  == MaxInbox \in Nat
ASSUME MaxChunksAssumption == MaxChunks \in Nat \ {0}
ASSUME DirsAssumption      == RootDir \in Dirs /\ NoDir \notin Dirs

VARIABLES
  \* serverData
  serverSock, clientSock, transferSock, transferClientSock,
  cwd, transferModeBinary, isConnected, isServerSocketCreated,
  \* the process
  pc,          \* where the thread is
  retval,      \* what the function that runs, or has just returned, returns
  quit,        \* main.c: the flag the SIGTERM handler sets
  interrupted, \* SIGTERM came while the thread was waiting in a system call
  \* the transfer command that runs (local variables of NLST and RETR)
  cmd,         \* which of the two, "none" when neither runs
  stream,      \* descriptor of the directory stream or file being sent
  left,        \* buffers or lines it has still to send
  \* the kernel and the client
  desc,        \* the descriptor table
  inbox,       \* what the client has sent and the server not read
  replies      \* history: reply codes the client was sent since its last command

sockets  == <<serverSock, clientSock, transferSock, transferClientSock>>
settings == <<cwd, transferModeBinary>>
flags    == <<isConnected, isServerSocketCreated>>
transfer == <<cmd, stream, left>>
vars == <<sockets, settings, flags, pc, retval, quit, interrupted, transfer, desc, inbox, replies>>

Blocking  == {"accept", "read", "dataAccept", "send"}
Transfers == {"dataAccept", "prelim", "open", "send", "finish"}
Handling  == Transfers \cup {"reply"}
Ended     == {"exited", "killed"}
PCs       == {"call", "test"} \cup Blocking \cup Handling \cup Ended

-----------------------------------------------------------------------------
(***************************************************************************)
(* Closing.  CloseClientSocket, VSFTPServerCloseTransferSocket and         *)
(* VSFTPServerCloseTransferClientSocket are one piece of code: shut down,  *)
(* close only if that succeeded, and forget the number in either case.     *)
(***************************************************************************)
\* Mutant: close() whatever shutdown() returned.
CloseSocketAlways(d, f) == Close(d, f)

CloseSocket(d, f) == IF CanShutdown(d, f) THEN Close(d, f) ELSE d

\* VSFTPServerCloseTransferClientSocket(); VSFTPServerCloseTransferSocket();
\* Mutant: only the first.
CloseTransferClientOnly(d) == CloseSocket(d, transferClientSock)

CloseTransferSockets(d) == CloseSocket(CloseSocket(d, transferClientSock), transferSock)

\* Mutant: the numbers stay after close().
KeepTransferNumbers == UNCHANGED <<transferSock, transferClientSock>>

ForgetTransferSockets == transferSock' = None /\ transferClientSock' = None

\* VSFTPServerClientDisconnect, from table d.
\* Mutant: the transfer sockets are not closed.
DisconnectClientOnly(d) ==
  /\ desc' = CloseSocket(d, clientSock)
  /\ clientSock' = None
  /\ isConnected' = FALSE
  /\ UNCHANGED <<serverSock, transferSock, transferClientSock, isServerSocketCreated>>

ClientDisconnect(d) ==
  /\ desc' = CloseSocket(CloseTransferSockets(d), clientSock)
  /\ ForgetTransferSockets
  /\ clientSock' = None
  /\ isConnected' = FALSE
  /\ UNCHANGED <<serverSock, isServerSocketCreated>>

\* VSFTPServerStop, from table d.
ServerStop(d) ==
  /\ desc' = Close(CloseSocket(CloseTransferSockets(d), clientSock), serverSock)
  /\ ForgetTransferSockets
  /\ clientSock' = None
  /\ serverSock' = None
  /\ isConnected' = FALSE
  /\ isServerSocketCreated' = FALSE

(***************************************************************************)
(* CreatePassiveSocket: the outcomes it can have from table d.  socket()   *)
(* may find no free descriptor, and fcntl(), setsockopt(), bind() or       *)
(* listen() may fail ("bind"); then the new socket is closed, but its      *)
(* number has already been stored in *sock and stays there.                *)
(***************************************************************************)
CreatePassiveSocket(d) ==
  LET created == {[sock |-> f, table |-> [d EXCEPT ![f] = "listening"], retval |-> 0] :
                    f \in LowestFree(d)}
      noDescriptor == {[sock |-> None, table |-> d, retval |-> -1]}
      closedAgain == {[sock |-> f, table |-> d, retval |-> -1] : f \in LowestFree(d)}
  IN  created \cup (IF Full(d) THEN noDescriptor ELSE {})
              \cup (IF "bind" \in Faults THEN closedAgain ELSE {})

-----------------------------------------------------------------------------
(***************************************************************************)
(* VSFTPServerStart, called by VSFTPServerHandler when there is no server  *)
(* socket.  transferClientSock is not initialised here.  The root          *)
(* directory may be gone ("rootGone"), in which case SetCwd fails.         *)
(***************************************************************************)
ServerStart ==
  /\ pc = "call" /\ ~isServerSocketCreated
  /\ transferSock' = None
  /\ clientSock' = None
  /\ \/ /\ cwd' = RootDir
        /\ transferModeBinary' = TRUE
        /\ \E r \in CreatePassiveSocket(desc) :
             /\ serverSock' = r.sock
             /\ desc' = r.table
             /\ retval' = r.retval
             /\ isServerSocketCreated' = (r.retval = 0)
     \/ /\ "rootGone" \in Faults
        /\ serverSock' = None
        /\ retval' = -1
        /\ UNCHANGED <<settings, desc, isServerSocketCreated>>
  /\ pc' = "test"
  /\ UNCHANGED <<transferClientSock, isConnected, quit, interrupted, transfer, inbox, replies>>

(***************************************************************************)
(* WaitForIncomingConnection.  The first step is the call of accept(): a   *)
(* signal that comes before it does not wake the thread.                   *)
(***************************************************************************)
CallAccept ==
  /\ pc = "call" /\ isServerSocketCreated /\ ~isConnected
  /\ pc' = "accept"
  /\ UNCHANGED <<sockets, settings, flags, retval, quit, interrupted, transfer, desc, inbox, replies>>

\* The directory a new session starts in.
\* Mutant: the one the session before was in.
SessionDirKept == cwd

SessionDir == RootDir

\* accept() returns a connection in state s as descriptor f: change to the
\* root directory and greet the client.  If either fails the handler fails,
\* unless the greeting raises SIGPIPE.
AcceptClient ==
  /\ pc = "accept" /\ Is(desc, serverSock, {"ready"})
  /\ \E f \in LowestFree(desc), s \in AcceptedState :
       LET accepted == [desc EXCEPT ![serverSock] = "listening", ![f] = s]
       IN  /\ clientSock' = f
           /\ \/ /\ cwd' = SessionDir
                 /\ desc' = ErrorReported(accepted, f)
                 /\ IF CanWrite(accepted, f)
                    THEN isConnected' = TRUE /\ retval' = 0 /\ replies' = <<220>>
                    ELSE retval' = -1 /\ replies' = <<>> /\ UNCHANGED isConnected
                 /\ pc' = IF RaisesPipe(accepted, f) THEN "killed" ELSE "test"
              \/ /\ "rootGone" \in Faults
                 /\ desc' = accepted
                 /\ retval' = -1
                 /\ replies' = <<>>
                 /\ pc' = "test"
                 /\ UNCHANGED <<cwd, isConnected>>
  /\ inbox' = <<>>
  /\ interrupted' = FALSE
  /\ UNCHANGED <<serverSock, transferSock, transferClientSock, transferModeBinary,
                 isServerSocketCreated, quit, transfer>>

\* accept() fails: no free descriptor (EMFILE), or a signal (EINTR).  The
\* server is stopped, but the handler returns 0.
AcceptFails ==
  /\ pc = "accept"
  /\ Full(desc) \/ interrupted
  /\ ServerStop(desc)
  /\ retval' = 0
  /\ interrupted' = FALSE
  /\ pc' = "test"
  /\ UNCHANGED <<settings, quit, transfer, inbox, replies>>

-----------------------------------------------------------------------------
(***************************************************************************)
(* HandleConnection: read() once from the client.  The client's bytes are  *)
(* a sequence of tokens, a command line or the EOL that ends it, and one   *)
(* read() returns some of them: everything that has arrived, or with       *)
(* "fragment" any part of it, since a TCP connection keeps no message      *)
(* boundaries.  What one read() returns is taken as one command if it is   *)
(* longer than an EOL and ends with one.                                   *)
(***************************************************************************)
CallRead ==
  /\ pc = "call" /\ isServerSocketCreated /\ isConnected
  /\ pc' = "read"
  /\ UNCHANGED <<sockets, settings, flags, retval, quit, interrupted, transfer, desc, inbox, replies>>

ReadSizes == IF "fragment" \in Faults THEN 1 .. Len(inbox) ELSE {Len(inbox)} \ {0}

IsCommand(chunk) == Len(chunk) > 1 /\ chunk[Len(chunk)] = EOL

\* read() returns the first n tokens and leaves the rest.
Receive(n) == inbox' = SubSeq(inbox, n + 1, Len(inbox)) /\ interrupted' = FALSE

\* read() returned data that is not a whole command line.  It is handled as
\* a failed read(): errno, whatever is left there, is not EAGAIN, since no
\* descriptor of the server is non-blocking, so the server is stopped.
ReadPartialLine ==
  /\ pc = "read"
  /\ \E n \in ReadSizes : ~IsCommand(SubSeq(inbox, 1, n)) /\ Receive(n)
  /\ ServerStop(desc)
  /\ retval' = 0
  /\ pc' = "test"
  /\ UNCHANGED <<settings, quit, transfer, replies>>

\* read() returned 0: the client has ended the connection.
\* Mutant: nothing is done about it.
IgnoreEndOfFile ==
  /\ pc = "read" /\ inbox = <<>>
  /\ Is(desc, clientSock, {"fin", "broken"})
  /\ retval' = 0
  /\ interrupted' = FALSE
  /\ pc' = "test"
  /\ UNCHANGED <<sockets, flags, settings, quit, transfer, desc, inbox, replies>>

ReadEndOfFile ==
  /\ pc = "read" /\ inbox = <<>>
  /\ Is(desc, clientSock, {"fin", "broken"})
  /\ ClientDisconnect(desc)
  /\ retval' = 0
  /\ interrupted' = FALSE
  /\ pc' = "test"
  /\ UNCHANGED <<settings, quit, transfer, inbox, replies>>

\* read() failed: the client has reset the connection, or a signal came.
\* The server is stopped and the handler returns the error to main().
ReadFails ==
  /\ pc = "read"
  /\ interrupted \/ (inbox = <<>> /\ Is(desc, clientSock, {"rst"}))
  /\ ServerStop(ErrorReported(desc, clientSock))
  /\ retval' = -1
  /\ interrupted' = FALSE
  /\ pc' = "test"
  /\ UNCHANGED <<settings, quit, transfer, inbox, replies>>
=============================================================================
