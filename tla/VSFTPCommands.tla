---------------------------- MODULE VSFTPCommands ----------------------------
(***************************************************************************)
(* The FTP commands (vsftp_commands.c) and how HandleConnection ends one.  *)
(* What the file system answers (a path exists, is a file, is inside the   *)
(* root) is a choice here: the order of the calls is what this module is   *)
(* about.                                                                  *)
(***************************************************************************)
EXTENDS VSFTPServer

(***************************************************************************)
(* The end of a command: the handler has closed what it closes, which      *)
(* leaves the table d and the transfer sockets ts and tcs, and returns     *)
(* VSFTPServerSendReply(code); HandleConnection then returns 0.  If the    *)
(* reply cannot be sent HandleConnection closes the transfer sockets.      *)
(* said is what the client was sent for this command before.               *)
(***************************************************************************)
Conclude(d, ts, tcs, said, code) ==
  /\ retval' = 0
  /\ \/ /\ CanWrite(d, clientSock)
        /\ pc' = "test"
        /\ replies' = Append(said, code)
        /\ desc' = d
        /\ transferSock' = ts
        /\ transferClientSock' = tcs
     \/ /\ ~CanWrite(d, clientSock) /\ ~RaisesPipe(d, clientSock)
        /\ pc' = "test"
        /\ replies' = said
        /\ desc' = CloseSocket(CloseSocket(ErrorReported(d, clientSock), tcs), ts)
        /\ ForgetTransferSockets
     \/ /\ RaisesPipe(d, clientSock)
        /\ pc' = "killed"
        /\ replies' = said
        /\ desc' = d
        /\ transferSock' = ts
        /\ transferClientSock' = tcs

\* A command whose handler only replies.
JustReply(code) ==
  /\ Conclude(desc, transferSock, transferClientSock, <<>>, code)
  /\ UNCHANGED <<serverSock, clientSock, flags, transfer>>

\* The commands that only tell something; what they find in the file system,
\* and with it the reply, is a choice.
CommandHandlerSyst(c) == c = "SYST" /\ JustReply(215)
CommandHandlerPwd(c)  == c = "PWD"  /\ \E code \in {257, 550} : JustReply(code)
CommandHandlerSize(c) == c = "SIZE" /\ \E code \in {213, 550, 451} : JustReply(code)
CommandHandlerHelp(c) == c = "HELP" /\ JustReply(214)
CommandHandlerQuit(c) == c = "QUIT" /\ JustReply(221)

\* A wrong user is told so and disconnected.
CommandHandlerUser(c) ==
  \/ /\ c = "USER"
     /\ JustReply(230)
     /\ UNCHANGED settings
  \/ /\ c = "USER ?" /\ ~RaisesPipe(desc, clientSock)
     /\ replies' = IF CanWrite(desc, clientSock) THEN <<530>> ELSE <<>>
     /\ ClientDisconnect(ErrorReported(desc, clientSock))
     /\ retval' = 0
     /\ pc' = "test"
     /\ UNCHANGED <<settings, transfer>>
  \/ /\ c = "USER ?" /\ RaisesPipe(desc, clientSock)
     /\ JustReply(530)
     /\ UNCHANGED settings

\* The mode changes only if the reply could be sent.
\* Mutant: it changes before the reply.
TypeBeforeReply(c) ==
  /\ \/ /\ c \in {"TYPE I", "TYPE A"}
        /\ JustReply(SwitchingTo(c = "TYPE I"))
        /\ transferModeBinary' = (c = "TYPE I")
     \/ c = "TYPE ?" /\ JustReply(504) /\ UNCHANGED transferModeBinary
  /\ UNCHANGED cwd

CommandHandlerType(c) ==
  /\ \/ /\ c \in {"TYPE I", "TYPE A"}
        /\ JustReply(SwitchingTo(c = "TYPE I"))
        /\ transferModeBinary' = IF CanWrite(desc, clientSock) THEN c = "TYPE I" ELSE transferModeBinary
     \/ /\ c = "TYPE ?"
        /\ JustReply(504)
        /\ UNCHANGED transferModeBinary
  /\ UNCHANGED cwd

\* The directory changes before the reply is sent.
CommandHandlerCwd(c) ==
  /\ c = "CWD"
  /\ \/ \E dir \in Dirs : cwd' = dir /\ JustReply(250)
     \/ cwd' = cwd /\ JustReply(550)
  /\ UNCHANGED transferModeBinary

\* Close what an earlier PASV left, create a new passive socket and tell the
\* client its port.  When that fails transferSock is what CreatePassiveSocket
\* stored there.
CommandHandlerPasv(c) ==
  /\ c = "PASV"
  /\ \E r \in CreatePassiveSocket(CloseTransferSockets(desc)) :
       Conclude(r.table, r.sock, None, <<>>, IF r.retval = 0 THEN 227 ELSE 425)
  /\ UNCHANGED <<serverSock, clientSock, flags, settings, transfer>>

\* Not in the table of commands: after the reply HandleConnection closes the
\* transfer sockets, since a client may have sent PASV for a list command that
\* the server does not have.
\* Mutant: without a reply.
RejectSilently(c) ==
  /\ c = "other"
  /\ desc' = CloseTransferSockets(desc)
  /\ ForgetTransferSockets
  /\ retval' = 0 /\ pc' = "test" /\ replies' = <<>>
  /\ UNCHANGED <<serverSock, clientSock, flags, settings, transfer>>

RejectCommand(c) ==
  /\ c = "other"
  /\ \/ /\ ~RaisesPipe(desc, clientSock)
        /\ Conclude(CloseTransferSockets(desc), None, None, <<>>, 502)
        /\ UNCHANGED <<serverSock, clientSock, flags, transfer>>
     \/ RaisesPipe(desc, clientSock) /\ JustReply(502)
  /\ UNCHANGED settings

-----------------------------------------------------------------------------
(***************************************************************************)
(* NLST and RETR: check the path, accept the data connection, send 150,    *)
(* send the data, close the transfer sockets, send the last reply.         *)
(***************************************************************************)
\* A path that does not exist or may not be listed, and any later failure.
PathFailCodes == [NLST |-> {550}, RETR |-> {551, 451}]
FailCode      == [NLST |-> 550, RETR |-> 451]

BeginTransfer(c) ==
  /\ c \in {"NLST", "RETR"}
  /\ \/ /\ Is(desc, transferSock, Passive)
        /\ cmd' = c
        /\ pc' = "dataAccept"
        /\ replies' = <<>>
        /\ UNCHANGED <<desc, transferSock, transferClientSock, retval>>
     \/ /\ \E code \in PathFailCodes[c] \cup
                         (IF Is(desc, transferSock, Passive) THEN {} ELSE {FailCode[c]}) :
             Conclude(CloseTransferSockets(desc), None, None, <<>>, code)
        /\ UNCHANGED cmd
  /\ UNCHANGED <<serverSock, clientSock, flags, settings, stream, left>>

VSFTPCommandsParse(c) ==
  \/ CommandHandlerUser(c)
  \/ CommandHandlerPasv(c)
  \/ CommandHandlerCwd(c)
  \/ CommandHandlerType(c)
  \/ (CommandHandlerSyst(c) \/ CommandHandlerPwd(c) \/ CommandHandlerSize(c) \/
      CommandHandlerHelp(c) \/ CommandHandlerQuit(c)) /\ UNCHANGED settings
  \/ BeginTransfer(c)
  \/ RejectCommand(c)

\* The command a chunk of input is.  A second line in the chunk becomes part
\* of the argument of the first.
CommandOf(chunk) ==
  IF chunk[1] = EOL THEN "other"
  ELSE IF Len(chunk) = 2 THEN chunk[1]
  ELSE IF chunk[1] = "USER" THEN "USER ?"
  ELSE IF chunk[1] \in {"TYPE I", "TYPE A"} THEN "TYPE ?"
  ELSE chunk[1]

ReadCommand ==
  /\ pc = "read"
  /\ \E n \in ReadSizes :
       /\ IsCommand(SubSeq(inbox, 1, n))
       /\ VSFTPCommandsParse(CommandOf(SubSeq(inbox, 1, n)))
       /\ Receive(n)
  /\ UNCHANGED quit

-----------------------------------------------------------------------------
(***************************************************************************)
(* The steps of a transfer.  The thread waits in accept() until somebody   *)
(* connects to the passive socket, and in write() while the client does    *)
(* not take the data.                                                      *)
(***************************************************************************)
handler == <<serverSock, clientSock, settings, flags, quit, inbox>>

AcceptTransferClient ==
  /\ pc = "dataAccept" /\ Is(desc, transferSock, {"ready"})
  /\ \E f \in LowestFree(desc), s \in AcceptedState :
       /\ transferClientSock' = f
       /\ desc' = [desc EXCEPT ![transferSock] = "listening", ![f] = s]
  /\ pc' = "prelim"
  /\ retval' = 0
  /\ interrupted' = FALSE
  /\ UNCHANGED <<handler, transferSock, transfer, replies>>

AcceptTransferClientFails ==
  /\ pc = "dataAccept"
  /\ Full(desc) \/ interrupted
  /\ pc' = "finish"
  /\ retval' = -1
  /\ interrupted' = FALSE
  /\ UNCHANGED <<handler, transferSock, transferClientSock, transfer, desc, replies>>

\* The reply does not fit RESPONSE_LEN_MAX when the name RETR was given is
\* too long: SendReply then fails before it writes.
SendPreliminaryReply ==
  /\ pc = "prelim"
  /\ \/ /\ CanWrite(desc, clientSock)
        /\ replies' = Append(replies, 150)
        /\ pc' = "open"
        /\ UNCHANGED <<retval, desc>>
     \/ /\ ~RaisesPipe(desc, clientSock)
        /\ ~CanWrite(desc, clientSock) \/ cmd = "RETR"
        /\ retval' = -1
        /\ pc' = "finish"
        /\ desc' = IF CanWrite(desc, clientSock) THEN desc ELSE ErrorReported(desc, clientSock)
        /\ UNCHANGED replies
     \/ /\ RaisesPipe(desc, clientSock)
        /\ pc' = "killed"
        /\ UNCHANGED <<retval, desc, replies>>
  /\ UNCHANGED <<handler, transferSock, transferClientSock, interrupted, transfer>>

\* Open the directory or the file.  A directory has at least one entry.
OpenSource ==
  /\ pc = "open"
  /\ \/ /\ \E f \in LowestFree(desc) : stream' = f /\ desc' = [desc EXCEPT ![f] = "file"]
        /\ left' \in 0 .. MaxChunks
        /\ cmd = "NLST" => left' > 0
        /\ pc' = "send"
        /\ UNCHANGED retval
     \/ /\ retval' = -1
        /\ pc' = "finish"
        /\ UNCHANGED <<stream, left, desc>>
  /\ UNCHANGED <<handler, transferSock, transferClientSock, interrupted, cmd, replies>>

\* One buffer or one line is written to the data connection.
\* Mutant: the loop does not test whether anything is left.
SendChunkUnguarded ==
  /\ pc = "send"
  /\ CanWrite(desc, transferClientSock)
  /\ left' = left - 1
  /\ interrupted' = FALSE
  /\ UNCHANGED <<handler, transferSock, transferClientSock, cmd, stream, pc, retval, desc, replies>>

SendChunk ==
  /\ pc = "send" /\ left > 0
  /\ CanWrite(desc, transferClientSock)
  /\ left' = left - 1
  /\ interrupted' = FALSE
  /\ UNCHANGED <<handler, transferSock, transferClientSock, cmd, stream, pc, retval, desc, replies>>

\* write() fails: the peer has reset the connection, or a signal came while
\* the thread waited.  RETR closes the file.  NLST leaves the directory open,
\* unless it was at the last line, which it sends after closing it.
SendFails ==
  /\ pc = "send" /\ left > 0
  /\ interrupted \/ Is(desc, transferClientSock, {"rst"})
  /\ LET d == ErrorReported(desc, transferClientSock)
     IN  \/ desc' = Close(d, stream)
         \/ cmd = "NLST" /\ desc' = d
  /\ retval' = -1
  /\ pc' = "finish"
  /\ stream' = None
  /\ left' = 0
  /\ interrupted' = FALSE
  /\ UNCHANGED <<handler, transferSock, transferClientSock, cmd, replies>>

SendRaisesPipe ==
  /\ pc = "send" /\ left > 0
  /\ RaisesPipe(desc, transferClientSock)
  /\ pc' = "killed"
  /\ UNCHANGED <<handler, transferSock, transferClientSock, interrupted, transfer, retval, desc, replies>>

\* The end of the file or directory, or an error in reading it; either way
\* it is closed.  NLST takes an error of readdir() for the end.
\* Mutant: it is left open.
EndOfSourceLeaks ==
  /\ pc = "send"
  /\ \/ left = 0 /\ retval' = 0
     \/ left > 0 /\ (retval' = -1 \/ (cmd = "NLST" /\ retval' = 0))
  /\ stream' = None
  /\ left' = 0
  /\ pc' = "finish"
  /\ interrupted' = FALSE
  /\ UNCHANGED <<handler, transferSock, transferClientSock, cmd, desc, replies>>

EndOfSource ==
  /\ pc = "send"
  /\ \/ left = 0 /\ retval' = 0
     \/ left > 0 /\ (retval' = -1 \/ (cmd = "NLST" /\ retval' = 0))
  /\ desc' = Close(desc, stream)
  /\ stream' = None
  /\ left' = 0
  /\ pc' = "finish"
  /\ interrupted' = FALSE
  /\ UNCHANGED <<handler, transferSock, transferClientSock, cmd, replies>>

\* VSFTPServerCloseTransferClientSocket(); VSFTPServerCloseTransferSocket();
\* Mutants: only the data port is closed; the reply is sent before.
CloseTransferKeepsConnection ==
  /\ pc = "finish"
  /\ desc' = CloseSocket(desc, transferSock)
  /\ transferSock' = None
  /\ pc' = "reply"
  /\ UNCHANGED <<handler, transferClientSock, interrupted, transfer, retval, replies>>
CloseTransferAfterReply ==
  /\ \/ pc = "finish" /\ pc' = "reply" /\ UNCHANGED <<desc, transferSock, transferClientSock>>
     \/ pc = "reply" /\ pc' = "test" /\ desc' = CloseTransferSockets(desc) /\ ForgetTransferSockets
  /\ replies' = IF pc = "finish" THEN Append(replies, IF retval = 0 THEN 226 ELSE 550) ELSE replies
  /\ UNCHANGED <<handler, interrupted, transfer, retval>>

CloseTransfer ==
  /\ pc = "finish"
  /\ desc' = CloseTransferSockets(desc)
  /\ ForgetTransferSockets
  /\ pc' = "reply"
  /\ UNCHANGED <<handler, interrupted, transfer, retval, replies>>

\* Tell the client how it went.
\* Mutant: always that it went well.
ReplyAlwaysWell ==
  /\ pc = "reply"
  /\ Conclude(desc, transferSock, transferClientSock, replies, 226)
  /\ cmd' = "none"
  /\ UNCHANGED <<handler, interrupted, stream, left>>

ReplyToTransfer ==
  /\ pc = "reply"
  /\ Conclude(desc, transferSock, transferClientSock, replies,
              IF retval = 0 THEN 226 ELSE FailCode[cmd])
  /\ cmd' = "none"
  /\ UNCHANGED <<handler, interrupted, stream, left>>
=============================================================================
