------------------------------- MODULE VSFTPMain -------------------------------
(***************************************************************************)
(* The whole program: the main loop (main.c), the server it drives, the    *)
(* SIGTERM handler, and around them the client and the network.            *)
(***************************************************************************)
EXTENDS VSFTPCommands

(***************************************************************************)
(* serverData is static, so every member starts as zero: the four socket   *)
(* numbers are 0, which is the descriptor of standard input.               *)
(***************************************************************************)
Init ==
  /\ serverSock = 0 /\ clientSock = 0 /\ transferSock = 0 /\ transferClientSock = 0
  /\ cwd = NoDir
  /\ transferModeBinary = FALSE
  /\ isConnected = FALSE /\ isServerSocketCreated = FALSE
  /\ pc = "call" /\ retval = 0
  /\ quit = FALSE /\ interrupted = FALSE
  /\ cmd = "none" /\ stream = None /\ left = 0
  /\ desc \in {[[f \in Fd |-> "free"] EXCEPT ![Stdin] = s] :
                 s \in {"file"} \cup (IF "stdinSocket" \in Faults THEN {"up"} ELSE {})}
  /\ inbox = <<>> /\ replies = <<>>

-----------------------------------------------------------------------------
(***************************************************************************)
(* main().  The handler has returned: go on while it returns 0 and nobody  *)
(* has asked the process to end.                                           *)
(***************************************************************************)
\* Mutant: quit is not tested.
LoopForEver ==
  /\ pc = "test" /\ retval = 0
  /\ pc' = "call"
  /\ UNCHANGED <<sockets, settings, flags, retval, quit, interrupted, transfer, desc, inbox, replies>>

LoopTest ==
  /\ pc = "test" /\ retval = 0 /\ ~quit
  /\ pc' = "call"
  /\ UNCHANGED <<sockets, settings, flags, retval, quit, interrupted, transfer, desc, inbox, replies>>

\* Stop the server and return retval as the exit status.
\* Mutant: the server is not stopped.
ExitWithoutStop ==
  /\ pc = "test" /\ (retval # 0 \/ quit)
  /\ pc' = "exited"
  /\ UNCHANGED <<sockets, settings, flags, retval, quit, interrupted, transfer, desc, inbox, replies>>

Exit ==
  /\ pc = "test" /\ (retval # 0 \/ quit)
  /\ ServerStop(desc)
  /\ pc' = "exited"
  /\ UNCHANGED <<settings, retval, quit, interrupted, transfer, inbox, replies>>

(***************************************************************************)
(* Terminate, the SIGTERM handler.  It runs wherever the thread is.  The   *)
(* handler is installed without SA_RESTART, so a system call in which the  *)
(* thread waits fails with EINTR.                                          *)
(***************************************************************************)
Terminate ==
  /\ "signal" \in Faults /\ ~quit
  /\ pc \notin Ended
  /\ quit' = TRUE
  /\ interrupted' = (pc \in Blocking)
  /\ UNCHANGED <<sockets, settings, flags, pc, retval, transfer, desc, inbox, replies>>

-----------------------------------------------------------------------------
(***************************************************************************)
(* The client and the network: they act at any time while the process      *)
(* lives.                                                                  *)
(***************************************************************************)
process == <<sockets, settings, flags, pc, retval, quit, interrupted, transfer, replies>>

\* Somebody connects to the server, or to the data port.
PeerConnects ==
  \E f \in {serverSock, transferSock} :
    /\ Is(desc, f, {"listening"})
    /\ desc' = [desc EXCEPT ![f] = "ready"]
    /\ UNCHANGED inbox

\* The client has been sent the last reply to what it sent before.
HasBeenAnswered == inbox = <<>> /\ replies # <<>> /\ replies[Len(replies)] # 150

\* The client sends a command line.  A polite client waits for the answer to
\* the one before; with "pipeline" it does not.  With "fragment" a line may
\* be an empty one.
ClientSends ==
  /\ Is(desc, clientSock, {"up"})
  /\ HasBeenAnswered \/ "pipeline" \in Faults
  /\ \E tokens \in {<<line, EOL>> : line \in Lines}
                     \cup (IF "fragment" \in Faults THEN {<<EOL>>} ELSE {}) :
       /\ Len(inbox) + Len(tokens) <= MaxInbox
       /\ inbox' = inbox \o tokens
  /\ UNCHANGED desc

\* The other side of the client or the data connection ends its sending side.
PeerCloses ==
  \E f \in {clientSock, transferClientSock} :
    /\ Is(desc, f, {"up"})
    /\ desc' = [desc EXCEPT ![f] = "fin"]
    /\ UNCHANGED inbox

\* It resets the connection.
PeerResets ==
  /\ "reset" \in Faults
  /\ \E f \in {clientSock, transferClientSock} :
       /\ Is(desc, f, {"up", "fin"})
       /\ desc' = [desc EXCEPT ![f] = IF @ = "up" THEN "rst" ELSE "broken"]
       /\ UNCHANGED inbox

Environment ==
  /\ pc \notin Ended
  /\ PeerConnects \/ ClientSends \/ PeerCloses \/ PeerResets
  /\ UNCHANGED process

-----------------------------------------------------------------------------
(***************************************************************************)
(* VSFTPServerHandler picks Start, WaitForIncomingConnection or            *)
(* HandleConnection by the two flags: they are guards of the actions       *)
(* ServerStart, CallAccept and CallRead.                                   *)
(***************************************************************************)
VSFTPServerHandler ==
  \/ ServerStart
  \/ CallAccept \/ AcceptClient \/ AcceptFails
  \/ CallRead \/ ReadCommand \/ ReadPartialLine \/ ReadEndOfFile \/ ReadFails
  \/ AcceptTransferClient \/ AcceptTransferClientFails
  \/ SendPreliminaryReply \/ OpenSource
  \/ SendChunk \/ SendFails \/ SendRaisesPipe \/ EndOfSource
  \/ CloseTransfer \/ ReplyToTransfer

ServerStep == VSFTPServerHandler \/ LoopTest \/ Exit

\* The process has ended; nothing happens any more.
Terminated == pc \in Ended /\ UNCHANGED vars

Next == ServerStep \/ Terminate \/ Environment \/ Terminated

Spec == Init /\ [][Next]_vars

(***************************************************************************)
(* The thread runs whenever it can.  The client, the network and the       *)
(* operator need never act; the one thing assumed of them is that an open  *)
(* connection takes what is written to it.                                 *)
(***************************************************************************)
FairSpec == Spec /\ WF_vars(ServerStep)

-----------------------------------------------------------------------------
(***************************************************************************)
(* Safety.                                                                 *)
(***************************************************************************)
Slots == {serverSock, clientSock, transferSock, transferClientSock}

\* Every variable has a value of its type.
TypeOK ==
  /\ Slots \subseteq Fd \cup {None}
  /\ cwd \in Dirs \cup {NoDir}
  /\ transferModeBinary \in BOOLEAN
  /\ isConnected \in BOOLEAN /\ isServerSocketCreated \in BOOLEAN
  /\ pc \in PCs
  /\ retval \in {-1, 0}
  /\ quit \in BOOLEAN /\ interrupted \in BOOLEAN
  /\ cmd \in {"none", "NLST", "RETR"}
  /\ stream \in Fd \cup {None}
  /\ left \in 0 .. MaxChunks
  /\ desc \in [Fd -> DescState]
  /\ inbox \in Seq(Lines \cup {EOL})
  /\ replies \in Seq(Int)

\* Once the server has started two members of serverData never stand for the same open descriptor, so
\* closing one socket never closes another one's connection.  The kernel
\* reuses numbers at once, and stale ones stay in transferSock (after a 425)
\* and in transferClientSock (0 from the start).
SlotsDistinct ==
  LET open(f) == Is(desc, f, DescState \ {"free"})
  IN  isServerSocketCreated =>
      /\ open(serverSock) => serverSock \notin {clientSock, transferSock, transferClientSock}
      /\ open(clientSock) => clientSock \notin {transferSock, transferClientSock}
      /\ open(transferSock) => transferSock # transferClientSock

\* A listening socket or a connection whose peer is still there is never
\* forgotten: while it is open, serverData knows its number.  Stop,
\* ClientDisconnect and every command that fails rely on it, since they
\* forget the numbers whether or not the close worked.
Healthy == Passive \cup {"up", "fin"}
Ours(f) == f = Stdin => "stdinSocket" \notin Faults
HealthySockets(d) == {f \in Fd : d[f] \in Healthy /\ Ours(f)}
NoHealthySocketLost == HealthySockets(desc) \subseteq Slots

\* While the server waits for a client it holds nothing of the client before:
\* no connection to it, and no data port that it opened.
AcceptHoldsNothing ==
  pc = "accept" => /\ clientSock = None /\ transferSock = None
                   /\ transferClientSock \in {None, Stdin}
                   /\ Is(desc, serverSock, Passive)

\* Outside NLST and RETR there is no data connection: whichever way the
\* command before ended, it closed both transfer sockets.
DataConnectionOnlyInTransfer ==
  pc \in {"call", "test", "accept", "read", "reply"} => ~Is(desc, transferClientSock, {"up", "fin"})
                                              \/ transferClientSock = Stdin

\* A client that still reads has been sent exactly one last reply for the
\* command it sent (or the greeting), after at most one 150, and 226 only
\* after 150: whatever failed in between, it can go on counting replies.
FinalReplies == {213, 214, 215, 220, 221, 226, 227, 230, 250, 257, 2000, 2001, 425, 451, 502, 504, 530, 550, 551}
AnsweredOnce ==
  pc = "test" /\ retval = 0 /\ isConnected /\ CanWrite(desc, clientSock) =>
    \/ \E code \in FinalReplies \ {226} : replies = <<code>>
    \/ \E code \in {226, 451, 550} : replies = <<150, code>>

\* The client is told 226 only after the data connection has ended: from then
\* on no descriptor of the process, under whatever number, is a passive socket
\* or a connection whose peer is there, but for the server's socket and the
\* client's control connection.  (One that the peer has reset has ended for it,
\* whether or not its descriptor is still open.)
DataClosedBefore226 ==
  226 \in {replies[i] : i \in DOMAIN replies} =>
    HealthySockets(desc) \subseteq {serverSock, clientSock}

\* Standard input stays open as long as it is not a socket, although the
\* uninitialised transferClientSock names it and every clean-up before the
\* first transfer tries to close it.
StdinKept == "stdinSocket" \notin Faults => desc[Stdin] = "file"

\* Without resets and signals nothing leaks: while the server waits for a
\* client, standard input and its own socket are all it has open.
NothingLeaks ==
  pc = "accept" /\ Faults \cap {"reset", "signal"} = {} =>
    \A f \in Fd : desc[f] # "free" => f \in {Stdin, serverSock}

\* When the process exits by itself, whatever was going on, every socket whose
\* other side is still there has been shut down in order, so that no peer is
\* left to take the end of the process for the end of its data.
ClosedAtExit == pc = "exited" => HealthySockets(desc) = {}

(***************************************************************************)
(* What a step may never do.                                               *)
(***************************************************************************)
\* A session starts in the root directory with no data port, wherever the
\* session before was and however it ended.
FreshSession ==
  [][~isConnected /\ isConnected' =>
       cwd' = RootDir /\ transferSock' = None /\ inbox' = <<>>]_vars

(***************************************************************************)
(* Liveness.                                                               *)
(***************************************************************************)
\* What a client has sent is read and answered, provided that the server does
\* not wait for ever for a data connection that nobody opens.
DataConnectionsCome == []<>(pc # "dataAccept")
InputIsAnswered ==
  DataConnectionsCome => (isConnected /\ inbox # <<>> ~> pc = "test" /\ HasBeenAnswered)

\* When the client has ended the connection the server takes the next one.
NextClientIsServed ==
  DataConnectionsCome => (isConnected /\ Is(desc, clientSock, {"fin"}) ~> pc = "accept")

\* A signal that comes while the thread waits, or before the test of the loop,
\* ends the process, whatever else wakes the thread at the same time; again
\* provided that data connections come.
SignalEndsProcess ==
  DataConnectionsCome => (quit /\ (interrupted \/ pc = "test") ~> pc \in Ended)

-----------------------------------------------------------------------------
(***************************************************************************)
(* The inductive invariant from which VSFTPMain_proofs derives the         *)
(* theorems: what serverData holds at each place of the thread.            *)
(***************************************************************************)
\* The handler has failed: a client may have been accepted but not greeted.
Failing == pc = "test" /\ retval = -1

\* The flags decide where the thread can be; a transfer has its command.
FlagsOfPlace ==
  /\ pc \in Handling => cmd # "none"
  /\ pc = "accept" => isServerSocketCreated /\ ~isConnected
  /\ pc \in {"read"} \cup Handling => isServerSocketCreated /\ isConnected
  /\ isConnected => isServerSocketCreated

\* A started server without a client has no client socket and no data port.
NoClientYet ==
  isServerSocketCreated /\ ~isConnected /\ ~Failing /\ pc \notin Ended => clientSock = None
NoDataPortYet == isServerSocketCreated /\ ~isConnected => transferSock = None

\* Before the data connection is accepted there is none.
NoDataConnectionYet ==
  pc \notin (Transfers \ {"dataAccept"}) \cup Ended => transferClientSock \in {None, Stdin}

\* A server that is not started has nothing open.
NothingWhenStopped == ~isServerSocketCreated => HealthySockets(desc) = {}

\* Standard input is no descriptor of the server's that close() is called for
\* without a successful shutdown() before.
StdinNotOurs ==
  "stdinSocket" \notin Faults =>
    /\ desc[Stdin] = "file"
    /\ stream # Stdin
    /\ pc # "call" \/ isServerSocketCreated => serverSock # Stdin

IInv ==
  /\ TypeOK
  /\ FlagsOfPlace /\ NoClientYet /\ NoDataPortYet /\ NoDataConnectionYet
  /\ NothingWhenStopped /\ NoHealthySocketLost /\ StdinNotOurs

\* What each number in serverData stands for.  A started server has its socket
\* and a client socket that is a connection, whatever became of it; the number
\* in transferSock may be one that is free again (a PASV that failed after
\* socket()); transferClientSock may still be standard input.
SlotStates ==
  /\ pc = "exited" => ~isServerSocketCreated
  /\ isServerSocketCreated =>
       /\ Is(desc, serverSock, Passive)
       /\ clientSock = None \/ Is(desc, clientSock, Connected)
       /\ transferSock = None \/ Is(desc, transferSock, Passive \cup {"free"})
       /\ serverSock # transferSock
       /\ clientSock = None \/ clientSock # transferClientSock
  /\ isConnected => clientSock # None
  /\ \/ transferClientSock = None
     \/ Is(desc, transferClientSock, Connected)
     \/ transferClientSock = Stdin /\ desc[Stdin] = "file"
  /\ pc \in Transfers => Is(desc, transferSock, Passive)
  /\ pc \in {"prelim", "open", "send"} => Is(desc, transferClientSock, Connected)
  /\ IF pc = "send" THEN Is(desc, stream, {"file"}) ELSE pc = "killed" \/ stream = None

\* Without resets and signals no connection breaks and no stream is left open.
CleanTable ==
  Faults \cap {"reset", "signal"} = {} =>
    /\ ~interrupted
    /\ \A f \in Fd : /\ desc[f] \notin {"rst", "broken"}
                     /\ desc[f] = "file" => f \in {Stdin, stream}

\* What a transfer has told the client at each of its places, and that nothing
\* of it is known any more before the last reply.
RepliesOfPlace ==
  /\ pc \in {"dataAccept", "prelim"} => replies = <<>>
  /\ pc \in {"open", "send"} => replies = <<150>>
  /\ pc \in {"finish", "reply"} => replies = <<150>> \/ (replies = <<>> /\ retval = -1)
  /\ pc = "reply" => transferSock = None /\ transferClientSock = None

\* Inductive together with IInv.
SessionInv == SlotStates /\ CleanTable /\ RepliesOfPlace

-----------------------------------------------------------------------------
(***************************************************************************)
(* What the comments of the code say and the code does not do.  Each is    *)
(* checked by a run that expects a counterexample.                         *)
(***************************************************************************)
\* "just orderly shutdown and close everything" (VSFTPServerClientDisconnect
\* and VSFTPServerStop): after it no connection is open.  A reset one is.
EverythingClosed ==
  pc = "accept" => \A f \in Fd \ {Stdin, serverSock} : desc[f] = "free"

\* "This function will return 0 unless an unrecoverable exception occurs"
\* (main.c, of VSFTPServerHandler): it returns, and with something other than 0
\* only when the server can not go on, never because a client resets its
\* connection.  So without a signal the main loop does not end.
ClientCannotStopServer == pc = "exited" => quit

\* Terminate signals "main() that it should quit gracefully" (main.c): after
\* SIGTERM the process ends.
SignalledQuits == quit ~> pc \in Ended
=============================================================================
