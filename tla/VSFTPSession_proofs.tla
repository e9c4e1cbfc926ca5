-------------------------- MODULE VSFTPSession_proofs --------------------------
(***************************************************************************)
(* Theorems about the numbers in serverData (which descriptor each of them *)
(* stands for, that no two stand for the same one, and that none is left   *)
(* open) and about what a client is told (one last reply to a command, and *)
(* 226 only when no data connection and no data port is open any more,     *)
(* under whatever number).  They rest on SessionInv, which is inductive    *)
(* relative to the invariant IInv of VSFTPMain_proofs: first SlotStates    *)
(* and CleanTable, then RepliesOfPlace.                                    *)
(***************************************************************************)
EXTENDS VSFTPMain_proofs, SequenceTheorems

(***************************************************************************)
(* Lemmas about descriptor tables: what closing leaves of the others.      *)
(***************************************************************************)
\* Closing f and reporting its reset touch no other descriptor; CloseSocket
\* leaves f as it was or frees it.
LEMMA Elsewhere ==
  ASSUME NEW d \in Tables, NEW f \in SlotValues, NEW g \in Fd
  PROVE  /\ CloseSocket(d, f)[g] \in {d[g], "free"}
         /\ g # f => CloseSocket(d, f)[g] = d[g]
         /\ Close(d, f)[g] = IF g = f THEN "free" ELSE d[g]
         /\ g # f => ErrorReported(d, f)[g] = d[g]
         /\ ErrorReported(d, f)[g] = d[g] \/ (d[g] = "rst" /\ ErrorReported(d, f)[g] = "broken")
  BY DEF Tables, CloseSocket, CanShutdown, Is, Close, ErrorReported

\* A descriptor that is neither f nor h is as it was after both are closed.
LEMMA ElsewhereTwice ==
  ASSUME NEW d \in Tables, NEW f \in SlotValues, NEW h \in SlotValues, NEW g \in Fd
  PROVE  /\ CloseSocket(CloseSocket(d, f), h) \in Tables
         /\ CloseSocket(CloseSocket(d, f), h)[g] \in {d[g], "free"}
         /\ g \notin {f, h} => CloseSocket(CloseSocket(d, f), h)[g] = d[g]
<1>1. CloseSocket(d, f) \in Tables
  BY TablesClosed
<1>2. CloseSocket(CloseSocket(d, f), h) \in Tables
  BY <1>1, TablesClosed
<1> QED
  BY <1>1, <1>2, Elsewhere

-----------------------------------------------------------------------------
(***************************************************************************)
(* What the numbers stand for in table d, while a started server has the   *)
(* transfer sockets ts and tcs.                                            *)
(***************************************************************************)
DataConnectionIn(d, tcs) ==
  \/ tcs = None
  \/ Is(d, tcs, Connected)
  \/ tcs = Stdin /\ d[Stdin] = "file"

SocketsIn(d, ts, tcs) ==
  /\ Is(d, serverSock, Passive)
  /\ Is(d, clientSock, Connected)
  /\ ts = None \/ Is(d, ts, Passive \cup {"free"})
  /\ serverSock # ts
  /\ clientSock # tcs
  /\ DataConnectionIn(d, tcs)

\* The invariant of this module, without what it says of the stream.
LEMMA InSessionSlots ==
  ASSUME IInv, SlotStates, isConnected, pc # "killed"
  PROVE  /\ SocketsIn(desc, transferSock, transferClientSock)
         /\ isServerSocketCreated /\ clientSock # None
         /\ serverSock \in Fd /\ clientSock \in Fd
         /\ serverSock # transferClientSock /\ serverSock # clientSock /\ clientSock # transferSock
         /\ pc # "send" => stream = None
<1>1. isServerSocketCreated /\ clientSock # None
  BY Basics DEF Places, FlagsOfPlace, SlotStates
<1>2. SocketsIn(desc, transferSock, transferClientSock)
  BY <1>1 DEF SlotStates, SocketsIn, DataConnectionIn
<1>3. serverSock \in Fd /\ clientSock \in Fd
  BY <1>2 DEF SocketsIn, Is
<1>4. /\ serverSock # transferClientSock /\ serverSock # clientSock /\ clientSock # transferSock
  BY <1>2, Basics DEF SocketsIn, DataConnectionIn, Is, Passive, Connected
<1>5. pc # "send" => stream = None
  BY DEF SlotStates
<1> QED
  BY <1>1, <1>2, <1>3, <1>4, <1>5

\* Closing the transfer sockets leaves the server's and the client's.
LEMMA TransferSocketsGone ==
  ASSUME IInv, NEW d \in Tables, SocketsIn(d, transferSock, transferClientSock)
  PROVE  /\ CloseTransferSockets(d) \in Tables
         /\ SocketsIn(CloseTransferSockets(d), None, None)
         /\ CloseTransferSockets(d)[clientSock] = d[clientSock]
<1>1. transferSock \in SlotValues /\ transferClientSock \in SlotValues
  BY Basics DEF SlotsTyped, Slots
<1>2. serverSock \in Fd /\ clientSock \in Fd
  BY DEF SocketsIn, Is
<1>3. serverSock \notin {transferClientSock, transferSock} /\ clientSock \notin {transferClientSock, transferSock}
  BY <1>2, Basics DEF SocketsIn, DataConnectionIn, Is, Passive, Connected
<1> DEFINE e == CloseTransferSockets(d)
<1>4. e \in Tables /\ e[serverSock] = d[serverSock] /\ e[clientSock] = d[clientSock]
  <2>1. e = CloseSocket(CloseSocket(d, transferClientSock), transferSock)
    BY DEF CloseTransferSockets
  <2> HIDE DEF e
  <2> QED
    BY <1>1, <1>2, <1>3, <2>1, ElsewhereTwice
<1>5. SocketsIn(e, None, None)
  BY <1>2, <1>4, Basics DEF SocketsIn, DataConnectionIn, Is
<1> QED
  BY <1>4, <1>5

\* A command ends with sockets that are sound, whatever becomes of the reply.
LEMMA ConcludeSlots ==
  ASSUME IInv, NEW d \in Tables, NEW ts \in SlotValues, NEW tcs \in SlotValues,
         NEW said, NEW code, Conclude(d, ts, tcs, said, code),
         SocketsIn(d, ts, tcs), isConnected, stream = None,
         UNCHANGED <<serverSock, clientSock, flags, stream>>
  PROVE  SlotStates'
<1>1. serverSock \in Fd /\ clientSock \in Fd /\ clientSock # None
  BY Basics DEF SocketsIn, Is
<1>2. pc' \in {"test", "killed"} /\ isConnected' /\ stream' = None
  BY DEF Conclude, flags
<1>3. SocketsIn(desc', transferSock', transferClientSock')
  <2>1. CASE CanWrite(d, clientSock) \/ RaisesPipe(d, clientSock)
    BY <2>1 DEF Conclude
  <2>2. CASE ~CanWrite(d, clientSock) /\ ~RaisesPipe(d, clientSock)
    <3> DEFINE e == ErrorReported(d, clientSock)
               g == CloseSocket(CloseSocket(e, tcs), ts)
    <3>1. e \in Tables
      BY <1>1, TablesClosed DEF SlotValues
    <3>2. e[serverSock] = d[serverSock] /\ e[clientSock] \in Connected
      BY <1>1, Elsewhere DEF SocketsIn, Is, SlotValues, Passive, Connected
    <3>3. serverSock \notin {tcs, ts} /\ clientSock \notin {tcs, ts}
      BY <1>1, Basics DEF SocketsIn, DataConnectionIn, Is, Passive, Connected
    <3>4. desc' = g /\ transferSock' = None /\ transferClientSock' = None
      BY <2>2 DEF Conclude, ForgetTransferSockets
    <3> HIDE DEF e
    <3>5. g[serverSock] = e[serverSock] /\ g[clientSock] = e[clientSock]
      BY <1>1, <3>1, <3>3, ElsewhereTwice
    <3> QED
      BY <1>1, <3>2, <3>4, <3>5, Basics DEF SocketsIn, DataConnectionIn, Is
  <2> QED
    BY <2>1, <2>2
<1> QED
  BY <1>1, <1>2, <1>3 DEF SlotStates, SocketsIn, DataConnectionIn, Transfers, Handling

\* A new passive socket takes a number that was free and disturbs no other;
\* when there is none, the number left in *sock is invalid or free.
LEMMA CreateSlots ==
  ASSUME NEW d \in Tables, NEW r \in CreatePassiveSocket(d)
  PROVE  /\ r.sock \in SlotValues /\ r.table \in Tables
         /\ r.sock = None \/ Is(d, r.sock, {"free"})
         /\ r.retval = 0 => Is(r.table, r.sock, {"listening"})
         /\ r.retval # 0 => r.retval = -1 /\ r.table = d
         /\ \A g \in Fd : g # r.sock => r.table[g] = d[g]
<1>1. r.sock \in SlotValues /\ r.table \in Tables
  BY CreateOutcome
<1>2. CASE \E f \in LowestFree(d) :
             r = [sock |-> f, table |-> [d EXCEPT ![f] = "listening"], retval |-> 0]
  BY <1>1, <1>2 DEF Tables, LowestFree, Is
<1>3. CASE r = [sock |-> None, table |-> d, retval |-> -1]
  BY <1>1, <1>3
<1>4. CASE \E f \in LowestFree(d) : r = [sock |-> f, table |-> d, retval |-> -1]
  BY <1>1, <1>4 DEF LowestFree, Is
<1> QED
  BY <1>2, <1>3, <1>4 DEF CreatePassiveSocket

-----------------------------------------------------------------------------
(***************************************************************************)
(* SlotStates is inductive relative to IInv.                               *)
(***************************************************************************)
LEMMA InitSlots == Init => SlotStates
<1> SUFFICES ASSUME Init PROVE SlotStates
  OBVIOUS
<1>1. Stdin \in Fd
  BY MaxFdAssumption DEF Fd, Stdin
<1>2. desc[Stdin] \in {"file", "up"}
  BY <1>1 DEF Init
<1> QED
  BY <1>1, <1>2 DEF Init, SlotStates, Is, Connected, Transfers, Handling, Stdin

LEMMA StartSlots ==
  ASSUME IInv, SlotStates, ServerStart
  PROVE  SlotStates'
<1>1. /\ pc = "call" /\ pc' = "test" /\ stream = None /\ UNCHANGED <<stream, transferClientSock>>
      /\ ~isConnected /\ ~isConnected' /\ clientSock' = None /\ transferSock' = None
  BY Basics DEF ServerStart, Places, FlagsOfPlace, SlotStates, transfer
<1>2. DataConnectionIn(desc, transferClientSock)
  BY DEF SlotStates, DataConnectionIn
<1>3. CASE UNCHANGED desc /\ ~isServerSocketCreated'
  BY <1>1, <1>2, <1>3 DEF SlotStates, DataConnectionIn, Transfers, Handling
<1>4. ASSUME NEW r \in CreatePassiveSocket(desc), serverSock' = r.sock, desc' = r.table,
             isServerSocketCreated' = (r.retval = 0)
      PROVE  SlotStates'
  <2>1. /\ r.sock = None \/ Is(desc, r.sock, {"free"})
        /\ r.retval = 0 => Is(desc', serverSock', Passive)
        /\ \A g \in Fd : g # r.sock => desc'[g] = desc[g]
    BY <1>4, Basics, CreateSlots DEF Is, Passive
  <2>2. DataConnectionIn(desc', transferClientSock)
    BY <1>2, <2>1, Basics DEF DataConnectionIn, Is, Connected
  <2>3. r.retval = 0 => serverSock' # None
    BY <2>1, Basics DEF Is
  <2> QED
    BY <1>1, <1>4, <2>1, <2>2, <2>3 DEF SlotStates, DataConnectionIn, Transfers, Handling
<1>5. ~isServerSocketCreated
  BY DEF ServerStart
<1> QED
  BY <1>3, <1>4, <1>5 DEF ServerStart

\* The steps that only move the thread keep it.
LEMMA MoveSlots ==
  ASSUME IInv, SlotStates,
         CallAccept \/ CallRead \/ LoopTest \/ Terminate \/ Terminated \/ UNCHANGED vars
  PROVE  SlotStates'
<1>1. UNCHANGED <<sockets, flags, stream, desc>>
  BY DEF CallAccept, CallRead, LoopTest, Terminate, Terminated, vars, transfer
<1>2. \/ UNCHANGED pc
      \/ pc \in {"call", "test"} /\ pc' \in {"call", "accept", "read"}
  BY DEF CallAccept, CallRead, LoopTest, Terminate, Terminated, vars
<1> QED
  BY <1>1, <1>2 DEF SlotStates, sockets, flags, Transfers, Handling

\* A server that is stopped has none of it to keep.
LEMMA StopSlots ==
  ASSUME SlotStates, NEW d, ServerStop(d), UNCHANGED stream,
         pc \in {"accept", "read", "test"}, pc' \in {"test", "exited"}
  PROVE  SlotStates'
  BY DEF ServerStop, ForgetTransferSockets, SlotStates, Transfers, Handling

\* After a disconnect the server socket is still there.
LEMMA DisconnectSlots ==
  ASSUME IInv, SlotStates, NEW d \in Tables, SocketsIn(d, transferSock, transferClientSock),
         ClientDisconnect(d), UNCHANGED stream, pc = "read", pc' = "test"
  PROVE  SlotStates'
<1> DEFINE e == CloseTransferSockets(d)
<1>1. e \in Tables /\ SocketsIn(e, None, None)
  BY TransferSocketsGone
<1>2. /\ serverSock \in Fd /\ clientSock \in SlotValues /\ serverSock # clientSock
      /\ e[serverSock] \in Passive
  BY <1>1 DEF SocketsIn, Is, Passive, Connected, SlotValues
<1>3. desc' = CloseSocket(e, clientSock)
  BY DEF ClientDisconnect
<1> HIDE DEF e
<1>4. desc'[serverSock] \in Passive
  BY <1>1, <1>2, <1>3, Elsewhere
<1> QED
  BY <1>2, <1>4, Basics DEF ClientDisconnect, ForgetTransferSockets, SlotStates, Is, Transfers, Handling

\* A client is accepted as a number that was free.
LEMMA AcceptSlots ==
  ASSUME IInv, SlotStates, AcceptClient
  PROVE  SlotStates'
<1> DEFINE table(f, s) == [desc EXCEPT ![serverSock] = "listening", ![f] = s]
<1>1. PICK f \in LowestFree(desc), s \in AcceptedState :
        /\ clientSock' = f
        /\ desc' \in {ErrorReported(table(f, s), f), table(f, s)}
        /\ pc' \in {"test", "killed"}
        /\ isConnected' \in {TRUE, isConnected}
  <2>1. \E f \in LowestFree(desc), s \in AcceptedState :
          /\ clientSock' = f
          /\ desc' \in {ErrorReported(table(f, s), f), table(f, s)}
          /\ \/ pc' = IF RaisesPipe(table(f, s), f) THEN "killed" ELSE "test"
             \/ pc' = "test"
          /\ isConnected' = TRUE \/ UNCHANGED isConnected
    BY Zenon DEF AcceptClient
  <2> QED
    BY <2>1
<1>2. /\ pc = "accept" /\ isServerSocketCreated /\ ~isConnected /\ stream = None
      /\ UNCHANGED <<stream, serverSock, transferSock, transferClientSock, isServerSocketCreated>>
  BY Basics DEF AcceptClient, Places, FlagsOfPlace, SlotStates, transfer
<1>3. transferSock = None
  BY <1>2, Basics DEF Places, NoDataPortYet
<1>4. /\ serverSock \in Fd /\ desc[serverSock] = "ready"
      /\ f \in Fd /\ desc[f] = "free" /\ s \in Connected
  BY DEF AcceptClient, Is, LowestFree, AcceptedState, Connected
<1> DEFINE e == table(f, s)
<1>5. /\ e \in Tables /\ e[serverSock] = "listening" /\ e[f] = s
      /\ \A g \in Fd \ {serverSock, f} : e[g] = desc[g]
  <2>1. s \in DescState /\ "listening" \in DescState
    BY <1>4 DEF DescState, Passive
  <2> QED
    BY <1>4, <2>1, Basics DEF Tables
<1>6. f \in SlotValues
  BY <1>4 DEF SlotValues
<1>7. desc' \in {ErrorReported(e, f), e}
  BY <1>1
<1> HIDE DEF e
<1>8. \A g \in Fd : g # f => desc'[g] = e[g]
  BY <1>5, <1>6, <1>7, Elsewhere
<1>9. desc'[f] \in Connected
  BY <1>4, <1>5, <1>6, <1>7, Elsewhere DEF Connected
<1>10. /\ f # serverSock /\ f # transferClientSock /\ serverSock # transferClientSock
  BY <1>2, <1>4, Basics DEF SlotStates, Is, Connected
<1>11. DataConnectionIn(desc', transferClientSock)
  BY <1>4, <1>5, <1>8, <1>10, Basics DEF SlotStates, DataConnectionIn, Is
<1> QED
  BY <1>1, <1>2, <1>3, <1>4, <1>5, <1>8, <1>9, <1>10, <1>11, Basics
  DEF SlotStates, DataConnectionIn, Is, Passive, Transfers, Handling

\* The commands keep it.
LEMMA CommandSlots ==
  ASSUME IInv, SlotStates, pc = "read", NEW c, VSFTPCommandsParse(c)
  PROVE  SlotStates'
<1>1. /\ SocketsIn(desc, transferSock, transferClientSock)
      /\ isServerSocketCreated /\ isConnected /\ clientSock # None /\ stream = None
  BY Basics, InSessionSlots DEF Places, FlagsOfPlace
<1>2. transferSock \in SlotValues /\ transferClientSock \in SlotValues /\ None \in SlotValues
  BY Basics DEF SlotsTyped, Slots, SlotValues
<1> DEFINE closed == CloseTransferSockets(desc)
<1>3. closed \in Tables /\ SocketsIn(closed, None, None)
  BY <1>1, Basics, TransferSocketsGone
<1>4. ASSUME NEW code, JustReply(code) PROVE SlotStates'
  BY <1>1, <1>2, <1>4, Basics, ConcludeSlots DEF JustReply, transfer
<1>5. ASSUME NEW code, Conclude(closed, None, None, <<>>, code),
             UNCHANGED <<serverSock, clientSock, flags, stream>>
      PROVE  SlotStates'
  BY <1>1, <1>2, <1>3, <1>5, ConcludeSlots
<1>6. CASE CommandHandlerUser(c)
  <2>1. CASE \E code : JustReply(code)
    BY <1>4, <2>1
  <2>2. CASE ClientDisconnect(ErrorReported(desc, clientSock)) /\ pc' = "test" /\ UNCHANGED transfer
    <3> DEFINE d == ErrorReported(desc, clientSock)
    <3>1. d \in Tables
      BY Basics, TablesClosed DEF SlotsTyped, Slots
    <3>2. SocketsIn(d, transferSock, transferClientSock)
      BY <1>1, Basics DEF SocketsIn, DataConnectionIn, ErrorReported, Is, Passive, Connected, Tables
    <3> QED
      BY <2>2, <3>1, <3>2, DisconnectSlots DEF transfer
  <2> QED
    BY <1>6, <2>1, <2>2 DEF CommandHandlerUser
<1>7. CASE CommandHandlerPasv(c)
  <2>1. PICK r \in CreatePassiveSocket(closed) :
          Conclude(r.table, r.sock, None, <<>>, IF r.retval = 0 THEN 227 ELSE 425)
    BY <1>7 DEF CommandHandlerPasv
  <2> HIDE DEF closed
  <2>2. /\ r.sock \in SlotValues /\ r.table \in Tables
        /\ r.sock = None \/ Is(closed, r.sock, {"free"})
        /\ r.retval = 0 => Is(r.table, r.sock, {"listening"})
        /\ r.retval # 0 => r.table = closed
        /\ \A g \in Fd : g # r.sock => r.table[g] = closed[g]
    BY <1>3, CreateSlots
  <2>3. serverSock # r.sock /\ clientSock # r.sock
    BY <1>3, <2>2, Basics DEF SocketsIn, Is, Passive, Connected
  <2>4. SocketsIn(r.table, r.sock, None)
    <3>1. Is(r.table, serverSock, Passive) /\ Is(r.table, clientSock, Connected)
      BY <1>3, <2>2, <2>3 DEF SocketsIn, Is
    <3>2. r.sock = None \/ Is(r.table, r.sock, Passive \cup {"free"})
      BY <2>2 DEF Is, Passive
    <3> QED
      BY <1>1, <2>3, <3>1, <3>2 DEF SocketsIn, DataConnectionIn
  <2>5. UNCHANGED <<serverSock, clientSock, flags, stream>>
    BY <1>7 DEF CommandHandlerPasv, transfer
  <2> QED
    BY <1>1, <1>2, <2>1, <2>2, <2>4, <2>5, ConcludeSlots
<1>8. CASE CommandHandlerCwd(c)
  BY <1>4, <1>8 DEF CommandHandlerCwd
<1>9. CASE CommandHandlerType(c)
  <2>1. JustReply(SwitchingTo(c = "TYPE I")) \/ JustReply(504)
    BY <1>9, Zenon DEF CommandHandlerType
  <2> QED
    BY <1>4, <2>1, Zenon
<1>10. CASE CommandHandlerSyst(c) \/ CommandHandlerPwd(c) \/ CommandHandlerSize(c)
              \/ CommandHandlerHelp(c) \/ CommandHandlerQuit(c)
  BY <1>4, <1>10
  DEF CommandHandlerSyst, CommandHandlerPwd, CommandHandlerSize, CommandHandlerHelp, CommandHandlerQuit
<1>11. CASE BeginTransfer(c)
  <2>1. UNCHANGED <<serverSock, clientSock, flags, stream>>
    BY <1>11 DEF BeginTransfer
  <2>2. CASE /\ Is(desc, transferSock, Passive) /\ pc' = "dataAccept"
             /\ UNCHANGED <<desc, transferSock, transferClientSock>>
    BY <1>1, <2>1, <2>2 DEF SlotStates, flags, Transfers, Handling
  <2>3. CASE \E code : Conclude(closed, None, None, <<>>, code)
    BY <1>5, <2>1, <2>3
  <2> QED
    BY <1>11, <2>2, <2>3 DEF BeginTransfer
<1>12. CASE RejectCommand(c)
  BY <1>4, <1>5, <1>12 DEF RejectCommand, transfer
<1> QED
  BY <1>6, <1>7, <1>8, <1>9, <1>10, <1>11, <1>12 DEF VSFTPCommandsParse

\* Accepting the data connection keeps it.
LEMMA AcceptTransferSlots ==
  ASSUME IInv, SlotStates, AcceptTransferClient \/ AcceptTransferClientFails
  PROVE  SlotStates'
<1>1. /\ SocketsIn(desc, transferSock, transferClientSock)
      /\ isServerSocketCreated /\ isConnected /\ clientSock # None /\ stream = None
      /\ serverSock \in Fd /\ clientSock \in Fd /\ clientSock # transferSock
      /\ transferSock \in Fd /\ desc[transferSock] \in Passive
  <2>1. pc = "dataAccept" /\ isConnected
    BY Basics DEF AcceptTransferClient, AcceptTransferClientFails, Places, FlagsOfPlace, Transfers, Handling
  <2> QED
    BY <2>1, InSessionSlots DEF SlotStates, Is, Transfers, Handling
<1>2. CASE AcceptTransferClient
  <2>1. PICK f \in LowestFree(desc), s \in AcceptedState :
          /\ transferClientSock' = f
          /\ desc' = [desc EXCEPT ![transferSock] = "listening", ![f] = s]
    BY <1>2 DEF AcceptTransferClient
  <2>2. f \in Fd /\ desc[f] = "free" /\ s \in Connected
    BY DEF LowestFree, AcceptedState, Connected
  <2>3. /\ desc'[f] = s /\ desc'[transferSock] = "listening"
        /\ \A g \in Fd \ {transferSock, f} : desc'[g] = desc[g]
    <3>1. f # transferSock
      BY <1>1, <2>2 DEF Passive
    <3> QED
      BY <1>1, <2>1, <2>2, <3>1, Basics DEF Tables
  <2>4. serverSock # transferSock /\ serverSock # f /\ clientSock # f
    BY <1>1, <2>2 DEF SocketsIn, Is, Passive, Connected
  <2>5. SocketsIn(desc', transferSock, f)
    BY <1>1, <2>2, <2>3, <2>4 DEF SocketsIn, DataConnectionIn, Is, Passive
  <2>6. /\ pc' = "prelim"
        /\ UNCHANGED <<serverSock, clientSock, transferSock, isConnected, isServerSocketCreated, stream>>
    BY <1>2 DEF AcceptTransferClient, handler, flags, transfer
  <2>7. Is(desc', f, Connected) /\ Is(desc', transferSock, Passive)
    BY <1>1, <2>2, <2>3 DEF Is, Passive
  <2> QED
    BY <1>1, <2>1, <2>5, <2>6, <2>7, Basics DEF SlotStates, SocketsIn, DataConnectionIn, Transfers, Handling
<1>3. CASE AcceptTransferClientFails
  BY <1>1, <1>3 DEF AcceptTransferClientFails, handler, flags, transfer, SlotStates, Transfers, Handling
<1> QED
  BY <1>2, <1>3

\* A descriptor is still of the kind it was: a connection may have changed its
\* state, a passive socket too.
KindKept(f) ==
  /\ desc[f] \in Passive   => desc'[f] \in Passive
  /\ desc[f] \in Connected => desc'[f] \in Connected
  /\ desc[f] \in {"free", "file"} => desc'[f] = desc[f]

\* The steps of a transfer between accepting and finishing keep it, since
\* the stream they open and close is none of the sockets.
LEMMA TransferSlots ==
  ASSUME IInv, SlotStates,
         SendPreliminaryReply \/ OpenSource \/ SendChunk \/ SendFails \/ SendRaisesPipe \/ EndOfSource
  PROVE  SlotStates'
<1>1. pc \in {"prelim", "open", "send"} /\ isConnected
  BY Basics
  DEF SendPreliminaryReply, OpenSource, SendChunk, SendFails, SendRaisesPipe, EndOfSource,
      Places, FlagsOfPlace, Transfers, Handling
<1>2. /\ SocketsIn(desc, transferSock, transferClientSock)
      /\ isServerSocketCreated /\ clientSock # None
      /\ serverSock \in Fd /\ clientSock \in Fd
      /\ transferSock \in Fd /\ desc[transferSock] \in Passive
      /\ transferClientSock \in Fd /\ desc[transferClientSock] \in Connected
      /\ IF pc = "send" THEN Is(desc, stream, {"file"}) ELSE stream = None
  BY <1>1, InSessionSlots DEF SlotStates, Is, Transfers, Handling
<1>3. UNCHANGED <<serverSock, clientSock, transferSock, transferClientSock, isConnected, isServerSocketCreated>>
  BY DEF SendPreliminaryReply, OpenSource, SendChunk, SendFails, SendRaisesPipe, EndOfSource, handler, flags
<1> DEFINE Kept == \A f \in {serverSock, clientSock, transferSock, transferClientSock} : KindKept(f)
<1>4. ASSUME Kept, pc' \in {"open", "send", "finish", "killed"},
             IF pc' = "send" THEN Is(desc', stream', {"file"}) ELSE pc' = "killed" \/ stream' = None
      PROVE  SlotStates'
  BY <1>2, <1>3, <1>4, Basics DEF KindKept, SlotStates, SocketsIn, DataConnectionIn, Is, Transfers, Handling
<1>5. ASSUME UNCHANGED desc PROVE Kept
  BY <1>5 DEF KindKept
<1>6. \A f \in Fd : desc[f] \in Passive \cup Connected => f # stream
  BY <1>2, Basics DEF Is, Passive, Connected
<1>7. CASE SendPreliminaryReply
  <2>1. Kept
    <3>1. CASE UNCHANGED desc
      BY <1>5, <3>1
    <3>2. CASE desc' = ErrorReported(desc, clientSock)
      <4>1. \A f \in Fd : desc'[f] = desc[f] \/ (desc[f] = "rst" /\ desc'[f] = "broken")
        BY <1>2, <3>2, Basics, Elsewhere DEF SlotValues
      <4>2. \A f \in Fd : KindKept(f)
        BY <4>1 DEF KindKept, Connected, Passive
      <4> QED
        BY <1>2, <4>2 DEF SocketsIn, Is
    <3> QED
      BY <1>7, <3>1, <3>2 DEF SendPreliminaryReply
  <2>2. pc' \in {"open", "finish", "killed"} /\ UNCHANGED stream
    BY <1>7 DEF SendPreliminaryReply, transfer
  <2> QED
    BY <1>2, <1>4, <1>7, <2>1, <2>2, Basics DEF SendPreliminaryReply
<1>8. CASE OpenSource
  <2>1. CASE UNCHANGED <<stream, desc>> /\ pc' = "finish"
    BY <1>2, <1>4, <1>5, <1>8, <2>1 DEF OpenSource
  <2>2. ASSUME NEW f \in LowestFree(desc), stream' = f, desc' = [desc EXCEPT ![f] = "file"], pc' = "send"
        PROVE  SlotStates'
    <3>1. f \in Fd /\ desc[f] = "free"
      BY DEF LowestFree
    <3>2. desc'[f] = "file" /\ \A g \in Fd \ {f} : desc'[g] = desc[g]
      BY <2>2, <3>1, Basics DEF Tables
    <3>3. Kept
      BY <1>2, <3>1, <3>2 DEF KindKept, SocketsIn, Is, Passive, Connected
    <3> QED
      BY <1>4, <2>2, <3>1, <3>2, <3>3 DEF Is
  <2> QED
    BY <1>8, <2>1, <2>2 DEF OpenSource
<1>9. CASE SendChunk \/ SendRaisesPipe
  BY <1>2, <1>4, <1>5, <1>9 DEF SendChunk, SendRaisesPipe, transfer
<1>10. CASE SendFails
  <2> DEFINE d == ErrorReported(desc, transferClientSock)
  <2>1. d \in Tables
    BY <1>2, Basics, TablesClosed DEF SlotValues
  <2>2. \A f \in Fd : d[f] = desc[f] \/ (desc[f] = "rst" /\ d[f] = "broken")
    BY <1>2, Basics, Elsewhere DEF SlotValues
  <2>3. desc' \in {d, Close(d, stream)} /\ stream' = None /\ pc' = "finish"
    BY <1>10 DEF SendFails
  <2> HIDE DEF d
  <2>4. \A f \in Fd : f # stream => desc'[f] = d[f]
    BY <2>1, <2>3, Basics, Elsewhere DEF TypeOK, SlotValues
  <2>5. \A f \in Fd : desc[f] \in Passive \cup Connected => KindKept(f)
    BY <1>6, <2>2, <2>4 DEF KindKept, Connected, Passive
  <2>6. Kept
    BY <1>2, <2>5 DEF SocketsIn, Is
  <2> QED
    BY <1>4, <2>3, <2>6
<1>11. CASE EndOfSource
  <2>1. desc' = Close(desc, stream) /\ stream' = None /\ pc' = "finish"
    BY <1>11 DEF EndOfSource
  <2>2. \A f \in Fd : f # stream => desc'[f] = desc[f]
    BY <2>1, Basics, Elsewhere DEF TypeOK, SlotValues
  <2>3. \A f \in Fd : desc[f] \in Passive \cup Connected => KindKept(f)
    BY <1>6, <2>2 DEF KindKept
  <2>4. Kept
    BY <1>2, <2>3 DEF SocketsIn, Is
  <2> QED
    BY <1>4, <2>1, <2>4
<1> QED
  BY <1>7, <1>8, <1>9, <1>10, <1>11

\* So does the end of a transfer: closing its sockets, and the last reply.
LEMMA FinishSlots ==
  ASSUME IInv, SlotStates, CloseTransfer \/ ReplyToTransfer
  PROVE  SlotStates'
<1>1. pc \in {"finish", "reply"} /\ isConnected
  BY Basics DEF CloseTransfer, ReplyToTransfer, Places, FlagsOfPlace, Transfers, Handling
<1>2. SocketsIn(desc, transferSock, transferClientSock) /\ stream = None
  BY <1>1, InSessionSlots
<1>3. UNCHANGED <<serverSock, clientSock, flags, stream>>
  BY DEF CloseTransfer, ReplyToTransfer, handler, flags, transfer
<1>4. CASE CloseTransfer
  <2>1. SocketsIn(CloseTransferSockets(desc), None, None)
    BY <1>2, Basics, TransferSocketsGone
  <2>2. desc' = CloseTransferSockets(desc) /\ transferSock' = None /\ transferClientSock' = None
        /\ pc' = "reply"
    BY <1>4 DEF CloseTransfer, ForgetTransferSockets
  <2> QED
    BY <1>1, <1>2, <1>3, <2>1, <2>2, Basics
    DEF flags, SlotStates, SocketsIn, DataConnectionIn, Is, Transfers, Handling
<1>5. CASE ReplyToTransfer
  <2>1. \E code : Conclude(desc, transferSock, transferClientSock, replies, code)
    BY <1>5 DEF ReplyToTransfer
  <2>2. transferSock \in SlotValues /\ transferClientSock \in SlotValues
    BY Basics DEF SlotsTyped, Slots
  <2> QED
    BY <1>1, <1>2, <1>3, <2>1, <2>2, Basics, ConcludeSlots
<1> QED
  BY <1>4, <1>5

\* What the client and the network do changes the state of a connection or of a
\* passive socket, never its kind.
LEMMA EnvironmentKeepsKinds ==
  ASSUME IInv, Environment
  PROVE  \A f \in Fd : KindKept(f)
<1> USE Basics DEF KindKept, Is, Tables, Passive, Connected
<1>1. CASE PeerConnects
  BY <1>1 DEF PeerConnects
<1>2. CASE ClientSends
  BY <1>2 DEF ClientSends
<1>3. CASE PeerCloses
  BY <1>3 DEF PeerCloses
<1>4. CASE PeerResets
  BY <1>4 DEF PeerResets
<1> QED
  BY <1>1, <1>2, <1>3, <1>4 DEF Environment

LEMMA EnvironmentSlots ==
  ASSUME IInv, SlotStates, Environment
  PROVE  SlotStates'
<1>1. UNCHANGED <<serverSock, clientSock, transferSock, transferClientSock,
                  isConnected, isServerSocketCreated, pc, stream>>
  BY DEF Environment, process, sockets, flags, transfer
<1>2. \A f \in Fd : KindKept(f)
  BY EnvironmentKeepsKinds
<1> QED
  BY <1>1, <1>2, Basics DEF SlotStates, Is, KindKept

\* Every step keeps it.
LEMMA StepSlots == IInv /\ SlotStates /\ [Next]_vars => SlotStates'
<1> SUFFICES ASSUME IInv, SlotStates, [Next]_vars PROVE SlotStates'
  OBVIOUS
<1>1. CASE ServerStart
  BY <1>1, StartSlots
<1>2. CASE CallAccept \/ CallRead \/ LoopTest \/ Terminate \/ Terminated \/ UNCHANGED vars
  BY <1>2, MoveSlots
<1>3. CASE AcceptClient
  BY <1>3, AcceptSlots
<1>4. CASE AcceptFails \/ ReadPartialLine \/ ReadFails \/ Exit
  BY <1>4, StopSlots DEF AcceptFails, ReadPartialLine, ReadFails, Exit, transfer
<1>5. CASE ReadEndOfFile
  <2>1. pc = "read" /\ isConnected
    BY <1>5, Basics DEF ReadEndOfFile, Places, FlagsOfPlace
  <2>2. SocketsIn(desc, transferSock, transferClientSock)
    BY <2>1, InSessionSlots
  <2> QED
    BY <1>5, <2>2, Basics, DisconnectSlots DEF ReadEndOfFile, transfer
<1>6. CASE ReadCommand
  BY <1>6, CommandSlots DEF ReadCommand
<1>7. CASE AcceptTransferClient \/ AcceptTransferClientFails
  BY <1>7, AcceptTransferSlots
<1>8. CASE SendPreliminaryReply \/ OpenSource \/ SendChunk \/ SendFails \/ SendRaisesPipe \/ EndOfSource
  BY <1>8, TransferSlots
<1>9. CASE CloseTransfer \/ ReplyToTransfer
  BY <1>9, FinishSlots
<1>10. CASE Environment
  BY <1>10, EnvironmentSlots
<1> QED
  BY <1>1, <1>2, <1>3, <1>4, <1>5, <1>6, <1>7, <1>8, <1>9, <1>10 DEF Next, ServerStep, VSFTPServerHandler

-----------------------------------------------------------------------------
(***************************************************************************)
(* CleanTable is inductive relative to both.                               *)
(***************************************************************************)
\* Table d has no connection that was reset, and no file but standard input
\* and s.
Clean(d, s) ==
  \A f \in Fd : d[f] \notin {"rst", "broken"} /\ (d[f] = "file" => f \in {Stdin, s})

\* Closing keeps it, and no error is there to be reported.
LEMMA CleanClosed ==
  ASSUME NEW d \in Tables, NEW f \in SlotValues, NEW s, Clean(d, s)
  PROVE  Clean(CloseSocket(d, f), s) /\ Clean(Close(d, f), s) /\ ErrorReported(d, f) = d
<1>1. CASE f \in Fd
  <2>1. ErrorReported(d, f) = d
    BY <1>1 DEF Clean, ErrorReported, Is
  <2> QED
    BY <2>1, Elsewhere DEF Clean
<1>2. CASE f \notin Fd
  BY <1>2 DEF CloseSocket, CanShutdown, Close, ErrorReported, Is
<1> QED
  BY <1>1, <1>2

LEMMA CleanTransferClosed ==
  ASSUME SlotsTyped, NEW d \in Tables, NEW s, Clean(d, s)
  PROVE  CloseTransferSockets(d) \in Tables /\ Clean(CloseTransferSockets(d), s)
<1>1. transferClientSock \in SlotValues /\ transferSock \in SlotValues
  BY DEF SlotsTyped, Slots
<1>2. CloseSocket(d, transferClientSock) \in Tables /\ Clean(CloseSocket(d, transferClientSock), s)
  BY <1>1, TablesClosed, CleanClosed
<1>3. Clean(CloseSocket(CloseSocket(d, transferClientSock), transferSock), s)
  BY <1>1, <1>2, CleanClosed
<1> QED
  BY <1>3, TransferSocketsClosed DEF CloseTransferSockets

LEMMA CleanConcluded ==
  ASSUME SlotsTyped, NEW d \in Tables, NEW ts \in SlotValues, NEW tcs \in SlotValues, NEW s,
         Clean(d, s), NEW said, NEW code, Conclude(d, ts, tcs, said, code)
  PROVE  Clean(desc', s)
<1> DEFINE e == ErrorReported(d, clientSock)
<1>1. e = d
  BY CleanClosed DEF SlotsTyped, Slots
<1>2. CloseSocket(d, tcs) \in Tables /\ Clean(CloseSocket(d, tcs), s)
  BY TablesClosed, CleanClosed
<1>3. Clean(CloseSocket(CloseSocket(d, tcs), ts), s)
  BY <1>2, CleanClosed
<1>4. desc' \in {d, CloseSocket(CloseSocket(e, tcs), ts)}
  BY DEF Conclude
<1> QED
  BY <1>1, <1>3, <1>4

LEMMA CleanStopped ==
  ASSUME SlotsTyped, NEW d \in Tables, NEW s, Clean(d, s), ServerStop(d) \/ ClientDisconnect(d)
  PROVE  Clean(desc', s)
<1> DEFINE e == CloseTransferSockets(d)
           g == CloseSocket(e, clientSock)
<1>1. e \in Tables /\ Clean(e, s)
  BY CleanTransferClosed
<1>2. clientSock \in SlotValues /\ serverSock \in SlotValues
  BY DEF SlotsTyped, Slots
<1> HIDE DEF e
<1>3. g \in Tables /\ Clean(g, s)
  BY <1>1, <1>2, TablesClosed, CleanClosed
<1> HIDE DEF g
<1>4. Clean(Close(g, serverSock), s)
  BY <1>2, <1>3, CleanClosed
<1>5. desc' \in {g, Close(g, serverSock)}
  BY DEF ServerStop, ClientDisconnect, e, g
<1> QED
  BY <1>3, <1>4, <1>5

\* The commands keep it.
LEMMA CommandClean ==
  ASSUME IInv, Clean(desc, stream), pc = "read", NEW c, VSFTPCommandsParse(c)
  PROVE  Clean(desc', stream) /\ UNCHANGED stream
<1>1. SlotsTyped /\ desc \in Tables /\ None \in SlotValues
      /\ transferSock \in SlotValues /\ transferClientSock \in SlotValues /\ clientSock \in SlotValues
  BY Basics DEF SlotsTyped, Slots, SlotValues
<1> DEFINE closed == CloseTransferSockets(desc)
<1>2. closed \in Tables /\ Clean(closed, stream)
  BY <1>1, CleanTransferClosed
<1> HIDE DEF closed
<1>3. ASSUME NEW code, JustReply(code) PROVE Clean(desc', stream) /\ UNCHANGED stream
  BY <1>1, <1>3, CleanConcluded DEF JustReply, transfer
<1>4. ASSUME NEW code, Conclude(closed, None, None, <<>>, code) PROVE Clean(desc', stream)
  BY <1>1, <1>2, <1>4, CleanConcluded
<1>5. CASE CommandHandlerUser(c)
  <2>1. CASE \E code : JustReply(code)
    BY <1>3, <2>1
  <2>2. CASE ClientDisconnect(ErrorReported(desc, clientSock)) /\ UNCHANGED transfer
    <3>1. ErrorReported(desc, clientSock) = desc
      BY <1>1, CleanClosed
    <3> QED
      BY <1>1, <2>2, <3>1, CleanStopped DEF transfer
  <2> QED
    BY <1>5, <2>1, <2>2 DEF CommandHandlerUser
<1>6. CASE CommandHandlerPasv(c)
  <2>1. PICK r \in CreatePassiveSocket(closed) :
          Conclude(r.table, r.sock, None, <<>>, IF r.retval = 0 THEN 227 ELSE 425)
    BY <1>6 DEF CommandHandlerPasv, closed
  <2>2. /\ r.sock \in SlotValues /\ r.table \in Tables
        /\ r.retval = 0 => Is(r.table, r.sock, {"listening"})
        /\ r.retval # 0 => r.table = closed
        /\ \A g \in Fd : g # r.sock => r.table[g] = closed[g]
    BY <1>2, CreateSlots
  <2>3. Clean(r.table, stream)
    BY <1>2, <2>2 DEF Clean, Is
  <2> QED
    BY <1>1, <1>6, <2>1, <2>2, <2>3, CleanConcluded DEF CommandHandlerPasv, transfer
<1>7. CASE CommandHandlerCwd(c)
  BY <1>3, <1>7 DEF CommandHandlerCwd
<1>8. CASE CommandHandlerType(c)
  <2>1. JustReply(SwitchingTo(c = "TYPE I")) \/ JustReply(504)
    BY <1>8, Zenon DEF CommandHandlerType
  <2> QED
    BY <1>3, <2>1, Zenon
<1>9. CASE CommandHandlerSyst(c) \/ CommandHandlerPwd(c) \/ CommandHandlerSize(c)
              \/ CommandHandlerHelp(c) \/ CommandHandlerQuit(c)
  BY <1>3, <1>9
  DEF CommandHandlerSyst, CommandHandlerPwd, CommandHandlerSize, CommandHandlerHelp, CommandHandlerQuit
<1>10. CASE BeginTransfer(c)
  <2>1. CASE UNCHANGED desc
    BY <1>10, <2>1 DEF BeginTransfer
  <2>2. CASE \E code : Conclude(closed, None, None, <<>>, code)
    BY <1>4, <1>10, <2>2 DEF BeginTransfer
  <2> QED
    BY <1>10, <2>1, <2>2 DEF BeginTransfer, closed
<1>11. CASE RejectCommand(c)
  BY <1>3, <1>4, <1>11 DEF RejectCommand, transfer, closed
<1> QED
  BY <1>5, <1>6, <1>7, <1>8, <1>9, <1>10, <1>11 DEF VSFTPCommandsParse

\* Nothing interrupts the thread when there is no signal.
LEMMA NotInterrupted ==
  ASSUME ~interrupted, "signal" \notin Faults, [Next]_vars
  PROVE  ~interrupted'
<1>1. CASE UNCHANGED interrupted
  BY <1>1
<1>2. CASE interrupted' = FALSE
  BY <1>2
<1>3. ~Terminate
  BY DEF Terminate
<1>4. UNCHANGED interrupted \/ interrupted' = FALSE
  BY <1>3
  DEF Next, ServerStep, VSFTPServerHandler, ServerStart, CallAccept, AcceptClient, AcceptFails, CallRead,
      ReadCommand, Receive, ReadPartialLine, ReadEndOfFile, ReadFails, AcceptTransferClient,
      AcceptTransferClientFails, SendPreliminaryReply, OpenSource, SendChunk, SendFails, SendRaisesPipe,
      EndOfSource, CloseTransfer, ReplyToTransfer, LoopTest, Exit, Environment, process, Terminated, vars
<1> QED
  BY <1>1, <1>2, <1>4

\* Nor does any step break a connection or leave a stream open.
LEMMA StepCleanTable ==
  ASSUME IInv, SlotStates, ~interrupted, Clean(desc, stream),
         "reset" \notin Faults, "signal" \notin Faults, [Next]_vars
  PROVE  Clean(desc', stream')
<1>1. /\ SlotsTyped /\ desc \in Tables
      /\ transferClientSock \in SlotValues /\ clientSock \in SlotValues /\ stream \in SlotValues
  BY Basics DEF SlotsTyped, Slots, TypeOK, SlotValues
<1>2. AcceptedState = {"up", "fin"}
  BY DEF AcceptedState
<1>3. pc \notin {"send", "killed"} => stream = None
  BY DEF SlotStates
<1>4. CASE UNCHANGED <<desc, stream>>
  BY <1>4
<1>5. CASE ServerStart
  <2>1. ASSUME NEW r \in CreatePassiveSocket(desc), desc' = r.table, UNCHANGED stream
        PROVE  Clean(desc', stream')
    <3>1. /\ r.retval = 0 => Is(r.table, r.sock, {"listening"})
          /\ r.retval # 0 => r.table = desc
          /\ \A g \in Fd : g # r.sock => r.table[g] = desc[g]
      BY <1>1, CreateSlots
    <3> QED
      BY <2>1, <3>1 DEF Clean, Is
  <2> QED
    BY <1>4, <1>5, <2>1 DEF ServerStart, transfer
<1>6. CASE AcceptClient
  <2> DEFINE table(f, s) == [desc EXCEPT ![serverSock] = "listening", ![f] = s]
  <2>1. PICK f \in LowestFree(desc), s \in AcceptedState :
          desc' \in {ErrorReported(table(f, s), f), table(f, s)}
    BY <1>6, Zenon DEF AcceptClient
  <2> DEFINE e == table(f, s)
  <2>2. serverSock \in Fd /\ f \in Fd /\ s \in DescState /\ s \in {"up", "fin"} /\ "listening" \in DescState
    BY <1>2, <1>6 DEF AcceptClient, Is, LowestFree, DescState, Connected, Passive
  <2>3. e \in Tables /\ \A g \in Fd : e[g] \in {desc[g], "listening", "up", "fin"}
    BY <1>1, <2>2 DEF Tables
  <2>4. Clean(e, stream)
    BY <2>3 DEF Clean
  <2>5. desc' \in {ErrorReported(e, f), e}
    BY <2>1
  <2> HIDE DEF e
  <2>6. desc' = e
    BY <2>2, <2>3, <2>4, <2>5, CleanClosed DEF SlotValues
  <2> QED
    BY <1>6, <2>4, <2>6 DEF AcceptClient, transfer
<1>7. CASE AcceptFails \/ ReadPartialLine \/ ReadEndOfFile \/ Exit
  BY <1>1, <1>7, CleanStopped DEF AcceptFails, ReadPartialLine, ReadEndOfFile, Exit, transfer
<1>8. CASE ReadFails
  <2>1. ErrorReported(desc, clientSock) = desc
    BY <1>1, CleanClosed
  <2> QED
    BY <1>1, <1>8, <2>1, CleanStopped DEF ReadFails, transfer
<1>9. CASE ReadCommand
  BY <1>9, CommandClean DEF ReadCommand
<1>10. CASE AcceptTransferClient
  <2>1. PICK f \in LowestFree(desc), s \in AcceptedState :
          desc' = [desc EXCEPT ![transferSock] = "listening", ![f] = s]
    BY <1>10 DEF AcceptTransferClient
  <2>2. \A g \in Fd : desc'[g] \in {desc[g], "listening", "up", "fin"}
    BY <1>1, <1>2, <2>1 DEF Tables
  <2> QED
    BY <1>10, <2>2 DEF AcceptTransferClient, transfer, Clean
<1>11. CASE SendPreliminaryReply
  <2>1. ErrorReported(desc, clientSock) = desc
    BY <1>1, CleanClosed
  <2> QED
    BY <1>4, <1>11, <2>1 DEF SendPreliminaryReply, transfer
<1>12. CASE OpenSource
  <2>1. ASSUME NEW f \in LowestFree(desc), stream' = f, desc' = [desc EXCEPT ![f] = "file"]
        PROVE  Clean(desc', stream')
    <3>1. \A g \in Fd : desc'[g] = IF g = f THEN "file" ELSE desc[g]
      BY <1>1, <2>1 DEF Tables
    <3>2. stream = None
      BY <1>3, <1>12 DEF OpenSource
    <3> QED
      BY <2>1, <3>1, <3>2, Basics DEF Clean
  <2> QED
    BY <1>4, <1>12, <2>1 DEF OpenSource
<1>13. CASE SendFails
  BY <1>13 DEF SendFails, Is, Clean
<1>14. CASE EndOfSource
  <2>1. stream \in Fd
    BY <1>14 DEF EndOfSource, SlotStates, Is
  <2>2. desc' = Close(desc, stream) /\ stream' = None
    BY <1>14 DEF EndOfSource
  <2>3. \A g \in Fd : desc'[g] = IF g = stream THEN "free" ELSE desc[g]
    BY <1>1, <2>1, <2>2, Elsewhere
  <2> QED
    BY <2>2, <2>3 DEF Clean
<1>15. CASE CloseTransfer
  BY <1>1, <1>15, CleanTransferClosed DEF CloseTransfer, transfer
<1>18. CASE ReplyToTransfer
  <2>1. \E code : Conclude(desc, transferSock, transferClientSock, replies, code)
    BY <1>18 DEF ReplyToTransfer
  <2>2. transferSock \in SlotValues /\ UNCHANGED stream
    BY <1>1, <1>18 DEF ReplyToTransfer, SlotsTyped, Slots
  <2> QED
    BY <1>1, <2>1, <2>2, CleanConcluded
<1>16. CASE Environment
  <2>1. \A g \in Fd : desc'[g] \in {desc[g], "ready", "fin"}
    BY <1>1, <1>16 DEF Environment, PeerConnects, ClientSends, PeerCloses, PeerResets, Is, Tables
  <2> QED
    BY <1>16, <2>1 DEF Environment, process, transfer, Clean
<1>17. CASE CallAccept \/ CallRead \/ LoopTest \/ Terminate \/ Terminated \/ SendChunk
              \/ SendRaisesPipe \/ AcceptTransferClientFails \/ UNCHANGED vars
  BY <1>4, <1>17
  DEF CallAccept, CallRead, LoopTest, Terminate, Terminated, SendChunk, SendRaisesPipe,
      AcceptTransferClientFails, transfer, vars
<1> QED
  BY <1>5, <1>6, <1>7, <1>8, <1>9, <1>10, <1>11, <1>12, <1>13, <1>14, <1>15, <1>16, <1>17,
     <1>18
  DEF Next, ServerStep, VSFTPServerHandler

LEMMA InitClean == Init => CleanTable
<1> SUFFICES ASSUME Init PROVE ~interrupted /\ Clean(desc, stream)
  BY DEF CleanTable, Clean
<1>1. Stdin \in Fd
  BY MaxFdAssumption DEF Fd, Stdin
<1>2. desc[Stdin] \in {"file", "up"} /\ \A f \in Fd \ {Stdin} : desc[f] = "free"
  BY <1>1 DEF Init
<1> QED
  BY <1>2 DEF Init, Clean

LEMMA StepClean == IInv /\ SlotStates /\ CleanTable /\ [Next]_vars => CleanTable'
<1> SUFFICES ASSUME IInv, SlotStates, CleanTable, [Next]_vars, Faults \cap {"reset", "signal"} = {}
             PROVE  ~interrupted' /\ Clean(desc', stream')
  BY DEF CleanTable, Clean
<1>1. ~interrupted /\ Clean(desc, stream)
  BY Zenon DEF CleanTable, Clean
<1>2. "reset" \notin Faults /\ "signal" \notin Faults
  OBVIOUS
<1> QED
  BY <1>1, <1>2, StepCleanTable, NotInterrupted

-----------------------------------------------------------------------------
(***************************************************************************)
(* The theorems.                                                           *)
(***************************************************************************)
\* In every state the numbers in serverData stand for what the thread's place
\* says, and without resets and signals nothing else is open.
THEOREM SlotsInvariant == Spec => [](SlotStates /\ CleanTable)
  BY InitSlots, InitClean, StepSlots, StepClean, Invariant, PTL DEF Spec

\* No two of the numbers ever stand for the same open descriptor: closing one
\* socket never closes another one's connection, although the kernel reuses
\* numbers at once and stale ones stay in transferSock and transferClientSock.
THEOREM SlotsStayDistinct == Spec => []SlotsDistinct
<1>1. IInv /\ SlotStates => SlotsDistinct
  BY Basics DEF SlotStates, SlotsDistinct, Is, DescState, Passive, Connected
<1> QED
  BY <1>1, Invariant, SlotsInvariant, PTL

\* While the server waits for a client it holds nothing of the one before.
THEOREM NothingHeld == Spec => []AcceptHoldsNothing
<1>1. IInv /\ SlotStates => AcceptHoldsNothing
  BY Basics
  DEF Places, FlagsOfPlace, NoClientYet, NoDataPortYet, NoDataConnectionYet, Failing, Transfers, Handling, Ended,
      SlotStates, AcceptHoldsNothing
<1> QED
  BY <1>1, Invariant, SlotsInvariant, PTL

\* Without resets and signals nothing leaks, however many sessions and failed
\* transfers came before.
THEOREM NeverLeaks == Spec => []NothingLeaks
<1>1. IInv /\ SlotStates /\ CleanTable => NothingLeaks
  <2> SUFFICES ASSUME IInv, SlotStates, CleanTable, pc = "accept", Faults \cap {"reset", "signal"} = {},
                      NEW f \in Fd, desc[f] # "free", f # Stdin
               PROVE  f = serverSock
    BY DEF NothingLeaks
  <2>1. desc[f] \in Healthy
    <3>1. stream = None
      BY DEF SlotStates
    <3>2. desc[f] \notin {"rst", "broken", "file"}
      BY <3>1, Basics DEF CleanTable
    <3>3. desc[f] \in DescState
      BY Basics DEF Tables
    <3> QED
      BY <3>2, <3>3 DEF DescState, Healthy, Passive, Connected
  <2>2. f \in Slots
    BY <2>1, Basics DEF HealthySockets, Ours
  <2>3. clientSock = None /\ transferSock = None /\ transferClientSock \in {None, Stdin}
    BY Basics
    DEF Places, FlagsOfPlace, NoClientYet, NoDataPortYet, NoDataConnectionYet, Failing, Transfers, Handling, Ended
  <2> QED
    BY <2>2, <2>3, Basics DEF Slots
<1> QED
  BY <1>1, Invariant, SlotsInvariant, PTL

\* When the process exits by itself, every socket whose other side is still
\* there has been shut down in order.
THEOREM AllClosedAtExit == Spec => []ClosedAtExit
<1>1. IInv /\ SlotStates => ClosedAtExit
  BY Basics DEF Places, NothingWhenStopped, SlotStates, ClosedAtExit
<1> QED
  BY <1>1, Invariant, SlotsInvariant, PTL

(***************************************************************************)
(* The end of a command, once more: either the client has its reply and    *)
(* the sockets are those the command left, or it can not be reached any    *)
(* more, and then the transfer sockets are gone or the process is.         *)
(***************************************************************************)
LEMMA ConcludeTells ==
  ASSUME NEW d \in Tables, NEW ts \in SlotValues, NEW tcs \in SlotValues, NEW said, NEW code,
         clientSock \in Fd, Conclude(d, ts, tcs, said, code)
  PROVE  \/ /\ CanWrite(d, clientSock)
            /\ pc' = "test" /\ desc' = d /\ replies' = Append(said, code)
            /\ transferSock' = ts /\ transferClientSock' = tcs
         \/ /\ ~CanWrite(d, clientSock) /\ ~CanWrite(desc', clientSock)
            /\ pc' = "test" /\ replies' = said
            /\ transferSock' = None /\ transferClientSock' = None
         \/ /\ ~CanWrite(d, clientSock)
            /\ pc' = "killed" /\ replies' = said /\ desc' = d
            /\ transferSock' = ts /\ transferClientSock' = tcs
<1>1. CASE ~CanWrite(d, clientSock) /\ ~RaisesPipe(d, clientSock)
  <2> DEFINE e == ErrorReported(d, clientSock)
             g == CloseSocket(CloseSocket(e, tcs), ts)
  <2>1. e \in Tables /\ e[clientSock] \in {d[clientSock], "broken"}
    BY TablesClosed, Elsewhere DEF SlotValues
  <2>2. desc' = g /\ pc' = "test" /\ replies' = said /\ transferSock' = None /\ transferClientSock' = None
    BY <1>1 DEF Conclude, ForgetTransferSockets
  <2> HIDE DEF e
  <2>3. g[clientSock] \in {e[clientSock], "free"}
    BY <2>1, ElsewhereTwice
  <2>4. ~CanWrite(desc', clientSock)
    BY <1>1, <2>1, <2>2, <2>3 DEF CanWrite, Is
  <2> QED
    BY <1>1, <2>2, <2>4
<1>2. CASE CanWrite(d, clientSock)
  BY <1>2 DEF Conclude, CanWrite, RaisesPipe, Is
<1>3. CASE RaisesPipe(d, clientSock)
  BY <1>3 DEF Conclude, CanWrite, RaisesPipe, Is
<1> QED
  BY <1>1, <1>2, <1>3

\* Which codes are in the histories a command can have.
Codes(s) == {s[i] : i \in DOMAIN s}

LEMMA CodesOf ==
  ASSUME NEW code \in Int
  PROVE  /\ Codes(<<>>) = {}
         /\ Append(<<>>, code) = <<code>> /\ Codes(<<code>>) = {code}
         /\ Append(<< 150 >>, code) = <<150, code>> /\ Codes(<<150, code>>) = {150, code}
<1>1. Codes(<<>>) = {} /\ Append(<<>>, code) = <<code>> /\ Codes(<<code>>) = {code}
  BY DEF Codes
<1>2. Append(<< 150 >>, code) = <<150, code>>
  <2> DEFINE s == Append(<< 150 >>, code)
             t == <<150, code>>
  <2>1. s \in Seq(Int) /\ Len(s) = 2 /\ s[1] = 150 /\ s[2] = code
    OBVIOUS
  <2>2. t \in Seq(Int) /\ Len(t) = 2 /\ t[1] = 150 /\ t[2] = code
    OBVIOUS
  <2> HIDE DEF s, t
  <2>3. \A i \in 1 .. Len(s) : s[i] = t[i]
    BY <2>1, <2>2
  <2>4. s = t
    BY <2>1, <2>2, <2>3, SeqEqual, SMTT(30)
  <2> QED
    BY <2>4 DEF s, t
<1>3. Codes(<<150, code>>) = {150, code}
  <2> DEFINE s == <<150, code>>
  <2>1. DOMAIN s = {1, 2} /\ s[1] = 150 /\ s[2] = code
    OBVIOUS
  <2> HIDE DEF s
  <2>2. Codes(s) = {150, code}
    BY <2>1 DEF Codes
  <2> QED
    BY <2>2 DEF s
<1> QED
  BY <1>1, <1>2, <1>3

\* When 226 has been told, serverData knows no data connection and no data port;
\* as it never forgets a healthy one, none is open.
NumbersGone ==
  226 \in {replies[i] : i \in DOMAIN replies} => transferSock = None /\ transferClientSock = None

\* The three facts that are inductive together.
Told == RepliesOfPlace /\ AnsweredOnce /\ NumbersGone

\* A command that ends with a reply that fits what was said before keeps them.
LEMMA ConcludeTold ==
  ASSUME IInv, NEW d \in Tables, NEW ts \in SlotValues, NEW tcs \in SlotValues, NEW said, NEW code,
         clientSock \in Fd, UNCHANGED clientSock, Conclude(d, ts, tcs, said, code),
         \/ said = <<>> /\ code \in FinalReplies \ {226}
         \/ said = << 150 >> /\ code \in {226, 451, 550} /\ ts = None /\ tcs = None
  PROVE  Told'
<1>1. pc' \in {"test", "killed"}
  BY DEF Conclude
<1>2. RepliesOfPlace'
  BY <1>1 DEF RepliesOfPlace
<1>3. 226 \notin Codes(said)
  <2>1. Codes(<<>>) = {} /\ Codes(<< 150 >>) = {150}
    BY DEF Codes
  <2> QED
    BY <2>1
<1>4. CASE CanWrite(d, clientSock) /\ replies' = Append(said, code)
           /\ transferSock' = ts /\ transferClientSock' = tcs
  <2>1. \/ code \in FinalReplies \ {226} /\ replies' = <<code>> /\ Codes(replies') = {code}
        \/ /\ code \in {226, 451, 550} /\ replies' = <<150, code>> /\ Codes(replies') = {150, code}
           /\ ts = None /\ tcs = None
    <3>0. code \in Int
      BY DEF FinalReplies
    <3>1. CASE said = <<>> /\ code \in FinalReplies \ {226}
      BY <1>4, <3>0, <3>1, CodesOf
    <3>2. CASE said = << 150 >> /\ code \in {226, 451, 550} /\ ts = None /\ tcs = None
      <4>1. Append(<< 150 >>, code) = <<150, code>> /\ Codes(<<150, code>>) = {150, code}
        BY <3>0, CodesOf, ZenonT(40)
      <4> QED
        BY <1>4, <3>2, <4>1
    <3> QED
      BY <3>1, <3>2
  <2>2. AnsweredOnce' /\ (226 \in Codes(replies') => ts = None /\ tcs = None)
    BY <2>1 DEF AnsweredOnce
  <2>3. NumbersGone'
    BY <1>4, <2>2 DEF NumbersGone, Codes
  <2> QED
    BY <1>2, <2>2, <2>3 DEF Told
<1>5. CASE replies' = said /\ (pc' = "killed" \/ ~CanWrite(desc', clientSock))
  <2>1. AnsweredOnce'
    BY <1>5 DEF AnsweredOnce
  <2>2. NumbersGone'
    BY <1>3, <1>5 DEF NumbersGone, Codes
  <2> QED
    BY <1>2, <2>1, <2>2 DEF Told
<1> QED
  BY <1>4, <1>5, ConcludeTells

-----------------------------------------------------------------------------
\* The commands keep them.
LEMMA CommandTold ==
  ASSUME IInv, SlotStates, Told, pc = "read", NEW c, VSFTPCommandsParse(c)
  PROVE  Told'
<1>1. /\ SocketsIn(desc, transferSock, transferClientSock) /\ clientSock \in Fd
      /\ desc \in Tables /\ None \in SlotValues
      /\ transferSock \in SlotValues /\ transferClientSock \in SlotValues
  BY Basics, InSessionSlots DEF Places, FlagsOfPlace, SlotsTyped, Slots, SlotValues
<1> DEFINE closed == CloseTransferSockets(desc)
           Plain == {213, 214, 215, 221, 230, 257, 250, 2000, 2001, 451, 502, 504, 530, 550, 551}
<1>2. closed \in Tables
  BY <1>1, TransferSocketsGone
<1> HIDE DEF closed
<1>3. Plain \subseteq FinalReplies \ {226}
  BY DEF FinalReplies
<1>4. ASSUME NEW code \in Plain, JustReply(code) PROVE Told'
  BY <1>1, <1>3, <1>4, ConcludeTold DEF JustReply
<1>5. ASSUME NEW code \in Plain, Conclude(closed, None, None, <<>>, code), UNCHANGED clientSock PROVE Told'
  BY <1>1, <1>2, <1>3, <1>5, ConcludeTold
<1>6. CASE CommandHandlerUser(c)
  <2>1. CASE JustReply(230) \/ JustReply(530)
    BY <1>4, <2>1
  <2>2. CASE ClientDisconnect(ErrorReported(desc, clientSock)) /\ pc' = "test"
    BY <2>2
    DEF ClientDisconnect, ForgetTransferSockets, Told, RepliesOfPlace, AnsweredOnce, NumbersGone
  <2> QED
    BY <1>6, <2>1, <2>2 DEF CommandHandlerUser
<1>7. CASE CommandHandlerPasv(c)
  <2>1. PICK r \in CreatePassiveSocket(closed) :
          Conclude(r.table, r.sock, None, <<>>, IF r.retval = 0 THEN 227 ELSE 425)
    BY <1>7 DEF CommandHandlerPasv, closed
  <2>2. r.sock \in SlotValues /\ r.table \in Tables
    BY <1>2, CreateSlots
  <2>3. \E code \in {227, 425} : Conclude(r.table, r.sock, None, <<>>, code)
    BY <2>1
  <2>4. {227, 425} \subseteq FinalReplies \ {226}
    BY DEF FinalReplies
  <2> QED
    BY <1>1, <1>7, <2>2, <2>3, <2>4, ConcludeTold DEF CommandHandlerPasv
<1>8. CASE CommandHandlerCwd(c)
  BY <1>4, <1>8 DEF CommandHandlerCwd
<1>9. CASE CommandHandlerType(c)
  <2>1. JustReply(SwitchingTo(c = "TYPE I")) \/ JustReply(504)
    BY <1>9, Zenon DEF CommandHandlerType
  <2>2. SwitchingTo(c = "TYPE I") \in Plain /\ 504 \in Plain
    BY DEF SwitchingTo
  <2> HIDE DEF Plain
  <2> QED
    BY <1>4, <2>1, <2>2, Zenon
<1>10. CASE CommandHandlerSyst(c) \/ CommandHandlerPwd(c) \/ CommandHandlerSize(c)
              \/ CommandHandlerHelp(c) \/ CommandHandlerQuit(c)
  BY <1>4, <1>10
  DEF CommandHandlerSyst, CommandHandlerPwd, CommandHandlerSize, CommandHandlerHelp, CommandHandlerQuit
<1>11. CASE BeginTransfer(c)
  <2>1. CASE pc' = "dataAccept" /\ replies' = <<>>
    <3>1. NumbersGone'
      BY <2>1, CodesOf DEF NumbersGone, Codes
    <3> QED
      BY <2>1, <3>1 DEF Told, RepliesOfPlace, AnsweredOnce
  <2>2. CASE \E code \in PathFailCodes[c] \cup {FailCode[c]} : Conclude(closed, None, None, <<>>, code)
    <3>1. c \in {"NLST", "RETR"} /\ UNCHANGED clientSock
      BY <1>11 DEF BeginTransfer
    <3>2. PathFailCodes[c] \cup {FailCode[c]} \subseteq Plain
      BY <3>1 DEF PathFailCodes, FailCode
    <3>3. PICK code \in Plain : Conclude(closed, None, None, <<>>, code)
      <4> HIDE DEF Plain
      <4> QED
        BY <2>2, <3>2
    <3> QED
      BY <1>5, <3>1, <3>3
  <2> QED
    BY <1>11, <2>1, <2>2 DEF BeginTransfer, closed
<1>12. CASE RejectCommand(c)
  BY <1>4, <1>5, <1>12 DEF RejectCommand, closed
<1> QED
  BY <1>6, <1>7, <1>8, <1>9, <1>10, <1>11, <1>12 DEF VSFTPCommandsParse

\* So do the steps of a transfer, which tell 150 first and 226 only after it.
LEMMA TransferTold ==
  ASSUME IInv, SlotStates, Told,
         AcceptTransferClient \/ AcceptTransferClientFails \/ SendPreliminaryReply \/ OpenSource
           \/ SendChunk \/ SendFails \/ SendRaisesPipe \/ EndOfSource
  PROVE  Told'
<1>1. replies \in {<<>>, << 150 >>}
  BY DEF AcceptTransferClient, AcceptTransferClientFails, SendPreliminaryReply, OpenSource,
         SendChunk, SendFails, SendRaisesPipe, EndOfSource, Told, RepliesOfPlace
<1>2. retval' \in {0, -1} /\ pc' \in {"prelim", "open", "send", "finish", "killed"}
  BY Basics
  DEF AcceptTransferClient, AcceptTransferClientFails, SendPreliminaryReply, OpenSource,
      SendChunk, SendFails, SendRaisesPipe, EndOfSource, TypeOK
<1>3. replies' \in {<<>>, << 150 >>} /\ RepliesOfPlace'
  BY <1>2, CodesOf
  DEF AcceptTransferClient, AcceptTransferClientFails, SendPreliminaryReply, OpenSource,
      SendChunk, SendFails, SendRaisesPipe, EndOfSource, Told, RepliesOfPlace
<1>4. AnsweredOnce'
  BY <1>2 DEF AnsweredOnce
<1>5. Codes(replies') \subseteq {150}
  <2>1. Codes(<<>>) = {} /\ Codes(<< 150 >>) = {150}
    BY DEF Codes
  <2> QED
    BY <1>3, <2>1
<1>6. NumbersGone'
  BY <1>5, SMTT(30) DEF NumbersGone, Codes
<1> QED
  BY <1>3, <1>4, <1>6 DEF Told

\* Closing the transfer sockets tells nothing; the last reply comes after it.
LEMMA FinishTold ==
  ASSUME IInv, SlotStates, Told, CloseTransfer \/ ReplyToTransfer
  PROVE  Told'
<1>1. CASE CloseTransfer
  BY <1>1 DEF CloseTransfer, ForgetTransferSockets, Told, RepliesOfPlace, AnsweredOnce, NumbersGone
<1>2. CASE ReplyToTransfer
  <2>1. pc = "reply" /\ isConnected /\ cmd \in {"NLST", "RETR"} /\ retval \in {-1, 0}
    BY <1>2, Basics DEF ReplyToTransfer, Places, FlagsOfPlace, TypeOK, Handling
  <2>2. clientSock \in Fd /\ None \in SlotValues /\ UNCHANGED clientSock /\ desc \in Tables
    BY <1>2, <2>1, Basics, InSessionSlots DEF ReplyToTransfer, handler, SlotValues
  <2>3. transferSock = None /\ transferClientSock = None
    BY <2>1 DEF Told, RepliesOfPlace
  <2>4. replies = << 150 >> \/ (replies = <<>> /\ retval = -1)
    BY <2>1 DEF Told, RepliesOfPlace
  <2>5. CASE retval = 0
    <3>1. Conclude(desc, None, None, << 150 >>, 226)
      BY <1>2, <2>3, <2>4, <2>5 DEF ReplyToTransfer
    <3> QED
      BY <2>2, <3>1, ConcludeTold
  <2>6. CASE retval = -1
    <3>1. FailCode[cmd] \in {451, 550}
      BY <2>1 DEF FailCode
    <3>2. PICK code \in {451, 550} : Conclude(desc, None, None, replies, code)
      BY <1>2, <2>3, <2>6, <3>1 DEF ReplyToTransfer
    <3>3. {451, 550} \subseteq FinalReplies \ {226}
      BY DEF FinalReplies
    <3> QED
      BY <2>2, <2>4, <3>2, <3>3, ConcludeTold
  <2> QED
    BY <2>1, <2>5, <2>6
<1> QED
  BY <1>1, <1>2

\* So does every other step: a server that starts, stops or disconnects has no
\* connected client, and nobody else makes a reply or a connection that works.
LEMMA StepTold == IInv /\ SlotStates /\ Told /\ [Next]_vars => Told'
<1> SUFFICES ASSUME IInv, SlotStates, Told, [Next]_vars PROVE Told'
  OBVIOUS
<1> USE DEF Told, RepliesOfPlace, AnsweredOnce, NumbersGone
<1>1. CASE ServerStart
  BY <1>1, Basics DEF ServerStart, Places, FlagsOfPlace
<1>2. CASE AcceptClient
  <2>1. transferSock' = None /\ UNCHANGED <<transferSock, transferClientSock>>
    BY <1>2, Basics DEF AcceptClient, Places, FlagsOfPlace, NoDataPortYet
  <2>6. pc' \in {"test", "killed"}
    BY <1>2, ZenonT(40) DEF AcceptClient
  <2>2. replies' = << 220 >> \/ (replies' = <<>> /\ retval' = -1)
    BY <1>2, ZenonT(40) DEF AcceptClient
  <2>3. Codes(<< 220 >>) = {220} /\ Codes(<<>>) = {}
    BY DEF Codes
  <2>4. 226 \notin Codes(replies')
    BY <2>2, <2>3
  <2>5. AnsweredOnce'
    BY <2>2 DEF FinalReplies
  <2> QED
    BY <2>1, <2>4, <2>5, <2>6 DEF Codes
<1>3. CASE AcceptFails \/ ReadPartialLine \/ ReadFails \/ Exit
  BY <1>3 DEF AcceptFails, ReadPartialLine, ReadFails, Exit, ServerStop, ForgetTransferSockets
<1>4. CASE ReadEndOfFile
  BY <1>4 DEF ReadEndOfFile, ClientDisconnect, ForgetTransferSockets
<1>5. CASE ReadCommand
  BY <1>5, CommandTold DEF ReadCommand
<1>6. CASE AcceptTransferClient \/ AcceptTransferClientFails \/ SendPreliminaryReply \/ OpenSource
             \/ SendChunk \/ SendFails \/ SendRaisesPipe \/ EndOfSource
  BY <1>6, TransferTold
<1>7. CASE CloseTransfer \/ ReplyToTransfer
  BY <1>7, FinishTold
<1>8. CASE Environment
  <2>1. UNCHANGED <<clientSock, transferSock, transferClientSock, isConnected, pc, retval, replies>>
    BY <1>8 DEF Environment, process, sockets, flags
  <2>2. CanWrite(desc', clientSock) => CanWrite(desc, clientSock)
    BY <1>8, Basics
    DEF Environment, PeerConnects, ClientSends, PeerCloses, PeerResets, CanWrite, Is, Tables
  <2> QED
    BY <2>1, <2>2
<1>9. CASE CallAccept \/ CallRead \/ LoopTest \/ Terminate \/ Terminated \/ UNCHANGED vars
  <2>1. /\ UNCHANGED <<clientSock, transferSock, transferClientSock, isConnected, desc, retval, replies>>
        /\ UNCHANGED pc \/ pc' \in {"call", "accept", "read"}
    BY <1>9 DEF CallAccept, CallRead, LoopTest, Terminate, Terminated, vars, sockets, flags
  <2> QED
    BY <2>1
<1> QED
  BY <1>1, <1>2, <1>3, <1>4, <1>5, <1>6, <1>7, <1>8, <1>9 DEF Next, ServerStep, VSFTPServerHandler

LEMMA InitTold == Init => Told
  BY CodesOf DEF Init, Told, RepliesOfPlace, AnsweredOnce, NumbersGone, Codes

-----------------------------------------------------------------------------
(***************************************************************************)
(* The theorems.                                                           *)
(***************************************************************************)
\* In every state the replies to the command that runs are those of its place,
\* and what SlotsInvariant says holds too.
THEOREM SessionInvariant == Spec => []SessionInv
<1>1. Init => Told
  BY InitTold
<1>2. IInv /\ SlotStates /\ Told /\ [Next]_vars => Told'
  BY StepTold
<1>3. Told /\ SlotStates /\ CleanTable => SessionInv
  BY DEF Told, SessionInv
<1> QED
  BY <1>1, <1>2, <1>3, Invariant, SlotsInvariant, PTL DEF Spec

LEMMA ToldAlways == Spec => []Told
  BY InitTold, StepTold, Invariant, SlotsInvariant, PTL DEF Spec

\* A client that still reads has been sent exactly one last reply to its command,
\* after at most one 150, whatever failed in between.
THEOREM ExactlyOneAnswer == Spec => []AnsweredOnce
<1>1. Told => AnsweredOnce
  BY DEF Told
<1> QED
  BY <1>1, ToldAlways, PTL

\* 226 is told only after the data connection and the data port have ended: when
\* it has been, no descriptor of the process, under whatever number, is a passive
\* socket or a connection whose peer is there, but the server's and the client's.
THEOREM ClosedBefore226 == Spec => []DataClosedBefore226
<1>1. IInv /\ Told => DataClosedBefore226
  <2> SUFFICES ASSUME IInv, Told, 226 \in {replies[i] : i \in DOMAIN replies}
               PROVE  HealthySockets(desc) \subseteq {serverSock, clientSock}
    BY DEF DataClosedBefore226
  <2>1. transferSock = None /\ transferClientSock = None
    BY DEF Told, NumbersGone
  <2> QED
    BY <2>1, Basics DEF Slots, HealthySockets
<1> QED
  BY <1>1, ToldAlways, Invariant, PTL
=============================================================================
