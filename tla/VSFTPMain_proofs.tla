---------------------------- MODULE VSFTPMain_proofs ----------------------------
(***************************************************************************)
(* Theorems about VSFTPMain, for every number of descriptors, every        *)
(* selection of faults and command lines, and every bound.                 *)
(***************************************************************************)
EXTENDS VSFTPMain, TLAPS

Tables == [Fd -> DescState]
SlotValues == Fd \cup {None}

(***************************************************************************)
(* Lemmas about descriptor tables: what closing does to them.              *)
(***************************************************************************)
\* The closing operators and error reports keep a table a table.
LEMMA TablesClosed ==
  ASSUME NEW d \in Tables, NEW f \in SlotValues
  PROVE  /\ Close(d, f) \in Tables
         /\ CloseSocket(d, f) \in Tables
         /\ ErrorReported(d, f) \in Tables
  BY DEF Tables, SlotValues, Close, CloseSocket, ErrorReported, DescState, Connected

\* CloseSocket closes exactly the sockets that are healthy: shutdown() fails
\* on all others.
LEMMA CloseSocketHealthy ==
  ASSUME NEW d \in Tables, NEW f \in SlotValues
  PROVE  HealthySockets(CloseSocket(d, f)) = HealthySockets(d) \ {f}
  BY DEF Tables, SlotValues, HealthySockets, Healthy, CloseSocket, CanShutdown, Is, Close,
         DescState, Passive, Connected, Fd

\* close() without shutdown() closes a healthy socket too, and no other one.
LEMMA CloseHealthy ==
  ASSUME NEW d \in Tables, NEW f \in SlotValues
  PROVE  HealthySockets(Close(d, f)) = HealthySockets(d) \ {f}
  BY DEF Tables, SlotValues, HealthySockets, Healthy, Close, DescState, Passive, Fd

\* Reporting a reset neither heals nor breaks a healthy socket.
LEMMA ReportHealthy ==
  ASSUME NEW d \in Tables, NEW f \in SlotValues
  PROVE  HealthySockets(ErrorReported(d, f)) = HealthySockets(d)
  BY DEF Tables, SlotValues, HealthySockets, Healthy, ErrorReported, Is, DescState, Passive

\* An outcome of CreatePassiveSocket has a socket number, a table with at most
\* that one socket more, and a result; it never is standard input when that is
\* open.
LEMMA CreateOutcome ==
  ASSUME NEW d \in Tables, NEW r \in CreatePassiveSocket(d)
  PROVE  /\ r.sock \in SlotValues
         /\ r.table \in Tables
         /\ r.retval \in {-1, 0}
         /\ HealthySockets(r.table) \subseteq HealthySockets(d) \cup {r.sock}
         /\ r.retval # 0 => r.table = d
         /\ d[Stdin] # "free" => r.sock # Stdin /\ r.table[Stdin] = d[Stdin]
<1>1. CASE \E f \in LowestFree(d) :
             r = [sock |-> f, table |-> [d EXCEPT ![f] = "listening"], retval |-> 0]
  BY <1>1, MaxFdAssumption DEF Tables, SlotValues, LowestFree, HealthySockets, DescState, Passive, Fd, Stdin, None
<1>2. CASE r = [sock |-> None, table |-> d, retval |-> -1]
  BY <1>2, MaxFdAssumption DEF SlotValues, Fd, Stdin, None
<1>3. CASE \E f \in LowestFree(d) : r = [sock |-> f, table |-> d, retval |-> -1]
  BY <1>3, MaxFdAssumption DEF Tables, SlotValues, LowestFree, Fd, Stdin, None
<1> QED
  BY <1>1, <1>2, <1>3 DEF CreatePassiveSocket

\* Standard input, a file, survives a shutdown() and a close() of another
\* descriptor.
LEMMA StdinSurvives ==
  ASSUME NEW d \in Tables, NEW f \in SlotValues, d[Stdin] = "file"
  PROVE  /\ CloseSocket(d, f)[Stdin] = "file"
         /\ ErrorReported(d, f)[Stdin] = "file"
         /\ f # Stdin => Close(d, f)[Stdin] = "file"
  BY MaxFdAssumption DEF Tables, SlotValues, CloseSocket, CanShutdown, ErrorReported, Is, Close, Passive, Fd, Stdin

-----------------------------------------------------------------------------
(***************************************************************************)
(* Lemmas about the operations of the server.                              *)
(***************************************************************************)
SlotsTyped == Slots \subseteq SlotValues

\* The two transfer sockets are gone after CloseTransferSockets.
LEMMA TransferSocketsClosed ==
  ASSUME SlotsTyped, NEW d \in Tables
  PROVE  /\ CloseTransferSockets(d) \in Tables
         /\ HealthySockets(CloseTransferSockets(d))
              = HealthySockets(d) \ {transferSock, transferClientSock}
         /\ d[Stdin] = "file" => CloseTransferSockets(d)[Stdin] = "file"
<1> DEFINE e == CloseSocket(d, transferClientSock)
<1>1. transferClientSock \in SlotValues /\ transferSock \in SlotValues
  BY DEF SlotsTyped, Slots
<1>2. e \in Tables /\ HealthySockets(e) = HealthySockets(d) \ {transferClientSock}
  BY <1>1, TablesClosed, CloseSocketHealthy
<1>3. d[Stdin] = "file" => e[Stdin] = "file"
  BY <1>1, StdinSurvives
<1>4. CloseSocket(e, transferSock) \in Tables
  BY <1>1, <1>2, TablesClosed
<1>5. HealthySockets(CloseSocket(e, transferSock)) = HealthySockets(e) \ {transferSock}
  BY <1>1, <1>2, CloseSocketHealthy
<1>6. e[Stdin] = "file" => CloseSocket(e, transferSock)[Stdin] = "file"
  BY <1>1, <1>2, StdinSurvives
<1> QED
  BY <1>2, <1>3, <1>4, <1>5, <1>6 DEF CloseTransferSockets

\* After ClientDisconnect the server socket is the only healthy one left.
LEMMA Disconnected ==
  ASSUME SlotsTyped, NEW d \in Tables, ClientDisconnect(d), HealthySockets(d) \subseteq Slots
  PROVE  /\ desc' \in Tables
         /\ HealthySockets(desc') \subseteq {serverSock}
         /\ d[Stdin] = "file" => desc'[Stdin] = "file"
<1> DEFINE e == CloseTransferSockets(d)
<1>1. clientSock \in SlotValues
  BY DEF SlotsTyped, Slots
<1>2. /\ e \in Tables
      /\ HealthySockets(e) = HealthySockets(d) \ {transferSock, transferClientSock}
      /\ d[Stdin] = "file" => e[Stdin] = "file"
  BY TransferSocketsClosed
<1>3. desc' = CloseSocket(e, clientSock)
  BY DEF ClientDisconnect
<1>4. desc' \in Tables /\ HealthySockets(desc') = HealthySockets(e) \ {clientSock}
  BY <1>1, <1>2, <1>3, TablesClosed, CloseSocketHealthy
<1>5. e[Stdin] = "file" => desc'[Stdin] = "file"
  BY <1>1, <1>2, <1>3, StdinSurvives
<1> QED
  BY <1>2, <1>4, <1>5 DEF Slots

\* After ServerStop no healthy one is.
LEMMA Stopped ==
  ASSUME SlotsTyped, NEW d \in Tables, ServerStop(d), HealthySockets(d) \subseteq Slots
  PROVE  /\ desc' \in Tables
         /\ HealthySockets(desc') = {}
         /\ d[Stdin] = "file" /\ serverSock # Stdin => desc'[Stdin] = "file"
<1> DEFINE e == CloseTransferSockets(d)
           g == CloseSocket(e, clientSock)
<1>1. clientSock \in SlotValues /\ serverSock \in SlotValues
  BY DEF SlotsTyped, Slots
<1>2. /\ e \in Tables
      /\ HealthySockets(e) = HealthySockets(d) \ {transferSock, transferClientSock}
      /\ d[Stdin] = "file" => e[Stdin] = "file"
  BY TransferSocketsClosed
<1>3. g \in Tables /\ HealthySockets(g) = HealthySockets(e) \ {clientSock}
  BY <1>1, <1>2, TablesClosed, CloseSocketHealthy
<1>4. e[Stdin] = "file" => g[Stdin] = "file"
  BY <1>1, <1>2, StdinSurvives
<1>5. desc' = Close(g, serverSock)
  BY DEF ServerStop
<1>6. desc' \in Tables /\ HealthySockets(desc') = HealthySockets(g) \ {serverSock}
  BY <1>1, <1>3, <1>5, TablesClosed, CloseHealthy
<1>7. g[Stdin] = "file" /\ serverSock # Stdin => desc'[Stdin] = "file"
  BY <1>1, <1>3, <1>5, StdinSurvives
<1> QED
  BY <1>2, <1>3, <1>4, <1>6, <1>7 DEF Slots

\* A command ends with the transfer sockets it was given, or with none, and
\* loses no healthy socket on the way.
LEMMA Concluded ==
  ASSUME SlotsTyped, NEW d \in Tables, NEW ts \in SlotValues, NEW tcs \in SlotValues,
         NEW said \in Seq(Int), NEW code \in Int, Conclude(d, ts, tcs, said, code),
         HealthySockets(d) \subseteq {serverSock, clientSock, ts, tcs}
  PROVE  /\ retval' = 0
         /\ pc' \in {"test", "killed"}
         /\ replies' \in Seq(Int)
         /\ transferSock' \in {ts, None} /\ transferClientSock' \in {tcs, None}
         /\ desc' \in Tables
         /\ HealthySockets(desc') \subseteq {serverSock, clientSock, transferSock', transferClientSock'}
         /\ d[Stdin] = "file" => desc'[Stdin] = "file"
<1>1. clientSock \in SlotValues
  BY DEF SlotsTyped, Slots
<1>2. CASE CanWrite(d, clientSock)
  <2>1. Append(said, code) \in Seq(Int)
    OBVIOUS
  <2> QED
    BY <1>2, <2>1 DEF Conclude, RaisesPipe, CanWrite, Is
<1>3. CASE ~CanWrite(d, clientSock) /\ ~RaisesPipe(d, clientSock)
  <2> DEFINE e == ErrorReported(d, clientSock)
             g == CloseSocket(e, tcs)
  <2>1. e \in Tables /\ HealthySockets(e) = HealthySockets(d)
    BY <1>1, TablesClosed, ReportHealthy
  <2>2. g \in Tables /\ HealthySockets(g) = HealthySockets(e) \ {tcs}
    BY <2>1, TablesClosed, CloseSocketHealthy
  <2>3. CloseSocket(g, ts) \in Tables /\ HealthySockets(CloseSocket(g, ts)) = HealthySockets(g) \ {ts}
    BY <2>2, TablesClosed, CloseSocketHealthy
  <2>4. d[Stdin] = "file" => CloseSocket(g, ts)[Stdin] = "file"
    BY <1>1, <2>1, <2>2, StdinSurvives
  <2>5. /\ desc' = CloseSocket(g, ts)
        /\ transferSock' = None /\ transferClientSock' = None
        /\ retval' = 0 /\ pc' = "test" /\ replies' = said
    BY <1>3 DEF Conclude, ForgetTransferSockets
  <2> QED
    BY <2>1, <2>2, <2>3, <2>4, <2>5
<1>4. CASE RaisesPipe(d, clientSock)
  BY <1>4 DEF Conclude, RaisesPipe, CanWrite, Is
<1> QED
  BY <1>2, <1>3, <1>4

-----------------------------------------------------------------------------
(***************************************************************************)
(* The inductive invariant.                                                *)
(***************************************************************************)
Places == /\ FlagsOfPlace /\ NoClientYet /\ NoDataPortYet /\ NoDataConnectionYet
          /\ NothingWhenStopped /\ NoHealthySocketLost /\ StdinNotOurs

\* The invariant holds when the process starts.
LEMMA InitIInv == Init => IInv
<1> SUFFICES ASSUME Init PROVE IInv
  OBVIOUS
<1>1. Stdin \in Fd
  BY MaxFdAssumption DEF Fd, Stdin
<1>2. desc \in [Fd -> DescState] /\ desc[Stdin] \in {"file", "up"}
  BY <1>1 DEF Init, DescState, Connected
<1>3. \A f \in Fd \ {Stdin} : desc[f] = "free"
  BY <1>1 DEF Init
<1>4. "stdinSocket" \notin Faults => desc[Stdin] = "file"
  BY <1>1 DEF Init
<1>5. HealthySockets(desc) = {}
  BY <1>1, <1>3, <1>4 DEF HealthySockets, Healthy, Ours, Passive
<1>6. TypeOK
  <2>1. Slots \subseteq Fd \cup {None} /\ stream \in Fd \cup {None} /\ desc \in [Fd -> DescState]
    BY <1>1, <1>2 DEF Init, Slots, Stdin
  <2>2. inbox \in Seq(Lines \cup {EOL}) /\ replies \in Seq(Int) /\ left \in 0 .. MaxChunks
    BY MaxChunksAssumption DEF Init
  <2> QED
    BY <2>1, <2>2 DEF Init, TypeOK, PCs, Blocking, Transfers, Handling, Ended
<1>7. Places
  BY <1>4, <1>5
  DEF Init, Places, FlagsOfPlace, NoClientYet, NoDataPortYet, NoDataConnectionYet,
      NothingWhenStopped, NoHealthySocketLost, StdinNotOurs, Transfers, Handling, Ended, Stdin, None
<1> QED
  BY <1>6, <1>7 DEF IInv, Places

\* What the steps below use of the invariant.
LEMMA Basics ==
  ASSUME IInv
  PROVE  /\ TypeOK /\ Places /\ SlotsTyped
         /\ desc \in Tables
         /\ HealthySockets(desc) \subseteq Slots
         /\ Stdin \in Fd /\ None \notin Fd /\ Stdin # None
  BY MaxFdAssumption
  DEF IInv, Places, TypeOK, SlotsTyped, SlotValues, Tables, NoHealthySocketLost, Fd, Stdin, None

\* VSFTPServerStart preserves it.
LEMMA StartIInv ==
  ASSUME IInv, ServerStart
  PROVE  IInv'
<1>1. pc = "call" /\ ~isServerSocketCreated /\ ~isConnected
  BY Basics DEF ServerStart, Places, FlagsOfPlace
<1>2. HealthySockets(desc) = {}
  BY Basics, <1>1 DEF Places, NothingWhenStopped
<1>3. /\ serverSock' \in SlotValues /\ desc' \in Tables /\ retval' \in {-1, 0}
      /\ HealthySockets(desc') \subseteq {serverSock'}
      /\ isServerSocketCreated' \in BOOLEAN
      /\ ~isServerSocketCreated' => desc' = desc
      /\ desc[Stdin] # "free" => serverSock' # Stdin /\ desc'[Stdin] = desc[Stdin]
      /\ cwd' \in Dirs \cup {NoDir} /\ transferModeBinary' \in BOOLEAN
  <2>1. CASE retval' = -1 /\ serverSock' = None /\ UNCHANGED <<settings, desc, isServerSocketCreated>>
    BY <1>1, <1>2, <2>1, Basics DEF TypeOK, settings, SlotValues
  <2>2. ASSUME NEW r \in CreatePassiveSocket(desc),
               serverSock' = r.sock, desc' = r.table, retval' = r.retval,
               isServerSocketCreated' = (r.retval = 0),
               cwd' = RootDir, transferModeBinary' = TRUE
        PROVE  <1>3!:
    BY <1>1, <1>2, <2>2, Basics, CreateOutcome, DirsAssumption
  <2> QED
    BY <2>1, <2>2 DEF ServerStart
<1>4. TypeOK'
  BY <1>3, Basics DEF ServerStart, TypeOK, Slots, SlotValues, Tables, PCs, transfer
<1>5. Places'
  BY <1>1, <1>2, <1>3, Basics
  DEF ServerStart, Places, FlagsOfPlace, NoClientYet, NoDataPortYet, NoDataConnectionYet,
      NothingWhenStopped, NoHealthySocketLost, StdinNotOurs, Slots, transfer,
      Blocking, Transfers, Handling, Ended
<1> QED
  BY <1>4, <1>5 DEF IInv, Places

\* The steps that only move the thread, and the signal, preserve it.
LEMMA MoveIInv ==
  ASSUME IInv, CallAccept \/ CallRead \/ LoopTest \/ Terminate \/ Terminated \/ UNCHANGED vars
  PROVE  IInv'
<1> USE DEF CallAccept, CallRead, LoopTest, Terminate, Terminated, vars, sockets, settings, flags, transfer
<1>1. TypeOK'
  <2>1. interrupted' \in BOOLEAN /\ quit' \in BOOLEAN
    <3>1. CASE Terminate
      BY <3>1 DEF Terminate
    <3>2. CASE UNCHANGED <<interrupted, quit>>
      BY <3>2, Basics DEF TypeOK
    <3> QED
      BY <3>1, <3>2
  <2>2. pc' \in PCs
    BY Basics DEF TypeOK, PCs, Blocking, Transfers, Handling, Ended
  <2> QED
    BY <2>1, <2>2, Basics DEF TypeOK, Slots
<1>2. UNCHANGED <<desc, serverSock, clientSock, transferSock, transferClientSock, stream,
                  isServerSocketCreated, isConnected, retval>>
  OBVIOUS
<1>3. Places'
  BY <1>2, Basics
  DEF Places, FlagsOfPlace, NoClientYet, NoDataPortYet, NoDataConnectionYet, Failing,
      NothingWhenStopped, NoHealthySocketLost, StdinNotOurs, Slots, TypeOK,
      Blocking, Transfers, Handling, Ended
<1> QED
  BY <1>1, <1>3 DEF IInv, Places

\* Stopping the server, as four of the actions do, leads to a state that
\* satisfies it.
LEMMA StopPlaces ==
  ASSUME IInv, NEW d \in Tables, ServerStop(d),
         HealthySockets(d) = HealthySockets(desc),
         desc[Stdin] = "file" => d[Stdin] = "file",
         pc \in {"accept", "read", "test"}, pc' \in {"test", "exited"}, UNCHANGED stream
  PROVE  /\ Places'
         /\ desc' \in Tables
         /\ serverSock' = None /\ clientSock' = None
         /\ transferSock' = None /\ transferClientSock' = None
         /\ isConnected' = FALSE /\ isServerSocketCreated' = FALSE
<1>1. /\ serverSock' = None /\ clientSock' = None
      /\ transferSock' = None /\ transferClientSock' = None
      /\ isConnected' = FALSE /\ isServerSocketCreated' = FALSE
  BY DEF ServerStop, ForgetTransferSockets
<1>2. /\ desc' \in Tables /\ HealthySockets(desc') = {}
      /\ d[Stdin] = "file" /\ serverSock # Stdin => desc'[Stdin] = "file"
  BY Basics, Stopped
<1>3. "stdinSocket" \notin Faults => d[Stdin] = "file" /\ serverSock # Stdin /\ stream # Stdin
  BY Basics DEF Places, StdinNotOurs
<1>4. Places'
  BY <1>1, <1>2, <1>3, Basics
  DEF Places, FlagsOfPlace, NoClientYet, NoDataPortYet, NoDataConnectionYet,
      NothingWhenStopped, NoHealthySocketLost, StdinNotOurs, Blocking, Transfers, Handling, Ended
<1> QED
  BY <1>1, <1>2, <1>4

\* The steps of WaitForIncomingConnection preserve it.
LEMMA AcceptIInv ==
  ASSUME IInv, AcceptClient \/ AcceptFails
  PROVE  IInv'
<1>1. CASE AcceptClient
  <2> DEFINE table(f, s) == [desc EXCEPT ![serverSock] = "listening", ![f] = s]
             greeted(f, s) ==
               IF CanWrite(table(f, s), f)
               THEN isConnected' = TRUE /\ retval' = 0 /\ replies' = << 220 >>
               ELSE retval' = -1 /\ replies' = <<>> /\ UNCHANGED isConnected
  <2>0. \E f \in LowestFree(desc), s \in AcceptedState :
          /\ clientSock' = f
          /\ \/ /\ cwd' = SessionDir /\ desc' = ErrorReported(table(f, s), f) /\ greeted(f, s)
                /\ pc' = IF RaisesPipe(table(f, s), f) THEN "killed" ELSE "test"
             \/ /\ desc' = table(f, s) /\ retval' = -1 /\ replies' = <<>> /\ pc' = "test"
                /\ UNCHANGED <<cwd, isConnected>>
    BY <1>1, Zenon DEF AcceptClient
  <2>1. PICK f \in LowestFree(desc), s \in AcceptedState :
          /\ clientSock' = f
          /\ desc' \in {ErrorReported(table(f, s), f), table(f, s)}
          /\ \/ isConnected' = TRUE /\ retval' = 0 /\ replies' = << 220 >> /\ pc' = "test"
             \/ retval' = -1 /\ replies' = <<>> /\ UNCHANGED isConnected /\ pc' \in {"test", "killed"}
          /\ cwd' \in {SessionDir, cwd}
    BY <2>0 DEF CanWrite, RaisesPipe, Is
  <2>2. pc = "accept" /\ isServerSocketCreated /\ ~isConnected
    BY <1>1, Basics DEF AcceptClient, Places, FlagsOfPlace
  <2>3. clientSock = None /\ transferSock = None /\ transferClientSock \in {None, Stdin}
    BY <2>2, Basics DEF Places, NoClientYet, NoDataPortYet, NoDataConnectionYet, Failing,
                        Transfers, Handling, Ended
  <2>4. serverSock \in Fd /\ desc[serverSock] = "ready" /\ f \in Fd /\ desc[f] = "free"
    BY <1>1 DEF AcceptClient, Is, LowestFree
  <2> DEFINE e == table(f, s)
  <2>5. s \in Connected
    BY DEF AcceptedState, Connected
  <2>6. e \in Tables /\ HealthySockets(e) \subseteq HealthySockets(desc) \cup {f}
    BY <2>4, <2>5, Basics DEF Tables, DescState, HealthySockets, Healthy, Passive
  <2>7. desc[Stdin] = "file" => e[Stdin] = "file"
    BY <2>4, Basics DEF Tables
  <2>8. f \in SlotValues
    BY <2>4 DEF SlotValues
  <2>9. /\ desc' \in Tables /\ HealthySockets(desc') \subseteq HealthySockets(desc) \cup {f}
        /\ desc[Stdin] = "file" => desc'[Stdin] = "file"
    BY <2>1, <2>6, <2>7, <2>8, TablesClosed, ReportHealthy, StdinSurvives
  <2>10. HealthySockets(desc') \subseteq Slots'
    <3>1. Stdin \notin HealthySockets(desc)
      BY Basics DEF Places, StdinNotOurs, HealthySockets, Healthy, Passive, Ours
    <3>2. HealthySockets(desc) \subseteq {serverSock}
      BY <2>3, <3>1, Basics DEF Slots, HealthySockets
    <3> QED
      BY <1>1, <2>1, <2>9, <3>2 DEF AcceptClient, Slots
  <2>11. TypeOK'
    <3>1. Slots' \subseteq SlotValues
      BY <1>1, <2>1, <2>8, Basics DEF AcceptClient, SlotsTyped, Slots
    <3>2. /\ << 220 >> \in Seq(Int) /\ <<>> \in Seq(Int)
          /\ <<>> \in Seq(Lines \cup {EOL})
      OBVIOUS
    <3>4. retval' \in {-1, 0} /\ replies' \in {<< 220 >>, <<>>} /\ inbox' = <<>>
      BY <1>1, <2>1 DEF AcceptClient
    <3>3. cwd' \in Dirs \cup {NoDir} /\ isConnected' \in BOOLEAN
      BY <2>1, Basics, DirsAssumption DEF SessionDir, TypeOK
    <3>5. pc' \in PCs
      BY <2>1 DEF PCs, Ended
    <3> QED
      BY <1>1, <2>2, <2>9, <3>1, <3>2, <3>3, <3>4, <3>5, Basics
      DEF AcceptClient, TypeOK, SlotValues, Tables, PCs, transfer
  <2>12. Places'
    BY <1>1, <2>1, <2>2, <2>3, <2>9, <2>10, Basics
    DEF AcceptClient, Places, FlagsOfPlace, NoClientYet, NoDataPortYet, NoDataConnectionYet, Failing,
        NothingWhenStopped, NoHealthySocketLost, StdinNotOurs, Blocking, Transfers, Handling, Ended, transfer
  <2> QED
    BY <2>11, <2>12 DEF IInv, Places
<1>2. CASE AcceptFails
  <2>1. /\ Places' /\ desc' \in Tables
        /\ serverSock' = None /\ clientSock' = None
        /\ transferSock' = None /\ transferClientSock' = None
        /\ isConnected' = FALSE /\ isServerSocketCreated' = FALSE
    BY <1>2, Basics, StopPlaces DEF AcceptFails, transfer
  <2>2. TypeOK'
    BY <1>2, <2>1, Basics DEF AcceptFails, TypeOK, Slots, Tables, PCs, settings, transfer
  <2> QED
    BY <2>1, <2>2 DEF IInv, Places
<1> QED
  BY <1>1, <1>2

\* The steps of main() that end the process preserve it.
LEMMA ExitIInv ==
  ASSUME IInv, Exit
  PROVE  IInv'
<1>1. /\ Places' /\ desc' \in Tables
      /\ serverSock' = None /\ clientSock' = None
      /\ transferSock' = None /\ transferClientSock' = None
      /\ isConnected' = FALSE /\ isServerSocketCreated' = FALSE
  BY Basics, StopPlaces DEF Exit, transfer
<1>2. TypeOK'
  BY <1>1, Basics DEF Exit, TypeOK, Slots, Tables, PCs, Ended, settings, transfer
<1> QED
  BY <1>1, <1>2 DEF IInv, Places

\* What the end of a command leaves: used for every command below.
Ending(ts, tcs) ==
  /\ Places'
  /\ Slots' \subseteq SlotValues /\ desc' \in Tables
  /\ retval' = 0 /\ pc' \in PCs /\ replies' \in Seq(Int)

LEMMA ConcludePlaces ==
  ASSUME IInv, NEW d \in Tables, NEW ts \in SlotValues, NEW tcs \in {None, Stdin},
         NEW said \in Seq(Int), NEW code \in Int, Conclude(d, ts, tcs, said, code),
         HealthySockets(d) \subseteq {serverSock, clientSock, ts, tcs},
         desc[Stdin] = "file" => d[Stdin] = "file",
         pc \in {"read"} \cup Handling,
         UNCHANGED <<serverSock, clientSock, flags, stream>>
  PROVE  Ending(ts, tcs)
<1>1. isServerSocketCreated /\ isConnected
  BY Basics DEF Places, FlagsOfPlace
<1>2. tcs \in SlotValues
  BY Basics DEF SlotValues
<1>3. /\ retval' = 0
      /\ pc' \in {"test", "killed"}
      /\ replies' \in Seq(Int)
      /\ transferSock' \in {ts, None} /\ transferClientSock' \in {tcs, None}
      /\ desc' \in Tables
      /\ HealthySockets(desc') \subseteq {serverSock, clientSock, transferSock', transferClientSock'}
      /\ d[Stdin] = "file" => desc'[Stdin] = "file"
  BY <1>2, Basics, Concluded
<1>4. "stdinSocket" \notin Faults => desc[Stdin] = "file" /\ serverSock # Stdin /\ stream # Stdin
  BY <1>1, Basics DEF Places, StdinNotOurs
<1>5. Places'
  BY <1>1, <1>3, <1>4
  DEF flags, Places, FlagsOfPlace, NoClientYet, NoDataPortYet, NoDataConnectionYet,
      NothingWhenStopped, NoHealthySocketLost, Slots, StdinNotOurs, Blocking, Transfers, Handling, Ended
<1>6. Slots' \subseteq SlotValues
  BY <1>2, <1>3, Basics DEF SlotsTyped, Slots, SlotValues
<1> QED
  BY <1>3, <1>5, <1>6 DEF Ending, PCs, Ended

\* A command that only replies ends so.
LEMMA JustReplyEnding ==
  ASSUME IInv, pc = "read", NEW code \in Int, JustReply(code)
  PROVE  Ending(transferSock, transferClientSock)
<1>1. transferClientSock \in {None, Stdin} /\ transferSock \in SlotValues
  BY Basics DEF Places, NoDataConnectionYet, SlotsTyped, Slots, Transfers, Handling, Ended
<1>2. <<>> \in Seq(Int)
  OBVIOUS
<1> QED
  BY <1>1, <1>2, Basics, ConcludePlaces DEF JustReply, Slots, flags, transfer

\* So does one that fails and closes the transfer sockets.
LEMMA FailureEnding ==
  ASSUME IInv, pc \in {"read"} \cup Handling, NEW said \in Seq(Int), NEW code \in Int,
         Conclude(CloseTransferSockets(desc), None, None, said, code),
         UNCHANGED <<serverSock, clientSock, flags, stream>>
  PROVE  Ending(None, None)
<1> DEFINE d == CloseTransferSockets(desc)
<1>1. /\ d \in Tables
      /\ HealthySockets(d) = HealthySockets(desc) \ {transferSock, transferClientSock}
      /\ desc[Stdin] = "file" => d[Stdin] = "file"
  BY Basics, TransferSocketsClosed
<1>2. HealthySockets(d) \subseteq {serverSock, clientSock, None}
  BY <1>1, Basics DEF Slots
<1> QED
  BY <1>1, <1>2, Basics, ConcludePlaces DEF SlotValues

\* So does PASV, which replaces the data port.
LEMMA PasvEnding ==
  ASSUME IInv, pc = "read", CommandHandlerPasv("PASV")
  PROVE  \E ts \in SlotValues : Ending(ts, None)
<1> DEFINE d == CloseTransferSockets(desc)
<1>1. /\ d \in Tables
      /\ HealthySockets(d) = HealthySockets(desc) \ {transferSock, transferClientSock}
      /\ desc[Stdin] = "file" => d[Stdin] = "file"
  BY Basics, TransferSocketsClosed
<1>2. PICK r \in CreatePassiveSocket(d), code \in Int :
        Conclude(r.table, r.sock, None, <<>>, code)
  <2>1. \E r \in CreatePassiveSocket(d) :
          Conclude(r.table, r.sock, None, <<>>, IF r.retval = 0 THEN 227 ELSE 425)
    BY DEF CommandHandlerPasv
  <2> QED
    BY <2>1
<1>3. /\ r.sock \in SlotValues /\ r.table \in Tables
      /\ HealthySockets(r.table) \subseteq HealthySockets(d) \cup {r.sock}
      /\ d[Stdin] # "free" => r.sock # Stdin /\ r.table[Stdin] = d[Stdin]
  BY <1>1, CreateOutcome
<1>4. PICK t \in Tables, ts \in SlotValues :
        /\ Conclude(t, ts, None, <<>>, code)
        /\ HealthySockets(t) \subseteq HealthySockets(d) \cup {ts}
        /\ d[Stdin] # "free" => t[Stdin] = d[Stdin]
  BY <1>2, <1>3
<1>5. HealthySockets(t) \subseteq {serverSock, clientSock, ts, None}
  BY <1>1, <1>4, Basics DEF Slots
<1>6. desc[Stdin] = "file" => t[Stdin] = "file"
  BY <1>1, <1>4
<1>7. UNCHANGED <<serverSock, clientSock, flags, stream>>
  BY DEF CommandHandlerPasv, transfer
<1>8. <<>> \in Seq(Int)
  OBVIOUS
<1>9. Ending(ts, None)
  BY <1>4, <1>5, <1>6, <1>7, <1>8, ConcludePlaces
<1> QED
  BY <1>9

\* The client goes and the server socket stays: a disconnect satisfies it.
LEMMA DisconnectPlaces ==
  ASSUME IInv, pc = "read", NEW d \in Tables, ClientDisconnect(d),
         HealthySockets(d) = HealthySockets(desc),
         desc[Stdin] = "file" => d[Stdin] = "file",
         retval' = 0, pc' = "test", UNCHANGED stream
  PROVE  /\ Places'
         /\ desc' \in Tables
         /\ Slots' \subseteq SlotValues
         /\ isConnected' = FALSE /\ isServerSocketCreated' = isServerSocketCreated
<1>1. /\ clientSock' = None /\ transferSock' = None /\ transferClientSock' = None
      /\ isConnected' = FALSE /\ UNCHANGED <<serverSock, isServerSocketCreated>>
  BY DEF ClientDisconnect, ForgetTransferSockets
<1>2. /\ desc' \in Tables /\ HealthySockets(desc') \subseteq {serverSock}
      /\ d[Stdin] = "file" => desc'[Stdin] = "file"
  BY Basics, Disconnected
<1>3. isServerSocketCreated
  BY Basics DEF Places, FlagsOfPlace
<1>4. Places'
  BY <1>1, <1>2, <1>3, Basics
  DEF Places, FlagsOfPlace, NoClientYet, NoDataPortYet, NoDataConnectionYet,
      NothingWhenStopped, NoHealthySocketLost, StdinNotOurs, Slots, Blocking, Transfers, Handling, Ended
<1>5. Slots' \subseteq SlotValues
  BY <1>1, Basics DEF SlotsTyped, Slots, SlotValues
<1> QED
  BY <1>1, <1>2, <1>4, <1>5

\* The invariant but for the variables that reading a command sets.
Handled ==
  /\ Places
  /\ Slots \subseteq SlotValues /\ desc \in Tables
  /\ cwd \in Dirs \cup {NoDir} /\ transferModeBinary \in BOOLEAN
  /\ isConnected \in BOOLEAN /\ isServerSocketCreated \in BOOLEAN
  /\ pc \in PCs /\ retval \in {-1, 0}
  /\ cmd \in {"none", "NLST", "RETR"} /\ stream \in Fd \cup {None} /\ left \in 0 .. MaxChunks
  /\ replies \in Seq(Int)

\* A command that ends in the way of the lemmas above has been handled.
LEMMA EndingHandled ==
  ASSUME IInv, NEW ts, NEW tcs, Ending(ts, tcs), UNCHANGED <<flags, transfer>>,
         cwd' \in Dirs \cup {cwd}, transferModeBinary' \in BOOLEAN
  PROVE  Handled'
  BY Basics DEF Ending, Handled, TypeOK, flags, transfer

\* Every command handler preserves it.
LEMMA CommandHandled ==
  ASSUME IInv, pc = "read", NEW c, VSFTPCommandsParse(c)
  PROVE  Handled'
<1>0. cwd \in Dirs \cup {cwd} /\ transferModeBinary \in BOOLEAN
  BY Basics DEF TypeOK
<1>1. CASE CommandHandlerUser(c)
  <2>1. CASE /\ \/ JustReply(230)
               \/ JustReply(530)
             /\ UNCHANGED settings
    BY <2>1, <1>0, JustReplyEnding, EndingHandled DEF JustReply, settings
  <2>2. CASE /\ replies' = IF CanWrite(desc, clientSock) THEN << 530 >> ELSE <<>>
             /\ ClientDisconnect(ErrorReported(desc, clientSock))
             /\ retval' = 0 /\ pc' = "test"
             /\ UNCHANGED <<settings, transfer>>
    <3> DEFINE d == ErrorReported(desc, clientSock)
    <3>1. /\ d \in Tables /\ HealthySockets(d) = HealthySockets(desc)
          /\ desc[Stdin] = "file" => d[Stdin] = "file"
      BY Basics, TablesClosed, ReportHealthy, StdinSurvives DEF SlotsTyped, Slots
    <3>2. /\ Places' /\ desc' \in Tables /\ Slots' \subseteq SlotValues
          /\ isConnected' = FALSE /\ isServerSocketCreated' = isServerSocketCreated
      BY <2>2, <3>1, DisconnectPlaces DEF transfer
    <3>3. << 530 >> \in Seq(Int) /\ <<>> \in Seq(Int)
      OBVIOUS
    <3> QED
      BY <2>2, <3>2, <3>3, Basics DEF Handled, TypeOK, PCs, settings, transfer
  <2> QED
    BY <1>1, <2>1, <2>2 DEF CommandHandlerUser
<1>2. CASE CommandHandlerPasv(c)
  <2>1. c = "PASV"
    BY <1>2 DEF CommandHandlerPasv
  <2>2. PICK ts \in SlotValues : Ending(ts, None)
    BY <1>2, <2>1, PasvEnding
  <2> QED
    BY <1>0, <1>2, <2>2, EndingHandled DEF CommandHandlerPasv, settings
<1>3. CASE CommandHandlerCwd(c)
  BY <1>0, <1>3, JustReplyEnding, EndingHandled DEF CommandHandlerCwd, JustReply
<1>4. CASE CommandHandlerType(c)
  <2>1. transferModeBinary' \in BOOLEAN
    <3>1. CASE c = "TYPE ?" \/ ~CanWrite(desc, clientSock)
      BY <1>0, <1>4, <3>1 DEF CommandHandlerType
    <3>2. CASE c # "TYPE ?" /\ CanWrite(desc, clientSock)
      BY <1>4, <3>2, Zenon DEF CommandHandlerType
    <3> QED
      BY <3>1, <3>2
  <2>2. PICK code \in Int : JustReply(code)
    <3>1. JustReply(SwitchingTo(c = "TYPE I")) \/ JustReply(504)
      BY <1>4, Zenon DEF CommandHandlerType
    <3>2. SwitchingTo(c = "TYPE I") \in Int /\ 504 \in Int
      BY DEF SwitchingTo
    <3> QED
      BY <3>1, <3>2, Zenon
  <2>3. Ending(transferSock, transferClientSock) /\ UNCHANGED <<flags, transfer>>
    BY <2>2, JustReplyEnding DEF JustReply
  <2>4. cwd' \in Dirs \cup {cwd}
    BY <1>4 DEF CommandHandlerType
  <2> QED
    BY <2>1, <2>3, <2>4, EndingHandled
<1>5. CASE /\ \/ CommandHandlerSyst(c) \/ CommandHandlerPwd(c) \/ CommandHandlerSize(c)
              \/ CommandHandlerHelp(c) \/ CommandHandlerQuit(c)
           /\ UNCHANGED settings
  <2>1. PICK code \in Int : JustReply(code)
    BY <1>5 DEF CommandHandlerSyst, CommandHandlerPwd, CommandHandlerSize, CommandHandlerHelp,
                CommandHandlerQuit
  <2> QED
    BY <1>0, <1>5, <2>1, JustReplyEnding, EndingHandled DEF JustReply, settings
<1>6. CASE BeginTransfer(c)
  <2>1. c \in {"NLST", "RETR"} /\ UNCHANGED <<serverSock, clientSock, flags, settings, stream, left>>
    BY <1>6 DEF BeginTransfer
  <2>2. CASE /\ cmd' = c /\ pc' = "dataAccept" /\ replies' = <<>>
             /\ UNCHANGED <<desc, transferSock, transferClientSock, retval>>
    <3>1. Places'
      BY <2>1, <2>2, Basics
      DEF flags, Places, FlagsOfPlace, NoClientYet, NoDataPortYet, NoDataConnectionYet,
          NothingWhenStopped, NoHealthySocketLost, StdinNotOurs, Slots, Blocking, Transfers, Handling, Ended
    <3>2. <<>> \in Seq(Int)
      OBVIOUS
    <3> QED
      BY <2>1, <2>2, <3>1, <3>2, Basics
      DEF Handled, TypeOK, PCs, Blocking, flags, settings, Slots, SlotsTyped
  <2>3. CASE /\ \E code \in PathFailCodes[c] \cup
                    (IF Is(desc, transferSock, Passive) THEN {} ELSE {FailCode[c]}) :
                   Conclude(CloseTransferSockets(desc), None, None, <<>>, code)
             /\ UNCHANGED cmd
    <3>1. PICK code \in Int : Conclude(CloseTransferSockets(desc), None, None, <<>>, code)
      BY <2>1, <2>3 DEF PathFailCodes, FailCode
    <3>2. <<>> \in Seq(Int)
      OBVIOUS
    <3>3. Ending(None, None)
      BY <2>1, <3>1, <3>2, FailureEnding
    <3> QED
      BY <1>0, <2>1, <2>3, <3>3, EndingHandled DEF settings, transfer
  <2> QED
    BY <1>6, <2>2, <2>3 DEF BeginTransfer
<1>7. CASE RejectCommand(c)
  <2>1. CASE /\ Conclude(CloseTransferSockets(desc), None, None, <<>>, 502)
             /\ UNCHANGED <<serverSock, clientSock, flags, transfer, settings>>
    <3>1. <<>> \in Seq(Int)
      OBVIOUS
    <3>2. PICK code \in Int : Conclude(CloseTransferSockets(desc), None, None, <<>>, code)
      BY <2>1
    <3>3. Ending(None, None)
      BY <2>1, <3>1, <3>2, FailureEnding DEF transfer
    <3> QED
      BY <1>0, <2>1, <3>3, EndingHandled DEF settings
  <2>2. CASE JustReply(502) /\ UNCHANGED settings
    BY <2>2, <1>0, JustReplyEnding, EndingHandled DEF JustReply, settings
  <2> QED
    BY <1>7, <2>1, <2>2 DEF RejectCommand
<1> QED
  BY <1>1, <1>2, <1>3, <1>4, <1>5, <1>6, <1>7 DEF VSFTPCommandsParse

\* Taking tokens from the input leaves tokens.
LEMMA Received ==
  ASSUME IInv, NEW n \in ReadSizes, Receive(n)
  PROVE  inbox' \in Seq(Lines \cup {EOL}) /\ interrupted' = FALSE
<1>1. inbox \in Seq(Lines \cup {EOL})
  BY Basics DEF TypeOK
<1>2. n \in 1 .. Len(inbox)
  BY <1>1 DEF ReadSizes
<1>3. SubSeq(inbox, n + 1, Len(inbox)) \in Seq(Lines \cup {EOL})
  BY <1>1, <1>2
<1> QED
  BY <1>3 DEF Receive

\* The steps of HandleConnection preserve it.
LEMMA ReadIInv ==
  ASSUME IInv, ReadCommand \/ ReadPartialLine \/ ReadEndOfFile \/ ReadFails
  PROVE  IInv'
<1>1. CASE ReadCommand
  <2>1. PICK n \in ReadSizes : VSFTPCommandsParse(CommandOf(SubSeq(inbox, 1, n))) /\ Receive(n)
    BY <1>1, Zenon DEF ReadCommand
  <2>2. Handled'
    BY <1>1, <2>1, CommandHandled DEF ReadCommand
  <2>3. inbox' \in Seq(Lines \cup {EOL}) /\ interrupted' \in BOOLEAN /\ quit' \in BOOLEAN
    BY <1>1, <2>1, Received, Basics DEF ReadCommand, TypeOK
  <2> QED
    BY <2>2, <2>3 DEF Handled, IInv, Places, TypeOK, SlotValues, Tables
<1>2. CASE ReadPartialLine
  <2>1. /\ inbox' \in Seq(Lines \cup {EOL}) /\ interrupted' = FALSE
        /\ ServerStop(desc) /\ retval' = 0 /\ pc = "read" /\ pc' = "test"
        /\ UNCHANGED <<settings, quit, transfer, replies>>
    BY <1>2, Received DEF ReadPartialLine
  <2>2. /\ Places' /\ desc' \in Tables
        /\ serverSock' = None /\ clientSock' = None
        /\ transferSock' = None /\ transferClientSock' = None
        /\ isConnected' = FALSE /\ isServerSocketCreated' = FALSE
    BY <2>1, Basics, StopPlaces DEF transfer
  <2>3. TypeOK'
    BY <2>1, <2>2, Basics DEF TypeOK, Slots, Tables, PCs, settings, transfer
  <2> QED
    BY <2>2, <2>3 DEF IInv, Places
<1>3. CASE ReadEndOfFile
  <2>1. /\ Places' /\ desc' \in Tables /\ Slots' \subseteq SlotValues
        /\ isConnected' = FALSE /\ isServerSocketCreated' = isServerSocketCreated
    BY <1>3, Basics, DisconnectPlaces DEF ReadEndOfFile, transfer
  <2>2. TypeOK'
    BY <1>3, <2>1, Basics DEF ReadEndOfFile, TypeOK, SlotValues, Tables, PCs, settings, transfer
  <2> QED
    BY <2>1, <2>2 DEF IInv, Places
<1>4. CASE ReadFails
  <2> DEFINE d == ErrorReported(desc, clientSock)
  <2>1. /\ d \in Tables /\ HealthySockets(d) = HealthySockets(desc)
        /\ desc[Stdin] = "file" => d[Stdin] = "file"
    BY Basics, TablesClosed, ReportHealthy, StdinSurvives DEF SlotsTyped, Slots
  <2>2. /\ Places' /\ desc' \in Tables
        /\ serverSock' = None /\ clientSock' = None
        /\ transferSock' = None /\ transferClientSock' = None
        /\ isConnected' = FALSE /\ isServerSocketCreated' = FALSE
    BY <1>4, <2>1, StopPlaces DEF ReadFails, transfer
  <2>3. TypeOK'
    BY <1>4, <2>2, Basics DEF ReadFails, TypeOK, Slots, Tables, PCs, settings, transfer
  <2> QED
    BY <2>2, <2>3 DEF IInv, Places
<1> QED
  BY <1>1, <1>2, <1>3, <1>4

\* Accepting the data connection preserves it.
LEMMA AcceptTransferIInv ==
  ASSUME IInv, AcceptTransferClient \/ AcceptTransferClientFails
  PROVE  IInv'
<1> USE DEF Blocking, Transfers, Handling, Ended
<1>1. CASE AcceptTransferClient
  <2>1. PICK f \in LowestFree(desc), s \in AcceptedState :
          /\ transferClientSock' = f
          /\ desc' = [desc EXCEPT ![transferSock] = "listening", ![f] = s]
    BY <1>1 DEF AcceptTransferClient
  <2>2. pc = "dataAccept" /\ pc' = "prelim" /\ isServerSocketCreated /\ isConnected
    BY <1>1, Basics DEF AcceptTransferClient, Places, FlagsOfPlace
  <2>3. transferClientSock \in {None, Stdin}
    BY <2>2, Basics DEF Places, NoDataConnectionYet
  <2>4. transferSock \in Fd /\ desc[transferSock] = "ready" /\ f \in Fd /\ desc[f] = "free"
    BY <1>1 DEF AcceptTransferClient, Is, LowestFree
  <2>5. s \in Connected
    BY DEF AcceptedState, Connected
  <2>6. desc' \in Tables /\ HealthySockets(desc') \subseteq HealthySockets(desc) \cup {f}
    BY <2>1, <2>4, <2>5, Basics DEF Tables, DescState, HealthySockets, Healthy, Passive
  <2>7. desc[Stdin] = "file" => desc'[Stdin] = "file"
    BY <2>1, <2>4, Basics DEF Tables
  <2>8. Stdin \notin HealthySockets(desc)
    BY Basics DEF Places, StdinNotOurs, HealthySockets, Healthy, Passive, Ours
  <2>9. HealthySockets(desc') \subseteq Slots'
    <3>1. HealthySockets(desc) \subseteq {serverSock, clientSock, transferSock}
      BY <2>3, <2>8, Basics DEF Slots, HealthySockets
    <3> QED
      BY <1>1, <2>1, <2>6, <3>1 DEF AcceptTransferClient, handler, Slots
  <2>10. Places'
    BY <1>1, <2>2, <2>7, <2>9, Basics
    DEF AcceptTransferClient, handler, flags, transfer, Places, FlagsOfPlace, NoClientYet,
        NoDataPortYet, NoDataConnectionYet, NothingWhenStopped, NoHealthySocketLost, StdinNotOurs
  <2>11. TypeOK'
    BY <1>1, <2>1, <2>2, <2>4, <2>6, Basics, ZenonT(40)
    DEF AcceptTransferClient, handler, flags, settings, transfer, TypeOK, Tables, Slots, PCs
  <2> QED
    BY <2>10, <2>11 DEF IInv, Places
<1>2. CASE AcceptTransferClientFails
  <2>1. TypeOK'
    BY <1>2, Basics DEF AcceptTransferClientFails, handler, flags, settings, transfer, TypeOK, Slots, PCs
  <2>2. Places'
    BY <1>2, Basics
    DEF AcceptTransferClientFails, handler, flags, transfer, Places, FlagsOfPlace, NoClientYet,
        NoDataPortYet, NoDataConnectionYet, NothingWhenStopped, NoHealthySocketLost, StdinNotOurs, Slots
  <2> QED
    BY <2>1, <2>2 DEF IInv, Places
<1> QED
  BY <1>1, <1>2

\* A step of a transfer that leaves the sockets' numbers and flags alone, loses
\* no healthy socket from the table and keeps standard input open.
LEMMA TransferPlaces ==
  ASSUME IInv, pc \in Transfers \ {"dataAccept"}, pc' \in (Transfers \ {"dataAccept"}) \cup Ended,
         UNCHANGED <<serverSock, clientSock, flags, transferSock, transferClientSock, cmd>>,
         HealthySockets(desc') \subseteq HealthySockets(desc),
         desc[Stdin] = "file" /\ stream # Stdin => desc'[Stdin] = "file" /\ stream' # Stdin
  PROVE  Places' /\ Slots' \subseteq SlotValues
<1>1. isServerSocketCreated /\ isConnected
  BY Basics DEF Places, FlagsOfPlace, Transfers, Handling
<1> QED
  BY <1>1, Basics
  DEF flags, Places, FlagsOfPlace, NoClientYet, NoDataPortYet, NoDataConnectionYet,
      NothingWhenStopped, NoHealthySocketLost, StdinNotOurs, Slots, SlotsTyped, Blocking, Transfers, Handling, Ended

\* The steps of a transfer between accepting and finishing preserve it.
LEMMA TransferIInv ==
  ASSUME IInv,
         SendPreliminaryReply \/ OpenSource \/ SendChunk \/ SendFails \/ SendRaisesPipe \/ EndOfSource
  PROVE  IInv'
<1>0. /\ clientSock \in SlotValues /\ transferClientSock \in SlotValues
      /\ stream \in SlotValues /\ left \in Nat /\ replies \in Seq(Int)
      /\ 0 \in 0 .. MaxChunks
  BY Basics, MaxChunksAssumption DEF TypeOK, SlotsTyped, Slots, SlotValues
<1> USE DEF handler, flags, settings, transfer, Transfers, Handling, Ended
<1>1. CASE SendPreliminaryReply
  <2>1. /\ desc' \in Tables /\ HealthySockets(desc') = HealthySockets(desc)
        /\ desc[Stdin] = "file" => desc'[Stdin] = "file"
    BY <1>0, <1>1, Basics, TablesClosed, ReportHealthy, StdinSurvives DEF SendPreliminaryReply
  <2>2. Places' /\ Slots' \subseteq SlotValues
    BY <1>1, <2>1, TransferPlaces DEF SendPreliminaryReply
  <2>3. Append(replies, 150) \in Seq(Int)
    BY <1>0
  <2>4. replies' \in Seq(Int) /\ retval' \in {-1, 0} /\ pc' \in PCs
    BY <1>1, <2>3, Basics DEF SendPreliminaryReply, TypeOK, PCs
  <2> QED
    BY <1>1, <2>1, <2>2, <2>4, Basics DEF SendPreliminaryReply, IInv, Places, TypeOK, SlotValues, Tables
<1>2. CASE OpenSource
  <2>1. /\ desc' \in Tables /\ HealthySockets(desc') = HealthySockets(desc)
        /\ desc[Stdin] = "file" /\ stream # Stdin => desc'[Stdin] = "file" /\ stream' # Stdin
        /\ stream' \in SlotValues /\ left' \in 0 .. MaxChunks
        /\ retval' \in {-1, 0} /\ pc' \in {"send", "finish"}
    <3>1. CASE retval' = -1 /\ pc' = "finish" /\ UNCHANGED <<stream, left, desc>>
      BY <1>0, <3>1, Basics DEF TypeOK
    <3>2. CASE /\ \E f \in LowestFree(desc) : stream' = f /\ desc' = [desc EXCEPT ![f] = "file"]
               /\ left' \in 0 .. MaxChunks /\ pc' = "send" /\ UNCHANGED retval
      BY <3>2, Basics
      DEF LowestFree, TypeOK, Tables, SlotValues, DescState, HealthySockets, Healthy, Passive
    <3> QED
      BY <1>2, <3>1, <3>2 DEF OpenSource
  <2>2. Places' /\ Slots' \subseteq SlotValues
    BY <1>2, <2>1, TransferPlaces DEF OpenSource
  <2> QED
    BY <1>2, <2>1, <2>2, Basics DEF OpenSource, IInv, Places, TypeOK, SlotValues, Tables, PCs
<1>3. CASE SendChunk
  <2>1. Places' /\ Slots' \subseteq SlotValues
    BY <1>3, TransferPlaces DEF SendChunk
  <2>2. left' \in 0 .. MaxChunks
    BY <1>0, <1>3, Basics, MaxChunksAssumption DEF SendChunk, TypeOK
  <2> QED
    BY <1>3, <2>1, <2>2, Basics DEF SendChunk, IInv, Places, TypeOK, SlotValues
<1>4. CASE SendRaisesPipe
  <2>1. Places' /\ Slots' \subseteq SlotValues
    BY <1>4, TransferPlaces DEF SendRaisesPipe
  <2> QED
    BY <1>4, <2>1, Basics DEF SendRaisesPipe, IInv, Places, TypeOK, SlotValues, PCs
<1>5. CASE SendFails
  <2> DEFINE d == ErrorReported(desc, transferClientSock)
  <2>1. /\ d \in Tables /\ HealthySockets(d) = HealthySockets(desc)
        /\ desc[Stdin] = "file" => d[Stdin] = "file"
    BY <1>0, Basics, TablesClosed, ReportHealthy, StdinSurvives
  <2>2. /\ Close(d, stream) \in Tables /\ HealthySockets(Close(d, stream)) = HealthySockets(d) \ {stream}
        /\ d[Stdin] = "file" /\ stream # Stdin => Close(d, stream)[Stdin] = "file"
    BY <1>0, <2>1, TablesClosed, CloseHealthy, StdinSurvives
  <2>3. desc' \in {d, Close(d, stream)} /\ stream' = None
    BY <1>5 DEF SendFails
  <2>4. Places' /\ Slots' \subseteq SlotValues
    BY <1>5, <2>1, <2>2, <2>3, Basics, TransferPlaces DEF SendFails
  <2> QED
    BY <1>0, <1>5, <2>1, <2>2, <2>3, <2>4, Basics
    DEF SendFails, IInv, Places, TypeOK, SlotValues, Tables, PCs
<1>6. CASE EndOfSource
  <2>1. /\ desc' \in Tables /\ HealthySockets(desc') = HealthySockets(desc) \ {stream}
        /\ desc[Stdin] = "file" /\ stream # Stdin => desc'[Stdin] = "file"
        /\ stream' = None
    BY <1>0, <1>6, Basics, TablesClosed, CloseHealthy, StdinSurvives DEF EndOfSource
  <2>2. Places' /\ Slots' \subseteq SlotValues
    BY <1>6, <2>1, Basics, TransferPlaces DEF EndOfSource
  <2>3. retval' \in {-1, 0}
    BY <1>6 DEF EndOfSource
  <2> QED
    BY <1>0, <1>6, <2>1, <2>2, <2>3, Basics
    DEF EndOfSource, IInv, Places, TypeOK, SlotValues, Tables, PCs
<1> QED
  BY <1>1, <1>2, <1>3, <1>4, <1>5, <1>6

\* The end of a transfer preserves it: the transfer sockets are closed, and then
\* the last reply is sent.
LEMMA CloseIInv ==
  ASSUME IInv, CloseTransfer
  PROVE  IInv'
<1>1. /\ desc' \in Tables
      /\ HealthySockets(desc') = HealthySockets(desc) \ {transferSock, transferClientSock}
      /\ desc[Stdin] = "file" => desc'[Stdin] = "file"
  BY Basics, TransferSocketsClosed DEF CloseTransfer
<1>2. /\ pc = "finish" /\ pc' = "reply" /\ transferSock' = None /\ transferClientSock' = None
      /\ UNCHANGED <<serverSock, clientSock, settings, flags, quit, inbox, interrupted, transfer,
                     retval, replies>>
  BY DEF CloseTransfer, ForgetTransferSockets, handler
<1>3. isServerSocketCreated /\ isConnected /\ cmd # "none"
  BY <1>2, Basics DEF Places, FlagsOfPlace, Transfers, Handling
<1>4. HealthySockets(desc') \subseteq Slots'
  BY <1>1, <1>2, Basics DEF Slots
<1>5. Places'
  BY <1>1, <1>2, <1>3, <1>4, Basics
  DEF flags, transfer, Places, FlagsOfPlace, NoClientYet, NoDataPortYet, NoDataConnectionYet,
      NothingWhenStopped, NoHealthySocketLost, StdinNotOurs, Blocking, Transfers, Handling, Ended
<1>6. TypeOK'
  BY <1>1, <1>2, Basics
  DEF settings, flags, transfer, TypeOK, Slots, SlotsTyped, SlotValues, Tables, PCs, Handling
<1> QED
  BY <1>5, <1>6 DEF IInv, Places

LEMMA ReplyIInv ==
  ASSUME IInv, ReplyToTransfer
  PROVE  IInv'
<1>1. PICK code \in Int : Conclude(desc, transferSock, transferClientSock, replies, code)
  <2>1. cmd \in {"NLST", "RETR"} => FailCode[cmd] \in Int
    BY DEF FailCode
  <2>2. CASE retval = 0
    BY <2>2 DEF ReplyToTransfer
  <2>3. CASE retval # 0
    BY <2>1, <2>3, Basics DEF ReplyToTransfer, TypeOK, Places, FlagsOfPlace, Handling
  <2> QED
    BY <2>2, <2>3
<1>2. transferClientSock \in {None, Stdin} /\ transferSock \in SlotValues /\ replies \in Seq(Int)
  BY Basics DEF ReplyToTransfer, Places, NoDataConnectionYet, SlotsTyped, Slots, Transfers, Ended, TypeOK
<1>3. Ending(transferSock, transferClientSock)
  BY <1>1, <1>2, Basics, ConcludePlaces DEF ReplyToTransfer, handler, Handling, Slots
<1> QED
  BY <1>3, Basics
  DEF ReplyToTransfer, handler, settings, flags, Ending, IInv, Places, TypeOK, SlotValues, Tables

\* What the client and the network do preserves it.
LEMMA EnvironmentIInv ==
  ASSUME IInv, Environment
  PROVE  IInv'
<1>1. UNCHANGED <<sockets, settings, flags, pc, retval, quit, interrupted, transfer, replies>>
  BY DEF Environment, process
<1>2. /\ desc' \in Tables /\ HealthySockets(desc') \subseteq HealthySockets(desc)
      /\ desc[Stdin] = "file" => desc'[Stdin] = "file"
      /\ inbox' \in Seq(Lines \cup {EOL})
  <2>1. inbox \in Seq(Lines \cup {EOL})
    BY Basics DEF TypeOK
  <2> USE DEF Tables, DescState, Connected, Passive, Is, HealthySockets, Healthy
  <2>2. CASE PeerConnects
    BY <2>1, <2>2, Basics DEF PeerConnects
  <2>3. CASE ClientSends
    <3>1. PICK tokens \in {<<line, EOL>> : line \in Lines} \cup {<<EOL>>} : inbox' = inbox \o tokens
      BY <2>3, Zenon DEF ClientSends
    <3>2. \A line \in Lines : <<line, EOL>> \in Seq(Lines \cup {EOL})
      OBVIOUS
    <3>3. <<EOL>> \in Seq(Lines \cup {EOL})
      OBVIOUS
    <3>4. tokens \in Seq(Lines \cup {EOL})
      BY <3>1, <3>2, <3>3, Zenon
    <3> QED
      BY <2>1, <2>3, <3>1, <3>4, Basics DEF ClientSends
  <2>4. CASE PeerCloses
    BY <2>1, <2>4, Basics DEF PeerCloses
  <2>5. CASE PeerResets
    BY <2>1, <2>5, Basics DEF PeerResets
  <2> QED
    BY <2>2, <2>3, <2>4, <2>5 DEF Environment
<1>3. Places'
  BY <1>1, <1>2, Basics
  DEF sockets, flags, transfer, Places, FlagsOfPlace, NoClientYet, NoDataPortYet, NoDataConnectionYet,
      NothingWhenStopped, NoHealthySocketLost, StdinNotOurs, Failing, Slots
<1>4. TypeOK'
  BY <1>1, <1>2, Basics DEF sockets, settings, flags, transfer, TypeOK, Slots, Tables
<1> QED
  BY <1>3, <1>4 DEF IInv, Places

\* Every step preserves it.
LEMMA StepIInv == IInv /\ [Next]_vars => IInv'
<1> SUFFICES ASSUME IInv, [Next]_vars PROVE IInv'
  OBVIOUS
<1>1. CASE ServerStart
  BY <1>1, StartIInv
<1>2. CASE CallAccept \/ CallRead \/ LoopTest \/ Terminate \/ Terminated \/ UNCHANGED vars
  BY <1>2, MoveIInv
<1>3. CASE AcceptClient \/ AcceptFails
  BY <1>3, AcceptIInv
<1>4. CASE ReadCommand \/ ReadPartialLine \/ ReadEndOfFile \/ ReadFails
  BY <1>4, ReadIInv
<1>5. CASE AcceptTransferClient \/ AcceptTransferClientFails
  BY <1>5, AcceptTransferIInv
<1>6. CASE SendPreliminaryReply \/ OpenSource \/ SendChunk \/ SendFails \/ SendRaisesPipe \/ EndOfSource
  BY <1>6, TransferIInv
<1>7. CASE CloseTransfer \/ ReplyToTransfer
  BY <1>7, CloseIInv, ReplyIInv
<1>8. CASE Exit
  BY <1>8, ExitIInv
<1>9. CASE Environment
  BY <1>9, EnvironmentIInv
<1> QED
  BY <1>1, <1>2, <1>3, <1>4, <1>5, <1>6, <1>7, <1>8, <1>9 DEF Next, ServerStep, VSFTPServerHandler

\* The invariant holds in every state of every behaviour.
THEOREM Invariant == Spec => []IInv
  BY InitIInv, StepIInv, PTL DEF Spec

-----------------------------------------------------------------------------
(***************************************************************************)
(* The theorems.                                                           *)
(***************************************************************************)
\* Every variable keeps a value of its type.
THEOREM TypeCorrect == Spec => []TypeOK
<1>1. IInv => TypeOK
  BY DEF IInv
<1> QED
  BY <1>1, Invariant, PTL

\* No listening socket and no connection whose peer is still there is ever
\* forgotten by serverData, whatever fails and whenever a signal comes.
THEOREM NoneLost == Spec => []NoHealthySocketLost
<1>1. IInv => NoHealthySocketLost
  BY DEF IInv
<1> QED
  BY <1>1, Invariant, PTL

\* Standard input stays open unless it is a socket, although the
\* uninitialised transferClientSock names it.
THEOREM StdinSafe == Spec => []StdinKept
<1>1. IInv => StdinKept
  BY DEF IInv, StdinNotOurs, StdinKept
<1> QED
  BY <1>1, Invariant, PTL

\* Between commands there is no data connection, however a transfer ended.
THEOREM NoDataConnectionBetween == Spec => []DataConnectionOnlyInTransfer
<1>1. IInv => DataConnectionOnlyInTransfer
  BY Basics DEF IInv, NoDataConnectionYet, DataConnectionOnlyInTransfer, Is, Transfers, Handling, Ended
<1> QED
  BY <1>1, Invariant, PTL

\* Every session starts in the root directory, with no data port and no
\* input of the session before.
THEOREM Fresh == Spec => FreshSession
<1>1. IInv /\ [Next]_vars =>
        [~isConnected /\ isConnected' => cwd' = RootDir /\ transferSock' = None /\ inbox' = <<>>]_vars
  <2> SUFFICES ASSUME IInv, Next, ~isConnected, isConnected'
               PROVE  cwd' = RootDir /\ transferSock' = None /\ inbox' = <<>>
    BY DEF vars
  <2>1. CASE AcceptClient
    <3>1. transferSock = None
      BY <2>1, Basics DEF AcceptClient, Places, FlagsOfPlace, NoDataPortYet
    <3>2. cwd' = SessionDir
      BY <2>1 DEF AcceptClient
    <3> QED
      BY <2>1, <3>1, <3>2 DEF AcceptClient, SessionDir
  <2>2. CASE ~AcceptClient
    <3>1. pc # "read" /\ pc \notin Handling
      BY Basics DEF Places, FlagsOfPlace
    <3>2. ServerStart \/ CallAccept \/ AcceptFails \/ LoopTest \/ Exit \/ Terminate \/ Environment
            \/ Terminated
      BY <2>2, <3>1
      DEF Next, ServerStep, VSFTPServerHandler, CallRead, ReadCommand, ReadPartialLine, ReadEndOfFile,
          ReadFails, AcceptTransferClient, AcceptTransferClientFails, SendPreliminaryReply, OpenSource,
          SendChunk, SendFails, SendRaisesPipe, EndOfSource, CloseTransfer, ReplyToTransfer, Transfers,
          Handling
    <3>3. UNCHANGED isConnected \/ isConnected' = FALSE
      BY <3>2
      DEF ServerStart, CallAccept, AcceptFails, LoopTest, Exit, Terminate, Environment, Terminated,
          ServerStop, process, flags, vars
    <3> QED
      BY <3>3
  <2> QED
    BY <2>1, <2>2
<1> QED
  BY <1>1, Invariant, PTL DEF Spec, FreshSession
=============================================================================
