------------------------ MODULE VSFTPRefinement_proofs ------------------------
(***************************************************************************)
(* The program implements FTPSession, for every number of descriptors,     *)
(* every selection of faults and command lines, and every bound: every     *)
(* step of VSFTPMain is a step of the session under the refinement mapping *)
(* of VSFTPRefinement, or leaves the session as it is.                     *)
(***************************************************************************)
EXTENDS VSFTPRefinement, VSFTPSession_proofs

(***************************************************************************)
(* Which phase the session is in.                                          *)
(***************************************************************************)
PhaseFacts ==
  /\ pc \in Ended => SessionPhase = "over"
  /\ pc \notin Ended /\ ~isConnected => SessionPhase = "away"
  /\ InSession /\ pc = "dataAccept" => SessionPhase = "waiting"
  /\ InSession /\ pc \in {"prelim", "open", "send"} => SessionPhase = "sending"
  /\ InSession /\ pc \in {"finish", "reply"} => SessionPhase = "ending"
  /\ InSession /\ pc \notin Handling => SessionPhase = "idle"

LEMMA Phases == PhaseFacts /\ PhaseFacts'
<1>1. PhaseFacts
  BY DEF PhaseFacts, SessionPhase, InSession, Ended, Transfers, Handling
<1>2. PhaseFacts'
  BY DEF PhaseFacts, SessionPhase, InSession, Ended, Transfers, Handling
<1> QED
  BY <1>1, <1>2

-----------------------------------------------------------------------------
(***************************************************************************)
(* The steps that end many of the actions.                                 *)
(***************************************************************************)
\* The process ends, from anywhere: what is left of the session is the mode.
LEMMA OverMaps ==
  ASSUME pc \notin Ended, pc' \in Ended, UNCHANGED transferModeBinary
  PROVE  Session!Over
<1>1. SessionPhase' = "over" /\ ~InSession'
  BY Phases DEF PhaseFacts, InSession
<1>2. SessionPhase # "over"
  BY Phases DEF PhaseFacts, InSession, SessionPhase
<1> QED
  BY <1>1, <1>2 DEF Session!Over

\* A command ends: the client has the reply if it can be reached, and if it
\* can not it has no data port either.
LEMMA ReplyMaps ==
  ASSUME IInv, InSession, clientSock \in Fd, UNCHANGED <<clientSock, isConnected>>,
         NEW d \in Tables, NEW ts \in SlotValues, NEW tcs \in SlotValues, NEW said, NEW code,
         Conclude(d, ts, tcs, said, code), d[clientSock] = desc[clientSock],
         NEW portAfter \in BOOLEAN, portAfter <=> Is(d, ts, Passive)
  PROVE  \/ pc' = "killed"
         \/ InSession' /\ Session!Reply(said, code, portAfter)
<1>1. CanWrite(d, clientSock) <=> CanWrite(desc, clientSock)
  BY DEF CanWrite, Is
<1> SUFFICES ASSUME pc' # "killed" PROVE InSession' /\ Session!Reply(said, code, portAfter)
  OBVIOUS
<1>2. \/ /\ CanWrite(desc, clientSock) /\ CanWrite(desc', clientSock)
         /\ pc' = "test" /\ desc' = d /\ transferSock' = ts
         /\ replies' = Append(said, code)
      \/ /\ ~CanWrite(desc, clientSock) /\ ~CanWrite(desc', clientSock)
         /\ pc' = "test" /\ transferSock' = None
         /\ replies' = said
  BY <1>1, ConcludeTells
<1>3. InSession' /\ SessionPhase' = "idle"
  BY <1>2, Phases DEF PhaseFacts, InSession, Ended, Transfers, Handling
<1>4. (InSession /\ Is(desc, transferSock, Passive))' = ((InSession /\ CanWrite(desc, clientSock)) /\ portAfter)
  BY <1>2, <1>3, Basics DEF Is
<1>5. (InSession /\ pc \in {"finish", "reply"} /\ retval = 0)' = FALSE
  BY <1>2
<1>6. (InSession /\ CanWrite(desc, clientSock))' = (InSession /\ CanWrite(desc, clientSock))
  BY <1>2, <1>3
<1>7. (IF InSession THEN replies ELSE <<>>)'
        = IF InSession /\ CanWrite(desc, clientSock) THEN Append(said, code) ELSE said
  BY <1>2, <1>3
<1> QED
  BY <1>3, <1>4, <1>5, <1>6, <1>7 DEF Session!Reply

\* So ends a command whose handler only replies: the port is what it was.
LEMMA JustReplyMaps ==
  ASSUME IInv, SlotStates, InSession, pc = "read", NEW code, JustReply(code)
  PROVE  \/ pc' = "killed"
         \/ InSession' /\ Session!Reply(<<>>, code, InSession /\ Is(desc, transferSock, Passive))
<1> DEFINE port == InSession /\ Is(desc, transferSock, Passive)
<1>1. /\ clientSock \in Fd /\ desc \in Tables
      /\ transferSock \in SlotValues /\ transferClientSock \in SlotValues
  BY Basics, InSessionSlots DEF InSession, SlotsTyped, Slots
<1>2. /\ UNCHANGED <<clientSock, isConnected>>
      /\ Conclude(desc, transferSock, transferClientSock, <<>>, code)
  BY DEF JustReply, flags
<1>3. port \in BOOLEAN /\ (port <=> Is(desc, transferSock, Passive))
  BY DEF Is
<1> HIDE DEF port
<1>4. pc' = "killed" \/ (InSession' /\ Session!Reply(<<>>, code, port))
  BY <1>1, <1>2, <1>3, ReplyMaps
<1> QED
  BY <1>4 DEF port

\* So ends one that closed the transfer sockets: there is no port.
LEMMA ClosedReplyMaps ==
  ASSUME IInv, SlotStates, InSession, NEW said, NEW code,
         Conclude(CloseTransferSockets(desc), None, None, said, code),
         UNCHANGED <<clientSock, isConnected>>
  PROVE  \/ pc' = "killed"
         \/ InSession' /\ Session!Reply(said, code, FALSE)
<1>1. /\ clientSock \in Fd /\ desc \in Tables /\ None \in SlotValues
      /\ SocketsIn(desc, transferSock, transferClientSock)
  BY Basics, InSessionSlots DEF InSession, Ended, SlotValues
<1> DEFINE d == CloseTransferSockets(desc)
<1>2. d \in Tables /\ d[clientSock] = desc[clientSock]
  BY <1>1, TransferSocketsGone
<1>3. Conclude(d, None, None, said, code)
  OBVIOUS
<1> HIDE DEF d
<1>4. ~Is(d, None, Passive)
  BY Basics DEF Is
<1> QED
  BY <1>1, <1>2, <1>3, <1>4, ReplyMaps

\* When the handler has returned without a client, the session has ended.
LEMMA EndSessionMaps ==
  ASSUME InSession, pc = "read", pc' = "test", ~isConnected', UNCHANGED transferModeBinary
  PROVE  Session!EndSession
<1>1. SessionPhase = "idle" /\ SessionPhase' = "away" /\ ~InSession'
  BY Phases DEF PhaseFacts, InSession, Ended, Transfers, Handling
<1> QED
  BY <1>1 DEF Session!EndSession

-----------------------------------------------------------------------------
(***************************************************************************)
(* The commands.                                                           *)
(***************************************************************************)
LEMMA CommandMaps ==
  ASSUME IInv, SlotStates, pc = "read", NEW c, VSFTPCommandsParse(c)
  PROVE  Session!Next
<1>1. /\ InSession /\ SessionPhase = "idle" /\ pc \notin Ended
      /\ SocketsIn(desc, transferSock, transferClientSock)
      /\ clientSock \in Fd /\ desc \in Tables /\ None \in SlotValues
  BY Phases, Basics, InSessionSlots
  DEF Places, FlagsOfPlace, PhaseFacts, InSession, Ended, Transfers, Handling, SlotValues
<1> DEFINE present == InSession /\ CanWrite(desc, clientSock)
           port == InSession /\ Is(desc, transferSock, Passive)
<1>2. ASSUME pc' = "killed", UNCHANGED transferModeBinary PROVE Session!Next
  BY <1>1, <1>2, OverMaps DEF Session!Next, Ended
<1>3. ASSUME InSession', UNCHANGED settings, Session!Tell \/ Session!OpenPort \/ Session!Refuse
      PROVE  Session!Next
  BY <1>1, <1>3 DEF Session!Next, Session!Command
<1>4. ASSUME NEW code \in {213, 214, 215, 221, 230, 257, 451, 504, 550},
             JustReply(code), UNCHANGED settings
      PROVE  Session!Next
  <2>1. CASE InSession' /\ Session!Reply(<<>>, code, port)
    <3>1. Session!Tell
      BY <1>1, <1>4, <2>1 DEF Session!Tell, settings
    <3> QED
      BY <1>3, <1>4, <2>1, <3>1
  <2> QED
    BY <1>1, <1>2, <1>4, <2>1, JustReplyMaps DEF settings
<1>5. ASSUME NEW code \in {451, 502, 550, 551},
             Conclude(CloseTransferSockets(desc), None, None, <<>>, code),
             UNCHANGED <<clientSock, flags, settings>>
      PROVE  Session!Next
  <2>1. CASE InSession' /\ Session!Reply(<<>>, code, FALSE)
    <3>1. UNCHANGED <<IF InSession THEN cwd ELSE RootDir, transferModeBinary>>
      BY <1>1, <1>5, <2>1 DEF settings
    <3>2. Session!Refuse
      BY <1>5, <2>1, <3>1, ZenonT(40) DEF Session!Refuse
    <3> QED
      BY <1>3, <1>5, <2>1, <3>2
  <2> QED
    BY <1>1, <1>2, <1>5, <2>1, ClosedReplyMaps, ZenonT(40) DEF settings, flags
<1>6. CASE CommandHandlerUser(c)
  <2>1. CASE JustReply(230) /\ UNCHANGED settings
    BY <1>4, <2>1
  <2>2. CASE ClientDisconnect(ErrorReported(desc, clientSock)) /\ pc' = "test" /\ UNCHANGED settings
    BY <1>1, <2>2, EndSessionMaps DEF ClientDisconnect, settings, Session!Next
  <2>3. CASE RaisesPipe(desc, clientSock) /\ JustReply(530) /\ UNCHANGED settings
    <3>1. pc' = "killed"
      BY <2>3 DEF JustReply, Conclude, CanWrite, RaisesPipe, Is
    <3> QED
      BY <1>2, <2>3, <3>1 DEF settings
  <2> QED
    BY <1>6, <2>1, <2>2, <2>3 DEF CommandHandlerUser
<1>7. CASE CommandHandlerPasv(c)
  <2> DEFINE closed == CloseTransferSockets(desc)
  <2>1. PICK r \in CreatePassiveSocket(closed) :
          Conclude(r.table, r.sock, None, <<>>, IF r.retval = 0 THEN 227 ELSE 425)
    BY <1>7 DEF CommandHandlerPasv
  <2>2. closed \in Tables /\ SocketsIn(closed, None, None) /\ closed[clientSock] = desc[clientSock]
    BY <1>1, TransferSocketsGone
  <2> HIDE DEF closed
  <2>3. /\ r.sock \in SlotValues /\ r.table \in Tables
        /\ r.sock = None \/ Is(closed, r.sock, {"free"})
        /\ r.retval = 0 => Is(r.table, r.sock, {"listening"})
        /\ r.retval # 0 => r.table = closed
        /\ \A g \in Fd : g # r.sock => r.table[g] = closed[g]
    BY <2>2, CreateSlots
  <2>4. r.table[clientSock] = desc[clientSock]
    BY <1>1, <2>2, <2>3 DEF SocketsIn, Is, Connected
  <2>5. UNCHANGED <<clientSock, isConnected, settings>>
    BY <1>7 DEF CommandHandlerPasv, flags
  <2>6. CASE r.retval = 0
    <3>1. Conclude(r.table, r.sock, None, <<>>, 227)
      BY <2>1, <2>6
    <3>2. Is(r.table, r.sock, Passive)
      BY <2>3, <2>6 DEF Is, Passive
    <3>3. pc' = "killed" \/ (InSession' /\ Session!Reply(<<>>, 227, TRUE))
      BY <1>1, <2>3, <2>4, <2>5, <3>1, <3>2, ReplyMaps, ZenonT(40)
    <3>4. InSession' /\ Session!Reply(<<>>, 227, TRUE) => Session!OpenPort
      BY <1>1, <2>5 DEF Session!OpenPort, settings
    <3> QED
      BY <1>2, <1>3, <2>5, <3>3, <3>4 DEF settings
  <2>7. CASE r.retval # 0
    <3>1. Conclude(r.table, r.sock, None, <<>>, 425)
      BY <2>1, <2>7
    <3>2. ~Is(r.table, r.sock, Passive)
      BY <2>3, <2>7, Basics DEF Is, Passive
    <3> DEFINE after == FALSE
    <3>3. after \in BOOLEAN /\ (after <=> Is(r.table, r.sock, Passive))
      BY <3>2
    <3> HIDE DEF after
    <3>4. pc' = "killed" \/ (InSession' /\ Session!Reply(<<>>, 425, after))
      BY <1>1, <2>3, <2>4, <2>5, <3>1, <3>3, ReplyMaps
    <3>5. pc' = "killed" \/ (InSession' /\ Session!Reply(<<>>, 425, FALSE))
      BY <3>4 DEF after
    <3>6. InSession' /\ Session!Reply(<<>>, 425, FALSE) => Session!OpenPort
      BY <1>1, <2>5 DEF Session!OpenPort, settings
    <3> QED
      BY <1>2, <1>3, <2>5, <3>5, <3>6 DEF settings
  <2> QED
    BY <2>6, <2>7
<1>8. CASE CommandHandlerCwd(c)
  <2>1. UNCHANGED transferModeBinary
    BY <1>8 DEF CommandHandlerCwd
  <2>2. ASSUME NEW dir \in Dirs, cwd' = dir, JustReply(250) PROVE Session!Next
    <3>1. CASE InSession' /\ Session!Reply(<<>>, 250, port)
      <4>1. Session!ChangeDir
        BY <2>1, <2>2, <3>1 DEF Session!ChangeDir
      <4> QED
        BY <1>1, <4>1 DEF Session!Next, Session!Command
    <3> QED
      BY <1>1, <1>2, <2>1, <2>2, <3>1, JustReplyMaps
  <2>3. CASE cwd' = cwd /\ JustReply(550)
    BY <1>4, <2>1, <2>3 DEF settings
  <2> QED
    BY <1>8, <2>2, <2>3 DEF CommandHandlerCwd
<1>9. CASE CommandHandlerType(c)
  <2>1. UNCHANGED cwd
    BY <1>9 DEF CommandHandlerType
  <2>2. CASE JustReply(504) /\ UNCHANGED transferModeBinary
    BY <1>4, <2>1, <2>2 DEF settings
  <2>3. ASSUME NEW binary \in BOOLEAN, JustReply(SwitchingTo(binary)),
               transferModeBinary' = IF CanWrite(desc, clientSock) THEN binary ELSE transferModeBinary
        PROVE  Session!Next
    <3>1. CASE pc' = "killed"
      <4>1. ~CanWrite(desc, clientSock)
        BY <2>3, <3>1 DEF JustReply, Conclude, CanWrite, RaisesPipe, Is
      <4> QED
        BY <1>2, <2>3, <3>1, <4>1
    <3>2. CASE InSession' /\ Session!Reply(<<>>, SwitchingTo(binary), port) /\ CanWrite(desc, clientSock)
      <4>1. transferModeBinary' = binary
        BY <2>3, <3>2
      <4>2. Session!SwitchingTo(binary) = SwitchingTo(binary)
        BY DEF SwitchingTo, Session!SwitchingTo
      <4>3. UNCHANGED (IF InSession THEN cwd ELSE RootDir)
        BY <1>1, <2>1, <3>2
      <4>4. Session!Reply(<<>>, Session!SwitchingTo(binary), port)
        BY <3>2, <4>2
      <4>5. Session!ChangeMode
        BY <1>1, <2>3, <3>2, <4>1, <4>3, <4>4, ZenonT(40) DEF Session!ChangeMode
      <4> QED
        BY <1>1, <4>5 DEF Session!Next, Session!Command
    <3>3. CASE InSession' /\ Session!Reply(<<>>, SwitchingTo(binary), port) /\ ~CanWrite(desc, clientSock)
      <4>1. Session!Reply(<<>>, 215, port)
        BY <3>3 DEF Session!Reply
      <4>2. UNCHANGED settings
        BY <2>1, <2>3, <3>3 DEF settings
      <4>3. Session!Tell
        BY <1>1, <3>3, <4>1, <4>2 DEF Session!Tell, settings
      <4> QED
        BY <1>3, <3>3, <4>2, <4>3
    <3>4. pc' = "killed" \/ (InSession' /\ Session!Reply(<<>>, SwitchingTo(binary), port))
      BY <1>1, <2>3, JustReplyMaps
    <3> QED
      BY <3>1, <3>2, <3>3, <3>4
  <2>4. CASE \E binary \in BOOLEAN :
               /\ JustReply(SwitchingTo(binary))
               /\ transferModeBinary' = IF CanWrite(desc, clientSock) THEN binary ELSE transferModeBinary
    BY <2>3, <2>4
  <2>5. (c = "TYPE I") \in BOOLEAN
    OBVIOUS
  <2> QED
    BY <1>9, <2>2, <2>4, <2>5, Zenon DEF CommandHandlerType
<1>10. CASE /\ \/ CommandHandlerSyst(c) \/ CommandHandlerPwd(c) \/ CommandHandlerSize(c)
               \/ CommandHandlerHelp(c) \/ CommandHandlerQuit(c)
            /\ UNCHANGED settings
  BY <1>4, <1>10
  DEF CommandHandlerSyst, CommandHandlerPwd, CommandHandlerSize, CommandHandlerHelp, CommandHandlerQuit
<1>11. CASE BeginTransfer(c)
  <2>1. c \in {"NLST", "RETR"} /\ UNCHANGED <<clientSock, flags, settings>>
    BY <1>11 DEF BeginTransfer
  <2>2. CASE /\ Is(desc, transferSock, Passive) /\ pc' = "dataAccept" /\ replies' = <<>>
             /\ UNCHANGED <<desc, transferSock>>
    <3>1. InSession' /\ SessionPhase' = "waiting"
      BY <1>1, <2>1, <2>2, Phases DEF PhaseFacts, InSession, Ended, flags
    <3>2. Session!BeginTransfer
      BY <1>1, <2>1, <2>2, <3>1 DEF Session!BeginTransfer, settings
    <3> QED
      BY <3>2 DEF Session!Next, Session!Transfer
  <2>3. CASE \E code \in PathFailCodes[c] \cup {FailCode[c]} :
               Conclude(CloseTransferSockets(desc), None, None, <<>>, code)
    <3>1. PathFailCodes[c] \cup {FailCode[c]} \subseteq {451, 502, 550, 551}
      BY <2>1 DEF PathFailCodes, FailCode
    <3>2. PICK code \in {451, 502, 550, 551} :
            Conclude(CloseTransferSockets(desc), None, None, <<>>, code)
      BY <2>3, <3>1
    <3> QED
      BY <1>5, <2>1, <3>2
  <2> QED
    BY <1>11, <2>2, <2>3 DEF BeginTransfer
<1>12. CASE RejectCommand(c)
  <2>1. UNCHANGED settings
    BY <1>12 DEF RejectCommand
  <2>2. CASE /\ Conclude(CloseTransferSockets(desc), None, None, <<>>, 502)
             /\ UNCHANGED <<clientSock, flags>>
    BY <1>5, <2>1, <2>2
  <2>3. CASE RaisesPipe(desc, clientSock) /\ JustReply(502)
    <3>1. pc' = "killed"
      BY <2>3 DEF JustReply, Conclude, CanWrite, RaisesPipe, Is
    <3> QED
      BY <1>2, <2>1, <3>1 DEF settings
  <2> QED
    BY <1>12, <2>2, <2>3 DEF RejectCommand
<1> QED
  BY <1>6, <1>7, <1>8, <1>9, <1>10, <1>11, <1>12 DEF VSFTPCommandsParse

-----------------------------------------------------------------------------
(***************************************************************************)
(* The steps of a transfer.                                                *)
(***************************************************************************)
\* A step that leaves the client's connection and the data port alone, and the
\* settings with them, keeps everything of the session but its phase, what was
\* said and whether it went well.
SessionKept ==
  /\ InSession /\ InSession'
  /\ UNCHANGED <<InSession /\ CanWrite(desc, clientSock), IF InSession THEN cwd ELSE RootDir,
                 transferModeBinary, InSession /\ Is(desc, transferSock, Passive)>>

LEMMA TransferKeeps ==
  ASSUME IInv, SlotStates, pc \in Transfers, pc' \in Transfers,
         UNCHANGED <<clientSock, transferSock, isConnected, settings>>,
         CanWrite(desc, clientSock) <=> CanWrite(desc', clientSock),
         Is(desc', transferSock, Passive)
  PROVE  SessionKept
<1>1. InSession /\ InSession'
  BY Basics DEF Places, FlagsOfPlace, InSession, Transfers, Handling, Ended
<1>2. Is(desc, transferSock, Passive)
  BY DEF SlotStates
<1>3. UNCHANGED (InSession /\ CanWrite(desc, clientSock))
  BY <1>1
<1>4. UNCHANGED (InSession /\ Is(desc, transferSock, Passive))
  BY <1>1, <1>2
<1>5. UNCHANGED <<IF InSession THEN cwd ELSE RootDir, transferModeBinary>>
  BY <1>1 DEF settings
<1> QED
  BY <1>1, <1>3, <1>4, <1>5 DEF SessionKept

LEMMA TransferMaps ==
  ASSUME IInv, SlotStates, SlotStates', Told,
         AcceptTransferClient \/ AcceptTransferClientFails \/ SendPreliminaryReply \/ OpenSource
           \/ SendChunk \/ SendFails \/ SendRaisesPipe \/ EndOfSource
  PROVE  [Session!Next]_(Session!session)
<1>1. /\ pc \in {"dataAccept", "prelim", "open", "send"}
      /\ pc' \in {"prelim", "open", "send", "finish", "killed"}
      /\ UNCHANGED <<clientSock, transferSock, isConnected, settings>>
      /\ retval \in {-1, 0}
  BY Basics
  DEF AcceptTransferClient, AcceptTransferClientFails, SendPreliminaryReply, OpenSource,
      SendChunk, SendFails, SendRaisesPipe, EndOfSource, handler, flags, TypeOK
<1>2. /\ InSession /\ SocketsIn(desc, transferSock, transferClientSock)
      /\ clientSock \in Fd /\ desc \in Tables /\ desc[clientSock] \in Connected
      /\ clientSock # transferSock /\ clientSock # transferClientSock
  BY <1>1, Basics, InSessionSlots
  DEF Places, FlagsOfPlace, InSession, Transfers, Handling, Ended, SocketsIn, Is
<1>3. CASE pc' = "killed"
  BY <1>1, <1>3, OverMaps DEF Session!Next, Ended, settings
<1>4. CASE pc' # "killed"
  <2>1. Is(desc', transferSock, Passive)
    BY <1>1, <1>4 DEF SlotStates, Transfers, Handling
  <2>2. ASSUME desc'[clientSock] = desc[clientSock] PROVE SessionKept
    BY <1>1, <1>4, <2>1, <2>2, TransferKeeps DEF CanWrite, Is, Transfers, Handling
  <2>3. ASSUME SessionKept, pc' = "finish", retval' = -1, pc # "finish", UNCHANGED replies
        PROVE  Session!Next
    <3>1. SessionPhase \in {"waiting", "sending"} /\ SessionPhase' = "ending"
      BY <1>1, <2>3, Phases DEF PhaseFacts, SessionKept
    <3>2. (InSession /\ pc \in {"finish", "reply"} /\ retval = 0)' = FALSE
      BY <2>3
    <3>3. UNCHANGED (IF InSession THEN replies ELSE <<>>)
      BY <2>3 DEF SessionKept
    <3>4. Session!TransferFails
      BY <2>3, <3>1, <3>2, <3>3 DEF SessionKept, Session!TransferFails, Session!Ending
    <3> QED
      BY <3>4 DEF Session!Next, Session!Transfer
  <2>4. ASSUME SessionKept, pc \in {"prelim", "open", "send"}, pc' \in {"prelim", "open", "send"},
               UNCHANGED replies
        PROVE  UNCHANGED Session!session
    <3>1. SessionPhase = "sending" /\ SessionPhase' = "sending"
      BY <2>4, Phases DEF PhaseFacts, SessionKept
    <3>2. UNCHANGED (InSession /\ pc \in {"finish", "reply"} /\ retval = 0)
      BY <2>4
    <3>3. UNCHANGED (IF InSession THEN replies ELSE <<>>)
      BY <2>4 DEF SessionKept
    <3> QED
      BY <2>4, <3>1, <3>2, <3>3 DEF SessionKept, Session!session
  <2>5. CASE AcceptTransferClient
    <3>1. PICK f \in LowestFree(desc), s \in AcceptedState :
            desc' = [desc EXCEPT ![transferSock] = "listening", ![f] = s]
      BY <2>5 DEF AcceptTransferClient
    <3>2. f # clientSock
      BY <1>2 DEF LowestFree, Connected
    <3>3. SessionKept
      BY <1>2, <2>2, <3>1, <3>2 DEF Tables
    <3>4. pc = "dataAccept" /\ pc' = "prelim" /\ UNCHANGED replies
      BY <2>5 DEF AcceptTransferClient
    <3>5. SessionPhase = "waiting" /\ SessionPhase' = "sending"
      BY <3>3, <3>4, Phases DEF PhaseFacts, SessionKept
    <3>6. UNCHANGED (InSession /\ pc \in {"finish", "reply"} /\ retval = 0)
      BY <3>4
    <3>7. Session!DataConnection
      BY <3>3, <3>4, <3>5, <3>6 DEF SessionKept, Session!DataConnection
    <3> QED
      BY <3>7 DEF Session!Next, Session!Transfer
  <2>6. CASE AcceptTransferClientFails
    BY <2>2, <2>3, <2>6 DEF AcceptTransferClientFails
  <2>7. CASE SendPreliminaryReply
    <3>1. CASE pc' = "open"
      <4>1. pc = "prelim" /\ CanWrite(desc, clientSock) /\ replies' = Append(replies, 150) /\ UNCHANGED desc
        BY <2>7, <3>1 DEF SendPreliminaryReply
      <4>2. SessionKept
        BY <2>2, <4>1
      <4>3. replies = <<>> /\ replies' = << 150 >>
        BY <4>1, CodesOf DEF Told, RepliesOfPlace
      <4>4. SessionPhase = "sending" /\ SessionPhase' = "sending"
        BY <3>1, <4>1, <4>2, Phases DEF PhaseFacts, SessionKept
      <4>5. UNCHANGED (InSession /\ pc \in {"finish", "reply"} /\ retval = 0)
        BY <3>1, <4>1
      <4>6. Session!Preliminary
        BY <4>1, <4>2, <4>3, <4>4, <4>5 DEF SessionKept, Session!Preliminary
      <4> QED
        BY <4>6 DEF Session!Next, Session!Transfer
    <3>2. CASE pc' = "finish"
      <4>1. /\ retval' = -1 /\ pc = "prelim" /\ UNCHANGED replies
            /\ desc' = IF CanWrite(desc, clientSock) THEN desc ELSE ErrorReported(desc, clientSock)
        BY <2>7, <3>2 DEF SendPreliminaryReply
      <4>2. SessionKept
        <5>1. CASE CanWrite(desc, clientSock)
          BY <2>2, <4>1, <5>1
        <5>2. CASE ~CanWrite(desc, clientSock)
          <6>1. desc'[clientSock] = desc[clientSock] \/ desc'[clientSock] = "broken"
            BY <1>2, <4>1, <5>2, Elsewhere DEF SlotValues
          <6>2. ~CanWrite(desc', clientSock)
            BY <5>2, <6>1 DEF CanWrite, Is
          <6> QED
            BY <1>1, <2>1, <3>2, <5>2, <6>2, TransferKeeps DEF Transfers, Handling
        <5> QED
          BY <5>1, <5>2
      <4> QED
        BY <2>3, <3>2, <4>1, <4>2
    <3> QED
      BY <1>4, <2>7, <3>1, <3>2 DEF SendPreliminaryReply
  <2>8. CASE OpenSource
    <3>1. CASE UNCHANGED desc /\ pc' = "finish" /\ retval' = -1
      BY <2>2, <2>3, <2>8, <3>1 DEF OpenSource
    <3>2. ASSUME NEW f \in LowestFree(desc), desc' = [desc EXCEPT ![f] = "file"], pc' = "send"
          PROVE  UNCHANGED Session!session
      <4>1. f # clientSock
        BY <1>2 DEF LowestFree, Connected
      <4>2. SessionKept
        BY <1>2, <2>2, <3>2, <4>1 DEF Tables
      <4> QED
        BY <2>4, <2>8, <3>2, <4>2 DEF OpenSource
    <3> QED
      BY <2>8, <3>1, <3>2 DEF OpenSource
  <2>9. CASE SendChunk
    BY <2>2, <2>4, <2>9 DEF SendChunk
  <2>10. CASE SendFails \/ EndOfSource
    <3>1. /\ pc = "send" /\ pc' = "finish" /\ UNCHANGED replies
          /\ transferClientSock \in SlotValues /\ stream \in SlotValues /\ clientSock # stream
      BY <1>2, <2>10, Basics
      DEF SendFails, EndOfSource, SlotStates, Is, Connected, SlotsTyped, Slots, SlotValues
    <3>2. SessionKept
      <4> DEFINE d == ErrorReported(desc, transferClientSock)
      <4>1. d \in Tables /\ d[clientSock] = desc[clientSock]
        BY <1>2, <3>1, TablesClosed, Elsewhere
      <4>2. desc' \in {d, Close(d, stream), Close(desc, stream)}
        BY <2>10 DEF SendFails, EndOfSource
      <4> HIDE DEF d
      <4>3. desc'[clientSock] = desc[clientSock]
        BY <1>2, <3>1, <4>1, <4>2, Elsewhere
      <4> QED
        BY <2>2, <4>3
    <3>3. CASE retval' = -1
      BY <2>3, <3>1, <3>2, <3>3
    <3>4. CASE retval' = 0
      <4>1. replies = << 150 >>
        BY <3>1 DEF Told, RepliesOfPlace
      <4>2. SessionPhase = "sending" /\ SessionPhase' = "ending"
        BY <3>1, <3>2, Phases DEF PhaseFacts, SessionKept
      <4>3. (InSession /\ pc \in {"finish", "reply"} /\ retval = 0)' = TRUE
        BY <3>1, <3>2, <3>4 DEF SessionKept
      <4>4. Session!TransferDone
        BY <3>1, <3>2, <4>1, <4>2, <4>3 DEF SessionKept, Session!TransferDone, Session!Ending
      <4> QED
        BY <4>4 DEF Session!Next, Session!Transfer
    <3> QED
      BY <2>10, <3>3, <3>4 DEF SendFails, EndOfSource
  <2> QED
    BY <1>4, <2>5, <2>6, <2>7, <2>8, <2>9, <2>10 DEF SendRaisesPipe
<1> QED
  BY <1>3, <1>4

\* Closing the transfer sockets takes the data port, and nothing the client sees.
LEMMA CloseMaps ==
  ASSUME IInv, SlotStates, CloseTransfer
  PROVE  Session!Next
<1>1. /\ InSession /\ pc = "finish" /\ pc' = "reply" /\ Is(desc, transferSock, Passive)
      /\ SocketsIn(desc, transferSock, transferClientSock)
  BY Basics, InSessionSlots
  DEF CloseTransfer, Places, FlagsOfPlace, SlotStates, InSession, Transfers, Handling, Ended
<1>2. /\ UNCHANGED <<clientSock, isConnected, settings, retval, replies>>
      /\ desc' = CloseTransferSockets(desc) /\ transferSock' = None
  BY DEF CloseTransfer, ForgetTransferSockets, handler, flags
<1>3. InSession' /\ SessionPhase = "ending" /\ SessionPhase' = "ending"
  BY <1>1, <1>2, Phases DEF PhaseFacts, InSession, Ended
<1>4. desc'[clientSock] = desc[clientSock]
  BY <1>1, <1>2, Basics, TransferSocketsGone
<1>5. UNCHANGED (InSession /\ CanWrite(desc, clientSock))
  BY <1>1, <1>2, <1>3, <1>4 DEF CanWrite, Is
<1>6. (InSession /\ Is(desc, transferSock, Passive))' = FALSE
  BY <1>2, Basics DEF Is
<1>7. UNCHANGED (InSession /\ pc \in {"finish", "reply"} /\ retval = 0)
  BY <1>1, <1>2, <1>3
<1>8. Session!ClosePort
  BY <1>1, <1>2, <1>3, <1>5, <1>6, <1>7 DEF Session!ClosePort, settings
<1> QED
  BY <1>8 DEF Session!Next, Session!Transfer

\* The last reply, when there is no port any more: 226 if and only if no call of
\* the transfer has failed.
LEMMA FinishMaps ==
  ASSUME IInv, SlotStates, Told, ReplyToTransfer
  PROVE  Session!Next
<1>1. /\ InSession /\ SessionPhase = "ending" /\ pc = "reply" /\ pc \notin Ended
      /\ cmd \in {"NLST", "RETR"} /\ retval \in {-1, 0}
  BY Phases, Basics
  DEF ReplyToTransfer, Places, FlagsOfPlace, TypeOK, PhaseFacts, InSession, Transfers, Handling, Ended
<1>2. UNCHANGED <<clientSock, isConnected, settings>>
  BY DEF ReplyToTransfer, handler, flags
<1>3. /\ ~Is(desc, transferSock, Passive)
      /\ clientSock \in Fd /\ desc \in Tables
      /\ transferSock \in SlotValues /\ transferClientSock \in SlotValues
  BY <1>1, Basics, InSessionSlots
  DEF Told, RepliesOfPlace, Is, InSession, SlotsTyped, Slots
<1> DEFINE ok == InSession /\ pc \in {"finish", "reply"} /\ retval = 0
<1>4. PICK code \in IF ok THEN {226} ELSE {451, 550} :
        Conclude(desc, transferSock, transferClientSock, replies, code)
  <2>1. CASE retval = 0
    BY <1>1, <2>1 DEF ReplyToTransfer
  <2>2. CASE retval # 0
    <3>1. FailCode[cmd] \in {451, 550}
      BY <1>1 DEF FailCode
    <3> QED
      BY <2>2, <3>1 DEF ReplyToTransfer
  <2> QED
    BY <2>1, <2>2
<1> HIDE DEF ok
<1> DEFINE after == FALSE
<1>5. after \in BOOLEAN /\ (after <=> Is(desc, transferSock, Passive))
  BY <1>3
<1> HIDE DEF after
<1>6. pc' = "killed" \/ (InSession' /\ Session!Reply(replies, code, after))
  BY <1>1, <1>2, <1>3, <1>4, <1>5, ReplyMaps
<1>7. pc' = "killed" \/ (InSession' /\ Session!Reply(replies, code, FALSE))
  BY <1>6 DEF after
<1>8. CASE pc' = "killed"
  BY <1>1, <1>2, <1>8, OverMaps DEF Session!Next, Ended, settings
<1>9. CASE InSession' /\ Session!Reply(replies, code, FALSE)
  <2>1. (IF InSession THEN replies ELSE <<>>) = replies
    BY <1>1
  <2>2. UNCHANGED <<IF InSession THEN cwd ELSE RootDir, transferModeBinary>>
    BY <1>1, <1>2, <1>9 DEF settings
  <2>3. Session!Reply(IF InSession THEN replies ELSE <<>>, code, FALSE)
    BY <1>9, <2>1
  <2>4. \E last \in IF ok THEN {226} ELSE {451, 550} :
          Session!Reply(IF InSession THEN replies ELSE <<>>, last, FALSE)
    BY <2>3, ZenonT(40)
  <2>5. ~(InSession /\ Is(desc, transferSock, Passive))
    BY <1>3
  <2>6. Session!EndTransfer
    BY <1>1, <2>2, <2>4, <2>5, Zenon DEF Session!EndTransfer, ok
  <2> QED
    BY <2>6 DEF Session!Next, Session!Transfer
<1> QED
  BY <1>7, <1>8, <1>9

-----------------------------------------------------------------------------
(***************************************************************************)
(* Between the commands.                                                   *)
(***************************************************************************)
\* While there is no session the steps change only the mode, and that when the
\* server starts.
LEMMA AwayMaps ==
  ASSUME pc \notin Ended, pc' \notin Ended, ~isConnected, ~isConnected',
         transferModeBinary' \in {TRUE, transferModeBinary}
  PROVE  [Session!Next]_(Session!session)
<1>1. ~InSession /\ ~InSession' /\ SessionPhase = "away" /\ SessionPhase' = "away"
  BY Phases DEF PhaseFacts, InSession
<1>2. CASE UNCHANGED transferModeBinary
  BY <1>1, <1>2 DEF Session!session
<1>3. CASE transferModeBinary' = TRUE
  <2>1. Session!Restart
    BY <1>1, <1>3 DEF Session!Restart
  <2> QED
    BY <2>1 DEF Session!Next
<1> QED
  BY <1>2, <1>3

LEMMA StartMaps ==
  ASSUME IInv, ServerStart
  PROVE  [Session!Next]_(Session!session)
<1>1. ~isConnected /\ UNCHANGED isConnected /\ pc = "call" /\ pc' = "test"
  BY Basics DEF ServerStart, Places, FlagsOfPlace
<1>2. transferModeBinary' \in {TRUE, transferModeBinary}
  BY DEF ServerStart, settings
<1> QED
  BY <1>1, <1>2, AwayMaps DEF Ended

\* A client that is accepted and greeted has a session in the root directory.
LEMMA AcceptMaps ==
  ASSUME IInv, AcceptClient
  PROVE  [Session!Next]_(Session!session)
<1> DEFINE table(f, s) == [desc EXCEPT ![serverSock] = "listening", ![f] = s]
<1>1. /\ pc = "accept" /\ ~isConnected /\ transferSock' = None
      /\ UNCHANGED transferModeBinary
  BY Basics DEF AcceptClient, Places, FlagsOfPlace, NoDataPortYet
<1>2. CASE ~isConnected' /\ pc' \notin Ended
  BY <1>1, <1>2, AwayMaps DEF Ended
<1>3. CASE pc' \in Ended
  BY <1>1, <1>3, OverMaps DEF Session!Next, Ended
<1>4. CASE isConnected' /\ pc' \notin Ended
  <2>0. pc' = "test"
    <3>1. \E f \in LowestFree(desc), s \in AcceptedState :
            pc' = (IF RaisesPipe(table(f, s), f) THEN "killed" ELSE "test") \/ pc' = "test"
      BY Zenon DEF AcceptClient
    <3> QED
      BY <1>4, <3>1 DEF Ended
  <2>1. PICK f \in LowestFree(desc), s \in AcceptedState :
          /\ clientSock' = f /\ cwd' = SessionDir
          /\ desc' = ErrorReported(table(f, s), f) /\ CanWrite(table(f, s), f) /\ replies' = << 220 >>
    <3>1. \E f \in LowestFree(desc), s \in AcceptedState :
            /\ clientSock' = f
            /\ \/ /\ cwd' = SessionDir
                  /\ desc' = ErrorReported(table(f, s), f)
                  /\ IF CanWrite(table(f, s), f)
                     THEN isConnected' = TRUE /\ retval' = 0 /\ replies' = << 220 >>
                     ELSE retval' = -1 /\ replies' = <<>> /\ UNCHANGED isConnected
               \/ UNCHANGED isConnected
      BY Zenon DEF AcceptClient
    <3> QED
      BY <1>1, <1>4, <3>1
  <2>2. CanWrite(desc', clientSock')
    BY <2>1 DEF CanWrite, ErrorReported, Is
  <2>3. ~InSession /\ InSession' /\ SessionPhase = "away" /\ SessionPhase' = "idle"
    BY <1>1, <1>4, <2>0, Phases DEF PhaseFacts, InSession, Ended, Transfers, Handling
  <2>4. (InSession /\ CanWrite(desc, clientSock))' = TRUE
    BY <2>2, <2>3
  <2>5. UNCHANGED (InSession /\ Is(desc, transferSock, Passive))
    BY <1>1, <2>3, Basics DEF Is
  <2>6. UNCHANGED (InSession /\ pc \in {"finish", "reply"} /\ retval = 0)
    BY <1>1, <2>0
  <2>7. Session!Greet
    BY <1>1, <2>1, <2>3, <2>4, <2>5, <2>6 DEF Session!Greet, SessionDir
  <2> QED
    BY <2>7 DEF Session!Next
<1> QED
  BY <1>2, <1>3, <1>4

\* What ends a session, or the process, or nothing.
LEMMA StopMaps ==
  ASSUME IInv, AcceptFails \/ ReadPartialLine \/ ReadFails \/ ReadEndOfFile \/ Exit
  PROVE  [Session!Next]_(Session!session)
<1>1. ~isConnected' /\ UNCHANGED transferModeBinary
  BY DEF AcceptFails, ReadPartialLine, ReadFails, ReadEndOfFile, Exit, ServerStop, ClientDisconnect, settings
<1>2. CASE AcceptFails
  BY <1>1, <1>2, Basics, AwayMaps DEF AcceptFails, Places, FlagsOfPlace, Ended
<1>3. CASE ReadPartialLine \/ ReadFails \/ ReadEndOfFile
  <2>1. pc = "read" /\ pc' = "test" /\ InSession
    BY <1>3, Basics
    DEF ReadPartialLine, ReadFails, ReadEndOfFile, Places, FlagsOfPlace, InSession, Ended
  <2> QED
    BY <1>1, <2>1, EndSessionMaps DEF Session!Next
<1>4. CASE Exit
  BY <1>1, <1>4, OverMaps DEF Exit, Ended, Session!Next
<1> QED
  BY <1>2, <1>3, <1>4

\* The thread moves, or the signal comes: the session is as it was.
LEMMA MoveMaps ==
  ASSUME IInv, CallAccept \/ CallRead \/ LoopTest \/ Terminate \/ Terminated \/ UNCHANGED vars
  PROVE  UNCHANGED Session!session
<1>1. UNCHANGED <<clientSock, transferSock, settings, isConnected, desc, retval, replies>>
  BY DEF CallAccept, CallRead, LoopTest, Terminate, Terminated, vars, sockets, flags
<1>2. \/ UNCHANGED pc
      \/ pc \in {"call", "test"} /\ pc' \in {"call", "accept", "read"}
  BY DEF CallAccept, CallRead, LoopTest, Terminate, Terminated, vars
<1>3. UNCHANGED InSession /\ UNCHANGED (InSession /\ pc \in {"finish", "reply"} /\ retval = 0)
  BY <1>1, <1>2 DEF InSession, Ended
<1>4. UNCHANGED SessionPhase
  <2>1. CASE UNCHANGED pc
    BY <1>1, <2>1 DEF SessionPhase, InSession
  <2>2. CASE pc \in {"call", "test"} /\ pc' \in {"call", "accept", "read"}
    BY <1>1, <2>2, Phases DEF PhaseFacts, InSession, Ended, Transfers, Handling
  <2> QED
    BY <1>2, <2>1, <2>2
<1> QED
  BY <1>1, <1>3, <1>4 DEF Session!session, settings

\* What the client and the network do shows in the session only when the
\* client's own connection breaks.
LEMMA EnvironmentMaps ==
  ASSUME IInv, SlotStates, Environment
  PROVE  [Session!Next]_(Session!session)
<1>1. UNCHANGED <<clientSock, transferSock, settings, isConnected, pc, retval, replies>>
  BY DEF Environment, process, sockets, flags
<1>2. UNCHANGED <<InSession, SessionPhase>>
  BY <1>1 DEF InSession, SessionPhase
<1>3. UNCHANGED (InSession /\ Is(desc, transferSock, Passive))
  <2>1. CASE InSession
    <3>1. isServerSocketCreated
      BY <2>1, Basics DEF InSession, Places, FlagsOfPlace
    <3>2. transferSock = None \/ Is(desc, transferSock, Passive \cup {"free"})
      BY <3>1 DEF SlotStates
    <3>3. Is(desc', transferSock, Passive) <=> Is(desc, transferSock, Passive)
      BY <3>2, Basics, EnvironmentKeepsKinds DEF KindKept, Is, Passive
    <3> QED
      BY <1>1, <1>2, <3>3
  <2>2. CASE ~InSession
    BY <1>2, <2>2
  <2> QED
    BY <2>1, <2>2
<1>4. CanWrite(desc', clientSock) => CanWrite(desc, clientSock)
  BY Basics
  DEF Environment, PeerConnects, ClientSends, PeerCloses, PeerResets, CanWrite, Is, Tables
<1>5. UNCHANGED (InSession /\ pc \in {"finish", "reply"} /\ retval = 0)
  BY <1>1, <1>2
<1>6. CASE UNCHANGED (InSession /\ CanWrite(desc, clientSock))
  BY <1>1, <1>2, <1>3, <1>5, <1>6 DEF Session!session, settings
<1>7. CASE ~(UNCHANGED (InSession /\ CanWrite(desc, clientSock)))
  <2>1. InSession /\ CanWrite(desc, clientSock) /\ ~(InSession /\ CanWrite(desc, clientSock))'
    BY <1>1, <1>2, <1>4, <1>7
  <2>2. Session!ClientGone
    BY <1>1, <1>2, <1>3, <1>5, <2>1 DEF Session!ClientGone, settings
  <2> QED
    BY <2>2 DEF Session!Next
<1> QED
  BY <1>6, <1>7

-----------------------------------------------------------------------------
(***************************************************************************)
(* The theorem.                                                            *)
(***************************************************************************)
LEMMA InitMaps == Init => Session!Init
<1> SUFFICES ASSUME Init PROVE Session!Init
  OBVIOUS
<1>1. ~InSession /\ SessionPhase = "away" /\ transferModeBinary = FALSE
  BY Phases DEF Init, PhaseFacts, InSession, Ended
<1> QED
  BY <1>1 DEF Session!Init

LEMMA StepMaps ==
  IInv /\ SlotStates /\ SlotStates' /\ Told /\ [Next]_vars => [Session!Next]_(Session!session)
<1> SUFFICES ASSUME IInv, SlotStates, SlotStates', Told, [Next]_vars
             PROVE  [Session!Next]_(Session!session)
  OBVIOUS
<1>1. CASE ServerStart
  BY <1>1, StartMaps
<1>2. CASE CallAccept \/ CallRead \/ LoopTest \/ Terminate \/ Terminated \/ UNCHANGED vars
  BY <1>2, MoveMaps
<1>3. CASE AcceptClient
  BY <1>3, AcceptMaps
<1>4. CASE AcceptFails \/ ReadPartialLine \/ ReadFails \/ ReadEndOfFile \/ Exit
  BY <1>4, StopMaps
<1>5. CASE ReadCommand
  BY <1>5, CommandMaps DEF ReadCommand
<1>6. CASE AcceptTransferClient \/ AcceptTransferClientFails \/ SendPreliminaryReply \/ OpenSource
             \/ SendChunk \/ SendFails \/ SendRaisesPipe \/ EndOfSource
  BY <1>6, TransferMaps
<1>7. CASE CloseTransfer \/ ReplyToTransfer
  BY <1>7, CloseMaps, FinishMaps
<1>8. CASE Environment
  BY <1>8, EnvironmentMaps
<1> QED
  BY <1>1, <1>2, <1>3, <1>4, <1>5, <1>6, <1>7, <1>8 DEF Next, ServerStep, VSFTPServerHandler

\* The program keeps the promises of a session to every client, whatever fails
\* and in whatever order the client, the network and SIGTERM act.
THEOREM Refinement == Spec => ImplementsSession
<1>1. Init => Session!Init
  BY InitMaps
<1>2. IInv /\ SlotStates /\ SlotStates' /\ Told /\ [Next]_vars => [Session!Next]_(Session!session)
  BY StepMaps
<1> QED
  BY <1>1, <1>2, Invariant, SlotsInvariant, ToldAlways, PTL DEF Spec, Session!Spec, ImplementsSession
=============================================================================
