------------------------------ MODULE FTPSession ------------------------------
(***************************************************************************)
(* What the server promises one client at a time, seen from outside: where *)
(* its session is, what it has been told, and what of its state lasts.     *)
(* There are no descriptors, no system calls and no order of clean-ups     *)
(* here; VSFTPRefinement shows that the program implements this.           *)
(***************************************************************************)
EXTENDS Integers, Sequences

CONSTANTS Dirs, RootDir

\* The replies 200 to TYPE, with the mode they name as a fourth digit.
SwitchingTo(binary) == IF binary THEN 2001 ELSE 2000

VARIABLES
  phase,   \* away: no session; idle: between two commands; waiting: for a data
           \* connection; sending; ending: before the last reply; over
  present, \* the client's connection still carries replies
  dir,     \* the directory of the session
  mode,    \* TRUE: binary, FALSE: ASCII
  said,    \* the reply codes of the last command (or the greeting)
  port,    \* there is a data port
  ok       \* no call of the transfer that ends has returned an error

session == <<phase, present, dir, mode, said, port, ok>>

Open == phase \notin {"away", "over"}

Init ==
  /\ phase = "away" /\ ~present /\ dir = RootDir /\ ~mode
  /\ said = <<>> /\ ~port /\ ~ok

(***************************************************************************)
(* The server starts, or starts again after it stopped serving a client:   *)
(* that, and nothing else but TYPE, sets the mode.                         *)
(***************************************************************************)
Restart ==
  /\ phase = "away"
  /\ mode' = TRUE
  /\ UNCHANGED <<phase, present, dir, said, port, ok>>

\* A session starts in the root directory, without a data port.
Greet ==
  /\ phase = "away"
  /\ phase' = "idle" /\ present' = TRUE
  /\ dir' = RootDir /\ said' = <<220>>
  /\ UNCHANGED <<mode, port, ok>>

\* The client's connection breaks; the server need not know yet.
ClientGone ==
  /\ present
  /\ present' = FALSE
  /\ UNCHANGED <<phase, dir, mode, said, port, ok>>

(***************************************************************************)
(* The one last reply to a command, after the replies before: the client   *)
(* has it if it is present.  If it is not, it has no data port either.     *)
(***************************************************************************)
Reply(before, code, portAfter) ==
  /\ phase' = "idle"
  /\ said' = IF present THEN Append(before, code) ELSE before
  /\ port' = (present /\ portAfter)
  /\ ok' = FALSE
  /\ UNCHANGED present

Tell ==
  /\ \E code \in {213, 214, 215, 221, 230, 257, 451, 504, 550} : Reply(<<>>, code, port)
  /\ UNCHANGED <<dir, mode>>

ChangeDir ==
  /\ Reply(<<>>, 250, port)
  /\ dir' \in Dirs
  /\ UNCHANGED mode

\* The mode changes together with the reply that names it, and not without.
ChangeMode ==
  /\ present
  /\ \E binary \in BOOLEAN : Reply(<<>>, SwitchingTo(binary), port) /\ mode' = binary
  /\ UNCHANGED dir

OpenPort ==
  /\ Reply(<<>>, 227, TRUE) \/ Reply(<<>>, 425, FALSE)
  /\ UNCHANGED <<dir, mode>>

\* An unknown command, and a transfer that is refused, take the port with them.
Refuse ==
  /\ \E code \in {451, 502, 550, 551} : Reply(<<>>, code, FALSE)
  /\ UNCHANGED <<dir, mode>>

Command == phase = "idle" /\ (Tell \/ ChangeDir \/ ChangeMode \/ OpenPort \/ Refuse)

(***************************************************************************)
(* A transfer needs the data port.  It waits for the connection, tells 150,*)
(* sends, and ends well only after it told 150.  The data port ends before *)
(* the last reply.                                                         *)
(***************************************************************************)
BeginTransfer ==
  /\ phase = "idle" /\ port
  /\ phase' = "waiting" /\ said' = <<>>
  /\ UNCHANGED <<present, dir, mode, port, ok>>

DataConnection ==
  /\ phase = "waiting"
  /\ phase' = "sending"
  /\ UNCHANGED <<present, dir, mode, said, port, ok>>

Preliminary ==
  /\ phase = "sending" /\ present /\ said = <<>>
  /\ said' = <<150>>
  /\ UNCHANGED <<phase, present, dir, mode, port, ok>>

Ending(well) ==
  /\ phase' = "ending" /\ ok' = well
  /\ UNCHANGED <<present, dir, mode, said, port>>

TransferDone  == phase = "sending" /\ said = <<150>> /\ Ending(TRUE)
TransferFails == phase \in {"waiting", "sending"} /\ Ending(FALSE)

ClosePort ==
  /\ phase = "ending" /\ port
  /\ port' = FALSE
  /\ UNCHANGED <<phase, present, dir, mode, said, ok>>

EndTransfer ==
  /\ phase = "ending" /\ ~port
  /\ \E code \in IF ok THEN {226} ELSE {451, 550} : Reply(said, code, FALSE)
  /\ UNCHANGED <<dir, mode>>

Transfer ==
  \/ BeginTransfer \/ DataConnection \/ Preliminary \/ TransferDone \/ TransferFails
  \/ ClosePort \/ EndTransfer

\* The session ends, between two commands: nothing of it is left but the mode.
EndSession ==
  /\ phase = "idle"
  /\ phase' = "away" /\ present' = FALSE /\ dir' = RootDir /\ said' = <<>> /\ port' = FALSE
  /\ UNCHANGED <<mode, ok>>

\* The process ends, from anywhere.
Over ==
  /\ phase # "over"
  /\ phase' = "over" /\ present' = FALSE /\ dir' = RootDir /\ said' = <<>>
  /\ port' = FALSE /\ ok' = FALSE
  /\ UNCHANGED mode

Next == Restart \/ Greet \/ ClientGone \/ Command \/ Transfer \/ EndSession \/ Over

Spec == Init /\ [][Next]_session
=============================================================================
