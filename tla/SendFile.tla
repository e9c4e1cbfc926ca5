------------------------------- MODULE SendFile -------------------------------
(***************************************************************************)
(* VSFTPServerSendfileTransfer: the bytes of a file on their way from      *)
(* read() to write().  VSFTPCommands has this loop as its steps OpenSource,*)
(* SendChunk, SendFails and EndOfSource; this module is about what the     *)
(* client receives.  A byte is the number of its place in the file.  Other *)
(* processes may make the file longer or shorter while it is sent.         *)
(***************************************************************************)
EXTENDS Integers, Sequences

CONSTANTS
  FILE_READ_BUF_SIZE,  \* bytes read at a time
  SizeT,               \* a size_t is a number modulo SizeT
  MaxSize,             \* bound: size of a file
  Events               \* what may happen meanwhile

AllEvents == {"resize", "signal", "reset", "ioError"}

ASSUME SizesAssumption  == /\ MaxSize \in Nat /\ FILE_READ_BUF_SIZE \in Nat \ {0}
                           /\ SizeT \in Nat /\ SizeT > MaxSize
ASSUME EventsAssumption == Events \subseteq AllEvents

VARIABLES
  size,      \* the file's size
  fdOpen,    \* the file is open
  offset,    \* how far it has been read
  count,     \* bytes still to be sent
  numRead,   \* bytes in fileBuf: those before offset
  received,  \* the bytes the client is sent
  pc,        \* "open", "read", "send", "close", "done"
  retval,
  announced, \* history: the size when the file was opened
  cut,       \* history: a write() has taken less than it was given
  shrunk     \* history: the file was made shorter than it was when opened

history == <<announced, cut, shrunk>>
vars == <<size, fdOpen, offset, count, numRead, received, pc, retval, history>>

Init ==
  /\ size \in 0 .. MaxSize
  /\ fdOpen = FALSE /\ offset = 0
  /\ count = 0 /\ numRead = 0 /\ received = <<>>
  /\ pc = "open" /\ retval = -1
  /\ announced = 0 /\ cut = FALSE /\ shrunk = FALSE

-----------------------------------------------------------------------------
(***************************************************************************)
(* VSFTPFilesystemOpenFile.                                                *)
(***************************************************************************)
OpenFile ==
  /\ pc = "open"
  /\ fdOpen' = TRUE /\ count' = size /\ announced' = size
  /\ retval' = 0 /\ pc' = "read"
  /\ UNCHANGED <<size, offset, numRead, received, cut, shrunk>>

\* It may not be read or is gone; or it is open and fstat() fails.
OpenFileFails ==
  /\ pc = "open"
  /\ fdOpen' \in {FALSE} \cup (IF "ioError" \in Events THEN {TRUE} ELSE {})
  /\ pc' = "close"
  /\ UNCHANGED <<size, offset, count, numRead, received, retval, history>>

(***************************************************************************)
(* The loop: while (count > 0), read() and write().                        *)
(***************************************************************************)
\* Mutant: the last buffer is filled too.
ToReadAlwaysFull == FILE_READ_BUF_SIZE

ToRead == IF count < FILE_READ_BUF_SIZE THEN count ELSE FILE_READ_BUF_SIZE

\* What read() finds: as much as there is.
Available == IF size < offset THEN 0 ELSE size - offset
BytesRead == IF Available < ToRead THEN Available ELSE ToRead

\* Mutant: the loop ends one byte early.
LoopEndsEarly ==
  /\ pc = "read" /\ count <= 1
  /\ pc' = "close"
  /\ UNCHANGED <<size, fdOpen, offset, count, numRead, received, retval, history>>

LoopEnds ==
  /\ pc = "read" /\ count = 0
  /\ pc' = "close"
  /\ UNCHANGED <<size, fdOpen, offset, count, numRead, received, retval, history>>

ReadFile ==
  /\ pc = "read" /\ count > 0 /\ BytesRead > 0
  /\ numRead' = BytesRead /\ offset' = offset + BytesRead
  /\ pc' = "send"
  /\ UNCHANGED <<size, fdOpen, count, received, retval, history>>

\* The file has become shorter than it was: the loop ends, with retval 0.
\* Mutant: it goes on.
WaitForMore ==
  /\ pc = "read" /\ count > 0 /\ BytesRead = 0
  /\ UNCHANGED vars

EndOfFile ==
  /\ pc = "read" /\ count > 0 /\ BytesRead = 0
  /\ pc' = "close"
  /\ UNCHANGED <<size, fdOpen, offset, count, numRead, received, retval, history>>

ReadFileFails ==
  /\ pc = "read" /\ count > 0 /\ "ioError" \in Events
  /\ retval' = -1 /\ pc' = "close"
  /\ UNCHANGED <<size, fdOpen, offset, count, numRead, received, history>>

\* The n bytes of the file that follow place o.
After(o, n) == [i \in 1 .. n |-> o + i]

\* write() takes n of the bytes in fileBuf.  What it does not take is lost:
\* the next read() goes on after it.
Written(n) ==
  /\ received' = received \o After(offset - numRead, n)
  /\ count' = (count - n) % SizeT
  /\ numRead' = 0
  /\ pc' = "read"

\* Mutant: what write() did not take is sent once more with what follows.
SendBufferAgain ==
  /\ pc = "send"
  /\ Written(numRead)
  /\ offset' = IF offset = size THEN offset ELSE offset - 1
  /\ UNCHANGED <<size, fdOpen, retval, history>>

SendBuffer ==
  /\ pc = "send"
  /\ Written(numRead)
  /\ UNCHANGED <<size, fdOpen, offset, retval, history>>

\* A signal, or the peer's reset, comes after some bytes were taken.
SendPart ==
  /\ pc = "send" /\ Events \cap {"signal", "reset"} # {}
  /\ \E n \in 1 .. numRead - 1 : Written(n)
  /\ cut' = TRUE
  /\ UNCHANGED <<size, fdOpen, offset, retval, announced, shrunk>>

\* It comes before.
SendBufferFails ==
  /\ pc = "send" /\ Events \cap {"signal", "reset"} # {}
  /\ retval' = -1 /\ pc' = "close"
  /\ UNCHANGED <<size, fdOpen, offset, count, numRead, received, history>>

\* VSFTPFilesystemCloseFile, on every path.
\* Mutant: only after a success.
CloseIfSent ==
  /\ pc = "close"
  /\ fdOpen' = (fdOpen /\ retval # 0)
  /\ pc' = "done"
  /\ UNCHANGED <<size, offset, count, numRead, received, retval, history>>

CloseFile ==
  /\ pc = "close"
  /\ fdOpen' = FALSE
  /\ pc' = "done"
  /\ UNCHANGED <<size, offset, count, numRead, received, retval, history>>

SendfileTransfer ==
  \/ OpenFile \/ OpenFileFails
  \/ LoopEnds \/ ReadFile \/ EndOfFile \/ ReadFileFails
  \/ SendBuffer \/ SendPart \/ SendBufferFails
  \/ CloseFile

-----------------------------------------------------------------------------
\* Somebody writes to the file or truncates it.
Resize ==
  /\ "resize" \in Events /\ pc # "done"
  /\ size' \in 0 .. MaxSize
  /\ shrunk' = (shrunk \/ (pc # "open" /\ size' < announced))
  /\ UNCHANGED <<fdOpen, offset, count, numRead, received, pc, retval, announced, cut>>

Done == pc = "done" /\ UNCHANGED vars

Next == SendfileTransfer \/ Resize \/ Done

Spec == Init /\ [][Next]_vars

\* The thread goes on, and the peer takes what is written.  Nothing relies on a
\* call that fails.
Progress == OpenFile \/ LoopEnds \/ ReadFile \/ EndOfFile \/ SendBuffer \/ CloseFile

FairSpec == Spec /\ WF_vars(Progress)

-----------------------------------------------------------------------------
TypeOK ==
  /\ size \in 0 .. MaxSize /\ announced \in 0 .. MaxSize
  /\ fdOpen \in BOOLEAN /\ cut \in BOOLEAN /\ shrunk \in BOOLEAN
  /\ offset \in Nat /\ numRead \in Nat
  /\ count \in 0 .. SizeT - 1
  /\ received \in Seq(Nat)
  /\ pc \in {"open", "read", "send", "close", "done"}
  /\ retval \in {-1, 0}

WholeFile == [i \in 1 .. announced |-> i]

\* A transfer that ends with retval 0, for which the client is told 226, has
\* sent the file as far as it went when it was opened, each byte once and in its
\* place, unless a write() was cut short or the file became shorter than that;
\* only the first of these leaves a gap.
SentWhole ==
  ~cut => /\ received = SubSeq(WholeFile, 1, Len(received))
          /\ pc = "done" /\ retval = 0 /\ ~shrunk => received = WholeFile

\* Whatever happens to the file and the connection, no byte is sent twice or
\* before one that precedes it in the file.
SentInOrder ==
  \A i, j \in DOMAIN received : i < j => received[i] < received[j]

\* The count never wraps: the client is sent no more bytes than the file had
\* when it was opened, the number SIZE would have told it.
NotMoreThanAnnounced == Len(received) <= announced

\* Whichever way the transfer ends, the file is closed.
FileClosed == pc = "done" => ~fdOpen

\* It ends: a file that is truncated, or that others go on writing to, does not
\* keep the thread.
TransferEnds == <>(pc = "done")

-----------------------------------------------------------------------------
(***************************************************************************)
(* The inductive invariant from which SendFile_proofs derives the theorems.*)
(***************************************************************************)
NothingBeforeOpen == pc = "open" => received = <<>> /\ announced = 0 /\ retval = -1

\* What is left and what is sent make up what was announced.
Counting == count + Len(received) = announced

Buffered ==
  /\ pc \in {"open", "read"} => numRead = 0
  /\ pc = "send" => numRead \in 1 .. count
  /\ numRead <= offset

\* The bytes sent come before those in the buffer, and have no gap before a
\* write() is cut short.
SentBeforeBuffer == \A i \in DOMAIN received : received[i] <= offset - numRead
NoGap ==
  ~cut => /\ offset - numRead = Len(received)
          /\ \A i \in DOMAIN received : received[i] = i

\* The loop ends with retval 0 and bytes left only if the file became shorter.
SizeKept == pc # "open" /\ ~shrunk => announced <= size
EndedAtZero == pc \in {"close", "done"} /\ retval = 0 /\ ~cut /\ ~shrunk => count = 0

IInv ==
  /\ TypeOK /\ NothingBeforeOpen /\ Counting /\ Buffered
  /\ SentInOrder /\ SentBeforeBuffer /\ NoGap /\ SizeKept /\ EndedAtZero
  /\ FileClosed

-----------------------------------------------------------------------------
\* "226 Transfer Complete." (vsftp_commands.c), sent when retval is 0: the file
\* has been sent.  After a short write() the bytes that it did not take are left
\* out, and the loop still ends with 0, at the end of the file.
TransferComplete == pc = "done" /\ retval = 0 => received = WholeFile
=============================================================================
