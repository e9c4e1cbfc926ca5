------------------------------- MODULE Sockets -------------------------------
(***************************************************************************)
(* The descriptor table of the server process and what the system calls    *)
(* the server makes do to it.  None of this is in the repository: it is    *)
(* the kernel (Linux, POSIX sockets), modelled from how the server uses    *)
(* it.  A table is a function from descriptor numbers to the state of what *)
(* the number stands for:                                                  *)
(*   free       the number is not in use                                   *)
(*   file       an open file or directory stream: not a socket             *)
(*   listening  a passive socket with no connection waiting                *)
(*   ready      a passive socket with a connection waiting: the backlog of *)
(*              one that listen(sock, 1) asks for                          *)
(*   up         a connection whose peer is there                           *)
(*   fin        a connection whose peer has ended its sending side         *)
(*   rst        a connection the peer has reset, the error not yet seen    *)
(*   broken     a reset connection whose error has been reported, or one   *)
(*              that was reset after its end of file                       *)
(* Every operator is a function of a table: the server threads the table   *)
(* through the calls of one handler in the order the code makes them.      *)
(***************************************************************************)
EXTENDS Integers

CONSTANTS
  MaxFd,  \* the highest descriptor number: the process's RLIMIT_NOFILE, less one
  Faults  \* the faults of the environment this model admits

AllFaults == {"reset", "signal", "fragment", "pipeline", "bind", "rootGone", "stdinSocket"}

ASSUME MaxFdAssumption  == MaxFd \in Nat
ASSUME FaultsAssumption == Faults \subseteq AllFaults

Fd   == 0 .. MaxFd
None == -1          \* the invalid descriptor of the code
Stdin == 0          \* open when the process starts

Passive   == {"listening", "ready"}
Connected == {"up", "fin", "rst", "broken"}
DescState == {"free", "file"} \cup Passive \cup Connected

(***************************************************************************)
(* f, which may be None, is a descriptor of table d in one of the states S.*)
(***************************************************************************)
Is(d, f, S) == f \in Fd /\ d[f] \in S

(***************************************************************************)
(* open(), socket() and accept() return the lowest number that is free and *)
(* fail (EMFILE) when there is none.                                       *)
(***************************************************************************)
LowestFree(d) == {f \in Fd : d[f] = "free" /\ \A g \in Fd : g < f => d[g] # "free"}
Full(d)       == \A f \in Fd : d[f] # "free"

(***************************************************************************)
(* close() frees the number; closing one that is not open is an error      *)
(* (EBADF) that changes nothing.                                           *)
(***************************************************************************)
Close(d, f) == IF f \in Fd THEN [d EXCEPT ![f] = "free"] ELSE d

(***************************************************************************)
(* shutdown(f, SHUT_RDWR) succeeds on a passive socket and on a connection *)
(* that is still there.  It fails on a number that is not open (EBADF), on *)
(* what is not a socket (ENOTSOCK) and on a connection the peer has reset  *)
(* (ENOTCONN).                                                             *)
(***************************************************************************)
CanShutdown(d, f) == Is(d, f, Passive \cup {"up", "fin"})

(***************************************************************************)
(* write() to a socket.  read() and write() report a reset once, as an     *)
(* error; writing after that, or after an end of file and then a reset,    *)
(* raises SIGPIPE, whose default action ends the process: the server never *)
(* changes it.                                                             *)
(***************************************************************************)
CanWrite(d, f)   == Is(d, f, {"up", "fin"})
RaisesPipe(d, f) == Is(d, f, {"broken"})
ErrorReported(d, f) == IF Is(d, f, {"rst"}) THEN [d EXCEPT ![f] = "broken"] ELSE d

(***************************************************************************)
(* What the peer of a connection may have done by the time it is accepted. *)
(***************************************************************************)
AcceptedState == {"up", "fin"} \cup (IF "reset" \in Faults THEN {"rst", "broken"} ELSE {})
=============================================================================
