# A verification of VS-FTP

VS-FTP is a small FTP server in C: one process, one thread, one anonymous user
at a time, passive mode only. This directory has TLA+ modules of it, TLC
configurations that check them and TLAPS proofs about them.

## The system

| Component | State | Operations |
|---|---|---|
| Server, `vsftp_server.c` | `serverData`: four socket numbers (`serverSock`, `clientSock`, `transferSock`, `transferClientSock`), `cwd`, the transfer mode, `isServerSocketCreated`, `isConnected`, configuration | `Initialize`, `Start`, `Stop`, `Handler` (picks start, wait for a client, or read one command), creating, accepting and closing sockets, replies, path conversions |
| Commands, `vsftp_commands.c` | none of its own; `NLST` and `RETR` hold a directory stream or a file while they run | `USER SYST PASV NLST PWD CWD RETR SIZE TYPE HELP QUIT`, and the 502 for anything else |
| File system, `vsftp_filesystem.c` | the cookie of a directory listing | real paths, `IsDir`, `IsFile`, opening, listing |
| Main program, `main.c` | `quit` | arguments, the loop around `VSFTPServerHandler`, the SIGTERM handler |
| Logging, `io.c` | none | prints |

`main()` calls `VSFTPServerHandler()` until it returns an error or `quit` is
set. Each call does one thing and waits in one system call: `accept()` or
`read()`. `NLST` and `RETR` wait a second time, in `accept()` on the data port
that `PASV` opened, and in `write()`. All components share `serverData`; the
outside acts through the kernel: connections, input, ends of connections,
resets, and SIGTERM, which sets `quit` and makes the system call the thread
waits in fail with `EINTR`.

What is hard here is not concurrency inside the program but everything that
can happen around a single thread:

- every failure path closes what was open, by numbers that are kept in four
  variables and reused by the kernel at once;
- `close()` is called only if `shutdown()` worked, and the number is forgotten
  in either case;
- `transferClientSock` starts as 0, which is standard input;
- one `read()` is taken for one command;
- the thread waits in system calls that only the peer, or a signal at the right
  moment, can end;
- `NLST` and `RETR` must end in one way whatever failed: both transfer sockets
  closed, then one last reply.

What makes each component correct: for the server, that a number in
`serverData` stands for at most one socket and that no usable socket is
forgotten; for the commands, one last reply per command, 226 only after the
data connection is closed, no data connection outside `NLST` and `RETR`; for a
session, that it starts in the root directory with nothing of the one before;
for the loop, that input is answered, the next client served and SIGTERM obeyed;
for the listing, every entry there is; for the port, the number that was typed;
for paths, that a command acts on what its path leads to and that what the client
is told leads back; for a file transfer,
every byte once and in order. Seen from the client, all of this is one session:
`FTPSession` says what that is.

## The modules

| Module | Models |
|---|---|
| `Sockets` | The descriptor table and what the system calls do to it. External: Linux, from how the server uses it. |
| `VSFTPServer` | `serverData` and `vsftp_server.c`: closing, stopping, starting, accepting a client, reading. |
| `VSFTPCommands` | `vsftp_commands.c`: one operator per command handler, and the steps of a transfer. |
| `VSFTPMain` | `main.c`, SIGTERM, the client and the network; the properties and the inductive invariant. |
| `FTPSession` | What one client is promised, without descriptors, system calls or clean-ups: the abstract specification. |
| `VSFTPRefinement` | The refinement mapping from `VSFTPMain` to `FTPSession`. |
| `VSFTPMain_proofs` | The theorems about `VSFTPMain` that rest on `IInv`: healthy sockets, standard input, fresh sessions. |
| `VSFTPSession_proofs` | Those that rest on `SessionInv` as well: what each number names, what is left open, what has been answered. |
| `VSFTPRefinement_proofs` | That `VSFTPMain` implements `FTPSession`. |
| `SendFile` | `VSFTPServerSendfileTransfer`, `VSFTPFilesystemOpenFile` and `CloseFile`: the bytes of a transfer. |
| `SendFile_proofs` | The theorems about `SendFile`. |
| `Paths` | `GetRealPath`, `IsDir`, `IsFile`, the path conversions of the server, `SetCwd` and `GetCwd`, and the commands that use them, over a file system that changes. |
| `Paths_proofs` | The theorems about `Paths`. |
| `PortNumber` | `IsDecimal` and `ParseDecimal`. |
| `PortNumber_proofs` | The theorems about `PortNumber`. |
| `Fold_theorems` | What the proofs about `Paths` and `PortNumber` need of folds. |
| `DirListing` | `VSFTPFilesystemListDirPerLine` and the loop of `NLST` around it. |
| `DirListing_proofs` | The theorems about `DirListing`. |
| `MC...` | The instances that TLC checks. |

`VSFTPMain` extends `VSFTPCommands`, which extends `VSFTPServer`, which extends
`Sockets`; `VSFTPRefinement` extends `VSFTPMain`. `SendFile`, `Paths` and
`DirListing` each open up what `VSFTPCommands` leaves to choice: the sending loop
of `RETR`, what a path leads to, the loop of `NLST`. Names are those of the code. A
handler is one action, except where the thread waits or where a peer can act between
two of its calls in a way that matters; there it is cut, and `pc` says where the
thread is:

| `pc` | Place |
|---|---|
| `call` | `main()` is about to call the handler |
| `accept`, `read` | in `accept()` of a client, in `read()` |
| `dataAccept`, `prelim`, `open`, `send`, `finish`, `reply` | in `NLST` or `RETR`: waiting for the data connection, before the 150, before opening, in the sending loop, before the two calls that close the transfer sockets, before the last reply |
| `test` | the handler has returned, `main()` tests `retval` and `quit` |
| `exited`, `killed` | the process has ended; by SIGPIPE in the second case |

Separating `call` from `accept` and `read` is what lets SIGTERM come between the
test of `quit` and the system call. Inside an action the descriptor table is
passed through the calls in the order of the code (`ServerStop(d)`,
`Conclude(d, ...)`), so a close that fails, or a number that is reused, has its
effect on the next call.

Abstractions. The input is a sequence of tokens, a command line or the CR LF
that ends it; `read()` returns some of them. A reply is its code, and the two 200s
to `TYPE`, which name the mode, are two codes. What a
descriptor stands for is one of eight states (`DescState`). Whether a path
exists, is a directory or is inside the root is a choice, so both outcomes of
every test are explored. A file or directory is the number of buffers or lines
still to be sent. The one thing kept for the properties alone is `replies`, the
codes sent since the last command was read.

`Faults` selects what the environment may do, so that a property can be stated
under exactly the faults it tolerates: `reset` (a peer resets a connection),
`signal` (SIGTERM), `fragment` (a `read()` may return less than what was sent),
`pipeline` (the client does not wait for replies), `bind` (creating a socket
fails), `rootGone` (the root directory disappears), `stdinSocket` (descriptor 0
is a socket, as under inetd).

`SendFile`: a byte is the number of its place in the file, so `received` shows
what was sent, what is missing and in what order. `read()` returns as much as
there is; `write()` takes all, or less when a signal or a reset comes in the
middle, or fails. Others may resize the file at any time. A `size_t` is a number
modulo `SizeT`.

`Paths`: a real path is the sequence of its names; a path as the client writes
it has also a flag, whether it starts with a slash. The file system is a function
from a few paths to what is there, and any of it may change between two calls.
Every call of a handler that looks at it (`realpath()`, `stat()`, `opendir()`) is
a step. Three things of the character strings are kept because the functions treat
them differently: that a name may begin with another (`Extensions`, for the
comparison of prefixes), what `snprintf()` makes of a name that it takes as its
format (`Printed`, for `GetCwd`), and what is too long (`PATH_LEN_MAX`, in names).
`IsDir` and `IsFile` answer anything about a path that `stat()` cannot examine,
since they test a structure that nothing has set.

`DirListing`: a line that was sent is the name in it. The length of a name and the
size of the buffer are kept as far as they decide whether the name fits.
`readdir()` may return NULL anywhere, at the end of the directory or for an error;
`readError` remembers which, for the properties alone. `cookie` is the variable `d`
of the handler, and ends with it.

## The session

`FTPSession` has no system calls. A session is away, idle, waiting for a data
connection, sending, ending, or over. Its actions say what a client may rely on:
what one `read()` returned gets one last reply, or none if the client is gone; a
transfer needs the data port, tells 150 once, and after that ends in 226 if no call
of it has returned an error and in 451 or 550 if one has; the data port ends before
the last reply to a transfer (`ClosePort`, then `EndTransfer`), with any refused
transfer and with the session; the directory starts at the root and only `CWD`
changes it; the mode changes with the reply to `TYPE` that names the new one
(`SwitchingTo`), when the server starts, and not otherwise, and it is all that
outlives a session: a new client has the mode of the one before.

It does not promise that 226 means that everything was sent, which the code does not
keep: that no call has returned an error is not yet that (`viol_gap`, and
`readdir()` below). `SentWhole` and `EveryEntryListed` say how much of it holds.

`ImplementsSession` says that the program implements it. The mapping:

| `FTPSession` | `VSFTPMain` |
|---|---|
| `phase` | `pc` and `isConnected`: `dataAccept` is waiting; `prelim`, `open` and `send` are sending; `finish` and `reply` are ending |
| `present` | the descriptor of `clientSock` can carry a reply |
| `dir`, `said` | `cwd` and `replies` of a session; the root and nothing without one |
| `mode` | `transferModeBinary` |
| `port` | `transferSock` names a listening socket |
| `ok` | `retval` is 0 at the end of a transfer |

Every step of the server, the client, the network and SIGTERM is a step of the
session or none.

## The runs

Runs that pass:

| Run | Shows |
|---|---|
| `core_faults` | All faults but `stdinSocket` at once. `IInv` and `SessionInv` (the inductive invariant, with the types), `SlotsDistinct`, `NoHealthySocketLost`, `AcceptHoldsNothing`, `DataConnectionOnlyInTransfer`, `AnsweredOnce`, `DataClosedBefore226`, `StdinKept`, `FreshSession`. |
| `core_clean` | All commands, a client that closes but never resets, creating a socket may fail. `SessionInv`, here with its part about a table without faults. `NothingLeaks`: no descriptor is left over. `InputIsAnswered` and `NextClientIsServed`: the server goes on. |
| `core_signal` | SIGTERM, resets and a client that does not wait, so that two lines may come in one `read()`, against everything the thread may be doing. `SignalEndsProcess`: a SIGTERM while the thread waits, or before the test of the loop, ends the process. `ClosedAtExit`: when it ends by itself no peer is left connected. `ImplementsSession`: the refinement. |
| `port` | `PortIsWhatWasTyped`: the 16-bit arithmetic never wraps on what `IsDecimal` accepts. `PortsBelowLimitAccepted`: up to the limit in the code nothing is refused for its digits. |
| `listing` | `NLST` with an argument. `ListingInv`, the inductive invariant; with it, that a listing that ends with 226 has closed the directory. `EveryEntryListed`: it is every entry that `readdir()` could read, in order, and that is the whole directory unless `readdir()` has failed; then the last entry once more, and nothing else. |
| `sendfile` | `IInv`, the inductive invariant. `SentWhole`: a transfer that succeeds has sent the whole file unless a write was cut short or the file became shorter. `SentInOrder`, `NotMoreThanAnnounced`: no byte twice or out of order, never more than the file had when it was opened. `FileClosed`, `TransferEnds`: it ends, with the file closed. |
| `paths` | `PathsInv`, the inductive invariant. `ResultIsMeant`: if nothing is replaced between the calls of a command, it acts on what its path leads to, inside the root or not. `ToldLeadsBack`: what `PWD` and `NLST` tell leads back there, also when the file system has changed since, if the path and what it leads to fit the buffer. |

Runs that expect a counterexample, each a disagreement between a comment and
the code:

| Run | The comment | The counterexample |
|---|---|---|
| `viol_leak` | "just orderly shutdown and close everything" | after a reset `shutdown()` fails, `close()` is skipped, the descriptor leaks |
| `viol_client_stops` | "will return 0 unless an unrecoverable exception occurs" | a client that resets its connection makes the program exit |
| `viol_signal_lost` | "signal main() that it should quit gracefully" | SIGTERM between the test of `quit` and `accept()` or `read()` has no effect |
| `viol_gap` | "226 Transfer Complete." | after a `write()` that took less than the buffer, the next `read()` goes on after what was read; the bytes in between are never sent |
| `viol_outside_root` | "will not allow any path to be accessed above/before it" | a command that succeeds on a file that is not in the root: `RETR` and `SIZE` do not compare |

Others were met on the way and have no run of their own:

- The last entry of a directory is sent twice, although each is "returned as a single
  string" (`vsftp_filesystem.c:91`): the call that finds the end returns 0 with the
  last entry in the buffer, and `NLST` sends the buffer before it tests the cookie
  (`vsftp_commands.c:226`). `EveryEntryListed` has this as the code does it.
- An error of `readdir()` in the middle of a directory is taken for its end
  (`vsftp_filesystem.c:135`), although the function returns "any other value in case
  of an error" (`:107`): 226, and entries are missing. `ListEnd` has this.
- A name that leaves less than three characters of the buffer is not followed by CR LF
  (`vsftp_server.c:904`): `snprintf()` cuts it, and two characters are written in any
  case.
- The largest port is "65365", not the "UINT16_MAX equivalent string" (`main.c:30`),
  and the empty string is accepted, since `return -1` in a function that returns
  `bool` is true (`main.c:121`). `IsDecimal` has both.
- SIGTERM during `read()` makes the program report failure (`main.c:221`)
  although `main.c:41` calls it graceful.
- While `NLST` or `RETR` wait for the data connection a disconnection does not
  "loop back to the caller" (`vsftp_server.c:440`), which is why the liveness
  properties assume `DataConnectionsCome`.
- `transferClientSock` keeps the 0 of static storage although `vsftp_server.c:371`
  says "Initialize structure data to invalid values": when descriptor 0 is a
  socket (as under inetd) the first clean-up closes it. `StdinKept` is the part
  that does hold.
- A command line that arrives in two TCP segments stops the server, in the branch
  that logs "Socket read failed" (`vsftp_server.c:225`).
- With the root `/` the lines of `NLST` with an argument, and `PWD`, lose the slash
  they should start with (`vsftp_server.c:749`); `ToldLeadsBack` leaves that root
  out. It also leaves out directories with a percent sign in their name, which
  `GetCwd` takes for a format (`vsftp_server.c:816`).
- `CWD` and `NLST` take a directory beside the root whose name begins with the
  root's for one inside it (`vsftp_server.c:690`); `Begins` has this.
- An `NLST` whose first `readdir()` fails sends what was never set in its buffer
  (`vsftp_commands.c:214`), if it has an argument; `SendLine` has this.
- A failed `write()` in `NLST` loses the open directory (`vsftp_commands.c:223`);
  `SendFails` has this, and `NothingLeaks` shows that nothing else loses one.
- 32 characters beyond `PATH_LEN_MAX` (`config.h:23`) are less than the 150 reply
  adds to a path: `SIZE` accepts names that `RETR` then refuses with 451, in
  the model the choice in `SendPreliminaryReply`.

Bounds. `MaxFd = 5` leaves, besides standard input, exactly one descriptor for
the server, the client, the data port, the data connection and the file, so
every call that needs a descriptor can succeed; one descriptor that leaks makes
the next transfer run out, and a few more make `accept()` fail for the data
connection and then for the client: TLC reaches all of these.
`MaxInbox` is 2 or 3 tokens: one command, or a command and a piece of the next; in
`core_signal` 4: two whole lines, which one `read()` makes one command of.
`MaxChunks` is 1 or 2 buffers: a transfer that has something left and one that
has not. Two directories are enough to tell a session that starts in the
root from one that does not. `MCLines` has the commands that open, close or
need a descriptor, and `CWD`; the others only reply, and `core_clean` has them
all. `core_signal` has those that a transfer needs, `TYPE A`, which changes what
outlasts a session, and a wrong `USER`, which ends one.

Port strings have at most six characters, one more than are accepted, of the digits
at and next to those of 65365, 65535 and 65536. Directories have at most four
entries, of names that just fit the buffer, need all of it, or are longer. The run
is of `NLST` with an argument, which does all that `NLST` without one does, and
sends a buffer that was never set as well. Files have at most five bytes and the
buffer two: a last buffer that is full, one that is not, two full ones before it; a
`size_t` of three bits wraps as soon as the count goes below zero. Paths have at
most two names beyond where they start and `PATH_LEN_MAX` is three names, so some
are cut off; the tree has a directory beside the root whose name begins with the
root's and a file there, one that may be replaced by a link to it, one with percent
signs and the one it is printed as, and a file that may be a link to the root, or
gone; the root is `/`, `/srv` or `/srv/pub`. Links lead to real paths: a link to a
link adds no case, since `realpath()` and `stat()` follow both in one call.

Fairness. `FairSpec` has `WF_vars(ServerStep)`: the one thread runs when it can.
Nothing is assumed of the client, the network or the operator, with one
exception, which is in the model itself: an open connection takes what is
written to it, so `SendChunk` and the replies are enabled while the peer is
there. A peer that stops reading would hold the thread in `write()`, in the same
way as one that never opens the data connection holds it in `accept()`.
`SendFile` has `WF_vars(Progress)`, of the steps that do not fail, for the same
reason and with the same exception; nothing is assumed of whoever resizes the file.
Deadlock is checked in every run but `port`; what has ended stutters (`Terminated`,
`Done`). `PortNumber` builds strings of bounded
length and stops: there it is switched off.

## The proofs

Every theorem is for all values of the constants that satisfy the assumptions of
the modules. These are:

| Module | Assumptions |
|---|---|
| `Sockets` | `MaxFdAssumption`: a natural number. `FaultsAssumption`: some of the faults there are. |
| `VSFTPServer` | `LinesAssumption`: some of the commands there are. `MaxInboxAssumption`, `MaxChunksAssumption`: natural numbers, the second not 0. `DirsAssumption`: the root is one of the directories, the value of a `cwd` that was never set is not. |
| `SendFile` | Sizes are natural numbers, the buffer is not empty, `SizeT > MaxSize`: a file fits a `size_t`. `Events` are some of those there are. |
| `DirListing` | `NamesAssumption`: what was never set in the buffer is no name. `LengthAssumption`: every name has a length. `BufferAssumption`, `MaxEntriesAssumption`: not 0. `ArgumentAssumption`: there is an argument or not. |
| `Paths` | `NodesAssumption`: real paths are sequences of names, no name on them is `.` or `..`, the parent of each is one of them, and `/` is. `AllowedAssumption`: what may be at each; `/` is a directory. `RootPathsAssumption`: the server's root is a real path, and none of its names has a percent sign. `ServerPathsAssumption`, `PrintedAssumption`, `PathLenAssumption`: a path that is sent is a flag and names, a name is printed as a name, a length is a natural number. |
| `PortNumber` | `DigitsAssumption`, `MaxLenAssumption`: digits, and a natural number. |

`VSFTPMain_proofs` proves (for any number of descriptors, any bounds, directories and
commands, any set of faults):

| Theorem | Property |
|---|---|
| `Invariant` | `IInv` |
| `TypeCorrect` | `TypeOK` |
| `NoneLost` | `NoHealthySocketLost` |
| `StdinSafe` | `StdinKept` |
| `NoDataConnectionBetween` | `DataConnectionOnlyInTransfer` |
| `Fresh` | `FreshSession` |

`NoHealthySocketLost` is not inductive. `ServerStart` sets three numbers to -1
and is right only because nothing is open then (`NothingWhenStopped`).
`AcceptClient` overwrites `clientSock`, and `AcceptTransferClient`
`transferClientSock`: right because the first is -1 while no client is connected
(`NoClientYet`) and the second -1 or standard input until a data connection is
accepted (`NoDataConnectionYet`). A command that fails is right because both are
closed before they are forgotten. Which of these holds depends on where the
thread is, and the two flags decide that (`FlagsOfPlace`). `StdinNotOurs` says
that standard input, if it is no socket, is never what `close()` is called for
without a `shutdown()` before; `NoDataPortYet` gives `FreshSession` its data
port. `IInv` is the conjunction of these with `TypeOK`.

The proof has first what each operator on tables does to the set of healthy
sockets (`CloseSocketHealthy`, `ReportHealthy`, `CreateOutcome`, ...), then one
lemma per way a handler ends (`Stopped`, `Disconnected`, `Concluded`, ...), then
one lemma per group of actions, and `StepIInv` puts them together.

`VSFTPSession_proofs` proves, from the same assumptions:

| Theorem | Property |
|---|---|
| `SessionInvariant` | `SessionInv` |
| `SlotsStayDistinct` | `SlotsDistinct` |
| `NothingHeld` | `AcceptHoldsNothing` |
| `NeverLeaks` | `NothingLeaks` |
| `AllClosedAtExit` | `ClosedAtExit` |
| `ExactlyOneAnswer` | `AnsweredOnce` |
| `ClosedBefore226` | `DataClosedBefore226` |

`IInv` says which healthy sockets are still known; these need to know what every
number stands for, healthy or not. `SlotStates` says so: a started server has a
passive socket, `clientSock` is a connection, whatever became of it, and
`transferSock` is a passive socket or a number that is free again, because a `PASV`
that fails after `socket()` leaves the number there. That each number is of one kind
keeps most of them from being equal; where the kinds overlap the inequality is a
conjunct of its own. A stale `transferSock` does no harm: what opens descriptors
during a session is the next `PASV`, which overwrites it, and a transfer, which
begins only with a passive socket (the conjunct about `Transfers`). `CleanTable` is for
`NothingLeaks`: without resets and signals nothing is broken, so every `shutdown()`
works, every `close()` is reached, and an open file is standard input or the one
being sent. `RepliesOfPlace` is for `AnsweredOnce` and `DataClosedBefore226`: how
many replies there may be at a place of a transfer, that a transfer without
its 150 ends with an error, and that before its last reply no transfer socket is
known any more. `DataClosedBefore226` is about descriptors, not about numbers: it
follows from `NumbersGone` (once 226 has been told, and until the next reply, there
is no number of a transfer socket) together with `NoHealthySocketLost`, which says
that a forgotten number was not that of a healthy one.

`VSFTPRefinement_proofs` proves `Refinement`: `Spec` implies `ImplementsSession`, for
any constants that satisfy the assumptions. `Phases` says which phase the thread's
place and `isConnected` make; a few lemmas are about the steps in which many
actions end (the process or the session is over, a command is answered, with the
transfer sockets closed or not); then each action is a step of `FTPSession` or leaves the
session as it is. It needs `IInv` and `SessionInv`: that a refused transfer closes the
data port, say, depends on `transferSock` naming nothing else.

`SendFile_proofs` proves, for every size of file, buffer and `size_t` with
`SizeT > MaxSize`, and any events:

| Theorem | Property |
|---|---|
| `Invariant` | `IInv` |
| `Whole` | `SentWhole` |
| `InOrder` | `SentInOrder` |
| `Bounded` | `NotMoreThanAnnounced` |
| `Closed` | `FileClosed` |

None of the first three is inductive. `Counting` (what is left and what was sent
make up what was announced) and `Buffered` (the buffer never has more than what is
left) keep the count from wrapping. `SentBeforeBuffer` says that what was sent lies
before the buffer in the file, so a buffer can be appended and the order kept;
`NoGap` says that it lies directly before it while no write was cut short. With
`SizeKept` and `EndedAtZero` an end of the file before the count is 0 means that
the file became shorter. The proof has first what appending a part of the buffer
does to `received`, with the two facts about its order, then one lemma per group of
actions.

`DirListing_proofs` proves, for any names with any lengths, any size of buffer and
directories of any bounded length:

| Theorem | Property |
|---|---|
| `ListingInvariant` | `ListingInv` |
| `Listed` | `EveryEntryListed` |

`EveryEntryListed` says nothing before the end. `Place` relates the place in the
directory to the number of lines sent, with one more in the buffer while `pc` is
`send`, and says that the cookie ends only when `readdir()` has returned NULL
(`AtEnd`), with the last entry in the buffer (`LastEntry`) and one line still to be
sent; `InOrder` says that the lines so far are the entries so far, and a line beyond
them the last entry again. `StreamKnown` says that the stream is open exactly while the cookie is there,
until `NLST` returns.

`Paths_proofs` proves, for any set of real paths and any way it may change:

| Theorem | Property |
|---|---|
| `Invariant` | `PathsInv` |
| `TypeCorrect` | `TypeOK` |
| `MeansWhatWasAsked` | `ResultIsMeant` |
| `LeadsBack` | `ToldLeadsBack` |

The file system may change before any call, so what one call has found is not
known to the next. `HandlerOfPlace` is what holds all the same (which command is at
which call, and that a path that has passed the comparison with the root is not
above it); `MeantOfPlace` is what holds while nothing has changed, and `ToldIsMeant`
says that a path that was told converts to the one it stands for. The lemmas about
`Resolve` have it as the state after each name of the path (`ResolveByPlace`), so that
what holds at the start and is kept by each name holds at the end: a real path
that `realpath()` returns is a path of the tree (`ResolveIsReal`), and a real path
resolves to itself while what it goes through are directories (`RealIsResolved`). This
is why `CWD`, which resolves its path a second time, ends where it meant to. The
assumptions are facts of a file system and of `realpath()`, but for the percent signs,
which `RootPathsAssumption` keeps out of the root.

`PortNumber_proofs` proves `PortAsTyped` (`PortIsWhatWasTyped`) and
`UpToLimitAccepted` (`PortsBelowLimitAccepted`). The first is for strings of any
length, where the run goes up to six characters; the second is about the strings of
one to five digits, since a longer one is refused for its length, leading zeros or not. `Value` and the loops of the code are folds; the
lemmas have each as the values it takes at each place of the string. What
`IsDecimal` accepts has five digits at most, and the comparison digit by digit is
one of numbers when the strings have the same length.

`Fold_theorems` is what the last two rest on. The induction theorems of the library
take a predicate as a parameter and cannot be cited in this prover; `SetInduction`
is the same about a set of numbers, from the well-foundedness of `<`, and
`FoldExists` says that a function that is recursive over the subsets of a finite
set, as the folds of the community modules are, exists and is what its definition
says.

Only model-checked: liveness (`InputIsAnswered`, `NextClientIsServed`,
`SignalEndsProcess`, `TransferEnds`). It needs `WF`, which is defined by `ENABLED`,
and that is out of the provers' reach. Every other property of a run that passes is
a theorem. The runs that expect a counterexample have none to prove.

## Not modelled

- The lengths of the receive buffer and of the replies, and what a line of a listing
  ends in.
  A line is a token and a reply a code; that the 150 reply to a long file name
  does not fit is a choice. When `read()` fills the buffer its terminator is
  written one byte further (`vsftp_server.c:195`): what that byte is depends on the
  build, not on the source.
- The arguments of `main()` other than the port: each is tested once, before
  anything is open.
- Logging (`io.c`), printouts, version, build and test scripts: no state of the
  server. The log file is opened by the first message and stays open; the
  descriptors that the process has from its start, but for standard input, are not
  in the table.

## The plan

Done: the core (`Sockets`, `VSFTPServer`, `VSFTPCommands`, `VSFTPMain`), `FTPSession` and
the refinement, `SendFile`, `Paths`, `DirListing` and `PortNumber`, each with its
inductive invariant and the theorems above; every safety property of a run that
passes, and the refinement, is proved.

Next:

1. What `FTPSession` promises by itself, as theorems about it that hold of the
   program by `Refinement`: one last reply, 226 only after 150 and without a port.
2. The finite facts under the liveness properties that can be stated without
   `ENABLED`: that `SendFile`'s count goes down with every step that does not fail,
   that a listing never goes back.
3. The composition of `SendFile` and `DirListing` with the choices of `VSFTPCommands`
   that they open up: that the loops of `RETR` and `NLST` implement the steps of a
   transfer there.
