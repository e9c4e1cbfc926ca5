------------------------------ MODULE DirListing ------------------------------
(***************************************************************************)
(* The loop of NLST over a directory: VSFTPFilesystemListDirPerLine        *)
(* returns one entry per call and keeps its place in a cookie, and         *)
(* CommandHandlerNlst sends what it returned, as a line, with              *)
(* VSFTPServerSendReplyOwnBufTransfer.  VSFTPMain has this loop as its     *)
(* steps OpenSource, SendChunk, SendFails and EndOfSource; this module is  *)
(* about what is sent.                                                     *)
(***************************************************************************)
EXTENDS Integers, Sequences

CONSTANTS
  Names,         \* names of directory entries
  Length,        \* the length of each as readdir() and snprintf() print it
  PATH_LEN_MAX,  \* the size of the buffer
  WithArgument,  \* the path that is listed is an argument of NLST
  MaxEntries     \* bound: entries of a directory

Nothing == "nothing"  \* buf before the first entry: not initialised

ASSUME NamesAssumption      == Nothing \notin Names
ASSUME LengthAssumption     == Length \in [Names -> Nat \ {0}]
ASSUME BufferAssumption     == PATH_LEN_MAX \in Nat \ {0}
ASSUME ArgumentAssumption   == WithArgument \in BOOLEAN
ASSUME MaxEntriesAssumption == MaxEntries \in Nat \ {0}

VARIABLES
  entries,   \* the directory, in the order readdir() returns it
  pos,       \* how many entries readdir() has returned
  readError, \* readdir() has returned NULL for an error
  isOpen,    \* the directory stream is open
  cookie,    \* d, a local variable of CommandHandlerNlst, is there and not NULL
  buf,       \* the entry in the buffer
  sent,      \* the names written to the data connection, one a line
  pc,        \* "list": about to call ListDirPerLine; "send"; "done"
  retval

vars == <<entries, pos, readError, isOpen, cookie, buf, sent, pc, retval>>

\* The name of an entry appears once in its directory; "." is always there.
Directories == {s \in UNION {[1 .. n -> Names] : n \in 1 .. MaxEntries} :
                  \A i, j \in DOMAIN s : s[i] = s[j] => i = j}

Init ==
  /\ entries \in Directories
  /\ pos = 0 /\ readError = FALSE
  /\ isOpen = FALSE /\ cookie = FALSE
  /\ buf = Nothing /\ sent = <<>>
  /\ pc = "list" /\ retval = 0

-----------------------------------------------------------------------------
\* snprintf() of a name, which needs one more character for its end.
Fits(name) == Length[name] < PATH_LEN_MAX

\* opendir() fails: no such directory any more, or no free descriptor.
OpenFails ==
  /\ pc = "list" /\ ~cookie
  /\ retval' = -1 /\ pc' = "done"
  /\ UNCHANGED <<entries, pos, readError, isOpen, cookie, buf, sent>>

\* readdir() returns an entry that fits: the caller gets it and the cookie.
\* Mutant: the stream is given up together with the last entry.
ListStopsEarly ==
  /\ pc = "list" /\ pos < Len(entries)
  /\ Fits(entries[pos + 1])
  /\ buf' = entries[pos + 1] /\ pos' = pos + 1
  /\ isOpen' = (pos + 2 < Len(entries)) /\ cookie' = (pos + 2 < Len(entries))
  /\ pc' = "send"
  /\ UNCHANGED <<entries, readError, sent, retval>>

ListEntry ==
  /\ pc = "list" /\ pos < Len(entries)
  /\ Fits(entries[pos + 1])
  /\ buf' = entries[pos + 1] /\ pos' = pos + 1
  /\ isOpen' = TRUE /\ cookie' = TRUE
  /\ pc' = "send"
  /\ UNCHANGED <<entries, readError, sent, retval>>

\* It returns one that does not fit: the stream is closed and the call fails,
\* and with it NLST.
ListFails ==
  /\ pc = "list" /\ pos < Len(entries)
  /\ ~Fits(entries[pos + 1])
  /\ pos' = pos + 1
  /\ isOpen' = FALSE /\ cookie' = FALSE
  /\ retval' = -1 /\ pc' = "done"
  /\ UNCHANGED <<entries, readError, buf, sent>>

\* It returns NULL, at the end of the directory or, anywhere, for an error,
\* which ListDirPerLine does not tell from the end: the stream is closed, the
\* cookie becomes NULL and buf keeps what it held.  The call succeeds.
\* Mutant: the stream is not closed.
ListEndOpen ==
  /\ pc = "list"
  /\ \/ pos = Len(entries) /\ UNCHANGED readError
     \/ readError' = TRUE
  /\ isOpen' = TRUE /\ cookie' = FALSE
  /\ pc' = "send"
  /\ UNCHANGED <<entries, pos, buf, sent, retval>>

ListEnd ==
  /\ pc = "list"
  /\ \/ pos = Len(entries) /\ UNCHANGED readError
     \/ readError' = TRUE
  /\ isOpen' = FALSE /\ cookie' = FALSE
  /\ pc' = "send"
  /\ UNCHANGED <<entries, pos, buf, sent, retval>>

\* The line is sent, and the loop goes on while the cookie is not NULL.  If the
\* first readdir() has failed, NLST without an argument has nothing to send,
\* and with one it sends what it takes the buffer to hold.
SendLine ==
  /\ pc = "send"
  /\ buf # Nothing \/ WithArgument
  /\ sent' = Append(sent, buf)
  /\ pc' = IF cookie THEN "list" ELSE "done"
  /\ UNCHANGED <<entries, pos, readError, isOpen, cookie, buf, retval>>

\* The data connection is gone, or there is nothing in the buffer to send.  NLST
\* returns as it is, and its variable d, the only one that knows the stream,
\* ends with it.
SendFails ==
  /\ pc = "send"
  /\ retval' = -1 /\ pc' = "done"
  /\ cookie' = FALSE
  /\ UNCHANGED <<entries, pos, readError, isOpen, buf, sent>>

ListDirPerLine == OpenFails \/ ListEntry \/ ListFails \/ ListEnd

\* The loop has ended.
Done == pc = "done" /\ UNCHANGED vars

Next == ListDirPerLine \/ SendLine \/ SendFails \/ Done

Spec == Init /\ [][Next]_vars

-----------------------------------------------------------------------------
\* Nothing is left to list, or readdir() has said so.
AtEnd == pos = Len(entries) \/ readError

LastEntry == IF pos > 0 THEN entries[pos] ELSE Nothing

\* The client that is told 226 has been sent every entry that readdir() could
\* read, once and in the order of the directory, and that is the whole directory
\* unless readdir() returned an error; and after them the last one once more,
\* since the call that finds the end succeeds with the buffer as it was, and NLST
\* tests the cookie only after it has sent the buffer.
EveryEntryListed ==
  pc = "done" /\ retval = 0 =>
    /\ AtEnd
    /\ Len(sent) = pos + 1
    /\ \A i \in 1 .. pos : sent[i] = entries[i]
    /\ sent[pos + 1] = LastEntry

TypeOK ==
  /\ entries \in Directories
  /\ readError \in BOOLEAN
  /\ isOpen \in BOOLEAN /\ cookie \in BOOLEAN
  /\ buf \in Names \cup {Nothing}
  /\ sent \in Seq(Names \cup {Nothing})
  /\ pc \in {"list", "send", "done"}
  /\ retval \in {0, -1}

(***************************************************************************)
(* The inductive invariant from which DirListing_proofs derives it: the    *)
(* place in the directory is the number of lines sent, or one ahead of it  *)
(* while an entry is in the buffer; and while NLST runs it knows the       *)
(* stream if there is one.                                                 *)
(***************************************************************************)
Place ==
  /\ pos \in 0 .. Len(entries)
  /\ pc \in {"list", "send"} => retval = 0 /\ buf = LastEntry
  /\ pc = "list" => Len(sent) = pos
  /\ pc = "send" => IF cookie THEN pos > 0 /\ Len(sent) = pos - 1 ELSE AtEnd /\ Len(sent) = pos
  /\ pc = "done" /\ retval = 0 => AtEnd /\ Len(sent) = pos + 1

InOrder == \A i \in DOMAIN sent : sent[i] = IF i <= pos THEN entries[i] ELSE LastEntry

StreamKnown ==
  /\ pc \in {"list", "send"} => (isOpen <=> cookie)
  /\ pc = "done" => ~cookie /\ (retval = 0 => ~isOpen)

\* What holds at every step of the loop of NLST; a listing that ends with 226
\* has closed the directory.
ListingInv == TypeOK /\ Place /\ InOrder /\ StreamKnown

=============================================================================
