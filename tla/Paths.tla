-------------------------------- MODULE Paths --------------------------------
(***************************************************************************)
(* The paths of the server: the root, the directory of the session, and    *)
(* what CWD, PWD, NLST, RETR and SIZE make of a path the client sends      *)
(* (vsftp_server.c and vsftp_filesystem.c).  VSFTPCommands leaves what     *)
(* these find in the file system to choice; this module is about it.       *)
(*                                                                         *)
(* A real path is the sequence of its names.  A path as the client writes  *)
(* it (a server path) has also a flag, whether it starts with a slash.     *)
(* Other processes change the file system between any two calls.           *)
(***************************************************************************)
EXTENDS Integers, Sequences, SequencesExt

CONSTANTS
  Nodes,         \* the real paths there may be something at
  Allowed,       \* what there may be at each: a function from Nodes
  LinkTo,        \* where each of them leads when it is a symbolic link
  RootPaths,     \* the root the server may be started with
  ServerPaths,   \* the paths the client sends
  Extensions,    \* <<a, b, c>>: the name b is the name a followed by c
  Printed,       \* what snprintf() makes of a name that is used as its format
  PATH_LEN_MAX   \* the longest path, in names

Kinds == {"absent", "dir", "file", "link"}
NoPath == <<"">>   \* realpath() returned NULL; no name is empty
Commands == {"connect", "CWD", "PWD", "NLST", "RETR", "SIZE"}

\* The parent of a real path is one, and no real path has a name "." or "..".
ASSUME NodesAssumption ==
  /\ <<>> \in Nodes /\ NoPath \notin Nodes /\ Nodes \subseteq Seq(STRING)
  /\ \A p \in Nodes \ {<<>>} : Front(p) \in Nodes
  /\ \A p \in Nodes : \A i \in DOMAIN p : p[i] \notin {".", ".."}
\* The root of the file system is a directory.
ASSUME AllowedAssumption == Allowed \in [Nodes -> SUBSET Kinds] /\ Allowed[<<>>] = {"dir"}
ASSUME RootPathsAssumption ==
  RootPaths \subseteq Nodes /\ \A r \in RootPaths : \A i \in DOMAIN r : Printed[r[i]] = r[i]
ASSUME ServerPathsAssumption == ServerPaths \subseteq [abs : BOOLEAN, names : Seq(STRING)]
ASSUME PrintedAssumption == \A p \in Nodes : \A i \in DOMAIN p : Printed[p[i]] \in STRING
ASSUME PathLenAssumption == PATH_LEN_MAX \in Nat

VARIABLES
  kind,      \* the file system: what there is at each of Nodes
  rootPath,  \* serverData.rootPath
  cwd,       \* serverData.cwd, NoPath before the first session
  pc,        \* "idle", or the next call: "resolve", "again", "stat", "check", "list",
             \* "size"; "over" when a session could not be started
  command,   \* the command that runs or was the last to run
  arg,       \* its argument, <<>> when it has none
  realPath,  \* realPath of the handler
  result,    \* "none", "ok", "fail"
  told,      \* history: the paths the client was told, with what each is of
  from,      \* history: cwd when the command began
  changed    \* history: the file system has changed since

vars == <<kind, rootPath, cwd, pc, command, arg, realPath, result, told, from, changed>>

-----------------------------------------------------------------------------
(***************************************************************************)
(* realpath(): walk the names from the root of the file system.            *)
(***************************************************************************)
At(p) == IF p \in Nodes THEN kind[p] ELSE "absent"

Walkable(p) == \A n \in 0 .. Len(p) - 1 : At(SubSeq(p, 1, n)) = "dir"

\* A link leads to a real path: a link to a link is not among LinkTo.
Follow(p) ==
  LET target == LinkTo[p]
  IN  IF Walkable(target) /\ At(target) \in {"dir", "file"} THEN target ELSE NoPath

Enter(p, name) ==
  LET child == Append(p, name)
  IN  CASE At(child) = "absent" -> NoPath
        [] At(child) = "link"   -> Follow(child)
        [] OTHER                -> child

Walk(p, name) ==
  IF At(p) # "dir" THEN NoPath
  ELSE CASE name = "."  -> p
         [] name = ".." -> IF p = <<>> THEN p ELSE Front(p)
         [] OTHER       -> Enter(p, name)

Resolve(names) == FoldLeft(Walk, <<>>, names)

Fits(p) == Len(p) <= PATH_LEN_MAX

(***************************************************************************)
(* VSFTPFilesystemGetRealPath of an absolute path: the real path, if it    *)
(* fits the buffer.                                                        *)
(***************************************************************************)
GetRealPath(names) == IF Fits(Resolve(names)) THEN Resolve(names) ELSE NoPath

\* VSFTPServerGetCwd: cwd is not copied but printed, as the format itself.
GetCwd == [i \in DOMAIN cwd |-> Printed[cwd[i]]]

(***************************************************************************)
(* VSFTPServerServerPathToRealPath: an absolute path is put after the root,*)
(* a relative one after the directory of the session.  If that does not fit*)
(* the buffer the second fails (ConcatCwdAndPath); the first is cut off,   *)
(* and what follows the buffer is taken to be part of it: either nothing   *)
(* there has such a name, or the path ends there.                          *)
(***************************************************************************)
\* Mutant: a relative path is put after the root, too.
WholeFromRoot(a) == rootPath \o a.names

Whole(a) == (IF a.abs THEN rootPath ELSE GetCwd) \o a.names

RealPathsOf(a) ==
  CASE Fits(Whole(a))            -> {GetRealPath(Whole(a))}
    [] ~Fits(Whole(a)) /\ ~a.abs -> {NoPath}
    [] ~Fits(Whole(a)) /\ a.abs  -> {NoPath, GetRealPath(SubSeq(Whole(a), 1, PATH_LEN_MAX))}

(***************************************************************************)
(* VSFTPServerAbsPathIsNotAboveRootPath compares characters: at the last   *)
(* name of the root, a name that begins with it will do.                   *)
(***************************************************************************)
Begins(a, b) == a = b \/ \E e \in Extensions : e[1] = a /\ e[2] = b

NotAbove(p) ==
  \/ rootPath = <<>>
  \/ /\ Len(p) >= Len(rootPath)
     /\ IsPrefix(Front(rootPath), p)
     /\ Begins(Last(rootPath), p[Len(rootPath)])

(***************************************************************************)
(* VSFTPServerRealPathToServerPath leaves out the characters that the path *)
(* has in common with the root.  With the root "/" these include the slash *)
(* that the result should start with.                                      *)
(***************************************************************************)
\* Mutant: the last name of the root stays.
RealPathToServerPathKeepsName(p) ==
  [abs |-> TRUE, names |-> IF rootPath = <<>> THEN p ELSE SubSeq(p, Len(rootPath), Len(p))]

RealPathToServerPath(p) ==
  LET rest == SubSeq(p, Len(rootPath) + 1, Len(p))
  IN  CASE p = rootPath -> [abs |-> TRUE, names |-> <<>>]
        [] p # rootPath /\ rootPath = <<>> -> [abs |-> FALSE, names |-> p]
        [] p # rootPath /\ rootPath # <<>> /\ IsPrefix(rootPath, p) -> [abs |-> TRUE, names |-> rest]
        [] OTHER ->
             LET e == CHOOSE e \in Extensions : e[1] = Last(rootPath) /\ e[2] = p[Len(rootPath)]
             IN  [abs |-> FALSE, names |-> <<e[3]>> \o rest]

\* stat() follows links.  IsDir and IsFile do not look at what it returns: when
\* it fails they test whatever path_stat holds.
StatFinds(p, k) == IF Resolve(p) = NoPath THEN BOOLEAN ELSE {At(Resolve(p)) = k}

-----------------------------------------------------------------------------
Init ==
  /\ kind \in [Nodes -> Kinds] /\ \A p \in Nodes : kind[p] \in Allowed[p]
  /\ rootPath \in {r \in RootPaths : Resolve(r) = r /\ At(r) = "dir"}  \* VSFTPServerInitialize
  /\ cwd = NoPath
  /\ pc = "idle" /\ command = "none" /\ arg = <<>>
  /\ realPath = NoPath /\ result = "none" /\ told = {} /\ from = NoPath /\ changed = FALSE

\* A handler starts, with a as its argument.
Begin(c, a) ==
  /\ pc = "idle"
  /\ command' = c /\ arg' = a
  /\ from' = cwd /\ changed' = FALSE

\* It ends, in a reply that says that it went well, or not.
Finish(r) == pc' = "idle" /\ result' = r

\* A handler that fails; without a session, the server ends.
Fail == pc' = (IF command = "connect" THEN "over" ELSE "idle") /\ result' = "fail"

\* VSFTPServerStart and WaitForIncomingConnection: SetCwd of the root, whatever
\* cwd is from before.
Connect ==
  /\ Begin("connect", <<>>)
  /\ realPath' = rootPath /\ pc' = "again"
  /\ result' = "none" /\ told' = {}
  /\ UNCHANGED <<kind, rootPath, cwd>>

InSession == cwd # NoPath

CommandHandlerPwd ==
  /\ InSession
  /\ Begin("PWD", <<>>)
  /\ told' = {[path |-> RealPathToServerPath(GetCwd), of |-> cwd]}
  /\ Finish("ok")
  /\ UNCHANGED <<kind, rootPath, cwd, realPath>>

\* CWD, RETR, SIZE and NLST of a path: resolve it first.
CommandWithPath ==
  /\ InSession
  /\ \E c \in {"CWD", "NLST", "RETR", "SIZE"}, a \in ServerPaths : Begin(c, a)
  /\ pc' = "resolve" /\ result' = "none" /\ told' = {}
  /\ UNCHANGED <<kind, rootPath, cwd, realPath>>

\* Without a path these fail.
CommandLacksPath ==
  /\ InSession
  /\ \E c \in {"CWD", "RETR", "SIZE"} : Begin(c, <<>>)
  /\ Finish("fail") /\ told' = {}
  /\ UNCHANGED <<kind, rootPath, cwd, realPath>>

\* NLST without one lists the directory of the session.
ListCwd ==
  /\ InSession
  /\ Begin("NLST", <<>>)
  /\ realPath' = GetCwd
  /\ pc' = "list" /\ result' = "none" /\ told' = {}
  /\ UNCHANGED <<kind, rootPath, cwd>>

ResolvePath ==
  /\ pc = "resolve"
  /\ realPath' \in RealPathsOf(arg)
  /\ IF realPath' = NoPath THEN Fail
     ELSE pc' = (IF command = "CWD" THEN "again" ELSE "stat") /\ UNCHANGED result
  /\ UNCHANGED <<kind, rootPath, cwd, command, arg, told, from, changed>>

\* VSFTPServerSetCwd resolves the path once more.
SetCwdResolve ==
  /\ pc = "again"
  /\ realPath' = GetRealPath(realPath)
  /\ IF realPath' = NoPath THEN Fail ELSE pc' = "stat" /\ UNCHANGED result
  /\ UNCHANGED <<kind, rootPath, cwd, command, arg, told, from, changed>>

\* IsDir, or IsFile for RETR, which goes on with the transfer (SendFile), and
\* SIZE, which examines the file once more.
\* Mutant: IsDir for all of them.
StatAlwaysDir ==
  /\ pc = "stat"
  /\ \E found \in StatFinds(realPath, "dir") :
       IF ~found THEN Fail
       ELSE IF command = "RETR" THEN Finish("ok")
       ELSE pc' = (IF command = "SIZE" THEN "size" ELSE "check") /\ UNCHANGED result
  /\ UNCHANGED <<kind, rootPath, cwd, command, arg, realPath, told, from, changed>>

StatPath ==
  /\ pc = "stat"
  /\ \E found \in StatFinds(realPath, IF command \in {"RETR", "SIZE"} THEN "file" ELSE "dir") :
       IF ~found THEN Fail
       ELSE IF command = "RETR" THEN Finish("ok")
       ELSE pc' = (IF command = "SIZE" THEN "size" ELSE "check") /\ UNCHANGED result
  /\ UNCHANGED <<kind, rootPath, cwd, command, arg, realPath, told, from, changed>>

SizeOfPath ==
  /\ pc = "size"
  /\ Finish(IF Resolve(realPath) = NoPath THEN "fail" ELSE "ok")
  /\ UNCHANGED <<kind, rootPath, cwd, command, arg, realPath, told, from, changed>>

\* A path that is not above the root becomes the directory of the session, or
\* is listed.
\* Mutant: CWD stores it as PWD would tell it.
CheckStoresServerPath ==
  /\ pc = "check"
  /\ IF ~NotAbove(realPath) THEN Fail /\ UNCHANGED cwd
     ELSE IF command = "NLST" THEN pc' = "list" /\ UNCHANGED <<cwd, result>>
     ELSE /\ cwd' = IF command = "CWD" THEN RealPathToServerPath(realPath).names ELSE realPath
          /\ Finish("ok")
  /\ UNCHANGED <<kind, rootPath, command, arg, realPath, told, from, changed>>

CheckPath ==
  /\ pc = "check"
  /\ IF ~NotAbove(realPath) THEN Fail /\ UNCHANGED cwd
     ELSE IF command = "NLST" THEN pc' = "list" /\ UNCHANGED <<cwd, result>>
     ELSE cwd' = realPath /\ Finish("ok")
  /\ UNCHANGED <<kind, rootPath, command, arg, realPath, told, from, changed>>

(***************************************************************************)
(* The loop of NLST.  The path of the directory is put before an entry if  *)
(* the command had an argument, and the root is left out; the entries of   *)
(* the root of the file system have two slashes before them, of which that *)
(* leaves one.                                                             *)
(***************************************************************************)
Entries(d) == {p[Len(p)] : p \in {q \in Nodes : q # <<>> /\ Front(q) = d /\ kind[q] # "absent"}}
                \cup {".", ".."}

Line(d, name) ==
  IF arg = <<>> THEN [abs |-> FALSE, names |-> <<name>>]
  ELSE IF d = <<>> THEN [abs |-> TRUE, names |-> <<name>>]
  ELSE RealPathToServerPath(Append(d, name))

ListPath ==
  /\ pc = "list"
  /\ LET d == Resolve(realPath)
     IN  IF d # NoPath /\ At(d) = "dir"
         THEN /\ told' = {[path |-> Line(realPath, name), of |-> Append(realPath, name)] :
                             name \in Entries(d)}
              /\ Finish("ok")
         ELSE Fail /\ UNCHANGED told
  /\ UNCHANGED <<kind, rootPath, cwd, command, arg, realPath, from, changed>>

Server ==
  \/ Connect \/ CommandHandlerPwd \/ CommandWithPath \/ CommandLacksPath \/ ListCwd
  \/ ResolvePath \/ SetCwdResolve \/ StatPath \/ SizeOfPath \/ CheckPath \/ ListPath

\* Something is created, removed or replaced.
FileSystemChanges ==
  /\ \E p \in Nodes : \E k \in Allowed[p] \ {kind[p]} : kind' = [kind EXCEPT ![p] = k]
  /\ changed' = TRUE
  /\ UNCHANGED <<rootPath, cwd, pc, command, arg, realPath, result, told, from>>

Next == Server \/ FileSystemChanges

Spec == Init /\ [][Next]_vars

-----------------------------------------------------------------------------
TypeOK ==
  /\ kind \in [Nodes -> Kinds]
  /\ rootPath \in RootPaths
  /\ {cwd, from} \subseteq Nodes \cup {NoPath} /\ realPath \in Seq(STRING) \cup {NoPath}
  /\ pc \in {"idle", "resolve", "again", "stat", "size", "check", "list", "over"}
  /\ command \in Commands \cup {"none"}
  /\ arg \in ServerPaths \cup {<<>>}
  /\ result \in {"none", "ok", "fail"}
  /\ changed \in BOOLEAN

Plain(p) == \A i \in DOMAIN p : Printed[p[i]] = p[i]

\* If nothing changes meanwhile, what is checked with one call is what is used
\* with the next: a command that succeeds on a path has found what it needs
\* there, and it is what the path leads to from where the session was, or from
\* the root; a session starts in the root, and CWD, which resolves the path
\* twice, ends there.  That says nothing of where it leads: inside the root or
\* not (see ServedInsideRoot).  (The path fits the buffer, and no name on it has
\* a percent sign.)
NeededKind == [connect |-> "dir", CWD |-> "dir", NLST |-> "dir", RETR |-> "file", SIZE |-> "file"]
Asked == CASE command = "connect"                -> rootPath
           [] command # "connect" /\ arg.abs     -> rootPath \o arg.names
           [] command # "connect" /\ ~arg.abs    -> from \o arg.names
ResultIsMeant ==
  pc = "idle" /\ result = "ok" /\ ~changed /\ (command = "connect" \/ arg # <<>>) =>
    (Fits(Asked) /\ Plain(from) =>
       /\ At(realPath) = NeededKind[command]
       /\ realPath = Resolve(Asked)
       /\ command \in {"connect", "CWD"} => cwd = realPath)

\* A path that the client is told, by PWD or in a listing, leads back when the
\* client sends it: it is the directory of the session, or the entry that was
\* listed.  (What is told is inside a root that is not "/", the path and what
\* it leads to fit the buffer and the directory of the session has no percent
\* sign in its name.)
ToldLeadsBack ==
  rootPath # <<>> /\ Plain(cwd) =>
    \A t \in told : IsPrefix(rootPath, t.of) /\ Fits(Whole(t.path)) /\ Fits(Resolve(t.of))
                      => RealPathsOf(t.path) = {Resolve(t.of)}

(***************************************************************************)
(* The invariant that the theorems rest on.                                *)
(***************************************************************************)
KindsAllowed == \A p \in Nodes : kind[p] \in Allowed[p]

\* Which commands come to each call, and what they have there.
CommandsAt ==
  [resolve |-> {"CWD", "NLST", "RETR", "SIZE"}, again |-> {"connect", "CWD"},
   stat |-> {"connect", "CWD", "NLST", "RETR", "SIZE"}, size |-> {"SIZE"},
   check |-> {"connect", "CWD", "NLST"}, list |-> {"NLST"}]

\* realPath is what an argument, or the root, was resolved to.
HasRealPath == pc \in {"again", "stat", "size", "check"} \/ (pc = "list" /\ arg # <<>>)

HandlerOfPlace ==
  pc \notin {"idle", "over"} =>
    /\ result = "none" /\ told = {} /\ from = cwd
    /\ command \in CommandsAt[pc]
    /\ command # "connect" => InSession
    /\ pc # "list" /\ command # "connect" => arg \in ServerPaths
    /\ HasRealPath => realPath \in Nodes
    /\ pc = "again" /\ command = "connect" => realPath = rootPath
    /\ pc = "list" => IF arg = <<>> THEN realPath = GetCwd ELSE NotAbove(realPath)

\* As long as nothing changes: what the calls so far have found is still so.
MeantOfPlace ==
  HasRealPath /\ ~changed /\ Fits(Asked) /\ Plain(from) =>
    /\ ~(pc = "again" /\ command = "connect") => realPath = Resolve(Asked)
    /\ pc \in {"size", "check", "list"} => At(realPath) = NeededKind[command]

\* A path that was told is the one it stands for.
ToldIsMeant ==
  rootPath # <<>> /\ Plain(cwd) =>
    \A t \in told : IsPrefix(rootPath, t.of) => Whole(t.path) = t.of

PathsInv == TypeOK /\ KindsAllowed /\ HandlerOfPlace /\ MeantOfPlace /\ ToldIsMeant
              /\ ResultIsMeant

-----------------------------------------------------------------------------
(***************************************************************************)
(* What a comment of the code says and the code does not do: checked by a  *)
(* run that expects a counterexample.                                      *)
(***************************************************************************)
\* "The server will not allow any path to be accessed above/before it"
\* (vsftp_server.c, of the root): a command that succeeds on a path has found it
\* inside the root, at least if nothing changes meanwhile.  RETR and SIZE do not
\* ask, and the others take a directory whose name begins with the root's for one
\* inside it.
ServedInsideRoot ==
  pc = "idle" /\ result = "ok" /\ ~changed /\ arg # <<>> => IsPrefix(rootPath, realPath)
=============================================================================
