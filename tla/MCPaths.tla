------------------------------- MODULE MCPaths -------------------------------
(***************************************************************************)
(* A tree with what the functions treat differently: a directory beside    *)
(* the root whose name begins with the root's, and a file there, a         *)
(* directory that may be replaced by a link to it, one whose name has      *)
(* percent signs and the one it is printed as, and a file that may be a    *)
(* link to the root or gone.                                               *)
(***************************************************************************)
EXTENDS Paths

MCNodes == {<<>>, <<"f">>, <<"srv">>, <<"srv2">>, <<"srv", "pub">>, <<"srv", "%%">>, <<"srv", "%">>,
            <<"srv", "pub", "f">>}
MCAllowed ==
  [p \in MCNodes |->
     CASE p = <<"f">>               -> {"file"}
       [] p = <<"srv", "pub">>      -> {"dir", "link"}
       [] p = <<"srv", "%">>        -> {"absent", "dir"}
       [] p = <<"srv", "pub", "f">> -> {"absent", "file", "link"}
       [] p = <<"srv">>             -> {"dir", "absent"}
       [] OTHER                     -> {"dir"}]
MCLinkTo == [p \in MCNodes |-> IF p = <<"srv", "pub">> THEN <<"srv2">> ELSE <<"srv">>]
MCRootPaths == {<<>>, <<"srv">>, <<"srv", "pub">>}
MCServerPaths ==
  {[abs |-> a, names |-> n] : a \in BOOLEAN, n \in BoundedSeq({"..", "pub", "f", "%%"}, 2)}
    \ {[abs |-> FALSE, names |-> <<>>]}
MCExtensions == {<<"srv", "srv2", "2">>}
MCPrinted == [n \in {"srv", "srv2", "pub", "f", "%%", "%", ""} |-> IF n = "%%" THEN "%" ELSE n]
=============================================================================
