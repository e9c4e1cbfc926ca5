-------------------------- MODULE DirListing_proofs --------------------------
(***************************************************************************)
(* Theorems about the listing of a directory: ListingInv is inductive, and *)
(* what a client that is told 226 has been sent follows from it, for every *)
(* directory, every length of its names and every size of the buffer, and  *)
(* wherever readdir() fails.                                               *)
(***************************************************************************)
EXTENDS DirListing, SequenceTheorems, TLAPS

\* A directory is a sequence of names that has at least one.
LEMMA DirectoryIsSeq ==
  ASSUME NEW d \in Directories
  PROVE  /\ d \in Seq(Names) /\ Len(d) \in Nat \ {0}
         /\ \A i \in 1 .. Len(d) : d[i] \in Names
<1>1. PICK n \in 1 .. MaxEntries : d \in [1 .. n -> Names]
  BY DEF Directories
<1>2. n \in Nat \ {0} BY MaxEntriesAssumption
<1>. QED BY <1>1, <1>2, SeqDef

LEMMA InitListing == Init => ListingInv
<1>. SUFFICES ASSUME Init PROVE ListingInv
  OBVIOUS
<1>1. Len(entries) \in Nat \ {0} BY DirectoryIsSeq DEF Init
<1>2. sent \in Seq(Names \cup {Nothing}) /\ Len(sent) = 0 /\ DOMAIN sent = {}
  BY EmptySeq, LenProperties DEF Init
<1>3. TypeOK BY <1>2 DEF Init, TypeOK
<1>4. Place BY <1>1, <1>2 DEF Init, Place, LastEntry
<1>5. InOrder /\ StreamKnown BY <1>2 DEF Init, InOrder, StreamKnown
<1>. QED BY <1>3, <1>4, <1>5 DEF ListingInv

\* One call of VSFTPFilesystemListDirPerLine.
LEMMA ListDirPerLineKeeps ==
  ASSUME ListingInv, ListDirPerLine
  PROVE  ListingInv'
<1>1. /\ Len(entries) \in Nat \ {0} /\ Len(sent) \in Nat /\ DOMAIN sent = 1 .. Len(sent)
      /\ \A i \in 1 .. Len(entries) : entries[i] \in Names
  BY DirectoryIsSeq, LenProperties DEF ListingInv, TypeOK
<1>2. entries' = entries /\ sent' = sent /\ pc = "list"
  BY DEF ListDirPerLine, OpenFails, ListEntry, ListFails, ListEnd
<1>3. Len(sent) = pos /\ pos \in 0 .. Len(entries) /\ retval = 0
  BY <1>2 DEF ListingInv, Place
<1>4. InOrder' BY <1>1, <1>2, <1>3 DEF ListingInv, InOrder, ListDirPerLine, OpenFails, ListEntry, ListFails, ListEnd
<1>5. TypeOK' /\ Place' /\ StreamKnown'
  <2>. USE <1>1, <1>2, <1>3 DEF ListingInv, TypeOK
  <2>1. CASE OpenFails
    <3>1. Place' BY <2>1 DEF OpenFails, Place, LastEntry
    <3>2. TypeOK' /\ StreamKnown' BY <2>1, Zenon DEF OpenFails, StreamKnown
    <3>. QED BY <3>1, <3>2
  <2>2. CASE ListEntry
    <3>1. /\ pos + 1 \in 1 .. Len(entries) /\ entries[pos + 1] \in Names
          /\ pos' = pos + 1 /\ buf' = entries[pos'] /\ pos' > 0
      BY <2>2 DEF ListEntry
    <3>2. cookie' /\ isOpen' /\ pc' = "send" /\ retval' = retval
      BY <2>2, Zenon DEF ListEntry
    <3>3. Place' BY <3>1, <3>2 DEF Place, LastEntry
    <3>4. TypeOK' /\ StreamKnown' BY <2>2, <3>1, <3>2 DEF ListEntry, StreamKnown
    <3>. QED BY <3>3, <3>4
  <2>3. CASE ListFails
    <3>1. pos + 1 \in 0 .. Len(entries) BY <2>3 DEF ListFails
    <3>2. ~isOpen' /\ ~cookie' /\ isOpen' \in BOOLEAN /\ cookie' \in BOOLEAN
      BY <2>3, Zenon DEF ListFails
    <3>. QED BY <2>3, <3>1, <3>2 DEF ListFails, Place, StreamKnown
  <2>4. CASE ListEnd
    <3>1. /\ ~isOpen' /\ isOpen' \in BOOLEAN
          /\ ~cookie' /\ cookie' \in BOOLEAN
      BY <2>4, Zenon DEF ListEnd
    <3>2. readError' \in BOOLEAN BY <2>4, Zenon DEF ListEnd
    <3>3. AtEnd'
      <4>1. CASE pos = Len(entries) BY <2>4, <4>1 DEF ListEnd, AtEnd
      <4>2. CASE pos # Len(entries) BY <2>4, <4>2 DEF ListEnd, AtEnd
      <4>. QED BY <4>1, <4>2
    <3>. QED BY <2>4, <3>1, <3>2, <3>3 DEF ListEnd, Place, LastEntry, StreamKnown
  <2>. QED BY <2>1, <2>2, <2>3, <2>4 DEF ListDirPerLine
<1>. QED BY <1>4, <1>5 DEF ListingInv

\* A line is sent: it is the next entry, or one more when there is none.
LEMMA SendLineKeeps ==
  ASSUME ListingInv, SendLine
  PROVE  ListingInv'
<1>. USE DEF ListingInv, TypeOK
<1>1. /\ Len(entries) \in Nat \ {0}
      /\ \A i \in 1 .. Len(entries) : entries[i] \in Names
  BY DirectoryIsSeq
<1>2. buf \in Names \cup {Nothing} /\ sent' = Append(sent, buf)
  BY DEF SendLine
<1>3. /\ Len(sent) \in Nat /\ DOMAIN sent = 1 .. Len(sent)
      /\ sent' \in Seq(Names \cup {Nothing}) /\ Len(sent') = Len(sent) + 1
      /\ \A i \in 1 .. Len(sent) : sent'[i] = sent[i]
      /\ sent'[Len(sent) + 1] = buf
  BY <1>2, AppendProperties, LenProperties
<1>4. DOMAIN sent' = 1 .. Len(sent) + 1 BY <1>3, LenProperties
<1>5. \A i \in DOMAIN sent' : i \in DOMAIN sent \/ i = Len(sent) + 1 BY <1>3, <1>4
<1>6. /\ entries' = entries /\ pos' = pos /\ readError' = readError /\ buf' = buf
      /\ (isOpen' <=> isOpen) /\ (cookie' <=> cookie) /\ retval' = retval
      /\ pc = "send" /\ pc' = IF cookie THEN "list" ELSE "done"
  BY DEF SendLine
<1>7. TypeOK' BY <1>3 DEF SendLine
<1>8. Place'
  <2>1. AtEnd' <=> AtEnd BY <1>6 DEF AtEnd
  <2>2. /\ pos \in 0 .. Len(entries) /\ retval = 0
        /\ buf = LastEntry /\ LastEntry' = LastEntry
    BY <1>6 DEF Place, LastEntry
  <2>3. CASE cookie
    <3>1. pos > 0 /\ Len(sent) = pos - 1 /\ pc' = "list" BY <1>6, <2>3 DEF Place
    <3>. QED BY <1>1, <1>3, <1>6, <2>2, <3>1 DEF Place
  <2>4. CASE ~cookie
    <3>1. AtEnd /\ Len(sent) = pos /\ pc' = "done" BY <1>6, <2>4 DEF Place
    <3>. QED BY <1>1, <1>3, <1>6, <2>1, <2>2, <3>1 DEF Place
  <2>. QED BY <2>3, <2>4
<1>9. InOrder'
  <2>1. buf = LastEntry /\ LastEntry' = LastEntry BY <1>6 DEF Place, LastEntry
  <2>2. Len(sent) + 1 <= pos => LastEntry = entries[Len(sent) + 1]
    <3>1. CASE cookie BY <1>1, <1>3, <1>6, <3>1 DEF Place, LastEntry
    <3>2. CASE ~cookie BY <1>1, <1>3, <1>6, <3>2 DEF Place
    <3>. QED BY <3>1, <3>2
  <2>3. sent'[Len(sent) + 1] = IF Len(sent) + 1 <= pos THEN entries[Len(sent) + 1] ELSE LastEntry
    BY <1>3, <2>1, <2>2
  <2>. QED BY <1>3, <1>4, <1>5, <1>6, <2>1, <2>3 DEF InOrder
<1>10. StreamKnown' BY <1>6 DEF StreamKnown, Place
<1>. QED BY <1>7, <1>8, <1>9, <1>10

LEMMA StepListing == ListingInv /\ [Next]_vars => ListingInv'
<1>. SUFFICES ASSUME ListingInv, [Next]_vars PROVE ListingInv'
  OBVIOUS
<1>1. CASE ListDirPerLine BY <1>1, ListDirPerLineKeeps
<1>2. CASE SendLine BY <1>2, SendLineKeeps
<1>3. CASE SendFails
  <2>1. ~cookie' /\ cookie' \in BOOLEAN BY <1>3, Zenon DEF SendFails
  <2>. QED BY <1>3, <2>1 DEF SendFails, ListingInv, TypeOK, Place, LastEntry, InOrder, StreamKnown
<1>4. CASE UNCHANGED vars
  BY <1>4 DEF vars, ListingInv, TypeOK, Place, LastEntry, AtEnd, InOrder, StreamKnown
<1>. QED BY <1>1, <1>2, <1>3, <1>4 DEF Next, Done

\* At every step of the loop of NLST the place in the directory, the entry in
\* the buffer and the lines that were sent go together, and NLST knows the
\* stream while it runs and has closed it when it ends with 226.
THEOREM ListingInvariant == Spec => []ListingInv
<1>. QED BY InitListing, StepListing, PTL DEF Spec

\* A listing that the client is told has succeeded is every entry that readdir()
\* could read, in the order of the directory, the last of them twice, and nothing
\* else; it is the whole directory unless readdir() returned an error, however many
\* there are and whatever their lengths.
THEOREM Listed == Spec => []EveryEntryListed
<1>1. ListingInv => EveryEntryListed
  <2>. SUFFICES ASSUME ListingInv, pc = "done", retval = 0
                PROVE  /\ AtEnd /\ Len(sent) = pos + 1
                       /\ \A i \in 1 .. pos : sent[i] = entries[i]
                       /\ sent[pos + 1] = LastEntry
    BY DEF EveryEntryListed
  <2>1. Len(entries) \in Nat \ {0} BY DirectoryIsSeq DEF ListingInv, TypeOK
  <2>2. /\ DOMAIN sent = 1 .. Len(sent) /\ Len(sent) = pos + 1 /\ AtEnd
        /\ pos \in 0 .. Len(entries)
    BY LenProperties DEF ListingInv, TypeOK, Place
  <2>. QED BY <2>1, <2>2 DEF ListingInv, InOrder
<1>. QED BY <1>1, ListingInvariant, PTL
=============================================================================
