---------------------------- MODULE SendFile_proofs ----------------------------
(***************************************************************************)
(* Theorems about SendFile, for every size of file, buffer and size_t, and *)
(* everything that may happen to the file and to the connection.           *)
(***************************************************************************)
EXTENDS SendFile, SequenceTheorems, TLAPS

\* A number below the modulus is itself modulo it.
LEMMA ModBelow == ASSUME NEW m \in Nat, NEW n \in 0 .. m - 1 PROVE n % m = n
OBVIOUS

\* The loop reads as much as is left, and no more than there is.
LEMMA ReadBounds ==
  ASSUME TypeOK
  PROVE  /\ Available \in Nat /\ BytesRead \in Nat
         /\ BytesRead <= count
         /\ BytesRead = 0 /\ count > 0 => size <= offset
  BY SizesAssumption DEF TypeOK, Available, BytesRead, ToRead

\* x is r and then n numbers that follow one another from o + 1.
Extends(x, r, o, n) ==
  /\ x \in Seq(Nat) /\ Len(x) = Len(r) + n
  /\ \A i \in 1 .. Len(r) : x[i] = r[i]
  /\ \A i \in Len(r) + 1 .. Len(r) + n : x[i] = o + (i - Len(r))

\* What the bytes after place o add to a sequence.
LEMMA Extended ==
  ASSUME NEW r \in Seq(Nat), NEW o \in Nat, NEW n \in Nat
  PROVE  Extends(r \o After(o, n), r, o, n)
<1> DEFINE p == After(o, n)
           x == r \o p
<1>1. p \in Seq(Nat) /\ Len(p) = n /\ \A i \in 1 .. n : p[i] = o + i
  <2>1. p \in [1 .. n -> Nat]
    BY DEF After
  <2> QED BY <2>1 DEF After
<1> HIDE DEF p
<1>2. /\ x \in Seq(Nat) /\ Len(x) = Len(r) + n
      /\ \A i \in 1 .. Len(r) + n : x[i] = IF i <= Len(r) THEN r[i] ELSE p[i - Len(r)]
  BY <1>1, ConcatProperties
<1> HIDE DEF x
<1>3. \A i \in Len(r) + 1 .. Len(r) + n : x[i] = o + (i - Len(r))
  <2> TAKE i \in Len(r) + 1 .. Len(r) + n
  <2>1. i \in 1 .. Len(r) + n /\ ~(i <= Len(r)) /\ i - Len(r) \in 1 .. n
    OBVIOUS
  <2> QED BY <2>1, <1>1, <1>2
<1>4. Extends(x, r, o, n)
  BY <1>2, <1>3 DEF Extends
<1> QED BY <1>4 DEF x, p

\* What SentInOrder, SentBeforeBuffer and NoGap say of a sequence.
Ordered(s) == \A i, j \in DOMAIN s : i < j => s[i] < s[j]
UpTo(s, m) == \A i \in DOMAIN s : s[i] <= m
Gapless(s) == \A i \in DOMAIN s : s[i] = i

\* The extended sequence is in order, and without a gap, if the one before was
\* and had nothing beyond o.
LEMMA ExtendedInOrder ==
  ASSUME NEW r \in Seq(Nat), NEW o \in Nat, NEW n \in Nat,
         NEW x, Extends(x, r, o, n),
         Ordered(r), UpTo(r, o)
  PROVE  /\ Ordered(x) /\ UpTo(x, o + n)
         /\ o = Len(r) /\ Gapless(r) => Gapless(x)
<1>1. DOMAIN r = 1 .. Len(r) /\ Len(r) \in Nat
  OBVIOUS
<1>2. x \in Seq(Nat) /\ Len(x) = Len(r) + n
  BY DEF Extends
<1>3. DOMAIN x = 1 .. Len(r) + n
  BY <1>1, <1>2
<1>4. \A i \in 1 .. Len(r) : x[i] = r[i]
  BY DEF Extends
<1>5. \A i \in Len(r) + 1 .. Len(r) + n : x[i] = o + (i - Len(r))
  BY DEF Extends
<1>6. \A i \in 1 .. Len(r) : r[i] \in Nat
  OBVIOUS
<1>7. \A i \in 1 .. Len(r) + n : i \in 1 .. Len(r) \/ i \in Len(r) + 1 .. Len(r) + n
  BY <1>1
<1>8. ASSUME NEW i \in DOMAIN x, NEW j \in DOMAIN x, i < j PROVE x[i] < x[j]
  <2>1. CASE j \in 1 .. Len(r)
    <3>1. i \in 1 .. Len(r)
      BY <1>1, <1>3, <1>8, <2>1
    <3> QED BY <1>1, <1>4, <1>8, <2>1, <3>1 DEF Ordered
  <2>2. CASE i \in 1 .. Len(r) /\ j \in Len(r) + 1 .. Len(r) + n
    <3>1. x[i] <= o /\ x[i] \in Nat
      BY <1>1, <1>4, <1>6, <2>2 DEF UpTo
    <3>2. x[j] = o + (j - Len(r)) /\ j - Len(r) \in Nat \ {0}
      BY <1>1, <1>5, <2>2
    <3> QED BY <3>1, <3>2
  <2>3. CASE i \in Len(r) + 1 .. Len(r) + n /\ j \in Len(r) + 1 .. Len(r) + n
    <3>1. x[i] = o + (i - Len(r)) /\ x[j] = o + (j - Len(r))
      BY <1>5, <2>3
    <3> QED BY <1>1, <1>8, <2>3, <3>1
  <2>4. ~(j \in 1 .. Len(r)) => j \in Len(r) + 1 .. Len(r) + n
    BY <1>3, <1>7
  <2>5. i \in 1 .. Len(r) \/ i \in Len(r) + 1 .. Len(r) + n
    BY <1>3, <1>7
  <2> QED BY <2>1, <2>2, <2>3, <2>4, <2>5
<1>9. ASSUME NEW i \in DOMAIN x PROVE x[i] <= o + n
  <2>1. CASE i \in 1 .. Len(r)
    <3>1. x[i] <= o /\ x[i] \in Nat
      BY <1>1, <1>4, <1>6, <2>1 DEF UpTo
    <3> QED BY <3>1
  <2>2. CASE i \in Len(r) + 1 .. Len(r) + n
    <3>1. x[i] = o + (i - Len(r)) /\ i - Len(r) <= n /\ i - Len(r) \in Nat
      BY <1>1, <1>5, <2>2
    <3> QED BY <3>1
  <2> QED BY <1>3, <1>7, <2>1, <2>2
<1>10. ASSUME o = Len(r), Gapless(r), NEW i \in DOMAIN x PROVE x[i] = i
  <2>1. CASE i \in 1 .. Len(r)
    BY <1>1, <1>4, <1>10, <2>1 DEF Gapless
  <2>2. CASE i \in Len(r) + 1 .. Len(r) + n
    <3>1. x[i] = o + (i - Len(r))
      BY <1>5, <2>2
    <3> QED BY <1>1, <1>10, <2>2, <3>1
  <2> QED BY <1>3, <1>7, <2>1, <2>2
<1> QED
  BY <1>8, <1>9, <1>10 DEF Ordered, UpTo, Gapless

-----------------------------------------------------------------------------
(***************************************************************************)
(* The invariant.                                                          *)
(***************************************************************************)
\* It holds before the file is opened.
LEMMA InitIInv == Init => IInv
<1> SUFFICES ASSUME Init PROVE IInv
  OBVIOUS
<1>1. received \in Seq(Nat) /\ Len(received) = 0 /\ DOMAIN received = {}
  BY DEF Init
<1>2. TypeOK
  <2>1. fdOpen \in BOOLEAN /\ cut \in BOOLEAN /\ shrunk \in BOOLEAN
    BY DEF Init
  <2> QED BY <1>1, <2>1, SizesAssumption DEF Init, TypeOK
<1> QED
  BY <1>1, <1>2
     DEF Init, IInv, NothingBeforeOpen, Counting, Buffered, SentInOrder,
         SentBeforeBuffer, NoGap, SizeKept, EndedAtZero, FileClosed

\* A write() keeps it, whether it takes the whole buffer or a part.
LEMMA SendIInv == ASSUME IInv, SendBuffer \/ SendPart PROVE IInv'
<1>1. /\ received \in Seq(Nat) /\ Len(received) \in Nat /\ DOMAIN received = 1 .. Len(received)
      /\ offset \in Nat /\ numRead \in 1 .. count /\ numRead <= offset
      /\ offset - numRead \in Nat /\ count \in 0 .. SizeT - 1
  BY DEF IInv, TypeOK, Buffered, SendBuffer, SendPart
<1>2. PICK n \in 1 .. numRead :
        /\ received' = received \o After(offset - numRead, n)
        /\ count' = (count - n) % SizeT
        /\ numRead' = 0 /\ pc' = "read"
        /\ (cut' = cut /\ n = numRead) \/ cut' = TRUE
        /\ UNCHANGED <<size, fdOpen, offset, retval, announced, shrunk>>
  <2>1. CASE SendBuffer
    <3>1. numRead \in 1 .. numRead
      BY <1>1
    <3> QED BY <2>1, <3>1 DEF SendBuffer, Written, history
  <2>2. CASE SendPart
    <3>1. \A n \in 1 .. numRead - 1 : n \in 1 .. numRead
      BY <1>1
    <3> QED BY <2>2, <3>1 DEF SendPart, Written
  <2> QED BY <2>1, <2>2
<1>3. n \in Nat /\ n <= numRead
  BY <1>1
<1>3a. Extends(received', received, offset - numRead, n)
  BY <1>1, <1>2, <1>3, Extended
<1>4. received' \in Seq(Nat) /\ Len(received') = Len(received) + n
  BY <1>3a DEF Extends
<1>5. count' = count - n /\ count' \in 0 .. SizeT - 1
  <2>1. count - n \in 0 .. SizeT - 1
    BY <1>1, <1>3, SizesAssumption
  <2> QED BY <1>2, <2>1, ModBelow, SizesAssumption
<1>6. DOMAIN received' = 1 .. Len(received) + n
  BY <1>1, <1>3, <1>4
<1>7. offset' = offset /\ numRead' = 0 /\ pc' = "read" /\ announced' = announced
  BY <1>2
<1>8. TypeOK'
  <2>1. cut' \in BOOLEAN
    BY <1>2 DEF IInv, TypeOK
  <2> QED BY <1>2, <1>4, <1>5, <1>7, <2>1 DEF IInv, TypeOK
<1>9. NothingBeforeOpen' /\ Buffered' /\ SizeKept' /\ EndedAtZero' /\ FileClosed'
  <2>1. SizeKept'
    BY <1>2 DEF IInv, SizeKept, SendBuffer, SendPart
  <2> QED
    BY <1>1, <1>7, <2>1 DEF NothingBeforeOpen, Buffered, EndedAtZero, FileClosed
<1>10. Counting'
  BY <1>1, <1>3, <1>4, <1>5, <1>7 DEF IInv, Counting
<1>11. Ordered(received) /\ UpTo(received, offset - numRead)
  BY DEF IInv, SentInOrder, SentBeforeBuffer, Ordered, UpTo
<1>12. /\ Ordered(received') /\ UpTo(received', offset - numRead + n)
       /\ offset - numRead = Len(received) /\ Gapless(received) => Gapless(received')
  BY <1>1, <1>3, <1>3a, <1>11, ExtendedInOrder
<1>13. SentInOrder'
  BY <1>12 DEF SentInOrder, Ordered
<1>14. SentBeforeBuffer'
  <2> SUFFICES ASSUME NEW i \in DOMAIN received' PROVE received'[i] <= offset' - numRead'
    BY DEF SentBeforeBuffer
  <2>1. received'[i] \in Nat /\ received'[i] <= offset - numRead + n
    BY <1>4, <1>12 DEF UpTo
  <2>2. offset - numRead + n <= offset' - numRead' /\ offset' - numRead' \in Nat
    BY <1>1, <1>3, <1>7
  <2> QED BY <1>1, <1>3, <2>1, <2>2
<1>15. NoGap'
  <2> SUFFICES ASSUME ~cut' PROVE offset' - numRead' = Len(received') /\ Gapless(received')
    BY DEF NoGap, Gapless
  <2>1. ~cut /\ n = numRead
    BY <1>2
  <2>2. offset - numRead = Len(received) /\ Gapless(received)
    BY <2>1 DEF IInv, NoGap, Gapless
  <2>3. Gapless(received')
    BY <1>12, <2>2
  <2>4. Len(received') = Len(received) + n
    BY <1>4
  <2> QED BY <1>1, <1>7, <2>1, <2>2, <2>3, <2>4
<1> QED
  BY <1>8, <1>9, <1>10, <1>13, <1>14, <1>15 DEF IInv

\* So does every other step.
LEMMA StepIInv == ASSUME IInv, [Next]_vars PROVE IInv'
<1> USE DEF IInv
<1>1. CASE OpenFile
  BY <1>1, SizesAssumption
     DEF OpenFile, TypeOK, NothingBeforeOpen, Counting, Buffered, SentInOrder,
         SentBeforeBuffer, NoGap, SizeKept, EndedAtZero, FileClosed
<1>2. CASE OpenFileFails
  <2>1. fdOpen' \in BOOLEAN
    <3>1. {FALSE} \cup (IF "ioError" \in Events THEN {TRUE} ELSE {}) \subseteq BOOLEAN
      OBVIOUS
    <3> QED BY <1>2, <3>1 DEF OpenFileFails
  <2>2. TypeOK' /\ retval' = -1
    BY <1>2, <2>1 DEF OpenFileFails, history, TypeOK, NothingBeforeOpen
  <2>3. EndedAtZero'
    BY <2>2 DEF EndedAtZero
  <2>4. NothingBeforeOpen' /\ Counting' /\ FileClosed'
    BY <1>2 DEF OpenFileFails, history, NothingBeforeOpen, Counting, FileClosed
  <2>5. Buffered' /\ SentInOrder' /\ SentBeforeBuffer' /\ NoGap'
    BY <1>2 DEF OpenFileFails, history, Buffered, SentInOrder, SentBeforeBuffer, NoGap
  <2>6. SizeKept'
    BY <1>2 DEF OpenFileFails, history, TypeOK, NothingBeforeOpen, SizeKept
  <2> QED
    BY <2>2, <2>3, <2>4, <2>5, <2>6
<1>3. CASE LoopEnds
  BY <1>3
     DEF LoopEnds, history, TypeOK, NothingBeforeOpen, Counting, Buffered, SentInOrder,
         SentBeforeBuffer, NoGap, SizeKept, EndedAtZero, FileClosed
<1>4. CASE ReadFile
  BY <1>4, ReadBounds
     DEF ReadFile, history, TypeOK, NothingBeforeOpen, Counting, Buffered, SentInOrder,
         SentBeforeBuffer, NoGap, SizeKept, EndedAtZero, FileClosed
<1>5. CASE EndOfFile
  <2>1. size <= offset
    BY <1>5, ReadBounds DEF EndOfFile, TypeOK
  <2>2. ~cut /\ ~shrunk => FALSE
    BY <1>5, <2>1 DEF EndOfFile, TypeOK, Counting, Buffered, NoGap, SizeKept
  <2> QED
    BY <1>5, <2>2
       DEF EndOfFile, history, TypeOK, NothingBeforeOpen, Counting, Buffered, SentInOrder,
           SentBeforeBuffer, NoGap, SizeKept, EndedAtZero, FileClosed
<1>6. CASE ReadFileFails \/ SendBufferFails
  <2>1. TypeOK' /\ retval' = -1
    BY <1>6 DEF ReadFileFails, SendBufferFails, history, TypeOK
  <2>2. EndedAtZero'
    BY <2>1 DEF EndedAtZero
  <2> QED
    BY <1>6, <2>1, <2>2
       DEF ReadFileFails, SendBufferFails, history, NothingBeforeOpen, Counting, Buffered,
           SentInOrder, SentBeforeBuffer, NoGap, SizeKept, FileClosed
<1>7. CASE SendBuffer \/ SendPart
  BY <1>7, SendIInv
<1>8. CASE CloseFile
  BY <1>8
     DEF CloseFile, history, TypeOK, NothingBeforeOpen, Counting, Buffered, SentInOrder,
         SentBeforeBuffer, NoGap, SizeKept, EndedAtZero, FileClosed
<1>9. CASE Resize
  <2>0. announced \in Nat /\ size' \in Nat /\ shrunk \in BOOLEAN
    BY <1>9, SizesAssumption DEF Resize, TypeOK
  <2>1. shrunk' \in BOOLEAN
    BY <1>9 DEF Resize
  <2>2. SizeKept'
    <3>1. pc' = pc /\ announced' = announced /\ shrunk' = (shrunk \/ (pc # "open" /\ size' < announced))
      BY <1>9 DEF Resize
    <3>2. ~(size' < announced) => announced <= size'
      BY <2>0
    <3> QED BY <3>1, <3>2 DEF SizeKept
  <2>3. shrunk => shrunk'
    BY <1>9 DEF Resize
  <2> QED
    BY <1>9, <2>1, <2>2, <2>3
       DEF Resize, TypeOK, NothingBeforeOpen, Counting, Buffered, SentInOrder,
           SentBeforeBuffer, NoGap, EndedAtZero, FileClosed
<1>10. CASE UNCHANGED vars
  BY <1>10
     DEF vars, history, TypeOK, NothingBeforeOpen, Counting, Buffered, SentInOrder,
         SentBeforeBuffer, NoGap, SizeKept, EndedAtZero, FileClosed
<1> QED
  BY <1>1, <1>2, <1>3, <1>4, <1>5, <1>6, <1>7, <1>8, <1>9, <1>10
     DEF Next, SendfileTransfer, Done

-----------------------------------------------------------------------------
(***************************************************************************)
(* The theorems.                                                           *)
(***************************************************************************)
\* The inductive invariant: how the count, the offset in the file and what was
\* sent relate at each place of the loop.
THEOREM Invariant == Spec => []IInv
<1>1. IInv /\ [Next]_vars => IInv'
  BY StepIInv
<1> QED BY InitIInv, <1>1, PTL DEF Spec

\* A transfer that ends well has sent the whole file, unless a write() was cut
\* short or the file became shorter.
THEOREM Whole == Spec => []SentWhole
<1>1. IInv => SentWhole
  <2> SUFFICES ASSUME IInv, ~cut PROVE SentWhole
    BY DEF SentWhole
  <2>1. /\ received \in Seq(Nat) /\ Len(received) \in Nat /\ Len(received) <= announced
        /\ announced \in Nat /\ DOMAIN received = 1 .. Len(received)
        /\ \A i \in 1 .. Len(received) : received[i] = i
    BY DEF IInv, TypeOK, Counting, NoGap
  <2>2. /\ WholeFile \in Seq(Nat) /\ Len(WholeFile) = announced
        /\ \A i \in 1 .. announced : WholeFile[i] = i
    BY <2>1 DEF WholeFile
  <2> DEFINE sub == SubSeq(WholeFile, 1, Len(received))
  <2>3. /\ sub \in Seq(Nat) /\ Len(sub) = Len(received)
        /\ \A i \in 1 .. Len(received) : sub[i] = i
    <3>1. \A i \in 1 .. Len(received) : WholeFile[i] \in Nat /\ WholeFile[1 + i - 1] = i
      BY <2>1, <2>2
    <3> QED BY <2>1, <3>1, SubSeqProperties
  <2>4. received = sub
    BY <2>1, <2>3, SeqEqual
  <2>5. ASSUME pc = "done", retval = 0, ~shrunk PROVE received = WholeFile
    <3>1. Len(received) = announced
      BY <2>1, <2>5 DEF IInv, TypeOK, Counting, EndedAtZero
    <3> QED BY <2>1, <2>2, <3>1, SeqEqual
  <2> QED BY <2>4, <2>5 DEF SentWhole
<1> QED BY <1>1, Invariant, PTL

\* No byte is sent twice or before one that precedes it in the file.
THEOREM InOrder == Spec => []SentInOrder
<1>1. IInv => SentInOrder
  BY DEF IInv
<1> QED BY <1>1, Invariant, PTL

\* No more bytes are sent than the file had when it was opened.
THEOREM Bounded == Spec => []NotMoreThanAnnounced
<1>1. IInv => NotMoreThanAnnounced
  BY DEF IInv, TypeOK, Counting, NotMoreThanAnnounced
<1> QED BY <1>1, Invariant, PTL

\* The file is closed at the end, however the transfer went.
THEOREM Closed == Spec => []FileClosed
<1>1. IInv => FileClosed
  BY DEF IInv
<1> QED BY <1>1, Invariant, PTL
=============================================================================
