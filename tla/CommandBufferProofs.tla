------------------------ MODULE CommandBufferProofs ------------------------
(***************************************************************************)
(* Theorems about the command buffer of mtr-packet, for every size of      *)
(* buffer and every input, on either port: the read position stays inside  *)
(* the buffer, a full buffer is never taken for the end of the input, the  *)
(* commands dispatched are the lines written, and the program on Windows   *)
(* does not sleep without a read to wake it.                               *)
(***************************************************************************)
EXTENDS WindowsPort, SequenceTheorems, FiniteSetTheorems, WellFoundedInduction, TLAPS

(* When read_commands runs there is room for a byte at least. *)
RoomToRead == pc = "read" => Len(buffer) < BufferSize - 1

IInv == TypeOK /\ NoFalseEof /\ RoomToRead

----------------------------------------------------------------------------
(* Among places there is a first. *)
LEMMA FirstPlace ==
    ASSUME NEW S \in SUBSET Nat, S # {}
    PROVE  \E i \in S : \A j \in S : i <= j
<1>1. PICK i \in S : \A j \in S : <<j, i>> \notin OpToRel(<, Nat)
  BY NatLessThanWellFounded, WFMin
<1>2. \A j \in S : ~(j < i)
  BY <1>1 DEF OpToRel
<1>. QED
  BY <1>2

(* index() finds the first newline, and what is before it is a command. *)
LEMMA FirstNewline ==
    ASSUME NEW bytes \in Seq(Bytes), NewlinesOf(bytes) # {}
    PROVE  /\ EndOfCommand(bytes) \in 1..Len(bytes)
           /\ \A i \in 1..(EndOfCommand(bytes) - 1) : bytes[i] \in Letters
<1>1. NewlinesOf(bytes) \in SUBSET Nat
  BY DEF NewlinesOf
<1>2. \E i \in NewlinesOf(bytes) : \A j \in NewlinesOf(bytes) : i <= j
  BY FirstPlace, <1>1
<1>3. /\ EndOfCommand(bytes) \in NewlinesOf(bytes)
      /\ \A j \in NewlinesOf(bytes) : EndOfCommand(bytes) <= j
  BY <1>2 DEF EndOfCommand
<1>4. EndOfCommand(bytes) \in 1..Len(bytes)
  BY <1>3 DEF NewlinesOf
<1>5. ASSUME NEW i \in 1..(EndOfCommand(bytes) - 1) PROVE bytes[i] \in Letters
  <2>1. i \in 1..Len(bytes) /\ i < EndOfCommand(bytes)
    BY <1>4
  <2>2. bytes[i] # Newline
    BY <1>3, <2>1 DEF NewlinesOf
  <2>. QED
    BY <2>1, <2>2 DEF Bytes
<1>. QED
  BY <1>4, <1>5

(* The program starts with an empty buffer, and room in it. *)
LEMMA InitIInv == Init => IInv
<1> SUFFICES ASSUME Init PROVE IInv
  OBVIOUS
<1>1. /\ pipe \in Seq(Bytes) /\ buffer \in Seq(Bytes) /\ written \in Seq(Bytes)
      /\ lines \in Seq(Seq(Letters)) /\ overflows \in Nat
      /\ Len(buffer) < BufferSize - 1 /\ Len(buffer) < BufferSize
  BY BufferAssumption DEF Init
<1>2. closed \in BOOLEAN /\ command_pipe_open \in BOOLEAN /\ NoFalseEof
  BY DEF Init, NoFalseEof
<1>. QED
  BY <1>1, <1>2 DEF Init, IInv, TypeOK, RoomToRead

(* The writer writes a byte. *)
LEMMA WriteStep == ASSUME IInv, NEW byte \in Bytes, Write(byte) PROVE IInv'
BY BufferAssumption DEF IInv, TypeOK, NoFalseEof, RoomToRead, Write

(* read_commands fills the buffer no further than it is long. *)
LEMMA ReadStep == IInv /\ ReadCommands => IInv'
<1> SUFFICES ASSUME IInv, ReadCommands PROVE IInv'
  OBVIOUS
<1>0. Len(buffer) < BufferSize - 1 /\ Len(buffer) \in Nat /\ Len(pipe) \in Nat
  BY DEF IInv, TypeOK, RoomToRead, ReadCommands
<1>1. CASE command_pipe_open /\ ReturnsZero
  <2>1. closed /\ pipe = <<>>
    BY <1>0, <1>1, BufferAssumption DEF ReturnsZero, SpaceRemaining
  <2>. QED
    BY <1>1, <2>1 DEF IInv, TypeOK, NoFalseEof, RoomToRead, ReadCommands
<1>2. CASE ~(command_pipe_open /\ ReturnsZero)
  <2>1. /\ ReadCount \in 0..Len(pipe)
        /\ ReadCount <= BufferSize - Len(buffer) - 1
    BY <1>0, BufferAssumption DEF ReadCount, SpaceRemaining
  <2>2. /\ SubSeq(pipe, 1, ReadCount) \in Seq(Bytes)
        /\ Len(SubSeq(pipe, 1, ReadCount)) = ReadCount
        /\ SubSeq(pipe, ReadCount + 1, Len(pipe)) \in Seq(Bytes)
    BY <2>1, <1>0 DEF IInv, TypeOK
  <2>3. buffer' \in Seq(Bytes) /\ Len(buffer') < BufferSize
    <3> DEFINE new == SubSeq(pipe, 1, ReadCount)
    <3>1. buffer' = buffer \o new
      BY <1>2 DEF ReadCommands
    <3>2. new \in Seq(Bytes) /\ Len(new) <= BufferSize - Len(buffer) - 1
      BY <2>1, <2>2
    <3>3. buffer \in Seq(Bytes)
      BY DEF IInv, TypeOK
    <3> HIDE DEF new
    <3>4. buffer \o new \in Seq(Bytes) /\ Len(buffer \o new) = Len(buffer) + Len(new)
      BY <3>2, <3>3
    <3>. QED
      BY <3>1, <3>2, <3>4, <1>0, BufferAssumption
  <2>4. pipe' \in Seq(Bytes)
    BY <1>2, <2>2 DEF ReadCommands
  <2>5. ~command_pipe_open => pipe' = <<>>
    <3>. SUFFICES ASSUME ~command_pipe_open PROVE pipe' = <<>>
      OBVIOUS
    <3>1. pipe = <<>>
      BY DEF IInv, NoFalseEof
    <3>2. ReadCount = 0 /\ Len(pipe) = 0
      BY <3>1, <2>1
    <3>. QED
      BY <1>2, <2>4, <3>2, <3>1 DEF ReadCommands
  <2>. QED
    BY <1>2, <2>3, <2>4, <2>5 DEF IInv, TypeOK, NoFalseEof, RoomToRead, ReadCommands
<1>. QED
  BY <1>1, <1>2

(* A command leaves the buffer. *)
LEMMA DispatchStep == IInv /\ DispatchCommand => IInv'
<1> SUFFICES ASSUME IInv, DispatchCommand PROVE IInv'
  OBVIOUS
<1> DEFINE end == EndOfCommand(buffer)
<1>1. /\ end \in 1..Len(buffer)
      /\ \A i \in 1..(end - 1) : buffer[i] \in Letters
  BY FirstNewline DEF IInv, TypeOK, DispatchCommand
<1>2. /\ lines' = Append(lines, SubSeq(buffer, 1, end - 1))
      /\ buffer' = SubSeq(buffer, end + 1, Len(buffer))
      /\ pc' = "dispatch"
      /\ UNCHANGED <<pipe, closed, command_pipe_open, written, overflows>>
  BY DEF DispatchCommand
<1> HIDE DEF end
<1>3. SubSeq(buffer, 1, end - 1) \in Seq(Letters)
  BY <1>1 DEF IInv, TypeOK
<1>4. lines' \in Seq(Seq(Letters))
  BY <1>2, <1>3 DEF IInv, TypeOK
<1>5. buffer' \in Seq(Bytes) /\ Len(buffer') < BufferSize
  BY <1>1, <1>2, BufferAssumption DEF IInv, TypeOK
<1>. QED
  BY <1>2, <1>4, <1>5 DEF IInv, TypeOK, NoFalseEof, RoomToRead

(* The round ends: a full buffer has been emptied. *)
LEMMA EndStep == IInv /\ EndDispatch => IInv'
<1> SUFFICES ASSUME IInv, EndDispatch PROVE IInv'
  OBVIOUS
<1>1. buffer' \in Seq(Bytes) /\ Len(buffer') < BufferSize - 1
  <2>1. CASE Full(buffer) /\ buffer' = <<>>
    BY <2>1, BufferAssumption
  <2>2. CASE ~Full(buffer) /\ buffer' = buffer
    BY <2>2, BufferAssumption DEF IInv, TypeOK, Full
  <2>. QED
    BY <2>1, <2>2 DEF EndDispatch
<1>2. overflows' \in Nat
  BY DEF IInv, TypeOK, EndDispatch
<1>3. pc' \in {"read", "exited"}
  BY DEF EndDispatch
<1>. QED
  BY <1>1, <1>2, <1>3, BufferAssumption
     DEF IInv, TypeOK, NoFalseEof, RoomToRead, EndDispatch

(* Every step, and one that changes nothing, keeps the invariant. *)
LEMMA NextIInv == IInv /\ [Next]_vars => IInv'
<1> SUFFICES ASSUME IInv, [Next]_vars PROVE IInv'
  OBVIOUS
<1>1. CASE CloseStdin
  BY <1>1 DEF IInv, TypeOK, NoFalseEof, RoomToRead, CloseStdin
<1>2. CASE UNCHANGED vars
  BY <1>2 DEF IInv, TypeOK, NoFalseEof, RoomToRead, vars
<1>. QED
  BY <1>1, <1>2, WriteStep, ReadStep, DispatchStep, EndStep DEF Next

(* The inductive invariant holds throughout. *)
THEOREM Invariance == Spec => []IInv
<1>. QED
  BY InitIInv, NextIInv, PTL DEF Spec

(* The read position stays below the last byte of the buffer (the assertion *)
(* of dispatch_buffer_commands), and commands hold no newline.               *)
THEOREM TypeCorrect == Spec => []TypeOK
<1>1. IInv => TypeOK
  BY DEF IInv
<1>. QED
  BY Invariance, <1>1, PTL

(* End of file is seen only when the writer has closed and all is read; a   *)
(* full buffer never looks like it (read_commands).                          *)
THEOREM EofIsReal == Spec => []NoFalseEof
<1>1. IInv => NoFalseEof
  BY DEF IInv
<1>. QED
  BY Invariance, <1>1, PTL

----------------------------------------------------------------------------
(* Lines *)

NewlinesBefore(bytes, i) == {j \in NewlinesOf(bytes) : j < i}

(* The k-th line ends at i. *)
EndsLine(bytes, k, i) ==
    \/ k = 0 /\ i = 0
    \/ k # 0 /\ i \in NewlinesOf(bytes) /\ Cardinality(NewlinesBefore(bytes, i)) = k - 1

LEMMA NewlinesAreFinite ==
    ASSUME NEW bytes \in Seq(Bytes)
    PROVE  /\ NewlinesOf(bytes) \in SUBSET (1..Len(bytes)) /\ Len(bytes) \in Nat
           /\ IsFiniteSet(NewlinesOf(bytes)) /\ LineCount(bytes) \in Nat
           /\ \A i : /\ NewlinesBefore(bytes, i) \in SUBSET NewlinesOf(bytes)
                    /\ IsFiniteSet(NewlinesBefore(bytes, i))
                    /\ Cardinality(NewlinesBefore(bytes, i)) \in Nat
                    /\ Cardinality(NewlinesBefore(bytes, i)) <= LineCount(bytes)
<1>1. NewlinesOf(bytes) \in SUBSET (1..Len(bytes)) /\ Len(bytes) \in Nat
  BY LenProperties DEF NewlinesOf
<1>2. IsFiniteSet(NewlinesOf(bytes))
  <2>1. IsFiniteSet(1..Len(bytes))
    BY <1>1, FS_Interval
  <2>. QED
    BY <1>1, <2>1, FS_Subset
<1>3. \A i : NewlinesBefore(bytes, i) \in SUBSET NewlinesOf(bytes)
  BY DEF NewlinesBefore
<1>. QED
  BY <1>1, <1>2, <1>3, FS_Subset, FS_CardinalityType DEF LineCount

LEMMA MoreBefore ==
    ASSUME NEW bytes \in Seq(Bytes), NEW i \in NewlinesOf(bytes), NEW j \in NewlinesOf(bytes),
           i < j
    PROVE  Cardinality(NewlinesBefore(bytes, i)) < Cardinality(NewlinesBefore(bytes, j))
<1> DEFINE S == NewlinesBefore(bytes, i)
           T == NewlinesBefore(bytes, j)
<1>1. IsFiniteSet(S) /\ IsFiniteSet(T) /\ Cardinality(S) \in Nat /\ Cardinality(T) \in Nat
  BY NewlinesAreFinite
<1>2. i \notin S /\ S \cup {i} \in SUBSET T
  BY NewlinesAreFinite DEF NewlinesBefore
<1>. HIDE DEF S, T
<1>3. Cardinality(S \cup {i}) = Cardinality(S) + 1 /\ Cardinality(S \cup {i}) <= Cardinality(T)
  BY <1>1, <1>2, FS_AddElement, FS_Subset
<1>. QED
  BY <1>1, <1>3 DEF S, T

(* There is one place where a line ends. *)
LEMMA EndOfLineFound ==
    ASSUME NEW bytes \in Seq(Bytes), NEW k \in Nat, NEW i, EndsLine(bytes, k, i)
    PROVE  EndOfLine(bytes, k) = i
<1>1. CASE k = 0
  BY <1>1 DEF EndsLine, EndOfLine
<1>2. CASE k # 0
  <2> DEFINE e == EndOfLine(bytes, k)
  <2>1. i \in NewlinesOf(bytes) /\ Cardinality(NewlinesBefore(bytes, i)) = k - 1
    BY <1>2 DEF EndsLine
  <2>2. e \in NewlinesOf(bytes) /\ Cardinality(NewlinesBefore(bytes, e)) = k - 1
    BY <1>2, <2>1 DEF EndOfLine, NewlinesBefore
  <2>. HIDE DEF e
  <2>3. i \in Nat /\ e \in Nat
    BY <2>1, <2>2, NewlinesAreFinite
  <2>4. ~(i < e) /\ ~(e < i)
    BY <2>1, <2>2, MoreBefore
  <2>. QED
    BY <2>3, <2>4 DEF e
<1>. QED
  BY <1>1, <1>2

LEMMA NoMoreEnds ==
    ASSUME NEW bytes \in Seq(Bytes), NEW k \in Nat, NEW i, EndsLine(bytes, k, i)
    PROVE  k <= LineCount(bytes) /\ i \in 0..Len(bytes)
<1>1. CASE k = 0
  BY <1>1, NewlinesAreFinite DEF EndsLine
<1>2. CASE k # 0
  <2> DEFINE S == NewlinesBefore(bytes, i)
  <2>1. i \in NewlinesOf(bytes) /\ Cardinality(S) = k - 1
    BY <1>2 DEF EndsLine
  <2>2. i \in 1..Len(bytes)
    BY <2>1, NewlinesAreFinite
  <2>3. i \notin S /\ S \cup {i} \in SUBSET NewlinesOf(bytes)
    BY <2>1, <2>2 DEF NewlinesBefore
  <2>4. IsFiniteSet(S)
    BY NewlinesAreFinite
  <2>. HIDE DEF S
  <2>5. Cardinality(S \cup {i}) = Cardinality(S) + 1
    BY <2>3, <2>4, FS_AddElement
  <2>6. Cardinality(S \cup {i}) <= LineCount(bytes)
    BY <2>3, FS_Subset, NewlinesAreFinite DEF LineCount
  <2>7. Cardinality(S \cup {i}) = k
    BY <2>1, <2>5
  <2>. QED
    BY <2>2, <2>6, <2>7
<1>. QED
  BY <1>1, <1>2

(* The next newline ends the next line. *)
LEMMA NextLineEnds ==
    ASSUME NEW bytes \in Seq(Bytes), NEW k \in Nat, NEW s, EndsLine(bytes, k, s),
           NEW e \in NewlinesOf(bytes), s < e,
           \A i \in NewlinesOf(bytes) : i <= s \/ e <= i
    PROVE  EndsLine(bytes, k + 1, e)
<1>1. s \in Nat /\ e \in Nat /\ NewlinesOf(bytes) \in SUBSET Nat
      /\ \A i \in NewlinesOf(bytes) : i # 0
  BY NoMoreEnds, NewlinesAreFinite
<1>2. CASE k = 0
  <2>1. s = 0
    BY <1>2 DEF EndsLine
  <2>2. NewlinesBefore(bytes, e) = {}
    BY <1>1, <2>1 DEF NewlinesBefore
  <2>. QED
    BY <1>2, <2>2, FS_EmptySet DEF EndsLine
<1>3. CASE k # 0
  <2>1. s \in NewlinesOf(bytes) /\ Cardinality(NewlinesBefore(bytes, s)) = k - 1
    BY <1>3 DEF EndsLine
  <2>2. NewlinesBefore(bytes, e) = NewlinesBefore(bytes, s) \cup {s}
    BY <1>1, <2>1 DEF NewlinesBefore
  <2>3. s \notin NewlinesBefore(bytes, s)
    BY <1>1 DEF NewlinesBefore
  <2>4. IsFiniteSet(NewlinesBefore(bytes, s))
    BY NewlinesAreFinite
  <2>5. Cardinality(NewlinesBefore(bytes, e)) = Cardinality(NewlinesBefore(bytes, s)) + 1
    BY <2>2, <2>3, <2>4, FS_AddElement
  <2>6. Cardinality(NewlinesBefore(bytes, e)) = k
    BY <2>1, <2>5
  <2>. QED
    BY <2>6 DEF EndsLine
<1>. QED
  BY <1>2, <1>3

(* What is written later moves no line. *)
LEMMA LinesStay ==
    ASSUME NEW bytes \in Seq(Bytes), NEW byte \in Bytes, NEW k \in Nat, NEW i,
           EndsLine(bytes, k, i)
    PROVE  EndsLine(Append(bytes, byte), k, i)
<1> DEFINE more == Append(bytes, byte)
<1>1. /\ more \in Seq(Bytes) /\ Len(more) = Len(bytes) + 1
      /\ \A j \in 1..Len(bytes) : more[j] = bytes[j]
      /\ DOMAIN bytes = 1..Len(bytes) /\ DOMAIN more = 1..Len(bytes) + 1 /\ Len(bytes) \in Nat
  BY AppendProperties, LenProperties
<1>. HIDE DEF more
<1>2. \A j : j \in 1..Len(bytes) => (j \in NewlinesOf(more) <=> j \in NewlinesOf(bytes))
  BY <1>1 DEF NewlinesOf
<1>3. CASE k # 0
  <2>1. i \in NewlinesOf(bytes) /\ i \in 1..Len(bytes)
    BY <1>3, NewlinesAreFinite DEF EndsLine
  <2>2. NewlinesBefore(more, i) \subseteq 1..Len(bytes)
    BY <1>1, <2>1 DEF NewlinesBefore, NewlinesOf
  <2>3. NewlinesBefore(bytes, i) \subseteq 1..Len(bytes)
    BY <1>1 DEF NewlinesBefore, NewlinesOf
  <2>4. NewlinesBefore(more, i) = NewlinesBefore(bytes, i)
    BY <1>2, <2>2, <2>3 DEF NewlinesBefore
  <2>. QED
    BY <1>2, <1>3, <2>1, <2>4 DEF EndsLine, more
<1>4. CASE k = 0
  BY <1>4 DEF EndsLine
<1>. QED
  BY <1>3, <1>4

----------------------------------------------------------------------------
(* Both ports *)

PortTypes ==
    /\ pipe \in Seq(Bytes) /\ buffer \in Seq(Bytes) /\ overlapped_buffer \in Seq(Bytes)
    /\ written \in Seq(Bytes) /\ lines \in Seq(Seq(Letters)) /\ space \in Nat
    /\ port \in {"unix", "windows"} /\ routine \in {"none", "data", "broken"}

(* What a read may bring has room in the buffer, however much of it is       *)
(* dispatched in the meantime.                                               *)
ReadFits ==
    /\ Len(buffer) < BufferSize
    /\ read_active => Len(buffer) + space < BufferSize
    /\ routine = "data" => read_active /\ Len(overlapped_buffer) <= space
    /\ routine # "data" => overlapped_buffer = <<>>
    /\ port = "unix" => ~read_active /\ routine = "none" /\ pc \in {"read", "dispatch", "exited"}
    /\ port = "unix" /\ pc = "read" => Len(buffer) < BufferSize - 1

(* Whoever has seen the end of the input is right. *)
EndSeen ==
    ~command_pipe_open \/ ~pipe_open \/ routine = "broken" => closed /\ pipe = <<>>

PortInv == PortTypes /\ ReadFits /\ EndSeen /\ AsleepIsReading

LEMMA InitPort == PortsInit => PortInv
<1>. SUFFICES ASSUME PortsInit PROVE PortInv
  OBVIOUS
<1>1. /\ pipe = <<>> /\ buffer = <<>> /\ overlapped_buffer = <<>> /\ written = <<>>
      /\ lines = <<>> /\ space = 0 /\ routine = "none" /\ read_active = FALSE
      /\ pipe_open = TRUE /\ command_pipe_open = TRUE
      /\ pc = (IF port = "unix" THEN "read" ELSE "flush")
      /\ port \in {"unix", "windows"}
  BY PortsAssumption DEF PortsInit, Step
<1>2. PortTypes
  BY <1>1 DEF PortTypes
<1>3. ReadFits
  BY <1>1, BufferAssumption DEF ReadFits
<1>. QED
  BY <1>1, <1>2, <1>3 DEF PortInv, EndSeen, AsleepIsReading

(* The buffer only loses bytes, the pipe none; the program does not go to    *)
(* sleep, nor to read on Unix.                                               *)
LEMMA ShorterBuffer ==
    ASSUME PortInv, buffer' \in Seq(Bytes), Len(buffer') <= Len(buffer),
           lines' \in Seq(Seq(Letters)), pc' \notin {"asleep", "read"},
           port = "unix" => pc' \in {"dispatch", "exited"},
           UNCHANGED <<pipe, closed, command_pipe_open, written, port, reading>>
    PROVE  PortInv'
<1>1. PortTypes'
  BY DEF PortInv, PortTypes, reading
<1>2. ReadFits'
  <2>1. Len(buffer) \in Nat /\ Len(buffer') \in Nat /\ space \in Nat
    BY LenProperties DEF PortInv, PortTypes
  <2>. QED
    BY <2>1, BufferAssumption DEF PortInv, ReadFits, reading
<1>. QED
  BY <1>1, <1>2 DEF PortInv, EndSeen, AsleepIsReading, reading

LEMMA WriterPort == PortInv /\ Writer => PortInv'
<1>. SUFFICES ASSUME PortInv, Writer PROVE PortInv'
  OBVIOUS
<1>1. ASSUME NEW byte \in Bytes, Write(byte), UNCHANGED windows PROVE PortInv'
  <2>1. pipe \in Seq(Bytes) /\ written \in Seq(Bytes)
    BY DEF PortInv, PortTypes
  <2>2. pipe' \in Seq(Bytes) /\ written' \in Seq(Bytes)
    BY <1>1, <2>1, AppendProperties DEF Write
  <2>3. /\ UNCHANGED <<buffer, command_pipe_open, pc, lines, port, reading>> /\ ~closed
    BY <1>1 DEF Write, windows
  <2>. QED
    BY <2>2, <2>3
       DEF PortInv, PortTypes, ReadFits, EndSeen, AsleepIsReading, reading
<1>2. CASE CloseStdin /\ UNCHANGED windows
  <2>1. UNCHANGED <<pipe, buffer, command_pipe_open, pc, written, lines, port, reading>> /\ closed'
    BY <1>2 DEF CloseStdin, windows
  <2>. QED
    BY <2>1 DEF PortInv, PortTypes, ReadFits, EndSeen, AsleepIsReading, reading
<1>. QED
  BY <1>1, <1>2 DEF Writer

(* A piece of the pipe, and the rest of it. *)
LEMMA PieceOfPipe ==
    ASSUME pipe \in Seq(Bytes), NEW n \in 0..Len(pipe)
    PROVE  /\ SubSeq(pipe, 1, n) \in Seq(Bytes) /\ Len(SubSeq(pipe, 1, n)) = n
           /\ \A i \in 1..n : SubSeq(pipe, 1, n)[i] = pipe[i]
           /\ SubSeq(pipe, n + 1, Len(pipe)) \in Seq(Bytes)
           /\ Len(SubSeq(pipe, n + 1, Len(pipe))) = Len(pipe) - n
           /\ \A i \in 1..(Len(pipe) - n) : SubSeq(pipe, n + 1, Len(pipe))[i] = pipe[n + i]
<1>1. Len(pipe) \in Nat /\ n \in Nat /\ \A i \in 1..Len(pipe) : pipe[i] \in Bytes
  BY LenProperties, ElementOfSeq
<1>2. \A i \in 1..n : pipe[i] \in Bytes
  BY <1>1
<1>3. \A i \in (n + 1)..Len(pipe) : pipe[i] \in Bytes
  BY <1>1
<1>4. /\ SubSeq(pipe, 1, n) \in Seq(Bytes)
      /\ Len(SubSeq(pipe, 1, n)) = IF 1 <= n THEN n - 1 + 1 ELSE 0
      /\ \A i \in 1..(n - 1 + 1) : SubSeq(pipe, 1, n)[i] = pipe[1 + i - 1]
  BY <1>1, <1>2, SubSeqProperties
<1>5. /\ SubSeq(pipe, n + 1, Len(pipe)) \in Seq(Bytes)
      /\ Len(SubSeq(pipe, n + 1, Len(pipe))) =
           IF n + 1 <= Len(pipe) THEN Len(pipe) - (n + 1) + 1 ELSE 0
      /\ \A i \in 1..(Len(pipe) - (n + 1) + 1) :
            SubSeq(pipe, n + 1, Len(pipe))[i] = pipe[(n + 1) + i - 1]
  BY <1>1, <1>3, SubSeqProperties
<1>. QED
  BY <1>1, <1>4, <1>5

LEMMA ReadEndsPort == PortInv /\ ReadEnds => PortInv'
<1>. SUFFICES ASSUME PortInv, ReadEnds PROVE PortInv'
  OBVIOUS
<1> DEFINE n == IF Len(pipe) < space THEN Len(pipe) ELSE space
<1>1. /\ pipe \in Seq(Bytes) /\ Len(pipe) \in Nat /\ space \in Nat
      /\ UNCHANGED <<closed, buffer, command_pipe_open, pc, written, lines, port,
                     pipe_open, read_active, space>>
      /\ port = "windows" /\ read_active /\ routine = "none"
  BY LenProperties DEF PortInv, PortTypes, ReadEnds
<1>2. CASE /\ routine' = "data" /\ overlapped_buffer' = SubSeq(pipe, 1, n)
           /\ pipe' = SubSeq(pipe, n + 1, Len(pipe))
  <2>1. n \in 0..Len(pipe) /\ n <= space
    BY <1>1
  <2>. HIDE DEF n
  <2>2. /\ overlapped_buffer' \in Seq(Bytes) /\ Len(overlapped_buffer') = n
        /\ pipe' \in Seq(Bytes) /\ Len(pipe') = Len(pipe) - n
    BY <1>1, <1>2, <2>1, PieceOfPipe
  <2>3. pipe = <<>> => pipe' = <<>>
    BY <1>1, <2>1, <2>2, EmptySeq
  <2>4. PortTypes'
    BY <1>1, <1>2, <2>2 DEF PortInv, PortTypes
  <2>5. ReadFits'
    BY <1>1, <1>2, <2>1, <2>2 DEF PortInv, ReadFits
  <2>. QED
    BY <1>1, <1>2, <2>3, <2>4, <2>5 DEF PortInv, EndSeen, AsleepIsReading
<1>3. CASE /\ pipe = <<>> /\ closed /\ routine' = "broken"
           /\ UNCHANGED <<overlapped_buffer, pipe>>
  BY <1>1, <1>3 DEF PortInv, PortTypes, ReadFits, EndSeen, AsleepIsReading
<1>. QED
  BY <1>2, <1>3 DEF ReadEnds

(* The completion routine copies what the read brought. *)
LEMMA RoutinesPort ==
    ASSUME PortInv, Routines, pc' # "asleep", port = "windows",
           UNCHANGED <<pipe, closed, command_pipe_open, written, lines, port>>
    PROVE  PortInv'
<1>1. FinishReadCommand
  BY DEF Routines
<1>2. /\ routine' = "none" /\ overlapped_buffer' = <<>>
      /\ read_active' <=> (read_active /\ routine # "data")
      /\ pipe_open' <=> (pipe_open /\ routine # "broken")
      /\ buffer' = (IF routine = "data" THEN buffer \o overlapped_buffer ELSE buffer)
      /\ space' = (IF routine = "data" THEN 0 ELSE space)
  BY <1>1 DEF FinishReadCommand
<1>3. /\ buffer \in Seq(Bytes) /\ overlapped_buffer \in Seq(Bytes) /\ space \in Nat
      /\ Len(buffer) \in Nat /\ Len(overlapped_buffer) \in Nat
  BY LenProperties DEF PortInv, PortTypes
<1>4. CASE routine = "data"
  <2>1. buffer' \in Seq(Bytes) /\ Len(buffer') = Len(buffer) + Len(overlapped_buffer)
    BY <1>2, <1>3, <1>4, ConcatProperties
  <2>2. Len(buffer') < BufferSize
    BY <1>3, <1>4, <2>1, BufferAssumption DEF PortInv, ReadFits
  <2>. QED
    BY <1>2, <1>4, <2>1, <2>2 DEF PortInv, PortTypes, ReadFits, EndSeen, AsleepIsReading
<1>5. CASE routine # "data"
  BY <1>2, <1>5 DEF PortInv, PortTypes, ReadFits, EndSeen, AsleepIsReading
<1>. QED
  BY <1>4, <1>5

LEMMA WaitingPort == PortInv /\ (Flush \/ StartReadCommand \/ SleepEx) => PortInv'
<1>. SUFFICES ASSUME PortInv, Flush \/ StartReadCommand \/ SleepEx PROVE PortInv'
  OBVIOUS
<1>1. CASE Flush
  <2>1. /\ port = "windows" /\ pc' = "start"
        /\ UNCHANGED <<pipe, closed, command_pipe_open, written, lines, port>>
    BY <1>1 DEF Flush, Step
  <2>2. CASE UNCHANGED <<buffer, reading>>
    BY <2>1, <2>2 DEF PortInv, PortTypes, ReadFits, EndSeen, AsleepIsReading, reading
  <2>3. CASE Routines
    BY <2>1, <2>3, RoutinesPort
  <2>. QED
    BY <1>1, <2>2, <2>3 DEF Flush
<1>2. CASE StartReadCommand
  <2>1. /\ port = "windows" /\ pc' = "asleep"
        /\ UNCHANGED <<pipe, closed, buffer, command_pipe_open, written, lines, port, routine,
                       overlapped_buffer>>
    BY <1>2 DEF StartReadCommand, Step
  <2>2. Len(buffer) \in Nat /\ Len(buffer) < BufferSize /\ BufferSize \in Nat
    BY LenProperties, BufferAssumption DEF PortInv, PortTypes, ReadFits
  <2>3. CASE pipe_open /\ ~read_active /\ read_active' = TRUE /\ space' = SpaceRemaining
             /\ UNCHANGED pipe_open
    <3>1. space' \in Nat /\ Len(buffer) + space' < BufferSize
      BY <2>2, <2>3 DEF SpaceRemaining
    <3>. QED
      BY <2>1, <2>3, <3>1 DEF PortInv, PortTypes, ReadFits, EndSeen, AsleepIsReading
  <2>4. CASE /\ pipe = <<>> /\ closed /\ pipe_open' = FALSE
             /\ UNCHANGED <<read_active, space>>
    BY <2>1, <2>4 DEF PortInv, PortTypes, ReadFits, EndSeen, AsleepIsReading
  <2>5. CASE (~pipe_open \/ read_active) /\ UNCHANGED <<pipe_open, read_active, space>>
    BY <2>1, <2>5 DEF PortInv, PortTypes, ReadFits, EndSeen, AsleepIsReading
  <2>. QED
    BY <1>2, <2>3, <2>4, <2>5 DEF StartReadCommand
<1>3. CASE SleepEx
  BY <1>3, RoutinesPort DEF SleepEx
<1>. QED
  BY <1>1, <1>2, <1>3

(* A command leaves the buffer: a line of it, and what is after the line.    *)
LEMMA CommandCut ==
    ASSUME buffer \in Seq(Bytes), lines \in Seq(Seq(Letters)), DispatchCommand,
           NEW end, end = EndOfCommand(buffer)
    PROVE  /\ end \in 1..Len(buffer) /\ buffer[end] = Newline
           /\ \A i \in 1..(end - 1) : buffer[i] \in Letters
           /\ SubSeq(buffer, 1, end - 1) \in Seq(Letters)
           /\ Len(SubSeq(buffer, 1, end - 1)) = end - 1
           /\ \A i \in 1..(end - 1) : SubSeq(buffer, 1, end - 1)[i] = buffer[i]
           /\ lines' = Append(lines, SubSeq(buffer, 1, end - 1))
           /\ lines' \in Seq(Seq(Letters))
           /\ buffer' \in Seq(Bytes) /\ Len(buffer') = Len(buffer) - end
           /\ \A i \in 1..(Len(buffer) - end) : buffer'[i] = buffer[end + i]
<1>1. /\ NewlinesOf(buffer) # {}
      /\ lines' = Append(lines, SubSeq(buffer, 1, end - 1))
      /\ buffer' = SubSeq(buffer, end + 1, Len(buffer))
  BY DEF DispatchCommand
<1>2. /\ end \in 1..Len(buffer)
      /\ \A i \in 1..(end - 1) : buffer[i] \in Letters
  BY <1>1, FirstNewline
<1>3. buffer[end] = Newline
  <2>1. NewlinesOf(buffer) \in SUBSET Nat
    BY DEF NewlinesOf
  <2>2. \E i \in NewlinesOf(buffer) : \A j \in NewlinesOf(buffer) : i <= j
    BY <1>1, <2>1, FirstPlace
  <2>3. end \in NewlinesOf(buffer)
    BY <2>2 DEF EndOfCommand
  <2>. QED
    BY <2>3 DEF NewlinesOf
<1>4. Len(buffer) \in Nat /\ end \in Nat /\ \A i \in 1..Len(buffer) : buffer[i] \in Bytes
  BY <1>2, LenProperties, ElementOfSeq
<1>5. /\ SubSeq(buffer, 1, end - 1) \in Seq(Letters)
      /\ Len(SubSeq(buffer, 1, end - 1)) = IF 1 <= end - 1 THEN (end - 1) - 1 + 1 ELSE 0
      /\ \A i \in 1..((end - 1) - 1 + 1) : SubSeq(buffer, 1, end - 1)[i] = buffer[1 + i - 1]
  <2>1. 1 \in Int /\ end - 1 \in Int
    BY <1>4
  <2>. QED
    BY <1>2, <2>1, SubSeqProperties
<1>6. \A i \in (end + 1)..Len(buffer) : buffer[i] \in Bytes
  BY <1>4
<1>7. /\ buffer' \in Seq(Bytes)
      /\ Len(buffer') = IF end + 1 <= Len(buffer) THEN Len(buffer) - (end + 1) + 1 ELSE 0
      /\ \A i \in 1..(Len(buffer) - (end + 1) + 1) : buffer'[i] = buffer[(end + 1) + i - 1]
  BY <1>1, <1>4, <1>6, SubSeqProperties, SMTT(30)
<1>8. lines' \in Seq(Seq(Letters))
  BY <1>1, <1>5, AppendProperties
<1>9. /\ Len(SubSeq(buffer, 1, end - 1)) = end - 1
      /\ \A i \in 1..(end - 1) : SubSeq(buffer, 1, end - 1)[i] = buffer[i]
  BY <1>2, <1>4, <1>5
<1>10. Len(buffer') = Len(buffer) - end
  BY <1>2, <1>4, <1>7
<1>11. ASSUME NEW i \in 1..(Len(buffer) - end) PROVE buffer'[i] = buffer[end + i]
  <2>1. i \in 1..(Len(buffer) - (end + 1) + 1) /\ (end + 1) + i - 1 = end + i
    BY <1>4
  <2>. QED
    BY <1>7, <2>1
<1>. QED
  BY <1>1, <1>2, <1>3, <1>5, <1>7, <1>8, <1>9, <1>10, <1>11

LEMMA DispatchPort ==
    ASSUME PortInv, DispatchCommand, UNCHANGED <<port, reading>> PROVE PortInv'
<1>1. /\ buffer \in Seq(Bytes) /\ lines \in Seq(Seq(Letters)) /\ Len(buffer) \in Nat
  BY LenProperties DEF PortInv, PortTypes
<1>2. buffer' \in Seq(Bytes) /\ Len(buffer') <= Len(buffer) /\ lines' \in Seq(Seq(Letters))
  <2> DEFINE end == EndOfCommand(buffer)
  <2>1. /\ end \in 1..Len(buffer) /\ buffer' \in Seq(Bytes) /\ Len(buffer') = Len(buffer) - end
        /\ lines' \in Seq(Seq(Letters))
    BY <1>1, CommandCut
  <2>. HIDE DEF end
  <2>. QED
    BY <1>1, <2>1
<1>3. pc' = "dispatch" /\ UNCHANGED <<pipe, closed, command_pipe_open, written>>
  BY DEF DispatchCommand
<1>. QED
  BY <1>2, <1>3, ShorterBuffer

(* The round ends: a full buffer has been emptied. *)
LEMMA EndDispatchPort ==
    ASSUME PortInv, (EndDispatch /\ UNCHANGED windows) \/ EndDispatchWindows PROVE PortInv'
<1>1. /\ buffer \in Seq(Bytes) /\ Len(buffer) \in Nat /\ BufferSize \in Nat /\ BufferSize >= 2
      /\ space \in Nat
  BY LenProperties, BufferAssumption DEF PortInv, PortTypes
<1>2. /\ buffer' \in Seq(Bytes) /\ Len(buffer') \in Nat
      /\ Len(buffer') <= Len(buffer) /\ Len(buffer') < BufferSize - 1
  <2>1. CASE Full(buffer) /\ buffer' = <<>>
    BY <1>1, <2>1
  <2>2. CASE ~Full(buffer) /\ buffer' = buffer
    BY <1>1, <2>2 DEF Full
  <2>. QED
    BY <2>1, <2>2 DEF EndDispatch, EndDispatchWindows
<1>3. UNCHANGED <<pipe, closed, command_pipe_open, written, lines, port, reading>>
  BY DEF EndDispatch, EndDispatchWindows, windows
<1>4. pc' \in {"read", "exited", "flush"} /\ (port = "unix" => pc' \in {"read", "exited"})
  BY DEF EndDispatch, EndDispatchWindows, Step
<1>5. PortTypes' /\ ReadFits'
  BY <1>1, <1>2, <1>3, <1>4 DEF PortInv, PortTypes, ReadFits, reading
<1>. QED
  BY <1>3, <1>4, <1>5 DEF PortInv, EndSeen, AsleepIsReading, reading

(* read() on Unix returns 0 at the end of the input only. *)
LEMMA ReadPort == ASSUME PortInv, port = "unix", ReadCommands, UNCHANGED windows PROVE PortInv'
<1>1. /\ pipe \in Seq(Bytes) /\ buffer \in Seq(Bytes) /\ Len(pipe) \in Nat
      /\ Len(buffer) \in Nat /\ BufferSize \in Nat /\ Len(buffer) < BufferSize - 1
      /\ pc' = "dispatch" /\ UNCHANGED <<closed, written, lines, port, reading>>
  BY LenProperties, BufferAssumption
     DEF PortInv, PortTypes, ReadFits, ReadCommands, windows
<1>2. CASE command_pipe_open /\ ReturnsZero
  <2>1. closed /\ pipe = <<>>
    BY <1>1, <1>2 DEF ReturnsZero, SpaceRemaining
  <2>2. UNCHANGED <<pipe, buffer>>
    BY <1>2 DEF ReadCommands
  <2>. QED
    BY <1>1, <2>1, <2>2 DEF PortInv, PortTypes, ReadFits, EndSeen, AsleepIsReading, reading
<1>3. CASE ~(command_pipe_open /\ ReturnsZero)
  <2> DEFINE n == ReadCount
  <2>1. n \in 0..Len(pipe) /\ Len(buffer) + n < BufferSize
    BY <1>1 DEF ReadCount, SpaceRemaining
  <2>2. /\ buffer' = buffer \o SubSeq(pipe, 1, n) /\ pipe' = SubSeq(pipe, n + 1, Len(pipe))
        /\ UNCHANGED command_pipe_open
    BY <1>3 DEF ReadCommands
  <2>. HIDE DEF n
  <2>3. /\ SubSeq(pipe, 1, n) \in Seq(Bytes) /\ Len(SubSeq(pipe, 1, n)) = n
        /\ pipe' \in Seq(Bytes) /\ Len(pipe') = Len(pipe) - n
    BY <1>1, <2>1, <2>2, PieceOfPipe
  <2>4. buffer' \in Seq(Bytes) /\ Len(buffer') = Len(buffer) + n
    BY <1>1, <2>2, <2>3, ConcatProperties
  <2>5. pipe = <<>> => pipe' = <<>>
    BY <1>1, <2>1, <2>3, EmptySeq
  <2>6. PortTypes' /\ ReadFits'
    BY <1>1, <2>1, <2>3, <2>4, BufferAssumption DEF PortInv, PortTypes, ReadFits, reading
  <2>. QED
    BY <1>1, <2>2, <2>5, <2>6 DEF PortInv, EndSeen, AsleepIsReading, reading
<1>. QED
  BY <1>2, <1>3

LEMMA NextPort == PortInv /\ [PortsNext]_portVars => PortInv'
<1>. SUFFICES ASSUME PortInv, [PortsNext]_portVars PROVE PortInv'
  OBVIOUS
<1>1. CASE UnixStep
  <2>1. port = "unix" /\ UNCHANGED windows /\ UNCHANGED <<port, reading>>
    BY <1>1 DEF UnixStep, windows
  <2>. QED
    BY <1>1, <2>1, ReadPort, DispatchPort, EndDispatchPort DEF UnixStep
<1>2. CASE WindowsStep
  <2>1. CASE ReadCommandsWindows
    <3>1. /\ UNCHANGED <<pipe, closed, buffer, written, lines, port, reading>> /\ port = "windows"
          /\ pc' = "dispatch" /\ (command_pipe_open' <=> (command_pipe_open /\ pipe_open))
      BY <2>1 DEF ReadCommandsWindows, windows
    <3>. QED
      BY <3>1 DEF PortInv, PortTypes, ReadFits, EndSeen, AsleepIsReading, reading
  <2>2. CASE DispatchWindows
    BY <2>2, DispatchPort DEF DispatchWindows
  <2>. QED
    BY <1>2, <2>1, <2>2, WaitingPort, EndDispatchPort DEF WindowsStep
<1>3. CASE (\E p \in probes : ProbeEnds(p)) \/ UNCHANGED portVars
  <2>1. UNCHANGED <<pipe, closed, buffer, command_pipe_open, pc, written, lines, port, reading>>
    BY <1>3 DEF ProbeEnds, portVars, vars, windows
  <2>. QED
    BY <2>1 DEF PortInv, PortTypes, ReadFits, EndSeen, AsleepIsReading, reading
<1>. QED
  BY <1>1, <1>2, <1>3, WriterPort, ReadEndsPort DEF PortsNext

(* The program on Windows does not sleep with its pipe open and no read to   *)
(* wake it, whether or not routines run outside of the sleep                 *)
(* (wait_for_activity).                                                      *)
THEOREM SleeperReads == PortsSpec => []AsleepIsReading
<1>1. PortInv => AsleepIsReading
  BY DEF PortInv
<1>. QED
  BY InitPort, NextPort, <1>1, PTL DEF PortsSpec

(* On either port the end of the input is seen when the writer has closed it *)
(* and all of it is read.                                                    *)
THEOREM EofIsRealOnBoth == PortsSpec => []NoFalseEof
<1>1. PortInv => NoFalseEof
  BY DEF PortInv, EndSeen, NoFalseEof
<1>. QED
  BY InitPort, NextPort, <1>1, PTL DEF PortsSpec

(* What a read brings while commands leave the buffer has room in it: the    *)
(* position stays below the last byte (finish_read_command copies without    *)
(* asking).                                                                  *)
THEOREM ReadStaysInBuffer == PortsSpec => []ReadFits
<1>1. PortInv => ReadFits
  BY DEF PortInv
<1>. QED
  BY InitPort, NextPort, <1>1, PTL DEF PortsSpec

----------------------------------------------------------------------------
(* Commands and lines *)

Cut(meant, command) ==
    EndsWith(meant, command) /\ (Len(meant) <= MaxLine => command = meant)

(* The k-th command is cut from the k-th line. *)
CutFrom(k, s, e) ==
    /\ EndsLine(written, k - 1, s) /\ EndsLine(written, k, e) /\ s < e
    /\ Cut(SubSeq(written, s + 1, e - 1), lines[k])

LinesSoFar == \A k \in 1..Len(lines) : \E s, e \in Nat : CutFrom(k, s, e)

(* What is in the buffer, what a read has brought, and what is in the pipe,  *)
(* are what was written from place n on.                                     *)
Stream(n) ==
    /\ Len(written) = n + Len(buffer) + Len(overlapped_buffer) + Len(pipe)
    /\ \A i \in 1..Len(buffer) : buffer[i] = written[n + i]
    /\ \A i \in 1..Len(overlapped_buffer) :
           overlapped_buffer[i] = written[n + Len(buffer) + i]
    /\ \A i \in 1..Len(pipe) :
           pipe[i] = written[n + Len(buffer) + Len(overlapped_buffer) + i]

(* Before it come the lines dispatched, and what was thrown away since: of   *)
(* a line that is longer than the buffer can take.                           *)
TakenUpTo(n) ==
    \E s \in 0..n :
        /\ EndsLine(written, Len(lines), s)
        /\ \A i \in NewlinesOf(written) : i <= s \/ n < i
        /\ n = s \/ n - s > MaxLine

Framing == LinesSoFar /\ \E n \in Nat : Stream(n) /\ TakenUpTo(n)

LEMMA InitFraming == PortsInit => Framing
<1>. SUFFICES ASSUME PortsInit PROVE Framing
  OBVIOUS
<1>1. pipe = <<>> /\ buffer = <<>> /\ overlapped_buffer = <<>> /\ written = <<>> /\ lines = <<>>
  BY DEF PortsInit
<1>2. Stream(0)
  BY <1>1 DEF Stream
<1>3. TakenUpTo(0)
  <2>1. NewlinesOf(written) = {} /\ Len(lines) = 0
    BY <1>1 DEF NewlinesOf
  <2>. QED
    BY <2>1 DEF TakenUpTo, EndsLine
<1>. QED
  BY <1>1, <1>2, <1>3 DEF Framing, LinesSoFar

LEMMA FramingIsLines == PortInv /\ Framing => CommandsAreTheLines
<1>. SUFFICES ASSUME PortInv, Framing PROVE CommandsAreTheLines
  OBVIOUS
<1>1. written \in Seq(Bytes) /\ Len(lines) \in Nat
  BY LenProperties DEF PortInv, PortTypes
<1>2. Len(lines) <= LineCount(written)
  <2>1. PICK s : EndsLine(written, Len(lines), s)
    BY DEF Framing, TakenUpTo
  <2>. QED
    BY <1>1, <2>1, NoMoreEnds
<1>3. ASSUME NEW k \in 1..Len(lines) PROVE Cut(Line(written, k), lines[k])
  <2>1. PICK s, e \in Nat : CutFrom(k, s, e)
    BY DEF Framing, LinesSoFar
  <2>2. k \in Nat /\ k - 1 \in Nat
    BY <1>1
  <2>3. EndOfLine(written, k - 1) = s /\ EndOfLine(written, k) = e
    BY <1>1, <2>1, <2>2, EndOfLineFound DEF CutFrom
  <2>. QED
    BY <2>1, <2>3 DEF CutFrom, Line
<1>. QED
  BY <1>2, <1>3 DEF CommandsAreTheLines, Cut

(* Nothing is written or dispatched: the bytes are only moved. *)
LEMMA MovedFraming ==
    ASSUME Framing, UNCHANGED <<written, lines>>,
           \A n \in Nat : Stream(n) => Stream(n)'
    PROVE  Framing'
<1>1. LinesSoFar'
  BY DEF Framing, LinesSoFar, CutFrom
<1>2. \A n \in Nat : TakenUpTo(n) => TakenUpTo(n)'
  BY DEF TakenUpTo
<1>. QED
  BY <1>1, <1>2 DEF Framing

LEMMA WriteFraming ==
    ASSUME PortInv, Framing, NEW byte \in Bytes, Write(byte), UNCHANGED windows
    PROVE  Framing'
<1>1. /\ pipe' = Append(pipe, byte) /\ written' = Append(written, byte)
      /\ UNCHANGED <<buffer, lines, overlapped_buffer>>
      /\ pipe \in Seq(Bytes) /\ written \in Seq(Bytes)
      /\ Len(lines) \in Nat /\ Len(buffer) \in Nat /\ Len(overlapped_buffer) \in Nat
  BY LenProperties DEF Write, windows, reading, PortInv, PortTypes
<1>2. /\ Len(pipe') = Len(pipe) + 1 /\ pipe'[Len(pipe) + 1] = byte
      /\ \A i \in 1..Len(pipe) : pipe'[i] = pipe[i]
      /\ written' \in Seq(Bytes)
      /\ Len(written') = Len(written) + 1 /\ written'[Len(written) + 1] = byte
      /\ \A i \in 1..Len(written) : written'[i] = written[i]
      /\ Len(pipe) \in Nat /\ Len(written) \in Nat
  BY <1>1, AppendProperties, LenProperties
<1>3. \A k \in Nat : \A i : EndsLine(written, k, i) => EndsLine(written', k, i) /\ i \in 0..Len(written)
  BY <1>1, LinesStay, NoMoreEnds
<1>4. ASSUME NEW k \in 1..Len(lines), NEW s \in Nat, NEW e \in Nat, CutFrom(k, s, e)
      PROVE  CutFrom(k, s, e)'
  <2>1. /\ k \in Nat /\ k - 1 \in Nat
        /\ EndsLine(written, k - 1, s) /\ EndsLine(written, k, e) /\ s < e
    BY <1>1, <1>4 DEF CutFrom
  <2>2. EndsLine(written', k - 1, s) /\ EndsLine(written', k, e) /\ e \in 0..Len(written)
    BY <1>3, <2>1
  <2>3. \A i \in (s + 1)..(e - 1) : i \in 1..Len(written)
    BY <1>2, <2>1, <2>2
  <2>4. /\ \A i \in (s + 1)..(e - 1) : written[i] \in Bytes
        /\ \A i \in (s + 1)..(e - 1) : written'[i] \in Bytes /\ written'[i] = written[i]
    BY <1>1, <1>2, <2>3, ElementOfSeq
  <2>5. SubSeq(written', s + 1, e - 1) = SubSeq(written, s + 1, e - 1)
    <3> DEFINE a == SubSeq(written, s + 1, e - 1)
               b == SubSeq(written', s + 1, e - 1)
               m == s + 1
               n == e - 1
    <3>1. m \in Int /\ n \in Int
      BY <2>1
    <3>2. /\ a \in Seq(Bytes) /\ Len(a) = IF m <= n THEN n - m + 1 ELSE 0
          /\ \A i \in 1..n - m + 1 : a[i] = written[m + i - 1]
      BY <2>4, <3>1, SubSeqProperties
    <3>3. /\ b \in Seq(Bytes) /\ Len(b) = IF m <= n THEN n - m + 1 ELSE 0
          /\ \A i \in 1..n - m + 1 : b[i] = written'[m + i - 1]
      BY <2>4, <3>1, SubSeqProperties
    <3>4. \A i \in m..n : written'[i] = written[i]
      BY <2>4
    <3>. HIDE DEF a, b, m, n
    <3>5. Len(a) = Len(b) /\ \A i \in 1..Len(a) : a[i] = b[i]
      BY <3>1, <3>2, <3>3, <3>4
    <3>6. a = b
      BY <3>2, <3>3, <3>5, SeqEqual
    <3>. QED
      BY <3>6 DEF a, b
  <2>. QED
    BY <1>1, <1>4, <2>1, <2>2, <2>5 DEF CutFrom
<1>5. LinesSoFar'
  BY <1>1, <1>4 DEF Framing, LinesSoFar
<1>6. PICK n \in Nat : Stream(n) /\ TakenUpTo(n)
  BY DEF Framing
<1>7. Stream(n)'
  <2>1. /\ Len(written) = n + Len(buffer) + Len(overlapped_buffer) + Len(pipe)
        /\ \A i \in 1..Len(buffer) : buffer[i] = written[n + i]
        /\ \A i \in 1..Len(overlapped_buffer) :
               overlapped_buffer[i] = written[n + Len(buffer) + i]
        /\ \A i \in 1..Len(pipe) :
               pipe[i] = written[n + Len(buffer) + Len(overlapped_buffer) + i]
    BY <1>6 DEF Stream
  <2>2. Len(written') = n + Len(buffer) + Len(overlapped_buffer) + Len(pipe')
    BY <1>1, <1>2, <2>1
  <2>3. ASSUME NEW i \in 1..Len(buffer) PROVE buffer[i] = written'[n + i]
    <3>1. n + i \in 1..Len(written)
      BY <1>1, <1>2, <2>1
    <3>. QED
      BY <1>2, <2>1, <3>1
  <2>4. ASSUME NEW i \in 1..Len(overlapped_buffer)
        PROVE  overlapped_buffer[i] = written'[n + Len(buffer) + i]
    <3>1. n + Len(buffer) + i \in 1..Len(written)
      BY <1>1, <1>2, <2>1
    <3>. QED
      BY <1>2, <2>1, <3>1
  <2>5. ASSUME NEW i \in 1..Len(pipe')
        PROVE  pipe'[i] = written'[n + Len(buffer) + Len(overlapped_buffer) + i]
    <3> DEFINE j == n + Len(buffer) + Len(overlapped_buffer) + i
    <3>1. CASE i \in 1..Len(pipe)
      <4>1. j \in 1..Len(written)
        BY <1>1, <1>2, <2>1, <3>1
      <4>2. pipe[i] = written[j]
        BY <2>1, <3>1
      <4>. HIDE DEF j
      <4>3. pipe'[i] = written'[j]
        BY <1>2, <3>1, <4>1, <4>2
      <4>. QED
        BY <4>3 DEF j
    <3>2. CASE i = Len(pipe) + 1
      <4>1. j = Len(written) + 1
        BY <1>1, <1>2, <2>1, <3>2
      <4>. HIDE DEF j
      <4>2. pipe'[i] = written'[j]
        BY <1>2, <3>2, <4>1
      <4>. QED
        BY <4>2 DEF j
    <3>. QED
      BY <1>2, <3>1, <3>2
  <2>. QED
    BY <1>1, <2>2, <2>3, <2>4, <2>5 DEF Stream
<1>8. TakenUpTo(n)'
  <2>1. PICK s \in 0..n : /\ EndsLine(written, Len(lines), s)
                          /\ \A i \in NewlinesOf(written) : i <= s \/ n < i
                          /\ n = s \/ n - s > MaxLine
    BY <1>6 DEF TakenUpTo
  <2>2. EndsLine(written', Len(lines), s)
    BY <1>1, <1>3, <2>1
  <2>3. Len(written) >= n
    <3>1. Len(written) = n + Len(buffer) + Len(overlapped_buffer) + Len(pipe)
      BY <1>6 DEF Stream
    <3>. QED
      BY <1>1, <1>2, <3>1
  <2>4. \A i \in NewlinesOf(written') : i \in NewlinesOf(written) \/ i = Len(written) + 1
    <3>1. DOMAIN written' = 1..Len(written) + 1 /\ DOMAIN written = 1..Len(written)
      BY <1>1, <1>2, LenProperties
    <3>. QED
      BY <1>2, <3>1 DEF NewlinesOf
  <2>5. ASSUME NEW i \in NewlinesOf(written') PROVE i <= s \/ n < i
    <3>1. CASE i \in NewlinesOf(written)
      BY <2>1, <3>1
    <3>2. CASE i = Len(written) + 1
      BY <1>2, <2>3, <3>2
    <3>. QED
      BY <2>4, <3>1, <3>2
  <2>6. lines' = lines
    BY <1>1
  <2>. QED
    BY <2>1, <2>2, <2>5, <2>6 DEF TakenUpTo
<1>. QED
  BY <1>5, <1>7, <1>8 DEF Framing

(* The bytes of a read move from the pipe, at once on Unix, on Windows into  *)
(* the overlapped buffer first.                                              *)
LEMMA ReadFraming ==
    ASSUME PortInv, Framing, port = "unix", ReadCommands, UNCHANGED windows PROVE Framing'
<1>1. /\ pipe \in Seq(Bytes) /\ buffer \in Seq(Bytes) /\ Len(pipe) \in Nat
      /\ Len(buffer) \in Nat /\ BufferSize \in Nat /\ Len(buffer) < BufferSize
      /\ UNCHANGED <<written, lines, overlapped_buffer>>
      /\ overlapped_buffer = <<>> /\ Len(overlapped_buffer) = 0
  BY LenProperties, BufferAssumption
     DEF PortInv, PortTypes, ReadFits, ReadCommands, windows, reading
<1>2. CASE UNCHANGED <<pipe, buffer>>
  BY <1>1, <1>2, MovedFraming DEF Stream
<1>3. CASE ~(command_pipe_open /\ ReturnsZero)
  <2> DEFINE c == ReadCount
             piece == SubSeq(pipe, 1, c)
  <2>1. c \in 0..Len(pipe)
    BY <1>1 DEF ReadCount, SpaceRemaining
  <2>2. /\ buffer' = buffer \o piece /\ pipe' = SubSeq(pipe, c + 1, Len(pipe))
    BY <1>3 DEF ReadCommands
  <2>3. /\ piece \in Seq(Bytes) /\ Len(piece) = c
        /\ \A i \in 1..c : piece[i] = pipe[i]
        /\ Len(pipe') = Len(pipe) - c
        /\ \A i \in 1..(Len(pipe) - c) : pipe'[i] = pipe[c + i]
    BY <1>1, <2>1, <2>2, PieceOfPipe
  <2>. HIDE DEF c, piece
  <2>4. /\ Len(buffer') = Len(buffer) + c
        /\ \A i \in 1..Len(buffer) + c :
              buffer'[i] = IF i <= Len(buffer) THEN buffer[i]
                           ELSE piece[i - Len(buffer)]
    <3>1. /\ Len(buffer \o piece) = Len(buffer) + Len(piece)
          /\ \A i \in 1..Len(buffer) + Len(piece) :
                (buffer \o piece)[i] = IF i <= Len(buffer) THEN buffer[i]
                                       ELSE piece[i - Len(buffer)]
      BY <1>1, <2>3, ConcatProperties
    <3>. QED
      BY <2>2, <2>3, <3>1
  <2>5. ASSUME NEW n \in Nat, Stream(n) PROVE Stream(n)'
    <3>1. /\ Len(written) = n + Len(buffer) + Len(pipe)
          /\ \A i \in 1..Len(buffer) : buffer[i] = written[n + i]
          /\ \A i \in 1..Len(pipe) : pipe[i] = written[n + Len(buffer) + i]
      BY <1>1, <2>5 DEF Stream
    <3>2. Len(written) = n + Len(buffer') + Len(pipe')
      BY <1>1, <2>1, <2>3, <2>4, <3>1
    <3>3. ASSUME NEW i \in 1..Len(buffer') PROVE buffer'[i] = written[n + i]
      <4>1. i \in 1..Len(buffer) + c
        BY <2>4
      <4>2. CASE i <= Len(buffer)
        <5>1. buffer'[i] = buffer[i] /\ i \in 1..Len(buffer)
          BY <1>1, <2>4, <4>1, <4>2
        <5>. QED
          BY <3>1, <5>1
      <4>3. CASE i > Len(buffer)
        <5> DEFINE j == i - Len(buffer)
        <5>1. j \in 1..c /\ j \in 1..Len(pipe) /\ n + Len(buffer) + j = n + i
          BY <1>1, <2>1, <4>1, <4>3
        <5>2. buffer'[i] = piece[j]
          BY <1>1, <2>4, <4>1, <4>3
        <5>. HIDE DEF j
        <5>. QED
          BY <2>3, <3>1, <5>1, <5>2
      <4>. QED
        BY <1>1, <4>1, <4>2, <4>3
    <3>4. ASSUME NEW i \in 1..Len(pipe') PROVE pipe'[i] = written[n + Len(buffer') + i]
      <4>1. i \in 1..(Len(pipe) - c) /\ c + i \in 1..Len(pipe)
            /\ n + Len(buffer) + (c + i) = n + Len(buffer') + i
        BY <1>1, <2>1, <2>3, <2>4
      <4>. QED
        BY <2>3, <3>1, <4>1
    <3>5. n + Len(buffer') + 0 = n + Len(buffer') /\ \A i : ~(i \in 1..0)
      BY <1>1, <2>1, <2>4
    <3>6. Len(overlapped_buffer') = 0 /\ written' = written
      BY <1>1
    <3>. QED
      BY <3>2, <3>3, <3>4, <3>5, <3>6 DEF Stream
  <2>. QED
    BY <1>1, <2>5, MovedFraming
<1>. QED
  BY <1>2, <1>3 DEF ReadCommands

LEMMA ReadEndsFraming == PortInv /\ Framing /\ ReadEnds => Framing'
<1>. SUFFICES ASSUME PortInv, Framing, ReadEnds PROVE Framing'
  OBVIOUS
<1> DEFINE c == IF Len(pipe) < space THEN Len(pipe) ELSE space
<1>1. /\ pipe \in Seq(Bytes) /\ Len(pipe) \in Nat /\ space \in Nat /\ Len(buffer) \in Nat
      /\ UNCHANGED <<buffer, written, lines>>
      /\ overlapped_buffer = <<>> /\ Len(overlapped_buffer) = 0
  BY LenProperties DEF PortInv, PortTypes, ReadFits, ReadEnds
<1>2. CASE UNCHANGED <<overlapped_buffer, pipe>>
  BY <1>1, <1>2, MovedFraming DEF Stream
<1>3. CASE /\ overlapped_buffer' = SubSeq(pipe, 1, c)
           /\ pipe' = SubSeq(pipe, c + 1, Len(pipe))
  <2>1. c \in 0..Len(pipe)
    BY <1>1
  <2>. HIDE DEF c
  <2>2. /\ Len(overlapped_buffer') = c
        /\ \A i \in 1..c : overlapped_buffer'[i] = pipe[i]
        /\ Len(pipe') = Len(pipe) - c
        /\ \A i \in 1..(Len(pipe) - c) : pipe'[i] = pipe[c + i]
    BY <1>1, <1>3, <2>1, PieceOfPipe
  <2>3. ASSUME NEW n \in Nat, Stream(n) PROVE Stream(n)'
    <3>1. /\ Len(written) = n + Len(buffer) + Len(pipe)
          /\ \A i \in 1..Len(buffer) : buffer[i] = written[n + i]
          /\ \A i \in 1..Len(pipe) : pipe[i] = written[n + Len(buffer) + i]
      BY <1>1, <2>3 DEF Stream
    <3>2. Len(written) = n + Len(buffer) + Len(overlapped_buffer') + Len(pipe')
      BY <1>1, <2>1, <2>2, <3>1
    <3>3. ASSUME NEW i \in 1..Len(overlapped_buffer')
          PROVE  overlapped_buffer'[i] = written[n + Len(buffer) + i]
      <4>1. i \in 1..c /\ i \in 1..Len(pipe)
        BY <1>1, <2>1, <2>2
      <4>. QED
        BY <2>2, <3>1, <4>1
    <3>4. ASSUME NEW i \in 1..Len(pipe')
          PROVE  pipe'[i] = written[n + Len(buffer) + Len(overlapped_buffer') + i]
      <4>1. i \in 1..(Len(pipe) - c) /\ c + i \in 1..Len(pipe)
            /\ n + Len(buffer) + (c + i) = n + Len(buffer) + Len(overlapped_buffer') + i
        BY <1>1, <2>1, <2>2
      <4>. QED
        BY <2>2, <3>1, <4>1
    <3>. QED
      BY <1>1, <3>1, <3>2, <3>3, <3>4 DEF Stream
  <2>. QED
    BY <1>1, <2>3, MovedFraming
<1>. QED
  BY <1>2, <1>3 DEF ReadEnds

LEMMA RoutinesFraming ==
    ASSUME PortInv, Framing, Routines, UNCHANGED <<pipe, written, lines>> PROVE Framing'
<1>1. /\ overlapped_buffer' = <<>> /\ Len(overlapped_buffer') = 0
      /\ buffer' = (IF routine = "data" THEN buffer \o overlapped_buffer ELSE buffer)
      /\ buffer \in Seq(Bytes) /\ overlapped_buffer \in Seq(Bytes)
      /\ Len(buffer) \in Nat /\ Len(overlapped_buffer) \in Nat /\ Len(pipe) \in Nat
      /\ UNCHANGED <<pipe, written, lines>>
  BY LenProperties DEF Routines, FinishReadCommand, PortInv, PortTypes
<1>2. CASE routine # "data"
  <2>1. overlapped_buffer = <<>>
    BY <1>2 DEF PortInv, ReadFits
  <2>. QED
    BY <1>1, <1>2, <2>1, MovedFraming DEF Stream
<1>3. CASE routine = "data"
  <2>1. /\ Len(buffer') = Len(buffer) + Len(overlapped_buffer)
        /\ \A i \in 1..Len(buffer) + Len(overlapped_buffer) :
              buffer'[i] = IF i <= Len(buffer) THEN buffer[i]
                           ELSE overlapped_buffer[i - Len(buffer)]
    BY <1>1, <1>3, ConcatProperties
  <2>2. ASSUME NEW n \in Nat, Stream(n) PROVE Stream(n)'
    <3>1. /\ Len(written) = n + Len(buffer) + Len(overlapped_buffer) + Len(pipe)
          /\ \A i \in 1..Len(buffer) : buffer[i] = written[n + i]
          /\ \A i \in 1..Len(overlapped_buffer) :
                overlapped_buffer[i] = written[n + Len(buffer) + i]
          /\ \A i \in 1..Len(pipe) :
                pipe[i] = written[n + Len(buffer) + Len(overlapped_buffer) + i]
      BY <2>2 DEF Stream
    <3>2. ASSUME NEW i \in 1..Len(buffer') PROVE buffer'[i] = written[n + i]
      <4>1. i \in 1..Len(buffer) + Len(overlapped_buffer)
        BY <2>1
      <4>2. CASE i <= Len(buffer)
        <5>1. buffer'[i] = buffer[i] /\ i \in 1..Len(buffer)
          BY <1>1, <2>1, <4>1, <4>2
        <5>. QED
          BY <3>1, <5>1
      <4>3. CASE i > Len(buffer)
        <5> DEFINE j == i - Len(buffer)
        <5>1. j \in 1..Len(overlapped_buffer) /\ n + Len(buffer) + j = n + i
          BY <1>1, <4>1, <4>3
        <5>2. buffer'[i] = overlapped_buffer[j]
          BY <1>1, <2>1, <4>1, <4>3
        <5>. HIDE DEF j
        <5>. QED
          BY <3>1, <5>1, <5>2
      <4>. QED
        BY <1>1, <4>1, <4>2, <4>3
    <3>3. ASSUME NEW i \in 1..Len(pipe) PROVE pipe[i] = written[n + Len(buffer') + 0 + i]
      <4>1. n + Len(buffer') + 0 + i = n + Len(buffer) + Len(overlapped_buffer) + i
        BY <1>1, <2>1
      <4>. QED
        BY <3>1, <4>1
    <3>4. Len(written) = n + Len(buffer') + 0 + Len(pipe)
      <4>1. Len(buffer') = Len(buffer) + Len(overlapped_buffer)
        BY <2>1
      <4>2. Len(written) = n + Len(buffer) + Len(overlapped_buffer) + Len(pipe)
        BY <3>1
      <4>3. Len(buffer) \in Nat /\ Len(overlapped_buffer) \in Nat /\ Len(pipe) \in Nat
        BY <1>1
      <4>. QED
        BY <4>1, <4>2, <4>3
    <3>. QED
      BY <1>1, <3>2, <3>3, <3>4 DEF Stream
  <2>. QED
    BY <1>1, <2>2, MovedFraming
<1>. QED
  BY <1>2, <1>3

(* A command that begins where its line does is the line; one that begins    *)
(* later, behind more than fits the buffer, is the line's end.               *)
LEMMA CutOfLine ==
    ASSUME NEW bytes \in Seq(Bytes), NEW s \in Nat, NEW n \in Nat, s <= n, NEW c \in Nat,
           n + c <= Len(bytes), NEW command \in Seq(Bytes), Len(command) = c,
           \A i \in 1..c : command[i] = bytes[n + i],
           n = s \/ n - s > MaxLine
    PROVE  Cut(SubSeq(bytes, s + 1, n + c), command)
<1> DEFINE meant == SubSeq(bytes, s + 1, n + c)
           tail == SubSeq(meant, n - s + 1, n - s + c)
<1>1. Len(bytes) \in Nat /\ \A i \in 1..Len(bytes) : bytes[i] \in Bytes
  BY LenProperties, ElementOfSeq
<1>2. /\ meant \in Seq(Bytes)
      /\ Len(meant) = IF s + 1 <= n + c THEN n + c - (s + 1) + 1 ELSE 0
      /\ \A i \in 1..(n + c - (s + 1) + 1) : meant[i] = bytes[s + 1 + i - 1]
  <2>1. \A i \in (s + 1)..(n + c) : bytes[i] \in Bytes
    BY <1>1
  <2>2. s + 1 \in Int /\ n + c \in Int
    OBVIOUS
  <2>. QED
    BY <2>1, <2>2, SubSeqProperties
<1>3. /\ Len(meant) = n - s + c
      /\ \A i \in 1..(n - s + c) : meant[i] = bytes[s + i] /\ meant[i] \in Bytes
  <2>1. Len(meant) = n - s + c
    BY <1>2
  <2>2. ASSUME NEW i \in 1..(n - s + c) PROVE meant[i] = bytes[s + i] /\ meant[i] \in Bytes
    <3>1. i \in 1..(n + c - (s + 1) + 1) /\ s + 1 + i - 1 = s + i /\ s + i \in 1..Len(bytes)
      BY <1>1
    <3>. QED
      BY <1>1, <1>2, <3>1
  <2>. QED
    BY <2>1, <2>2
<1>. HIDE DEF meant
<1>4. /\ tail \in Seq(Bytes)
      /\ Len(tail) = IF n - s + 1 <= n - s + c THEN n - s + c - (n - s + 1) + 1 ELSE 0
      /\ \A i \in 1..(n - s + c - (n - s + 1) + 1) : tail[i] = meant[n - s + 1 + i - 1]
  <2>1. \A i \in (n - s + 1)..(n - s + c) : meant[i] \in Bytes
    BY <1>3
  <2>2. n - s + 1 \in Int /\ n - s + c \in Int
    OBVIOUS
  <2>. QED
    BY <2>1, <2>2, SubSeqProperties
<1>5. Len(tail) = c
  BY <1>4
<1>6. ASSUME NEW i \in 1..c PROVE tail[i] = command[i]
  <2>1. i \in 1..(n - s + c - (n - s + 1) + 1) /\ n - s + 1 + i - 1 = n - s + i
    OBVIOUS
  <2>2. tail[i] = meant[n - s + i]
    BY <1>4, <2>1
  <2>3. n - s + i \in 1..(n - s + c) /\ s + (n - s + i) = n + i
    OBVIOUS
  <2>. QED
    BY <1>3, <2>2, <2>3
<1>. HIDE DEF tail
<1>7. tail = command
  BY <1>4, <1>5, <1>6, SeqEqual
<1>8. EndsWith(meant, command)
  <2>1. Len(command) <= Len(meant) /\ Len(meant) - Len(command) + 1 = n - s + 1
    BY <1>3
  <2>2. command = SubSeq(meant, Len(meant) - Len(command) + 1, Len(meant))
    BY <1>3, <1>7, <2>1 DEF tail
  <2>. QED
    BY <2>1, <2>2 DEF EndsWith
<1>9. Len(meant) <= MaxLine => command = meant
  <2>. SUFFICES ASSUME Len(meant) <= MaxLine PROVE command = meant
    OBVIOUS
  <2>1. n = s
    BY <1>3, BufferAssumption DEF MaxLine
  <2>2. Len(meant) = Len(command) /\ \A i \in 1..Len(command) : command[i] = meant[i]
    BY <1>3, <2>1
  <2>. QED
    BY <1>2, <2>2, SeqEqual
<1>. QED
  BY <1>8, <1>9 DEF Cut, meant

LEMMA DispatchFraming ==
    ASSUME PortInv, Framing, DispatchCommand, UNCHANGED overlapped_buffer PROVE Framing'
<1> DEFINE end == EndOfCommand(buffer)
           command == SubSeq(buffer, 1, end - 1)
<1>1. /\ buffer \in Seq(Bytes) /\ written \in Seq(Bytes) /\ lines \in Seq(Seq(Letters))
      /\ Len(buffer) \in Nat /\ Len(written) \in Nat /\ Len(lines) \in Nat
      /\ Len(overlapped_buffer) \in Nat /\ Len(pipe) \in Nat
      /\ UNCHANGED <<written, pipe, overlapped_buffer>>
  BY LenProperties DEF PortInv, PortTypes, DispatchCommand
<1>2. /\ end \in 1..Len(buffer) /\ buffer[end] = Newline
      /\ \A i \in 1..(end - 1) : buffer[i] \in Letters
      /\ command \in Seq(Letters) /\ Len(command) = end - 1
      /\ \A i \in 1..(end - 1) : command[i] = buffer[i]
      /\ lines' = Append(lines, command)
      /\ Len(buffer') = Len(buffer) - end
      /\ \A i \in 1..(Len(buffer) - end) : buffer'[i] = buffer[end + i]
  BY <1>1, CommandCut
<1>. HIDE DEF end, command
<1>3. command \in Seq(Bytes)
  <2>1. Letters \subseteq Bytes
    BY DEF Bytes
  <2>. QED
    BY <1>2, <2>1
<1>4. /\ Len(lines') = Len(lines) + 1 /\ lines'[Len(lines) + 1] = command
      /\ \A k \in 1..Len(lines) : lines'[k] = lines[k]
  BY <1>1, <1>2, AppendProperties
<1>5. PICK n \in Nat : Stream(n) /\ TakenUpTo(n)
  BY DEF Framing
<1>6. /\ Len(written) = n + Len(buffer) + Len(overlapped_buffer) + Len(pipe)
      /\ \A i \in 1..Len(buffer) : buffer[i] = written[n + i]
      /\ \A i \in 1..Len(overlapped_buffer) :
             overlapped_buffer[i] = written[n + Len(buffer) + i]
      /\ \A i \in 1..Len(pipe) :
             pipe[i] = written[n + Len(buffer) + Len(overlapped_buffer) + i]
  BY <1>5 DEF Stream
<1>7. PICK e \in Nat : e = n + end /\ e > n /\ e <= Len(written) /\ written[e] = Newline
  <2>1. /\ n + end \in Nat /\ n + end > n /\ n + end <= Len(written)
        /\ written[n + end] = Newline
    BY <1>1, <1>2, <1>6
  <2>. QED
    BY <2>1
<1>8. PICK s \in 0..n :
         /\ EndsLine(written, Len(lines), s)
         /\ \A i \in NewlinesOf(written) : i <= s \/ n < i
         /\ n = s \/ n - s > MaxLine
  BY <1>5 DEF TakenUpTo
<1>9. \A i \in NewlinesOf(written) : i <= s \/ e <= i
  <2>. SUFFICES ASSUME NEW i \in NewlinesOf(written), n < i, i < e PROVE FALSE
    BY <1>7, <1>8, NewlinesAreFinite, <1>1
  <2>1. i \in 1..Len(written) /\ written[i] = Newline
    BY <1>1, NewlinesAreFinite DEF NewlinesOf
  <2>2. i - n \in 1..(end - 1) /\ i - n \in 1..Len(buffer) /\ n + (i - n) = i
    BY <1>1, <1>2, <1>7, <2>1
  <2>3. buffer[i - n] = written[i] /\ buffer[i - n] \in Letters
    BY <1>2, <1>6, <2>2
  <2>. QED
    BY <2>1, <2>3, BufferAssumption
<1>10. e \in NewlinesOf(written)
  <2>1. DOMAIN written = 1..Len(written)
    BY <1>1, LenProperties
  <2>. QED
    BY <1>1, <1>7, <2>1 DEF NewlinesOf
<1>11. EndsLine(written, Len(lines) + 1, e)
  <2>1. s < e
    BY <1>7, <1>8
  <2>. QED
    BY <1>1, <1>8, <1>9, <1>10, <2>1, NextLineEnds
<1>12. Cut(SubSeq(written, s + 1, e - 1), command)
  <2> DEFINE c == end - 1
  <2>1. c \in Nat /\ n + c <= Len(written) /\ e - 1 = n + c /\ s \in Nat /\ s <= n
    BY <1>1, <1>2, <1>6, <1>7, <1>8
  <2>2. ASSUME NEW i \in 1..c PROVE command[i] = written[n + i]
    <3>1. i \in 1..Len(buffer)
      BY <1>1, <1>2
    <3>. QED
      BY <1>2, <1>6, <3>1
  <2>3. Len(command) = c
    BY <1>2
  <2>. HIDE DEF c
  <2>4. written \in Seq(Bytes) /\ (n = s \/ n - s > MaxLine)
    BY <1>1, <1>8
  <2>5. Cut(SubSeq(written, s + 1, n + c), command)
    BY <1>3, <2>1, <2>2, <2>3, <2>4, CutOfLine, ZenonT(40)
  <2>. QED
    BY <2>1, <2>5
<1>13. LinesSoFar'
  <2>1. ASSUME NEW k \in 1..Len(lines') PROVE \E a, b \in Nat : CutFrom(k, a, b)'
    <3>0. k \in 1..Len(lines) \/ k = Len(lines) + 1
      BY <1>1, <1>4
    <3>1. CASE k \in 1..Len(lines)
      <4>1. PICK a, b \in Nat : CutFrom(k, a, b)
        BY <3>1 DEF Framing, LinesSoFar
      <4>2. CutFrom(k, a, b)'
        BY <1>1, <1>4, <3>1, <4>1 DEF CutFrom
      <4>. QED
        BY <4>2
    <3>2. CASE k = Len(lines) + 1
      <4>1. k - 1 = Len(lines) /\ s < e /\ s \in Nat
        BY <1>1, <1>7, <1>8, <3>2
      <4>2. CutFrom(k, s, e)'
        BY <1>1, <1>4, <1>8, <1>11, <1>12, <3>2, <4>1 DEF CutFrom
      <4>. QED
        BY <1>7, <4>1, <4>2
    <3>. QED
      BY <3>0, <3>1, <3>2
  <2>. QED
    BY <2>1 DEF LinesSoFar
<1>14. Stream(e)'
  <2>0. e = n + end /\ end \in Nat
    BY <1>1, <1>2, <1>7
  <2>1. Len(written) = e + Len(buffer') + Len(overlapped_buffer) + Len(pipe)
    <3>1. Len(buffer') = Len(buffer) - end
      BY <1>2
    <3>2. Len(written) = n + Len(buffer) + Len(overlapped_buffer) + Len(pipe)
      BY <1>6
    <3>. QED
      BY <1>1, <2>0, <3>1, <3>2
  <2>2. e + Len(buffer') = n + Len(buffer)
    <3>1. Len(buffer') = Len(buffer) - end
      BY <1>2
    <3>. QED
      BY <1>1, <2>0, <3>1
  <2>3. ASSUME NEW i \in 1..Len(buffer') PROVE buffer'[i] = written[e + i]
    <3>1. i \in 1..(Len(buffer) - end) /\ end + i \in 1..Len(buffer) /\ n + (end + i) = e + i
      BY <1>1, <1>2, <2>0
    <3>. QED
      BY <1>2, <1>6, <3>1
  <2>. QED
    BY <1>1, <1>6, <2>1, <2>2, <2>3 DEF Stream
<1>15. TakenUpTo(e)'
  <2>1. e \in 0..e /\ \A i \in NewlinesOf(written) : i <= e \/ e < i
    BY <1>1, <1>7, NewlinesAreFinite
  <2>2. EndsLine(written', Len(lines'), e)
    BY <1>1, <1>4, <1>11
  <2>. QED
    BY <1>1, <2>1, <2>2 DEF TakenUpTo
<1>. QED
  BY <1>7, <1>13, <1>14, <1>15 DEF Framing

(* A full buffer without a newline is thrown away: more than a line may have. *)
LEMMA OverflowFraming ==
    ASSUME PortInv, Framing, NewlinesOf(buffer) = {}, Full(buffer), buffer' = <<>>,
           UNCHANGED <<pipe, written, lines, overlapped_buffer>>
    PROVE  Framing'
<1>1. /\ buffer \in Seq(Bytes) /\ written \in Seq(Bytes) /\ Len(buffer') = 0
      /\ Len(buffer) \in Nat /\ Len(written) \in Nat
      /\ Len(overlapped_buffer) \in Nat /\ Len(pipe) \in Nat
      /\ BufferSize \in Nat /\ Len(buffer) >= BufferSize - 1
  BY LenProperties, BufferAssumption DEF PortInv, PortTypes, Full
<1>2. PICK n \in Nat : Stream(n) /\ TakenUpTo(n)
  BY DEF Framing
<1>3. /\ Len(written) = n + Len(buffer) + Len(overlapped_buffer) + Len(pipe)
      /\ \A i \in 1..Len(buffer) : buffer[i] = written[n + i]
      /\ \A i \in 1..Len(overlapped_buffer) :
             overlapped_buffer[i] = written[n + Len(buffer) + i]
      /\ \A i \in 1..Len(pipe) :
             pipe[i] = written[n + Len(buffer) + Len(overlapped_buffer) + i]
  BY <1>2 DEF Stream
<1>4. PICK m \in Nat : m = n + Len(buffer)
  BY <1>1
<1>5. Stream(m)'
  <2>1. m + Len(buffer') = n + Len(buffer) /\ \A i : ~(i \in 1..Len(buffer'))
    BY <1>1, <1>4
  <2>. QED
    BY <1>3, <2>1 DEF Stream
<1>6. PICK s \in 0..n :
         /\ EndsLine(written, Len(lines), s)
         /\ \A i \in NewlinesOf(written) : i <= s \/ n < i
         /\ n = s \/ n - s > MaxLine
  BY <1>2 DEF TakenUpTo
<1>7. \A i \in NewlinesOf(written) : i <= s \/ m < i
  <2>. SUFFICES ASSUME NEW i \in NewlinesOf(written), n < i, i <= m PROVE FALSE
    BY <1>1, <1>4, <1>6, NewlinesAreFinite
  <2>1. i \in 1..Len(written) /\ written[i] = Newline
    BY <1>1, NewlinesAreFinite DEF NewlinesOf
  <2>2. i - n \in 1..Len(buffer) /\ n + (i - n) = i
    BY <1>1, <1>4, <2>1
  <2>3. buffer[i - n] = Newline
    BY <1>3, <2>1, <2>2
  <2>4. DOMAIN buffer = 1..Len(buffer)
    BY <1>1, LenProperties
  <2>. QED
    BY <2>2, <2>3, <2>4 DEF NewlinesOf
<1>8. s \in 0..m /\ m - s > MaxLine
  BY <1>1, <1>4 DEF MaxLine
<1>9. TakenUpTo(m)'
  BY <1>6, <1>7, <1>8 DEF TakenUpTo
<1>10. LinesSoFar'
  BY DEF Framing, LinesSoFar, CutFrom
<1>. QED
  BY <1>5, <1>9, <1>10 DEF Framing

LEMMA NextFraming == PortInv /\ Framing /\ [PortsNext]_portVars => Framing'
<1>. SUFFICES ASSUME PortInv, Framing, [PortsNext]_portVars PROVE Framing'
  OBVIOUS
<1>1. ASSUME UNCHANGED <<pipe, buffer, overlapped_buffer, written, lines>> PROVE Framing'
  BY <1>1, MovedFraming DEF Stream
<1>2. CASE Writer
  BY <1>1, <1>2, WriteFraming DEF Writer, CloseStdin, windows, reading
<1>3. CASE UnixStep
  <2>1. CASE EndDispatch
    BY <1>1, <1>3, <2>1, OverflowFraming DEF UnixStep, EndDispatch, windows, reading
  <2>. QED
    BY <1>3, <2>1, ReadFraming, DispatchFraming DEF UnixStep, windows, reading
<1>4. CASE WindowsStep
  <2>1. CASE Flush
    BY <1>1, <2>1, RoutinesFraming DEF Flush, reading
  <2>2. CASE StartReadCommand
    BY <1>1, <2>2 DEF StartReadCommand
  <2>3. CASE SleepEx
    BY <2>3, RoutinesFraming DEF SleepEx
  <2>4. CASE ReadCommandsWindows
    BY <1>1, <2>4 DEF ReadCommandsWindows, windows, reading
  <2>5. CASE DispatchWindows
    BY <2>5, DispatchFraming DEF DispatchWindows, reading
  <2>6. CASE EndDispatchWindows
    BY <1>1, <2>6, OverflowFraming DEF EndDispatchWindows, windows, reading
  <2>. QED
    BY <1>4, <2>1, <2>2, <2>3, <2>4, <2>5, <2>6 DEF WindowsStep
<1>5. CASE (\E p \in probes : ProbeEnds(p)) \/ UNCHANGED portVars
  BY <1>1, <1>5 DEF ProbeEnds, portVars, vars, windows, reading
<1>. QED
  BY <1>2, <1>3, <1>4, <1>5, ReadEndsFraming DEF PortsNext

(* However the pipe cuts the lines up, and on Windows the overlapped read    *)
(* too, the commands dispatched are the lines written, in their order, each  *)
(* once and whole if it fits the buffer (dispatch_buffer_commands).          *)
THEOREM CommandsAreLines == PortsSpec => []CommandsAreTheLines
BY InitPort, NextPort, InitFraming, NextFraming, FramingIsLines, PTL DEF PortsSpec
============================================================================
