--------------------------- MODULE CommandBuffer ---------------------------
(***************************************************************************)
(* How mtr-packet cuts its standard input into commands: read_commands     *)
(* (command_unix.c) fills a buffer of COMMAND_BUFFER_SIZE bytes from the   *)
(* pipe as far as it has room, and dispatch_buffer_commands (command.c)    *)
(* takes complete lines off its front, or throws all of it away when it is *)
(* full and holds none.                                                    *)
(*                                                                         *)
(* A writer puts bytes into the pipe one by one, so that a read may find   *)
(* any part of any number of lines.  What a command does is not told here  *)
(* (ProbeEngine).  Bytes are Newline and Letters; the byte 0, with which   *)
(* no writer of this protocol cuts a line short, is left out.              *)
(***************************************************************************)
EXTENDS Integers, Sequences, FiniteSets

CONSTANTS
    Letters,            \* the bytes of a command
    Newline,            \* the byte which ends one
    BufferSize,         \* COMMAND_BUFFER_SIZE
    MaxBytes            \* bound: bytes written

Bytes == Letters \cup {Newline}
MaxLine == BufferSize - 2     \* what fits with its newline and a final NUL

ASSUME BufferAssumption ==
    /\ Newline \notin Letters
    /\ BufferSize \in Nat /\ BufferSize >= 2
    /\ MaxBytes \in Nat

VARIABLES
    pipe,               \* bytes written and not read
    closed,             \* the writer has closed its end
    buffer,             \* incoming_buffer up to incoming_read_position
    command_pipe_open,  \* main's flag: end of file not read yet
    pc,                 \* the loop of main: read, dispatch, exited
    written,            \* history: all bytes written
    lines,              \* history: commands dispatched
    overflows           \* history: `command-buffer-overflow' lines printed

vars == <<pipe, closed, buffer, command_pipe_open, pc, written, lines, overflows>>

Init ==
    /\ pipe = <<>> /\ closed = FALSE
    /\ buffer = <<>> /\ command_pipe_open = TRUE /\ pc = "read"
    /\ written = <<>> /\ lines = <<>> /\ overflows = 0

Write(byte) ==
    /\ ~closed /\ Len(written) < MaxBytes
    /\ pipe' = Append(pipe, byte) /\ written' = Append(written, byte)
    /\ UNCHANGED <<closed, buffer, command_pipe_open, pc, lines, overflows>>

CloseStdin ==
    /\ ~closed /\ closed' = TRUE
    /\ UNCHANGED <<pipe, buffer, command_pipe_open, pc, written, lines, overflows>>

----------------------------------------------------------------------------
(* read_commands *)

(* Room but for the terminating NUL. *)
SpaceRemaining == BufferSize - Len(buffer) - 1

(* read() moves what there is and there is room for. *)
ReadCount == IF Len(pipe) < SpaceRemaining THEN Len(pipe) ELSE SpaceRemaining

(* read() returns 0 at end of file, and when it is asked for nothing. *)
ReturnsZero == SpaceRemaining = 0 \/ (pipe = <<>> /\ closed)

ReadCommands ==
    /\ pc = "read" /\ pc' = "dispatch"
    /\ IF command_pipe_open /\ ReturnsZero
         THEN command_pipe_open' = FALSE /\ UNCHANGED <<pipe, buffer>>
         ELSE /\ buffer' = buffer \o SubSeq(pipe, 1, ReadCount)
              /\ pipe' = SubSeq(pipe, ReadCount + 1, Len(pipe))
              /\ UNCHANGED command_pipe_open
    /\ UNCHANGED <<closed, written, lines, overflows>>

----------------------------------------------------------------------------
(* dispatch_buffer_commands *)

NewlinesOf(bytes) == {i \in DOMAIN bytes : bytes[i] = Newline}

(* index(buffer, '\n'); faulty: the last newline, as by rindex. *)
EndOfCommand_Last(bytes) ==
    CHOOSE i \in NewlinesOf(bytes) : \A j \in NewlinesOf(bytes) : j <= i
EndOfCommand(bytes) ==
    CHOOSE i \in NewlinesOf(bytes) : \A j \in NewlinesOf(bytes) : i <= j

(* A complete command leaves the front of the buffer. *)
DispatchCommand ==
    /\ pc = "dispatch" /\ NewlinesOf(buffer) # {}
    /\ LET end == EndOfCommand(buffer)
       IN  /\ lines' = Append(lines, SubSeq(buffer, 1, end - 1))
           /\ buffer' = SubSeq(buffer, end + 1, Len(buffer))
    /\ UNCHANGED <<pipe, closed, command_pipe_open, pc, written, overflows>>

(* The buffer can take no more; faulty: a byte late, or a byte early. *)
Full_Late(bytes)  == Len(bytes) >= BufferSize
Full_Early(bytes) == Len(bytes) >= BufferSize - 2
Full(bytes)       == Len(bytes) >= BufferSize - 1

(* No complete command is left: the round ends, in the end the program does. *)
EndDispatch ==
    /\ pc = "dispatch" /\ NewlinesOf(buffer) = {}
    /\ \/ Full(buffer) /\ buffer' = <<>> /\ overflows' = overflows + 1
       \/ ~Full(buffer) /\ UNCHANGED <<buffer, overflows>>
    /\ pc' = IF command_pipe_open THEN "read" ELSE "exited"
    /\ UNCHANGED <<pipe, closed, command_pipe_open, written, lines>>

Next ==
    \/ \E byte \in Bytes : Write(byte)
    \/ CloseStdin
    \/ ReadCommands \/ DispatchCommand \/ EndDispatch

(* The loop runs on: select returns when there is something to read. *)
Fairness == WF_vars(ReadCommands \/ DispatchCommand \/ EndDispatch)

Spec == Init /\ [][Next]_vars /\ Fairness

----------------------------------------------------------------------------
(* What the writer meant *)

(* The place of the k-th newline; the zeroth is before the first byte. *)
EndOfLine(bytes, k) ==
    IF k = 0 THEN 0
    ELSE CHOOSE i \in NewlinesOf(bytes) :
           Cardinality({j \in NewlinesOf(bytes) : j < i}) = k - 1

LineCount(bytes) == Cardinality(NewlinesOf(bytes))

Line(bytes, k) == SubSeq(bytes, EndOfLine(bytes, k - 1) + 1, EndOfLine(bytes, k) - 1)

EndsWith(bytes, tail) ==
    /\ Len(tail) <= Len(bytes)
    /\ tail = SubSeq(bytes, Len(bytes) - Len(tail) + 1, Len(bytes))

----------------------------------------------------------------------------
(* Properties *)

(* Every variable holds values of its type, and the read position stays     *)
(* below the buffer's last byte, which the terminating NUL needs             *)
(* (the assertion of dispatch_buffer_commands).                              *)
TypeOK ==
    /\ pipe \in Seq(Bytes) /\ closed \in BOOLEAN
    /\ buffer \in Seq(Bytes) /\ Len(buffer) < BufferSize
    /\ command_pipe_open \in BOOLEAN /\ pc \in {"read", "dispatch", "exited"}
    /\ written \in Seq(Bytes) /\ lines \in Seq(Seq(Letters)) /\ overflows \in Nat

(* However the pipe cuts the lines up, the commands dispatched are the lines *)
(* written, in their order, each once and whole when it fits the buffer.     *)
(* One that does not fit is a command cut from the end of its line, and      *)
(* takes nothing from its neighbours.                                        *)
CommandsAreTheLines ==
    /\ Len(lines) <= LineCount(written)
    /\ \A k \in 1..Len(lines) :
         LET meant == Line(written, k)
         IN  /\ EndsWith(meant, lines[k])
             /\ Len(meant) <= MaxLine => lines[k] = meant

(* The program takes its input for closed only when it is, and has been read *)
(* to its end: a full buffer asks read() for no bytes at all and would get    *)
(* the same 0 for an answer, so it is emptied first.                          *)
NoFalseEof == ~command_pipe_open => closed /\ pipe = <<>>

(* Once its writer has closed the pipe, every line written is dispatched.    *)
EveryLineDispatched == closed ~> Len(lines) = LineCount(written)

============================================================================
