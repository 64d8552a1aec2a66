---------------------------- MODULE WindowsPort ----------------------------
(***************************************************************************)
(* mtr-packet on Windows (command_cygwin.c, wait_cygwin.c, probe_cygwin.c) *)
(* beside the Unix port, over the same framing of commands                 *)
(* (CommandBuffer).  Input is read by overlapped I/O, and probes are sent  *)
(* by ICMP.DLL: the system completes both in the background and queues a   *)
(* call of a completion routine, which runs while the program is in an     *)
(* alertable wait.  SleepEx in wait_for_activity is one; writing the       *)
(* replies may be another: the comment in wait_cygwin.c tells of one       *)
(* elsewhere in the loop.                                                  *)
(***************************************************************************)
EXTENDS CommandBuffer

CONSTANTS
    Ports,              \* of "unix" and "windows"
    WaitsElsewhere,     \* an alertable wait may come about while replies are written
    MaxProbes           \* MAX_PROBES

ASSUME PortsAssumption ==
    /\ Ports \subseteq {"unix", "windows"} /\ WaitsElsewhere \in BOOLEAN
    /\ MaxProbes \in Nat

VARIABLES
    port,               \* which of them this is
    pipe_open,          \* the command buffer's own idea of the pipe
    read_active,        \* a read has been started and its routine has not run
    space,              \* what that read may bring
    routine,            \* its completion routine: none, or queued with data or broken
    overlapped_buffer,  \* what it brought
    wake,               \* an empty call has been queued
    probes,             \* commands whose probe is with ICMP.DLL
    completed,          \* those of them whose completion routine is queued
    elsewhere           \* history: routines ran outside of SleepEx

reading == <<pipe_open, read_active, space, routine, overlapped_buffer, wake>>
windows == <<port, reading, probes, completed, elsewhere>>
portVars == <<vars, windows>>

(* The loop of main in the order of its steps; faulty: the read is started   *)
(* before the replies are written.                                           *)
Step_ReadFirst == [again |-> "start", start |-> "flush", flush |-> "asleep"]
Step == [again |-> "flush", flush |-> "start", start |-> "asleep"]

PortsInit ==
    /\ port \in Ports
    /\ pipe = <<>> /\ closed = FALSE
    /\ buffer = <<>> /\ command_pipe_open = TRUE
    /\ pc = IF port = "unix" THEN "read" ELSE Step.again
    /\ written = <<>> /\ lines = <<>> /\ overflows = 0
    /\ pipe_open = TRUE /\ read_active = FALSE /\ space = 0 /\ routine = "none"
    /\ overlapped_buffer = <<>> /\ wake = FALSE
    /\ probes = {} /\ completed = {} /\ elsewhere = FALSE

----------------------------------------------------------------------------
(* The system *)

(* A read ends with what there is by then, or with the pipe.  One that asks  *)
(* for nothing ends at once.                                                 *)
ReadEnds ==
    /\ port = "windows" /\ read_active /\ routine = "none"
    /\ LET n == IF Len(pipe) < space THEN Len(pipe) ELSE space
       IN  \/ /\ n > 0 \/ space = 0
              /\ routine' = "data" /\ overlapped_buffer' = SubSeq(pipe, 1, n)
              /\ pipe' = SubSeq(pipe, n + 1, Len(pipe))
           \/ /\ pipe = <<>> /\ closed /\ space > 0
              /\ routine' = "broken" /\ UNCHANGED <<overlapped_buffer, pipe>>
    /\ UNCHANGED <<closed, buffer, command_pipe_open, pc, written, lines, overflows, port,
                   pipe_open, read_active, space, wake, probes, completed, elsewhere>>

(* A probe is answered, or its time has passed. *)
ProbeEnds(p) ==
    /\ p \in probes \ completed /\ completed' = completed \cup {p}
    /\ UNCHANGED <<vars, port, reading, probes, elsewhere>>

(* finish_read_command, if it is queued, and on_icmp_reply for each probe    *)
(* that has ended: it reports and frees the probe.                           *)
FinishReadCommand ==
    /\ buffer' = IF routine = "data" THEN buffer \o overlapped_buffer ELSE buffer
    /\ read_active' = (read_active /\ routine # "data")
    /\ pipe_open' = (pipe_open /\ routine # "broken")
    /\ routine' = "none" /\ overlapped_buffer' = <<>>
    /\ space' = IF routine = "data" THEN 0 ELSE space

Routines ==
    /\ routine # "none" \/ completed # {} \/ wake
    /\ FinishReadCommand
    /\ probes' = probes \ completed /\ completed' = {} /\ wake' = FALSE

----------------------------------------------------------------------------
(* The program *)

(* fflush; in an alertable wait the queued routines run. *)
Flush ==
    /\ port = "windows" /\ pc = "flush" /\ pc' = Step.flush
    /\ \/ UNCHANGED <<buffer, reading, probes, completed, elsewhere>>
       \/ /\ WaitsElsewhere /\ Routines
          /\ elsewhere' = TRUE
    /\ UNCHANGED <<pipe, closed, command_pipe_open, written, lines, overflows, port>>

(* start_read_command: unless one is active, or the pipe is closed.  A pipe  *)
(* that is found closed now takes an empty call to wake from the sleep.      *)
StartReadCommand ==
    /\ port = "windows" /\ pc = "start" /\ pc' = Step.start
    /\ \/ /\ pipe_open /\ ~read_active /\ (pipe # <<>> \/ ~closed)
          /\ read_active' = TRUE /\ space' = SpaceRemaining
          /\ UNCHANGED <<pipe_open, wake>>
       \/ /\ pipe_open /\ ~read_active /\ pipe = <<>> /\ closed
          /\ pipe_open' = FALSE /\ wake' = TRUE
          /\ UNCHANGED <<read_active, space>>
       \/ /\ ~pipe_open \/ read_active
          /\ UNCHANGED <<pipe_open, read_active, space, wake>>
    /\ UNCHANGED <<pipe, closed, buffer, command_pipe_open, written, lines, overflows, port,
                   routine, overlapped_buffer, probes, completed, elsewhere>>

(* SleepEx returns when routines have run, all that are queued. *)
SleepEx ==
    /\ port = "windows" /\ pc = "asleep" /\ pc' = "read"
    /\ Routines
    /\ UNCHANGED <<pipe, closed, command_pipe_open, written, lines, overflows, port,
                   elsewhere>>

(* read_commands only tells whether the pipe is closed.  (A closed pipe has  *)
(* been read to its end.)                                                    *)
ReadCommandsWindows ==
    /\ port = "windows" /\ pc = "read" /\ pc' = "dispatch"
    /\ command_pipe_open' = (command_pipe_open /\ pipe_open)
    /\ UNCHANGED <<pipe, closed, buffer, written, lines, overflows, windows>>

(* A command is a probe's, which ICMP.DLL takes if there is one to be had;   *)
(* or it is answered at once (invalid argument, no probe left, an error).    *)
(* No command asks for a packet larger than the buffer, which would end the  *)
(* program here (fill_payload).                                              *)
DispatchWindows ==
    /\ port = "windows" /\ DispatchCommand
    /\ \/ Cardinality(probes) < MaxProbes /\ probes' = probes \cup {Len(lines')}
       \/ UNCHANGED probes
    /\ UNCHANGED <<port, reading, completed, elsewhere>>

(* The round ends; the program, when no probe is outstanding. *)
Ends == ~command_pipe_open /\ probes = {}

EndDispatchWindows ==
    /\ port = "windows" /\ pc = "dispatch" /\ NewlinesOf(buffer) = {}
    /\ \/ Full(buffer) /\ buffer' = <<>> /\ overflows' = overflows + 1
       \/ ~Full(buffer) /\ UNCHANGED <<buffer, overflows>>
    /\ pc' = IF Ends THEN "exited" ELSE Step.again
    /\ UNCHANGED <<pipe, closed, command_pipe_open, written, lines, windows>>

----------------------------------------------------------------------------

WindowsStep ==
    \/ Flush \/ StartReadCommand \/ SleepEx
    \/ ReadCommandsWindows \/ DispatchWindows \/ EndDispatchWindows

UnixStep ==
    /\ port = "unix" /\ (ReadCommands \/ DispatchCommand \/ EndDispatch)
    /\ UNCHANGED windows

Writer ==
    /\ (\E byte \in Bytes : Write(byte)) \/ CloseStdin
    /\ UNCHANGED windows

PortsNext ==
    \/ Writer \/ UnixStep \/ WindowsStep
    \/ ReadEnds \/ \E p \in probes : ProbeEnds(p)

(* The loop runs on, reads end when they can, and so do probes.  (A probe is *)
(* numbered by its command, of which there is none after the last byte.)     *)
PortsFairness ==
    /\ WF_portVars(UnixStep) /\ WF_portVars(WindowsStep) /\ WF_portVars(ReadEnds)
    /\ \A p \in 1..MaxBytes : WF_portVars(ProbeEnds(p))

PortsSpec == PortsInit /\ [][PortsNext]_portVars /\ PortsFairness

----------------------------------------------------------------------------
(* Properties *)

(* The program does not go to sleep with its pipe open and no read to wake   *)
(* it, not even if routines have run outside of the sleep (wait_for_activity *)
(* starts the read just before it, for this reason).                         *)
AsleepIsReading ==
    pc = "asleep" /\ pipe_open => read_active

(* Once its writer has closed the pipe, every line written is dispatched,    *)
(* and the program ends: on Windows, if no routine ran outside of the sleep. *)
(* After one that did, the program sleeps on a command it has, or on the end *)
(* of the pipe or of its last probe, until something else wakes it.          *)
EndsInTheEnd ==
    closed ~> (pc = "exited" /\ Len(lines) = LineCount(written)) \/ elsewhere

============================================================================
