--------------------------- MODULE ProfileSession ---------------------------
(***************************************************************************)
(* Profiling a running server: ServingServer._start_profile and            *)
(* _stop_profile, AsyncLLMEngine's fan-out to the cores, the command and   *)
(* its acknowledgement between a core and its worker, and the recorders,   *)
(* each of which appends to a file of its own                              *)
(* (src/pypto_serving/tools/profile/recorder.py).  A file that is removed  *)
(* while a recorder has it open goes on existing for that recorder only.   *)
(***************************************************************************)
EXTENDS Integers, Sequences, FiniteSets

CONSTANTS
  Core,         \* engine cores; each has a worker process of the same name
  MaxOps,       \* requests to /start_profile and /stop_profile
  MaxTimeouts,  \* acknowledgements that come after their timeout
  RecorderFailures, \* commands, TRUE or FALSE, on which a worker's recorder may raise
  None

Main == "main"
Process == Core \cup {Main}

ASSUME CoreAssumption == IsFiniteSet(Core) /\ Main \notin Core
ASSUME RecorderFailuresAssumption == RecorderFailures \subseteq BOOLEAN
ASSUME ProfileNoneAssumption ==
  /\ None \notin BOOLEAN /\ None \notin {"start", "stop"}
  /\ None \notin [session : Nat, linked : BOOLEAN]

VARIABLES
  ops,       \* requests answered so far
  op,        \* what _profile_lock's holder does: kind, phase, what failed
  wanted,    \* core -> the command it waits for, or None
  commands,  \* core -> input queue, profile commands only
  acks,      \* core -> _profile_output_queue: the state acknowledged, None with an error
  session,   \* number of the recording the main process started last
  handle,    \* process -> its open file: None, or [session, linked]
  file,      \* process -> session whose events were flushed to its fragment, or 0
  trace,     \* what the last merge found: process -> session
  late,      \* timeouts so far
  answers    \* outcome of the last request: kind, ok

pvars == <<ops, op, wanted, commands, acks, session, handle, file, trace, late, answers>>

Idle == [kind |-> None, phase |-> "idle", failed |-> FALSE, mainStarted |-> FALSE]

PInit ==
  /\ ops = 0
  /\ op = Idle
  /\ wanted = [c \in Core |-> None]
  /\ commands = [c \in Core |-> <<>>]
  /\ acks = [c \in Core |-> <<>>]
  /\ session = 0
  /\ handle = [p \in Process |-> None]
  /\ file = [p \in Process |-> 0]
  /\ trace = [p \in Process |-> 0]
  /\ late = 0
  /\ answers = [kind |-> None, ok |-> TRUE]

Active(p) == handle[p] # None

(***************************************************************************)
(* Recorder                                                                *)
(***************************************************************************)
(* _prepare_run removes every fragment; open handles keep theirs. *)
Unlinked(h) ==
  [p \in Process |-> IF h[p] = None THEN None ELSE [h[p] EXCEPT !.linked = FALSE]]

(* Opening appends to the fragment, or creates it. *)
Opened(h, p, n) == [h EXCEPT ![p] = [session |-> n, linked |-> TRUE]]

(* ProfileRecorder.stop flushes: the events are in the fragment, unless it *)
(* was removed meanwhile.                                                  *)
Flushed(f, h, p) == IF h[p] # None /\ h[p].linked THEN [f EXCEPT ![p] = h[p].session] ELSE f

(***************************************************************************)
(* Server.  A start and a stop never overlap: both hold _profile_lock.     *)
(***************************************************************************)
Ask(active) ==
  /\ commands' = [c \in Core |-> Append(commands[c], active)]
  /\ wanted' = [c \in Core |-> active]

(* start_sa_profile in the main process, then the commands to all cores. *)
StartProfile ==
  /\ op.phase = "idle" /\ ops < MaxOps
  /\ IF Active(Main)
     THEN /\ op' = [kind |-> "start", phase |-> "fan", failed |-> FALSE, mainStarted |-> FALSE]
          /\ UNCHANGED <<session, handle, file, trace>>
     ELSE /\ op' = [kind |-> "start", phase |-> "fan", failed |-> FALSE, mainStarted |-> TRUE]
          /\ session' = session + 1
          /\ handle' = Opened(Unlinked(handle), Main, session + 1)
          /\ file' = [p \in Process |-> 0]
          /\ trace' = [p \in Process |-> 0]
  /\ Ask(TRUE)
  /\ ops' = ops + 1
  /\ UNCHANGED <<acks, late, answers>>

StopProfile ==
  /\ op.phase = "idle" /\ ops < MaxOps
  /\ op' = [kind |-> "stop", phase |-> "fan", failed |-> FALSE, mainStarted |-> FALSE]
  /\ Ask(FALSE)
  /\ ops' = ops + 1
  /\ UNCHANGED <<acks, session, handle, file, trace, late, answers>>

(* A core that takes any acknowledgement for its own. *)
AckAcceptedAny(c) == TRUE

(* A core takes the oldest acknowledgement; one with an error, or another  *)
(* state than the one it asked for, fails the request.                     *)
AckAccepted(c) == Head(acks[c]) = wanted[c]

ReceiveAck(c) ==
  /\ wanted[c] # None
  /\ acks[c] # <<>>
  /\ op' = [op EXCEPT !.failed = @ \/ ~AckAccepted(c)]
  /\ acks' = [acks EXCEPT ![c] = Tail(@)]
  /\ wanted' = [wanted EXCEPT ![c] = None]
  /\ UNCHANGED <<ops, commands, session, handle, file, trace, late, answers>>

AckTimeout(c) ==
  /\ wanted[c] # None
  /\ acks[c] = <<>>
  /\ late < MaxTimeouts
  /\ late' = late + 1
  /\ op' = [op EXCEPT !.failed = TRUE]
  /\ wanted' = [wanted EXCEPT ![c] = None]
  /\ UNCHANGED <<ops, commands, acks, session, handle, file, trace, answers>>

Gathered == \A c \in Core : wanted[c] = None

(* All cores started, or one failed and all are told to stop again. *)
StartGathered ==
  /\ op.kind = "start" /\ op.phase = "fan" /\ Gathered
  /\ IF op.failed
     THEN op' = [op EXCEPT !.phase = "undo"] /\ Ask(FALSE) /\ UNCHANGED answers
     ELSE op' = Idle /\ answers' = [kind |-> "start", ok |-> TRUE] /\ UNCHANGED <<commands, wanted>>
  /\ UNCHANGED <<ops, acks, session, handle, file, trace, late>>

CloseMain == [handle EXCEPT ![Main] = None]

(* The errors of that second round are dropped; the main recorder is       *)
(* stopped if this request had started it, and the request fails.          *)
StartUndone ==
  /\ op.kind = "start" /\ op.phase = "undo" /\ Gathered
  /\ op' = Idle
  /\ answers' = [kind |-> "start", ok |-> FALSE]
  /\ IF op.mainStarted
     THEN handle' = CloseMain /\ file' = Flushed(file, handle, Main)
     ELSE UNCHANGED <<handle, file>>
  /\ UNCHANGED <<ops, wanted, commands, acks, session, trace, late>>

(* The merge reads every fragment there is and replaces the trace file. *)
MergeFragments(f) == f

(* A merge before the main recorder is flushed. *)
StopGatheredMergeFirst ==
  /\ op.kind = "stop" /\ op.phase = "fan" /\ Gathered
  /\ op' = Idle
  /\ answers' = [kind |-> "stop", ok |-> ~op.failed]
  /\ handle' = CloseMain
  /\ file' = Flushed(file, handle, Main)
  /\ trace' = MergeFragments(file)
  /\ UNCHANGED <<ops, wanted, commands, acks, session, late>>

(* The main recorder stops and the fragments are merged, whether or not    *)
(* the workers stopped.                                                    *)
StopGathered ==
  /\ op.kind = "stop" /\ op.phase = "fan" /\ Gathered
  /\ op' = Idle
  /\ answers' = [kind |-> "stop", ok |-> ~op.failed]
  /\ handle' = CloseMain
  /\ file' = Flushed(file, handle, Main)
  /\ trace' = MergeFragments(Flushed(file, handle, Main))
  /\ UNCHANGED <<ops, wanted, commands, acks, session, late>>

(* A worker that says nothing when the recorder already is as it should. *)
HandleProfileSilently(c) ==
  /\ commands[c] # <<>>
  /\ commands' = [commands EXCEPT ![c] = Tail(@)]
  /\ IF Head(commands[c])
     THEN /\ handle' = IF Active(c) THEN handle ELSE Opened(handle, c, session)
          /\ UNCHANGED file
     ELSE /\ handle' = [handle EXCEPT ![c] = None]
          /\ file' = Flushed(file, handle, c)
  /\ acks' = IF Active(c) = Head(commands[c]) THEN acks
             ELSE [acks EXCEPT ![c] = Append(@, Head(commands[c]))]
  /\ UNCHANGED <<ops, op, wanted, session, trace, late, answers>>

(* The recorder is opened or closed, or already is as it should be. *)
RecorderObeys(c) ==
  /\ IF Head(commands[c])
     THEN /\ handle' = IF Active(c) THEN handle ELSE Opened(handle, c, session)
          /\ UNCHANGED file
     ELSE /\ handle' = [handle EXCEPT ![c] = None]
          /\ file' = Flushed(file, handle, c)
  /\ acks' = [acks EXCEPT ![c] = Append(@, Head(commands[c]))]

(* It cannot open or flush its file, or is not configured in this process: *)
(* it stays as it is.                                                      *)
RecorderRaises(c) ==
  /\ Head(commands[c]) \in RecorderFailures
  /\ Head(commands[c]) # Active(c)
  /\ acks' = [acks EXCEPT ![c] = Append(@, None)]
  /\ UNCHANGED <<handle, file>>

(* _handle_profile_command: every command is acknowledged, with the state  *)
(* it left or with the error.                                              *)
HandleProfileCommand(c) ==
  /\ commands[c] # <<>>
  /\ commands' = [commands EXCEPT ![c] = Tail(@)]
  /\ RecorderObeys(c) \/ RecorderRaises(c)
  /\ UNCHANGED <<ops, op, wanted, session, trace, late, answers>>

PNext ==
  \/ StartProfile \/ StopProfile \/ StartGathered \/ StartUndone \/ StopGathered
  \/ \E c \in Core : ReceiveAck(c) \/ AckTimeout(c) \/ HandleProfileCommand(c)

Coordinate == StartGathered \/ StartUndone \/ StopGathered

PFairness ==
  /\ WF_pvars(Coordinate)
  /\ \A c \in Core : WF_pvars(ReceiveAck(c)) /\ WF_pvars(HandleProfileCommand(c))

-----------------------------------------------------------------------------
(* A start that is answered with 200 has every process record into a file  *)
(* that the merge will see, also when acknowledgements of earlier requests *)
(* are still queued.                                                       *)
StartedMeansRecording ==
  answers.kind = "start" /\ answers.ok /\ op.phase = "idle" =>
    \A p \in Process : Active(p) /\ handle[p].linked

(* A stop that is answered with 200 after such a start merged the events   *)
(* of every process that was recording, all of the same session.           *)
StopMergesSession ==
  [][answers' # answers /\ answers'.kind = "stop" /\ answers'.ok
       /\ answers.kind = "start" /\ answers.ok =>
     \A p \in Process : trace'[p] = session]_pvars

(* Every request is answered. *)
ProfileAnswered == op.phase # "idle" ~> op.phase = "idle"

(***************************************************************************)
(* Why StartedMeansRecording and StopMergesSession hold while at most one  *)
(* acknowledgement was late and no worker fails to stop: the inductive     *)
(* invariant of their proof.                                               *)
(***************************************************************************)
Ack == BOOLEAN \cup {None}

(* The commands of a core that it has not had an answer to, oldest first,  *)
(* and the answers that are there.                                         *)
Outstanding(c) == acks[c] \o commands[c]

(* A command, or what a worker answers to it. *)
Answers(active) == IF active THEN {TRUE, None} ELSE {FALSE}

Recording == [session |-> session, linked |-> TRUE]
AnsweredStart == answers.kind = "start" /\ answers.ok
Starting == op.kind = "start" /\ op.phase = "fan"
Undoing == op.kind = "start" /\ op.phase = "undo"
Stopping == op.kind = "stop" /\ op.phase = "fan"

OpState == [kind : {None, "start", "stop"}, phase : {"idle", "fan", "undo"},
            failed : BOOLEAN, mainStarted : BOOLEAN]

ProfileTypes ==
  /\ op \in OpState
  /\ wanted \in [Core -> Ack]
  /\ commands \in [Core -> Seq(BOOLEAN)]
  /\ acks \in [Core -> Seq(Ack)]
  /\ session \in Nat /\ late \in Nat
  /\ handle \in [Process -> {None} \cup [session : Nat, linked : BOOLEAN]]
  /\ file \in [Process -> Nat]
  /\ answers \in [kind : {None, "start", "stop"}, ok : BOOLEAN]
  /\ op.phase = "idle" \/ Starting \/ Stopping \/ Undoing
  /\ op.phase = "idle" => Gathered

(* No answer was late: only a start fails, and only one that began a new   *)
(* recording; a core's queues hold the command it waits for, or the answer *)
(* to it, and nothing else; and the recorders are all in the last session  *)
(* or all closed, but for the workers that the round has yet to reach, and *)
(* those that could not start.                                             *)
FailuresInStep ==
  /\ op.failed => op.mainStarted /\ (Starting \/ Undoing)
  /\ Undoing => op.failed
  /\ \A c \in Core : acks[c] = <<None>> => op.mainStarted
QueuesInStep ==
  \A c \in Core :
    /\ wanted[c] = None => Outstanding(c) = <<>>
    /\ wanted[c] # None =>
         wanted[c] = Starting /\ \E a \in Answers(Starting) : Outstanding(c) = <<a>>
RecordersInStep ==
  /\ \A p \in Process : handle[p] \in {None, Recording}
  /\ op.phase = "idle" => \A c \in Core : handle[c] = handle[Main]
  /\ Starting =>
       /\ Active(Main)
       /\ \A c \in Core :
            /\ ~op.mainStarted => Active(c)
            /\ commands[c] = <<>> => Active(c) \/ op.failed \/ acks[c] = <<None>>
  /\ Undoing => \A c \in Core : commands[c] = <<>> => ~Active(c)
  /\ Stopping => \A c \in Core :
       IF commands[c] = <<>> THEN ~Active(c) /\ (Active(Main) => file[c] = session)
       ELSE handle[c] = handle[Main]
  /\ AnsweredStart => Active(Main)
InStep ==
  /\ FailuresInStep
  /\ QueuesInStep
  /\ RecordersInStep

(* One was: its core is a command behind for good, and takes for the       *)
(* answer to a start the one to the stop before it, so no start succeeds.  *)
Behind ==
  /\ AnsweredStart => op.phase # "idle" /\ op.failed
  /\ \E c \in Core :
       IF wanted[c] = None
       THEN (\E a \in Answers(Starting) : Outstanding(c) = <<a>>) /\ (Starting => op.failed)
       ELSE /\ wanted[c] = Starting
            /\ \E a \in Answers(Undoing), b \in Answers(Starting) : Outstanding(c) = <<a, b>>

ProfileInv ==
  /\ ProfileTypes
  /\ late = 0 => InStep
  /\ late = 1 => Behind
=============================================================================
