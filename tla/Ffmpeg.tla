------------------------------- MODULE Ffmpeg -------------------------------
(***************************************************************************)
(* The other transcoder (src/crates/transcoder/src/ffmpeg.rs), a library   *)
(* backend that the server does not start: a child process that writes     *)
(* audio to one pipe and warnings to another, the task that reads the      *)
(* audio, and TranscoderHandle (lib.rs), whose stop() kills the child and  *)
(* does not wait for the task, which this backend does not hand to it.     *)
(***************************************************************************)
EXTENDS Integers

CONSTANTS
    PipeCap,      \* frames, or warnings, that fit into a pipe
    ChannelCap,   \* mpsc::channel(64)
    MaxWritten    \* bound: frames of the child

ASSUME FfmpegAssumption ==
    {PipeCap, ChannelCap} \subseteq Nat \ {0} /\ MaxWritten \in Nat

VARIABLES
    child,          \* "runs", "writes" or "warns" (on its way into a pipe), "gone"
    written,        \* frames it has written
    stdout, stderr, \* what the pipes hold; nobody reads stderr
    reader,         \* the task: "reads", "sends", "ended"
    batch,          \* frames of its last read still to be sent
    queue, open,    \* the channel, and whether its receiver is there
    shutdown,       \* signalled
    owner,          \* the mux task: "receives", "stops", "kills", "done"
    received        \* frames it has got

childVars == <<child, written, stderr>>
readerVars == <<reader, batch>>
ownerVars == <<open, shutdown, owner, received>>
ffmpegVars == <<childVars, stdout, readerVars, queue, ownerVars>>

FfmpegInit ==
    /\ child = "runs" /\ written = 0 /\ stdout = 0 /\ stderr = 0
    /\ reader = "reads" /\ batch = 0 /\ queue = 0 /\ open = TRUE
    /\ shutdown = FALSE /\ owner = "receives" /\ received = 0

-----------------------------------------------------------------------------
(* The child.  A write waits for room.                                     *)

ChildGoes ==
    /\ child = "runs"
    /\ child' \in {"writes", "warns", "gone"}
    /\ child' = "writes" => written < MaxWritten
    /\ UNCHANGED <<written, stdout, stderr, readerVars, queue, ownerVars>>

ChildWrites ==
    /\ child = "writes" /\ stdout < PipeCap
    /\ stdout' = stdout + 1 /\ written' = written + 1 /\ child' = "runs"
    /\ UNCHANGED <<stderr, readerVars, queue, ownerVars>>

ChildWarns ==
    /\ child = "warns" /\ stderr < PipeCap
    /\ stderr' = stderr + 1 /\ child' = "runs"
    /\ UNCHANGED <<written, stdout, readerVars, queue, ownerVars>>

-----------------------------------------------------------------------------
(* The task.                                                               *)

Read ==
    /\ reader = "reads" /\ stdout > 0
    /\ \E n \in 1..stdout : batch' = n /\ stdout' = stdout - n
    /\ reader' = "sends"
    /\ UNCHANGED <<childVars, queue, ownerVars>>

(* Mutant: the end of the child is the end of the task.                    *)
ReadEndsAtOnce ==
    /\ reader = "reads" /\ child = "gone"
    /\ reader' = "ended"
    /\ UNCHANGED <<childVars, stdout, batch, queue, ownerVars>>

(* The pipe is empty and has no writer.                                    *)
ReadEnds ==
    /\ reader = "reads" /\ stdout = 0 /\ child = "gone"
    /\ reader' = "ended"
    /\ UNCHANGED <<childVars, stdout, batch, queue, ownerVars>>

(* Mutant: a full channel drops the frame.                                 *)
SendTries ==
    /\ reader = "sends" /\ open
    /\ queue' = IF queue < ChannelCap THEN queue + 1 ELSE queue
    /\ batch' = batch - 1
    /\ reader' = IF batch = 1 THEN "reads" ELSE "sends"
    /\ UNCHANGED <<childVars, stdout, ownerVars>>

(* Mutant: an unbounded channel.                                           *)
SendUnbounded ==
    /\ reader = "sends" /\ open
    /\ queue' = queue + 1 /\ batch' = batch - 1
    /\ reader' = IF batch = 1 THEN "reads" ELSE "sends"
    /\ UNCHANGED <<childVars, stdout, ownerVars>>

(* Waits for room in the channel, and sees no signal meanwhile.            *)
Send ==
    /\ reader = "sends" /\ open /\ queue < ChannelCap
    /\ queue' = queue + 1 /\ batch' = batch - 1
    /\ reader' = IF batch = 1 THEN "reads" ELSE "sends"
    /\ UNCHANGED <<childVars, stdout, ownerVars>>

SendFails ==
    /\ reader = "sends" /\ ~open
    /\ reader' = "ended" /\ batch' = 0
    /\ UNCHANGED <<childVars, stdout, queue, ownerVars>>

SeesShutdown ==
    /\ reader = "reads" /\ shutdown
    /\ reader' = "ended"
    /\ UNCHANGED <<childVars, stdout, batch, queue, ownerVars>>

-----------------------------------------------------------------------------
(* The mux task, which owns the handle.                                    *)

Receive ==
    /\ owner = "receives" /\ queue > 0
    /\ queue' = queue - 1 /\ received' = received + 1
    /\ UNCHANGED <<childVars, stdout, readerVars, open, shutdown, owner>>

(* The channel is empty and closed, or the pipeline is told to stop.       *)
ReceiveEnds ==
    /\ owner = "receives" /\ queue = 0 /\ reader = "ended"
    /\ owner' = "stops"
    /\ UNCHANGED <<childVars, stdout, readerVars, queue, open, shutdown, received>>

ToldToStop ==
    /\ owner = "receives" /\ owner' = "stops"
    /\ UNCHANGED <<childVars, stdout, readerVars, queue, open, shutdown, received>>

StopSignals ==
    /\ owner = "stops" /\ owner' = "kills" /\ shutdown' = TRUE
    /\ UNCHANGED <<childVars, stdout, readerVars, queue, open, received>>

(* Mutant: stop() waits for the task before it kills the child.            *)
StopKillsLast ==
    /\ owner = "kills" /\ reader = "ended"
    /\ child' = "gone" /\ owner' = "done"
    /\ open' = FALSE /\ queue' = 0
    /\ UNCHANGED <<written, stdout, stderr, readerVars, shutdown, received>>

(* Mutant: stop() leaves the child to the signal.                          *)
StopLeavesChild ==
    /\ owner = "kills" /\ owner' = "done"
    /\ open' = FALSE /\ queue' = 0
    /\ UNCHANGED <<childVars, stdout, readerVars, shutdown, received>>

(* Mutant: the receiver outlives stop().                                   *)
StopKeepsReceiver ==
    /\ owner = "kills"
    /\ child' = "gone" /\ owner' = "done"
    /\ UNCHANGED <<written, stdout, stderr, readerVars, queue, open, shutdown, received>>

(* kill() and wait(); then the handle is dropped, with the receiver.       *)
StopKills ==
    /\ owner = "kills"
    /\ child' = "gone" /\ owner' = "done"
    /\ open' = FALSE /\ queue' = 0
    /\ UNCHANGED <<written, stdout, stderr, readerVars, shutdown, received>>

FfmpegNext ==
    \/ ChildGoes \/ ChildWrites \/ ChildWarns
    \/ Read \/ ReadEnds \/ Send \/ SendFails \/ SeesShutdown
    \/ Receive \/ ReceiveEnds \/ ToldToStop \/ StopSignals \/ StopKills

FfmpegSpec == FfmpegInit /\ [][FfmpegNext]_ffmpegVars

(* Pipes, channel and tasks are served; the child writes if it can.        *)
FfmpegFairSpec ==
    /\ FfmpegSpec
    /\ WF_ffmpegVars(ChildWrites) /\ WF_ffmpegVars(ChildWarns)
    /\ WF_ffmpegVars(Read \/ ReadEnds) /\ WF_ffmpegVars(Send \/ SendFails)
    /\ WF_ffmpegVars(Receive \/ ReceiveEnds) /\ WF_ffmpegVars(StopSignals)
    /\ WF_ffmpegVars(StopKills)

-----------------------------------------------------------------------------
(* Properties.                                                             *)

FfmpegTypeOK ==
    /\ child \in {"runs", "writes", "warns", "gone"} /\ written \in 0..MaxWritten
    /\ stdout \in 0..PipeCap /\ stderr \in 0..PipeCap
    /\ reader \in {"reads", "sends", "ended"} /\ batch \in 0..PipeCap
    /\ (reader = "sends" <=> batch > 0)
    /\ queue \in 0..ChannelCap /\ open \in BOOLEAN /\ shutdown \in BOOLEAN
    /\ owner \in {"receives", "stops", "kills", "done"} /\ received \in 0..MaxWritten

(* No frame is lost between child and muxer while somebody receives.       *)
NothingLost ==
    owner = "receives" => written = stdout + batch + queue + received

(* If the stream ended by itself, the muxer had all of it when it learns   *)
(* of the end.                                                             *)
EndDrained ==
    owner = "receives" /\ queue = 0 /\ reader = "ended" => received = written

(* A stop that returns has freed the tuner: nobody reads from the device.  *)
TunerFree == owner = "done" => child = "gone"

(* What one may rely on of a child process.                                *)
ChildManaged == NothingLost /\ EndDrained /\ TunerFree

(* stop() returns whatever the task waits for, a full channel included,    *)
(* and the task it does not wait for ends all the same.                    *)
StopEnds == owner = "stops" ~> owner = "done" /\ reader = "ended"

(* A child that waits to write audio gets to do so, or is stopped: it      *)
(* never stays blocked but for the warnings nobody reads.                  *)
AudioFlows == child = "writes" ~> child # "writes"
=============================================================================
