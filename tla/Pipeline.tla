------------------------------ MODULE Pipeline ------------------------------
(***************************************************************************)
(* One HlsPipeline (src/hls/pipeline.rs) on the native transcoder          *)
(* (crates/transcoder/src/native.rs): the transcoder task reads the        *)
(* device's HTTP stream and sends AAC frames into a bounded mpsc channel,  *)
(* the mux task receives them, cuts segments and adds them to the store,   *)
(* and stop() shuts both down over two oneshot signals and two joins.      *)
(*                                                                         *)
(* A frame is its number: pts = number * step.  The bytes of chunks,       *)
(* frames and segments are left out; an HTTP chunk is the number of frames *)
(* it makes the transcoder emit.                                           *)
(***************************************************************************)
EXTENDS Integers, Sequences, Segmenter, SegmentStore

CONSTANTS
    ChannelCap,   \* mpsc::channel(64)
    MinSegments,  \* --min-segments: a playlist is served from here on
    MaxChunk,     \* bound: frames one chunk of the stream can yield
    MaxFrames     \* bound: frames the device delivers in a behaviour

ASSUME PipelineAssumption ==
    /\ ChannelCap \in Nat \ {0}
    /\ MinSegments \in Nat
    /\ MaxChunk \in Nat \ {0}
    /\ MaxFrames \in Nat

VARIABLES
    owner,       \* the holder of the HlsPipeline: "absent" before start(),
                 \* "running", "joining" inside stop(), "stopped" after it
    transcoder,  \* transcoder task: "none", "connecting" (request sent),
                 \* "selecting" (at select!), "sending" (in tx.send().await)
                 \* or "finished"
    batch,       \* frames of the current chunk that are not sent yet
    produced,    \* frames sent so far (pts_counter over its step)
    channel,     \* contents of the mpsc channel, oldest first
    muxer,       \* mux task: "none", "selecting", "publishing" (awaits the
                 \* store's lock), "flushing", "joining" or "done"
    mux,         \* the TsMuxer
    completed,   \* the segment being published
    store,       \* the SegmentStore
    signalled,   \* stop()'s signal to the mux task has been sent
    halted,      \* the mux task's signal to the transcoder has been sent
    listing      \* the segments of the last playlist a listener was given

vars == <<owner, transcoder, batch, produced, channel, muxer, mux, completed,
          store, signalled, halted, listing>>

NoData == [first |-> 0, frames |-> 0]

Init ==
    /\ owner = "absent" /\ transcoder = "none" /\ muxer = "none"
    /\ batch = 0 /\ produced = 0 /\ channel = << >>
    /\ mux = NewMuxer /\ completed = NoData /\ store = EmptyStore
    /\ signalled = FALSE /\ halted = FALSE
    /\ listing = {}

(* HlsPipeline::start: nothing in it can fail, both tasks are spawned.     *)
Start ==
    /\ owner = "absent"
    /\ owner' = "running" /\ transcoder' = "connecting" /\ muxer' = "selecting"
    /\ UNCHANGED <<batch, produced, channel, mux, completed, store, signalled,
                   halted, listing>>

-----------------------------------------------------------------------------
(* The transcoder task.                                                    *)

(* client.get(..).send().await: no select! surrounds it, so a shutdown is  *)
(* not seen before the device answers.                                     *)
Connect ==
    /\ transcoder = "connecting"
    /\ transcoder' = "selecting"
    /\ UNCHANGED <<owner, batch, produced, channel, muxer, mux, completed,
                   store, signalled, halted, listing>>

ConnectFails ==
    /\ transcoder = "connecting"
    /\ transcoder' = "finished"
    /\ UNCHANGED <<owner, batch, produced, channel, muxer, mux, completed,
                   store, signalled, halted, listing>>

(* A chunk arrives and decodes to n frames; a chunk without a whole frame  *)
(* changes nothing here.                                                   *)
ReadChunk(n) ==
    /\ transcoder = "selecting"
    /\ produced + n <= MaxFrames
    /\ transcoder' = "sending" /\ batch' = n
    /\ UNCHANGED <<owner, produced, channel, muxer, mux, completed, store,
                   signalled, halted, listing>>

(* Mutant: the loop over a chunk's frames runs once too often.             *)
SendFrameOverruns ==
    /\ transcoder = "sending" /\ Len(channel) < ChannelCap
    /\ channel' = Append(channel, produced)
    /\ produced' = produced + 1
    /\ batch' = batch - 1
    /\ transcoder' = IF batch = 0 THEN "selecting" ELSE "sending"
    /\ UNCHANGED <<owner, muxer, mux, completed, store, signalled, halted,
                   listing>>

(* Mutant: the channel is unbounded, sending never waits.                  *)
SendFrameUnbounded ==
    /\ transcoder = "sending"
    /\ channel' = Append(channel, produced)
    /\ produced' = produced + 1
    /\ batch' = batch - 1
    /\ transcoder' = IF batch = 1 THEN "selecting" ELSE "sending"
    /\ UNCHANGED <<owner, muxer, mux, completed, store, signalled, halted,
                   listing>>

(* tx.send(frame).await waits for room and sees no shutdown meanwhile.  It *)
(* could fail only if the receiver were gone, but the mux task keeps it    *)
(* until the transcoder has finished (TunerFreeWhenDone).                  *)
SendFrame ==
    /\ transcoder = "sending" /\ Len(channel) < ChannelCap
    /\ channel' = Append(channel, produced)
    /\ produced' = produced + 1
    /\ batch' = batch - 1
    /\ transcoder' = IF batch = 1 THEN "selecting" ELSE "sending"
    /\ UNCHANGED <<owner, muxer, mux, completed, store, signalled, halted,
                   listing>>

(* next_chunk gives None: the device closed the stream or an error on it.  *)
StreamEnds ==
    /\ transcoder = "selecting"
    /\ transcoder' = "finished"
    /\ UNCHANGED <<owner, batch, produced, channel, muxer, mux, completed,
                   store, signalled, halted, listing>>

(* The transcoder's select! takes its shutdown branch.                     *)
TranscoderSeesShutdown ==
    /\ transcoder = "selecting" /\ halted
    /\ transcoder' = "finished"
    /\ UNCHANGED <<owner, batch, produced, channel, muxer, mux, completed,
                   store, signalled, halted, listing>>

-----------------------------------------------------------------------------
(* The mux task.                                                           *)

(* Mutant: the frame on which the segment is cut is not written.           *)
RecvFrameDropsCut ==
    /\ muxer = "selecting" /\ channel # << >>
    /\ channel' = Tail(channel)
    /\ IF Cuts(mux, Head(channel))
       THEN /\ mux' = BeginSegment(Head(channel))
            /\ muxer' = "publishing" /\ completed' = FinishSegment(mux)
       ELSE /\ mux' = PushFrame(mux, Head(channel))
            /\ UNCHANGED <<muxer, completed>>
    /\ UNCHANGED <<owner, transcoder, batch, produced, store, signalled,
                   halted, listing>>

(* handle.frames.recv() yields a frame and push_frame takes it.            *)
RecvFrame ==
    /\ muxer = "selecting" /\ channel # << >>
    /\ channel' = Tail(channel)
    /\ mux' = PushFrame(mux, Head(channel))
    /\ IF Cuts(mux, Head(channel))
       THEN muxer' = "publishing" /\ completed' = FinishSegment(mux)
       ELSE UNCHANGED <<muxer, completed>>
    /\ UNCHANGED <<owner, transcoder, batch, produced, store, signalled,
                   halted, listing>>

Publish ==
    /\ muxer = "publishing"
    /\ store' = Add(store, completed)
    /\ muxer' = "selecting" /\ completed' = NoData
    /\ UNCHANGED <<owner, transcoder, batch, produced, channel, mux, signalled,
                   halted, listing>>

(* Mutant: the end of the stream is ignored instead of leaving the loop.   *)
RecvEndLoops ==
    /\ muxer = "selecting" /\ channel = << >> /\ transcoder = "finished"
    /\ UNCHANGED vars

(* recv() gives None once the channel is empty and the sender is dropped.  *)
RecvEnd ==
    /\ muxer = "selecting" /\ channel = << >> /\ transcoder = "finished"
    /\ muxer' = "flushing"
    /\ UNCHANGED <<owner, transcoder, batch, produced, channel, mux, completed,
                   store, signalled, halted, listing>>

(* The mux task's select! takes its shutdown branch, frames or no frames.  *)
MuxSeesShutdown ==
    /\ muxer = "selecting" /\ signalled
    /\ muxer' = "flushing"
    /\ UNCHANGED <<owner, transcoder, batch, produced, channel, mux, completed,
                   store, signalled, halted, listing>>

(* Mutant: the open segment is dropped instead of flushed.                 *)
FlushForgets ==
    /\ muxer = "flushing"
    /\ halted' = TRUE /\ muxer' = "joining"
    /\ UNCHANGED <<owner, transcoder, batch, produced, channel, mux, completed,
                   store, signalled, listing>>

(* Mutant: handle.stop() joins the transcoder without signalling it.       *)
FlushNoSignal ==
    /\ muxer = "flushing"
    /\ store' = IF Flushes(mux) THEN Add(store, FinishSegment(mux)) ELSE store
    /\ muxer' = "joining"
    /\ UNCHANGED <<owner, transcoder, batch, produced, channel, mux, completed,
                   signalled, halted, listing>>

(* muxer.flush(), then handle.stop() signals the transcoder and joins it.  *)
Flush ==
    /\ muxer = "flushing"
    /\ store' = IF Flushes(mux) THEN Add(store, FinishSegment(mux)) ELSE store
    /\ halted' = TRUE /\ muxer' = "joining"
    /\ UNCHANGED <<owner, transcoder, batch, produced, channel, mux, completed,
                   signalled, listing>>

(* Mutant: handle.stop() signals the transcoder and does not join it.      *)
JoinWithoutWaiting ==
    /\ muxer = "joining"
    /\ muxer' = "done"
    /\ UNCHANGED <<owner, transcoder, batch, produced, channel, mux, completed,
                   store, signalled, halted, listing>>

(* The join returns, the task ends and drops the receiver.                 *)
JoinTranscoder ==
    /\ muxer = "joining" /\ transcoder = "finished"
    /\ muxer' = "done"
    /\ UNCHANGED <<owner, transcoder, batch, produced, channel, mux, completed,
                   store, signalled, halted, listing>>

-----------------------------------------------------------------------------
(* The owner and a listener.                                               *)

RequestStop ==
    /\ owner = "running"
    /\ owner' = "joining" /\ signalled' = TRUE
    /\ UNCHANGED <<transcoder, batch, produced, channel, muxer, mux, completed,
                   store, halted, listing>>

StopReturns ==
    /\ owner = "joining" /\ muxer = "done"
    /\ owner' = "stopped"
    /\ UNCHANGED <<transcoder, batch, produced, channel, muxer, mux, completed,
                   store, signalled, halted, listing>>

(* serve_playlist reads the store and finds enough segments in it.         *)
ServePlaylist ==
    /\ owner # "absent"
    /\ Count(store) >= MinSegments
    /\ listing' = {Playlist(store, MinSegments)[i] : i \in 1..Count(store)}
    /\ UNCHANGED <<owner, transcoder, batch, produced, channel, muxer, mux,
                   completed, store, signalled, halted>>

-----------------------------------------------------------------------------

Transcoder ==
    \/ Connect \/ ConnectFails
    \/ \E n \in 1..MaxChunk : ReadChunk(n)
    \/ SendFrame \/ StreamEnds \/ TranscoderSeesShutdown

MuxTask ==
    \/ RecvFrame \/ Publish \/ RecvEnd \/ MuxSeesShutdown \/ Flush
    \/ JoinTranscoder

Next ==
    \/ Start \/ RequestStop \/ StopReturns \/ ServePlaylist
    \/ Transcoder
    \/ MuxTask

Spec == Init /\ [][Next]_vars

(* The runtime polls a task that is ready, so each step of the two tasks   *)
(* and of stop() is weakly fair.  select! polls its branches in random     *)
(* order, so a shutdown branch that is ready again and again is taken:     *)
(* strong fairness.  Nothing is assumed of the device.                     *)
Fairness ==
    /\ WF_vars(SendFrame) /\ SF_vars(TranscoderSeesShutdown)
    /\ WF_vars(RecvFrame) /\ WF_vars(Publish) /\ WF_vars(RecvEnd)
    /\ SF_vars(MuxSeesShutdown) /\ WF_vars(Flush) /\ WF_vars(JoinTranscoder)
    /\ WF_vars(StopReturns)

FairSpec == Spec /\ Fairness

(* In addition the device accepts or refuses every connection.             *)
AnsweringSpec == FairSpec /\ WF_vars(Connect \/ ConnectFails)

-----------------------------------------------------------------------------
(* Invariants.                                                             *)

TypeOK ==
    /\ owner \in {"absent", "running", "joining", "stopped"}
    /\ transcoder \in {"none", "connecting", "selecting", "sending", "finished"}
    /\ muxer \in {"none", "selecting", "publishing", "flushing", "joining", "done"}
    /\ batch \in Nat /\ produced \in Nat
    /\ channel \in Seq(Nat)
    /\ mux \in MuxState /\ completed \in SegmentData
    /\ store \in Store
    /\ signalled \in BOOLEAN /\ halted \in BOOLEAN
    /\ listing \in SUBSET Segment

(* Frames the mux task has received.                                       *)
Taken == produced - Len(channel)

(* The frame that follows the last published one.                          *)
PublishedEnd ==
    IF store.segments = << >> THEN 0
    ELSE LET last == store.segments[Count(store)] IN last.first + last.frames

(* The first received frame that no published segment holds.               *)
PendingStart ==
    CASE muxer = "publishing" -> completed.first
      [] muxer \in {"joining", "done"} -> Taken
      [] OTHER -> mux.first

(* The audio of a pipeline has no gap, no repetition and no reordering:    *)
(* the published segments follow on from each other, then comes the        *)
(* segment being published, the open one, and the channel; and nothing     *)
(* the mux task received is missing once it has flushed.                   *)
Gapless ==
    /\ \A i \in 1..(Count(store) - 1) :
          LET a == store.segments[i]  b == store.segments[i + 1]
          IN  b.seq = a.seq + 1 /\ b.first = a.first + a.frames
    /\ PublishedEnd = PendingStart
    /\ muxer = "publishing" => completed.first + completed.frames = mux.first
    /\ mux.first + mux.count = Taken
    /\ \A i \in 1..Len(channel) : channel[i] = Taken + i - 1

(* When the device ends the stream and nobody asked for a stop, the mux    *)
(* task ends with every produced frame in a segment: the tail is not lost. *)
TailPublished ==
    muxer = "done" /\ ~signalled => PublishedEnd = produced

(* The store is the newest part of the numbering: no more than MaxSegments *)
(* segments, the last one just below next_seq, and none missing unless     *)
(* MaxSegments newer ones are there ("30 segments are kept").              *)
StoreWindow ==
    /\ Count(store) <= MaxSegments
    /\ Count(store) < MaxSegments => Count(store) = store.next_seq
    /\ \A i \in 1..Count(store) :
          store.segments[i].seq = store.next_seq - Count(store) + i - 1

(* A listener's playlist stays good: each segment it lists is answered     *)
(* with the audio it had when it was listed, or MaxSegments newer segments *)
(* have pushed it out.                                                     *)
ListingHonoured ==
    \A e \in listing :
        Get(store, e.seq) = IF store.next_seq - e.seq > MaxSegments
                            THEN {} ELSE {e}

(* Every segment but the one flushed at the end lasts SegFrames frames.    *)
FullSegments ==
    \A i \in 1..Count(store) :
        \/ store.segments[i].frames = IF SegFrames = 0 THEN 1 ELSE SegFrames
        \/ i = Count(store) /\ muxer \in {"joining", "done"}

(* What the mux task takes in it hands on: without gap, in full segments,  *)
(* and to the end of the stream.                                           *)
AudioKept == Gapless /\ TailPublished /\ FullSegments

(* The ring buffer keeps what it should, and what it told of.              *)
BufferKept == StoreWindow /\ ListingHonoured

(* stop() has returned, or the mux task ended by itself, only when the     *)
(* transcoder is over: the tuner is free and the receiver outlived the     *)
(* sender.                                                                 *)
TunerFreeWhenDone ==
    (owner = "stopped" \/ muxer = "done") => transcoder = "finished"

-----------------------------------------------------------------------------
(* Action and liveness properties.                                         *)

(* Once a playlist can be served it can be served for ever after: eviction *)
(* never takes the store below the minimum again.                          *)
StaysServable ==
    [][Count(store) >= MinSegments => Count(store)' >= MinSegments]_vars

(* The mux task waits for the transcoder and no longer receives, while the *)
(* transcoder waits for room in the channel.                               *)
ChannelWedge ==
    muxer = "joining" /\ transcoder = "sending" /\ Len(channel) = ChannelCap

(* No step ever leads out of a wedge.                                      *)
WedgeIsForever == [][ChannelWedge => ChannelWedge']_vars

(* stop() returns, unless the device leaves the connection request         *)
(* unanswered or the two tasks wedge: there is no third way to hang.       *)
StopReturnsUnlessStuck ==
    (owner = "joining") ~>
        (owner = "stopped" \/ transcoder = "connecting" \/ ChannelWedge)

(* A stream that ends by itself is drained and flushed and the mux task    *)
(* ends, with nobody calling stop().                                       *)
EndedStreamDrains == (transcoder = "finished") ~> (muxer = "done")

(* What the README promises: a pipeline that is told to stop does stop.    *)
StopAlwaysReturns == (owner = "joining") ~> (owner = "stopped")

-----------------------------------------------------------------------------
(* The pipeline keeps the promise of PipelineLife.                         *)

Life == INSTANCE PipelineLife WITH
            tuner <- IF transcoder \in {"none", "finished"} THEN "free" ELSE "held",
            published <- store.next_seq

ImplementsLife == Life!Spec
=============================================================================
