# Verification of radio-bridge

TLA+ models, TLC configurations and TLAPS proofs for radio-bridge, the HDHomeRun to HLS radio
server. Paths below are relative to the repository root.

## The system

radio-bridge is one process on tokio. A request for `/hls/{channel}/live.m3u8` starts a pipeline
for the channel; the pipeline streams the channel from the device, transcodes it and keeps the
last 30 HLS segments in memory; a monitor stops pipelines whose segments nobody fetches.

| Component | State | Operations | Interacts with |
|---|---|---|---|
| HTTP handlers, `src/web/mod.rs` | `AppState.pipelines`, a map under a fair RwLock, of sessions under a lock each | `serve_playlist` / `get_or_create_pipeline`, `serve_segment`, `serve_art`, `serve_logo`, `api_stations`, `api_status` | pipelines, lineup cache, provider |
| Lineup cache, `src/web/mod.rs` | `lineup_cache`: the device's channels and when they were stored | `fetch_lineup` | device, handlers |
| Grace period monitor, `src/main.rs` | `to_remove` | every 10 s: scan under the read lock, removal and `stop()` under the write lock | map, sessions, poller |
| Pipeline, `src/hls/pipeline.rs` | store, `last_access`, artwork, track, a oneshot signal, a task | `start`, `touch_access`, `stop`; the mux task | transcoder handle, muxer, store |
| Native transcoder, `crates/transcoder/src/native.rs`, `lib.rs` | channel of 64 frames, oneshot signal, `ts_buf`, PIDs, PES buffer, PCM buffer, pts counter | task: connect, read a chunk, demultiplex, assemble, decode, encode, send; `stop` | device, mux task |
| ffmpeg backend, `crates/transcoder/src/ffmpeg.rs`, `adts.rs` | a child process and its pipes, a channel, the ADTS parser's buffer | start the child, read and parse, send; `stop` kills | whoever uses the library: the server starts only the native backend |
| TS muxer, `src/hls/muxer.rs` | open segment, its first pts and frame count, four continuity counters, ID3 tag | `set_id3`, `push_frame`, `flush` | mux task |
| ID3 builder, `src/hls/id3_inject.rs` | none | `build_id3v2` | mux task |
| Segment store, `src/hls/segment_store.rs` | deque of segments, `next_seq` | `add`, `get`, `generate_playlist`, counts | mux task, handlers |
| Poller, `src/providers/abc.rs` | `last_title` | every 20 s: two web services, then the artwork and the track cell | pipeline's cells |
| Device discovery, `src/discovery.rs` | threads | `detect_subnets`, `find_hdhomerun` | `main`, before the server starts |

What is hard: all handlers, the monitor, two tasks per pipeline and a poller interleave at every
`await`; futures of handlers vanish when a client disconnects; locks are held across network
requests and joins; two bounded buffers (64 frames, 30 segments) meet shutdown; the device, the
station's services and clients fail or stop answering at any time; the broadcast loses packets
and begins in the middle of one; players cache, pause and come back.

What makes each part correct:

* map and monitor: one tuner per channel, no tuner out of reach, nothing removed but what was
  judged, no deadlock; idle pipelines go, pipelines in use stay;
* pipeline: no audio lost, repeated or reordered; a returned `stop()` means a free tuner; a stream
  that ends is published to its end; playlists stay valid;
* transcoder: damage on air stays where it is, samples and time stamps agree;
* muxer and tags: packets of exactly 188 bytes whose fields agree, self-contained segments,
  continuous counters, true durations, numbers that read back as they were meant;
* poller and lineup: tags come to show what is on air, parts of one tag belong together, names
  come from a lineup of bounded age;
* discovery: the same tuner at every start, and none overlooked.

## Modules

| Module | Models | Role |
|---|---|---|
| `PipelineLife` | what a pipeline promises its owner | abstract specification |
| `Pipeline` | one pipeline: transcoder task, mux task, channel, `stop()`, listener | implements `PipelineLife` (`ImplementsLife`) |
| `SegmentStore`, `Segmenter` | the ring buffer; where the muxer cuts | pure operators, shared by `Pipeline`, `TsMuxer`, `Playlist` |
| `Sessions` | map, handlers, monitor, lock queue, disconnects, time | every session is a `PipelineLife` (`SessionsLive`) |
| `FairRwLock` | tokio's first-come-first-served RwLock (external) | instantiated by `Sessions` |
| `TsDemux` | resynchronisation, PAT and PMT | front of the native transcoder |
| `PesAssembler` | PES from the payloads of a lossy stream | next station |
| `PcmBridge` | decoded packets to AAC frames and their pts | next station |
| `TsMuxer` | packets of the segments | refines the data of `Segmenter`'s segments |
| `TimedMetadata` | ID3 sizes, PES lengths, PTS and PCR fields | what the muxer writes into the packets |
| `Metadata` | poller, two cells, reader | |
| `Lineup` | the lineup cache and the pipelines named by it | |
| `Playlist` | playlists of a whole stream | `SegmentStore` and `Segmenter` over time |
| `Listening` | listener, HTTP cache, monitor, pipeline, by the second | timing of `Sessions` and `Pipeline` together |
| `AdtsParser`, `Ffmpeg` | the other backend: parser; child, pipes, task, channel, `stop()` | |
| `Discovery` | the search for the tuner | |
| `MCSessions`, `MCMetadata` | constants and symmetry for TLC | |
| `MCAudioPath`, `MCLabels`, `MCLifetimes` | several components side by side | one run each, see below |
| `*Proofs` | theorems and their proofs | see [Proofs](#proofs) |

`Sessions` and `Pipeline` are composed through `PipelineLife`: `Pipeline` shows that the two-task
implementation behaves like it, and `Sessions` uses only what it says. `Sessions`' assumption that
a `stop()` returns (`StopsReturn`) is what `Pipeline` cannot promise; `HangingSpec` leaves it out.

`MCAudioPath`, `MCLabels` and `MCLifetimes` check components that share no state in one call of
TLC. Their variable `subject` is chosen in the initial states and says whose steps a behaviour
has; the other components rest in an initial state. A property of a component is thus checked over
exactly the behaviours of its own specification, and in each other behaviour only in one
state. The fairness conditions of a component are those of its module, with the subject as a
further conjunct of the action.

### How the models correspond to the code

*Pipeline.* `owner` is the progress of the code that holds the `HlsPipeline`; `transcoder` and
`muxer` are the await points of the two tasks. A frame is its number (pts is number times a
constant step), an HTTP chunk the number of frames it leads to, a segment its first frame and its
length. `ReadChunk` opens the inner loops of `run`, `SendFrame` is one `tx.send().await` of them;
a `select!` is a choice between the actions of its branches. `RecvFrame` is `set_id3` (without
effect here) and `push_frame`; `Publish` waits for the store's lock; `Flush` is all from the end of
the loop to the join, whose wait is `JoinTranscoder`. Errors of decoder and encoder before a
frame exists are chunks with fewer frames; failing to create the encoder is `StreamEnds`.

*Sessions.* A stretch of a handler between two awaits that may wait long is one action. Locks that
are never held over such an await (store, `last_access`, the session lock for reading) are not
modelled as separate steps; the session lock for writing is held from `MonitorRemove` to
`MonitorStopReturns`, that is while `owner[s] = "joining"`. Sessions are identities reused after
the last `Arc` is gone. Time is counted in ticks; ages are cut off above the grace period, where
they are all alike. `Disconnect` drops a handler's future at any await, with its place in the
lock queue.

*TsDemux.* A packet is five symbols: sync byte, pid, payload. `ReadChunk` appends any number of
symbols, `Resync` and `TakePacket` are the two branches of the inner loop. What `ts_buf` holds is
a stretch of the stream, so that two positions say it all. A table names one pid.

*PesAssembler.* `PushStart` and `PushMore` are the two branches of `push`, for a packet with and
without the start indicator. The environment sends PES of any listed length cut into payloads of
any listed length and loses any of the packets.

*PcmBridge.* `Decode` is all from the decoder's answer to the check of the limit; `EncodeFrame`
and `EncodeNothing` are rounds of the loop that takes chunks. `pts_counter` moves by the truncated
quotient `PtsStep`, as in the code.

*TsMuxer.* `written` is the open segment's packets and the counters. `MuxFrame` is `set_id3` and
`push_frame` of one frame, as the mux task calls them. A packet is the place of its bytes; `PesTurn`
is a turn of the loop of `write_pes_to_ts`, `Put` what it does to segment and counter. The
properties of `Layout` and `Continuous` speak of a packet's place in its segment, so that they can
be reasoned about segment by segment.

*TimedMetadata.* A text is its length. A `u64` that is shifted and masked into bytes is the set of
the positions of its ones; a shift moves the set, a mask intersects it. `FramesFound`, `ReadPts` and
`ReadPcr` read as a receiver does. `SetId3` writes any tag, `WriteAudio` and `WriteMetadata` any
stamp, so that no order of calls is assumed.

*Metadata.* Texts are sequences of words, so that `"{artist} - {title}"` can collide as in the
code. `WriteArt` and `WriteTrack`, and `ReadTrack` and `ReadArt`, are apart because each takes a
lock of its own.

*Lineup.* `Ask`, `DeviceAnswers` and `Store` are the awaits of `fetch_lineup`: for the device, whose
lineup of that moment is the answer, and for the cache's lock. `Hit` and `Fail` return at once.

*Playlist.* `MuxFrame` is `push_frame` and, if a segment is cut, `add`; `Serve` is what
`generate_playlist` writes. A segment is cut by its frames' pts, which advance by the truncated
`PtsStep`, while its `Duration` is computed from the samples: where the step is no whole number of
ticks, as at 44.1 kHz, a segment lasts longer than its pts say.

*Listening.* What takes less than a second takes no time. `Tick` lets a second pass: the muxer's
segment grows, ages grow, a waiting request makes its next round; after the last one's sleep
`TimeOut` answers without another look, and the player asks again at once. `FetchMissing` is the one
request for a segment that is answered with 404: a player that has lost its pipeline goes back to
what it heard last, which touches the next pipeline all the same. A player that asks for such
segments over and over is left out: it would keep a pipeline whose stream has ended from being
removed, and itself from being served (`EventuallyServed`). The server's settings are the
initial value of `setting`, which never changes; a run covers several.

*AdtsParser.* A frame is two sync symbols, one for its length, and a payload; `Push` appends a
chunk and does all that `push` can do with it.

*Ffmpeg.* `child`, `reader` and `owner` are the child, the reading task and the mux task that
owns the handle. The two pipes and the channel have capacities; nobody reads the second pipe, as
in the code. `StopKills` is `kill`, `wait` and the drop of the handle.

*Discovery.* `device` are the addresses that answer in time, `busy` those that may or may not.
`Spawn` is one round of the nested loops, `JoinNext` one of the loop over the handles.
`FoldLeft` over what the sockets and `fib_trie` say is the building of the list.

## Runs

| Run | Checks | Bounds |
|---|---|---|
| `pipeline` | `TypeOK`, `AudioKept`, `BufferKept`, `StaysServable`, `ImplementsLife`, `StopReturnsUnlessStuck`, `EndedStreamDrains` | channel 3, buffer 3, minimum 2, segments of 3 frames, chunks up to 5, 20 frames |
| `pipeline_wedge` | violation of `StopAlwaysReturns` | channel 3, chunks up to 2, 6 frames |
| `sessions` | `TypeOK`, `OneRunningPerChannel`, `SessionsLive` | 1 channel, 2 clients, 3 sessions, all requests |
| `sessions_channels` | `NoTunerLeak`, `VerdictSticks` | 2 channels, 2 clients, 3 sessions |
| `sessions_answered` | `RequestsAnswered`, `IdleReaped` | 1 channel, 2 clients, 2 sessions |
| `sessions_fresh` | violation of `FreshNotRemoved` | 1 channel, 1 client |
| `sessions_independent` | violation of `ChannelsIndependent` | 2 channels, 1 client |
| `metadata_torn` | violation of `TagOfOneSong` | 4 songs, 2 programs, 2 changes, 1 failure |
| `metadata_artwork` | violation of `ArtworkCurrent` | one program |
| `audio_path` | demultiplexer: `PacketsFound`, `AudioFound` | 4 packets of 5 symbols, 2 payloads that look like packets |
| | PES: `DamageContained` | 3 PES of 4 or 5 bytes, payloads of 1 or 3, limit 4 |
| | PCM: `AudioConserved`, `StampsSound` | 10 packets of 18 or 10 samples, frames of 16, two rates, one that divides the clock badly |
| | ADTS: `FramesCutOut` | 24 symbols, 4 payloads |
| | muxer: `PacketsSound`, `SegmentsSound` | packets of 16 bytes, counters of 2 bits, 5 frames |
| | all: `AudioPathTypeOK` | |
| `labels` | poller: `UpdatesInOrder`, `Settles` | as `metadata_torn` |
| | numbers: `FramesFound`, `FieldsTrue` | digits of base 3, lengths below 64; stamps of all bits, none, and each at the border of a group |
| | lineup: `LineupTrue` | 3 lineups, 3 requests, cache age 2, 5 seconds |
| | all: `LabelsTypeOK` | |
| `lifetimes` | playlists: `PlaylistsTrue` | 600 frames of 16 samples, rate and clock as 44.1 kHz to 90 kHz, so that the step is truncated, segments of 2 s, buffer 3 |
| | listener: `ListeningBounded`, `ListenersKept`, `ListenersServed` | four settings, two streams that end early |
| | ffmpeg: `ChildManaged`, `StopEnds`, `AudioFlows` | pipes and channel of 2, 6 frames |
| | search: `FirstFound`, `NoneMissed`, `SearchEnds` | 3 subnets of 2 hosts, 2 tuners, 3 threads |
| | all: `LifetimesTypeOK` | |

Many of these properties are conjunctions of named parts that a module defines one by one:

| Property | Parts |
|---|---|
| `AudioKept` | `Gapless`, `TailPublished`, `FullSegments` |
| `BufferKept` | `StoreWindow`, `ListingHonoured` |
| `OneRunningPerChannel` | `OneTunerPerChannel`, `RegisteredRuns` |
| `PacketsFound`, `AudioFound` | `OnlyCutPacketLost`, `FooledByPayload`; `AudioComplete`, `PidAnnounced` |
| `DamageContained` | `InOrder`, `MixedOnlyIfStartLost`, `DamageIsLocal` |
| `AudioConserved`, `StampsSound` | `NothingCleared`, `SamplesConserved`; `PtsRegular`, `PtsTracksAudio` |
| `FramesCutOut` | `FramesWhole`, `StuckByCut` |
| `PacketsSound`, `SegmentsSound` | `PacketsFit`, `PesWhole`, `Continuous`; `Layout`, `DurationTrue` |
| `UpdatesInOrder` | `MemoTrue`, `ArtNotOlder` |
| `FieldsTrue` | `LengthTrue`, `StampsTrue` |
| `LineupTrue` | `CacheYoung`, `AnswersRecent`, `NameExplained` |
| `PlaylistsTrue` | `TargetCovers`, `TargetKept`, `NumbersHold`, `BufferHoldsItsTime` |
| `ListeningBounded` | `TunerFreed`, `StaleNeedsPause`, `NeverServedBeyondRing` |
| `ListenersKept` | `PlayingListenerKept`, `WaitingListenerKept` |
| `ListenersServed` | `EventuallyServed`, `DeadReplaced` |
| `ChildManaged` | `NothingLost`, `EndDrained`, `TunerFree` |
| `AudioPathTypeOK`, `LabelsTypeOK`, `LifetimesTypeOK` | the type invariants of the components of the run |

Why the bounds are enough. In `pipeline` the channel fills within a chunk, several chunks fit, the
buffer overflows several times, and a segment boundary falls inside and between chunks. Three
sessions are one running, one being stopped and one of which only a request still holds the
`Arc`; two clients race for one channel while the third task, the monitor, removes it; two channels
let it have two verdicts at once. In `audio_path` every position of a cut packet and of a chunk's
end occurs, a sync byte stands at either end of a payload, and one payload is the image of a
packet with a table; of three PES the second has a neighbour on either side, its start and
its end can be lost, and the longest is one byte beyond the limit; PCM packets are longer and
shorter than a frame, so that a chunk ends inside and at the end of one, and the truncated
step is a tick short; a 16-byte transport packet has 12 or 4 bytes for payload, and the PES lengths
give stuffing of none, one and more bytes in a first packet with PCR, in one without and in a last
one; the audio counter wraps. In `labels` two changes are enough for a song to follow a song
between any two steps of poller and reader, the songs share titles and artists, one of them has
artwork late, and a program reads like a song; text lengths carry into the next digit and
beyond the last, and PES lengths lie on both sides of the 16-bit border; the channel is dropped by one
rescan and comes back with the next. In `lifetimes` the buffer has moved on past every
segment it began with; the settings are the defaults on a smaller scale, a server whose segments
stay cached for longer than a pause takes, one whose start takes longer than the grace period,
and one that needs more segments than it keeps; with 3 threads a subnet can be scanned and two
cannot while all threads run.

Deadlock is checked for `Sessions` and in `labels`; a `Pipeline` really ends, and so do the
streams, children and searches of `audio_path` and `lifetimes`.

Fairness. Tasks that can run are polled by the runtime, so their steps are weakly fair. `select!`
polls its branches in random order, so that a shutdown branch that is ready again and again is
taken: strong fairness, for these two actions of `Pipeline` only. The map's lock queues in arrival
order, which is in the model and not assumed. `AnsweringSpec` and `FairSpec` of `Sessions` assume
the device answers requests (not that streams go on); `Metadata` assumes that frames come and
requests time out; the bounds on its changes and failures say that the station's services are left
alone at last. `ListeningFairSpec` lets time pass and has the player ask and fetch, as players do, and a
stream end that has reached its bound; nobody has to join or leave. `FfmpegFairSpec` lets a child that
can write do so and the kernel end a killed one, but never makes a child end by itself.
`DiscoveryFairSpec` is that connections and requests time out, as the code has it.

### What the violations show

1. `pipeline_wedge`: `tx.send().await` in the transcoder sees no shutdown, and the mux task that
   was told to stop joins the transcoder while it keeps the receiver of the full channel: neither
   ends, `stop()` never returns, the tuner stays in use. `StopReturnsUnlessStuck` shows that this
   and an unanswered connection request are the only ways to hang, the theorem `WedgePermanent`
   that there is no way out. It takes 64 queued frames plus one when the signal comes: a burst from the device
   or a mux task that is behind.
2. `sessions_independent`: the monitor awaits `stop()` under the write lock of the map, so the
   first violation stops every channel.
3. `sessions_fresh`: the monitor's verdict is not renewed under the write lock, so a pipeline
   fetched from in between is stopped; `VerdictSticks` shows it is at least the same session.
4. `metadata_torn`: title of one song, artwork of the next in a tag. `ArtNotOlder` shows that it
   never happens the other way round.
5. `metadata_artwork`: artwork that arrives after the title is not shown, since only artist and
   title are compared.

### What conditions in the properties record

Several properties hold under a condition that says where the code stops holding them.

* `TargetCovers` holds for whole seconds: `EXT-X-TARGETDURATION` is the longest duration cut off,
  so that segments of 2.5 s are announced with a target of 2 where HLS asks for 3. A frame and the
  ticks its pts lose must also come to less than half a second (`OvershootsLittle`), as they do for
  segments of up to a quarter of an hour.
* `PlayingListenerKept` excepts a listener whose last segment came from its HTTP cache: segments are
  cacheable for an hour under numbers that begin at 0 again with the channel's next pipeline,
  which sees no request while they last. `StaleNeedsPause` bounds it: only one that was away
  longer than the grace period can hear old audio under a new number.
* `WaitingListenerKept` and `EventuallyServed` ask that the start fits (`StartFits`): only segment
  requests touch `last_access`, so a start longer than the grace period loses its pipeline, and
  more minimum segments than the ring buffer holds are never reached (`NeverServedBeyondRing`).
* `PtsTracksAudio` is about stereo: a chunk is taken for two channels, and a mono source gives half
  the samples, so that it would play in half its time.
* `StuckByCut`: a false sync word whose header makes no sense stops the ADTS parser for good;
  this needs a stream that begins inside a frame.
* `AudioFlows` is about a child that waits to write audio: one that waits to write a warning waits
  for ever once the pipe is full, since nobody reads it.
* `LengthTrue` excepts metadata tags that fill the 16-bit length, where the audio PES would be
  unbounded and the metadata PES is stamped with the length modulo 65536.
* `StampsTrue` is about the lower 33 bits: pts and clock reference wrap together after 26 hours.
* `NoneMissed` excepts more addresses than threads to be had, where `thread::spawn` panics.
* `FooledByPayload` says which streams make the demultiplexer lose more than the cut packet: those
  with a sync byte in a payload at the right distance.
* `Continuous` records an oddity: `write_metadata_pes` restores the counter it read, so the metadata
  stream starts with continuity counter 0 in every segment, while the other streams count on.

## Proofs

Every safety property that a passing run checks is also a theorem, proved for all values of the
constants from the named assumptions on them alone (each module's `...Assumption`, which TLC evaluates
in the runs). The proof modules:

| Module | About | Theorems that state a run's properties |
|---|---|---|
| `BasicProofs` | numbers, sequences, folds, recursive functions, the ring buffer | lemmas for the others |
| `PipelineProofs` | `Pipeline` | `PipelineTypeCorrect`, `PipelineKeepsAudio`, `PipelineKeepsBuffer`, `PlaylistStays`, `PipelineKeepsPromise` |
| `SessionsProofs` | `Sessions` | `TypeCorrect`, `OneRunning`, `TunersReachable`, `VerdictsHold`, `SessionsLiveAsPromised` |
| `TranscoderProofs` | `TsDemux`, `PcmBridge`, `AdtsParser` | `PacketsAreFound`, `AudioIsFound`, `BridgeKeepsAudio`, `BridgeStampsSound`, `FramesAreCutOut` |
| `PesAssemblerProofs` | `PesAssembler` | `DamageStaysContained` |
| `AudioPathProofs` | `TsMuxer`, and `MCAudioPath` | `PacketsAreSound`, `SegmentsAreSound`, `AudioPathTypeCorrect` |
| `LabelsProofs` | `TimedMetadata`, `Lineup`, `Metadata`, and `MCLabels` | `FramesAreFound`, `FieldsAreTrue`, `LineupCorrect`, `UpdatesKeepOrder`, `LabelsTypeCorrect` |
| `LifetimesProofs` | `Playlist`, `Listening`, `Ffmpeg`, `Discovery`, and `MCLifetimes` | `PlaylistsAreTrue`, `TunerIsFreed`, `ListenersAreKept`, `ChildIsManaged`, `SameTunerAtEveryStart`, `NoneIsMissed`, `LifetimesTypeCorrect` |

A theorem about a conjunction combines theorems about its parts, stated one by one. The three
modules that put components side by side show that a step of the whole is a step of one component
and a stutter of the others, and take each component's inductive invariant from there.

The arguments:

* *Sessions.* None of the safety invariants is inductive alone: that a creating request finds the
  channel vacant depends on nobody else having written the map since it looked, so `IndInv` adds who
  holds the lock at which place (`LockExclusive`, `RequestInv`, `MonitorInv`) and which sessions are
  registered, stopping or may have a tuner (`SessionInv`). The lock is dealt with in lemmas of its
  own; each action then needs what it knows at its place.
* *Pipeline.* `PInv` adds the order of the two tasks' ends (`StagesInv`), where each frame between the
  device and the store is (`FramesInv`), the open segment's length and what a listener can have been
  told. `AddResult` describes the ring buffer once for all. Beside the properties of the runs there
  are `TunerFreeWhenDone` (a consequence of `ImplementsLife`, stated directly) and `WedgeIsForever`.
* *TsDemux.* `ts_buf` is the stretch of the stream between two positions. As long as the search was
  not fooled, the position it goes on from is at the beginning of a packet (`AlignInv`), so that the
  packets taken are those that have passed; `KeptInv` and `PatInv` say which of them were handed on,
  and which tables the pids come from.
* *PesAssembler.* The invariant says where the bytes in the buffer come from: an ascending stretch
  that begins with a start, and is whole unless something of it was lost.
* *PcmBridge.* What is needed beyond the properties is that less than a frame is left when the decoder
  is asked again; that the limit is never met then follows from the assumption that a packet fits
  beside a frame. `NeverCleared` and the two equations on samples and stamps are then arithmetic.
* *AdtsParser.* `CutInv` says that what has been consumed ends between two frames or inside the cut
  one, that exactly the frames before it have been handed out, and that none after it is complete.
  A call of `push` is an induction from the end of what was pushed back to where the loop
  begins (`Backwards`), since a turn needs to know what the turns after it hand out.
* *TsMuxer.* A segment is `LaidOut`: which streams its packets belong to, where each PES begins and
  ends, which frames it has. `WritePesIs` is the induction on the loop of `write_pes_to_ts`: after a
  turn, the packets hold the PES up to the offset (`PesSoFar`). `HeadIs` is a segment's beginning,
  `Opened` and `Continued` add a PES of audio. `Chain` says that each segment goes on with the counters
  where the one before stopped and that the muxer's own counters go on from the last; the
  layout then turns a stream's next packet into a place in this segment or the next.
* *TimedMetadata.* Division by the powers of the base is inverted digit by digit (`Quotient`), and
  the bits of a stamp by going through the five groups. That the receiver's walk over a tag's frames
  ends on their boundaries is an induction on their number.
* *Lineup.* `InFlight` dates the answer a request carries, `Dated` the moments themselves.
* *Metadata.* `MemoInv` says for which update the memo stands and which cells have it already,
  `AgeInv` orders the update, the cells and the reader's copy by age; that a song's line differs from
  its title needs the separator (`LineHasSeparator`).
* *Playlist.* Every segment in the store but one cut short by the end of the stream has the same
  number of frames, and number and start of each are tied (segment n begins at n times that number);
  the target is then the same whichever whole segments are listed. That pts fall behind the audio by
  less than a tick a frame (`PtsBehind`) gives the length of a full segment from both sides
  (`FullSeconds`). The number is `SegFrames`, or 1
  for a segment duration of zero, which cuts at every frame (`FullFrames`): a case the bounds of the
  run do not have and the proof asked for.
* *Listening.* Idle time and time to the next scan bound each other (`ScannedInTime`); what the HTTP
  cache has of this pipeline came by a request, what it has of another is older than a removal
  (`KeptInv`); a listener that has heard all there is asked since the last segment began (`HeardInv`),
  and a stream that is waited for is no older than its start takes (`AgeInv`).
* *Ffmpeg.* `ReaderInv` is the key: while somebody receives, the task ends only with the child gone
  and the pipe read to its end.
* *Discovery.* `HandlesInv` says what a returned thread knows of its address, `JoinedInv` that main
  has passed only those that found nothing; nothing is asked of the order in which threads end. That
  no subnet is in the list twice is an invariant of the fold that builds it (`FoldInvariant`).

*Induction.* The installed provers cannot instantiate the library's induction rules, which take an
operator. `BasicProofs` goes around that for numbers: a set of naturals that contains 0 and the
successor of each member is all of `Nat` (`Inductive`, from the well-foundedness of `<`), and a
proof by induction names the set of numbers for which its claim holds. `RecursionExists`,
`FoldExists` and the like then show that the recursive functions of the models and the folds of the
community modules are what their equations say. The models are written for this: a loop is a
recursive function of its turns, and what would need `SelectSeq` is said with sets and quantifiers.

Only model-checked: liveness (`StopReturnsUnlessStuck`, `EndedStreamDrains`, `RequestsAnswered`,
`IdleReaped`, `Settles`, `ListenersServed`, `StopEnds`, `AudioFlows`, `SearchEnds`), which with
fairness and `ENABLED` is outside the prover.

## Not modelled

The audio in a frame, the letters of texts, the CRC of the tables, wording of playlists and HTTP
headers (but `max-age`), logging. The router, the test player, `serve_logo`'s redirect and the station
list change no state. `STATION_MAP` and `LOGO_MAP` are constant tables. Decoder, encoder, device, web
services, players, tokio's locks and the ffmpeg process are external and modelled by what they may do.
Of start-up, reading the arguments and binding the port are left out. Nothing is kept on disk, so
there is no restart to recover from: a new process is a new behaviour.
