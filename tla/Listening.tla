----------------------------- MODULE Listening -----------------------------
(***************************************************************************)
(* A listener of one channel over minutes: it asks for the playlist until  *)
(* it gets one (serve_playlist, src/src/web/mod.rs), fetches the segments  *)
(* it lists (serve_segment), its HTTP cache keeping them for as long as    *)
(* their max-age says, pauses and comes back, while the device may end the *)
(* stream and the monitor (src/src/main.rs) removes what is idle.  The     *)
(* interleavings inside a second are those of Sessions and Pipeline; here  *)
(* what happens within a tick takes no time.                               *)
(***************************************************************************)
EXTENDS Integers

CONSTANT
    Settings       \* how the server may be started and a device behave

ASSUME ListeningAssumption ==
    \A s \in Settings :
        /\ {s.grace, s.min, s.age, s.ends} \subseteq Nat
        /\ {s.scan, s.polls, s.seg, s.ring, s.made} \subseteq Nat \ {0}

VARIABLES
    setting,   \* one of Settings
    there,     \* the channel has a pipeline
    live,      \* its device sends
    made,      \* segments it made, next_seq
    part,      \* ticks of the segment it is making
    idle,      \* since last_access, as far as it matters
    nap,       \* until the monitor's next scan
    ends,      \* streams that the device has ended early
    listener,  \* "off", "asks", "waits" in serve_playlist, "plays"
    own,       \* what it waits for or plays is the pipeline there now
    polls,     \* rounds of serve_playlist that found too little
    left,      \* segments in the removed store it still waits for
    next,      \* the segment it fetches next, 0 before the first
    kept,      \* its HTTP cache: segments, of this pipeline or not, and their age
    heard      \* the last segment it got: of another pipeline, and its age

pipeline == <<there, live, made, part, idle>>
player == <<listener, own, polls, left, next, kept, heard>>
events == <<pipeline, nap, ends, player>>
listeningVars == <<setting, events>>

GracePeriod == setting.grace     \* --grace-period
MonitorPeriod == setting.scan    \* between scans (10 s)
MaxPolls == setting.polls        \* rounds of serve_playlist's wait (20)
SegTicks == setting.seg          \* --segment-duration
Needed == setting.min            \* --min-segments
RingSize == setting.ring         \* the ring buffer (30)
MaxAge == setting.age            \* Cache-Control of a segment (3600 s), 0: not cached
MaxEnds == setting.ends          \* bound: streams that the device ends early
MaxMade == setting.made          \* bound: segments after which a stream ends

ListeningInit ==
    /\ setting \in Settings
    /\ there = FALSE /\ live = FALSE /\ made = 0 /\ part = 0 /\ idle = 0
    /\ nap = MonitorPeriod /\ ends = 0
    /\ listener = "off" /\ own = FALSE /\ polls = 0 /\ left = 0 /\ next = 0
    /\ kept = {} /\ heard = [old |-> FALSE, age |-> 0]

-----------------------------------------------------------------------------

(* Mutant: the buffer drops nothing.                                       *)
OldestOfAll == 0

Oldest == IF made > RingSize THEN made - RingSize ELSE 0
Stored == IF own THEN made - Oldest ELSE left
Enough == Stored >= Needed
Offered == Oldest..(made - 1)

(* The channel is chosen, or taken up again.                               *)
Join ==
    /\ listener = "off" /\ listener' = "asks"
    /\ UNCHANGED <<pipeline, nap, ends, own, polls, left, next, kept, heard>>

(* At any time: pause, or another channel.                                 *)
Leave ==
    /\ listener # "off" /\ listener' = "off"
    /\ own' = FALSE /\ polls' = 0 /\ left' = 0 /\ next' = 0
    /\ UNCHANGED <<pipeline, nap, ends, kept, heard>>

(* get_or_create_pipeline: a request for the playlist finds the pipeline   *)
(* or starts one.  It does not touch last_access.                          *)
Ask ==
    /\ listener = "asks"
    /\ listener' = "waits" /\ own' = TRUE /\ polls' = 0 /\ left' = 0
    /\ IF there THEN UNCHANGED pipeline
       ELSE there' = TRUE /\ live' = TRUE /\ made' = 0 /\ part' = 0 /\ idle' = 0
    /\ UNCHANGED <<nap, ends, next, kept, heard>>

(* A round that finds enough: it gets its playlist, and begins with one of *)
(* the segments.                                                           *)
GetPlaylist ==
    /\ listener = "waits" /\ Enough /\ polls < MaxPolls
    /\ listener' = "plays" /\ polls' = 0 /\ left' = 0
    /\ next' \in IF own /\ made > 0 THEN Offered ELSE {0}
    /\ UNCHANGED <<pipeline, nap, ends, own, kept, heard>>

(* After the last round's sleep it is not looked at again: 503, "Stream    *)
(* starting...".                                                           *)
TimeOut ==
    /\ listener = "waits" /\ polls = MaxPolls
    /\ listener' = "asks" /\ own' = FALSE /\ polls' = 0 /\ left' = 0
    /\ UNCHANGED <<pipeline, nap, ends, next, kept, heard>>

(* The playlist it reloads is of another pipeline, or does not list what   *)
(* comes next: it begins again.                                            *)
Lost == listener = "plays" /\ (~own \/ next < Oldest)
Reload ==
    /\ Lost
    /\ listener' = "asks" /\ own' = FALSE
    /\ UNCHANGED <<pipeline, nap, ends, polls, left, next, kept, heard>>

CanFetch == listener = "plays" /\ own /\ next \in Offered
Cached == {k \in kept : k.seq = next}

(* A segment its HTTP cache has is not asked for.                          *)
FetchCached ==
    /\ CanFetch /\ next' = next + 1
    /\ \E k \in Cached : heard' = [old |-> k.old, age |-> k.age]
    /\ UNCHANGED <<pipeline, nap, ends, listener, own, polls, left, kept>>

(* Mutant: a request for a segment does not count as access.               *)
FetchUntouched ==
    /\ CanFetch /\ Cached = {} /\ next' = next + 1
    /\ kept' = IF MaxAge = 0 THEN kept
               ELSE kept \cup {[seq |-> next, old |-> FALSE, age |-> 0]}
    /\ heard' = [old |-> FALSE, age |-> 0]
    /\ UNCHANGED <<pipeline, nap, ends, listener, own, polls, left>>

(* serve_segment, which touches last_access.                               *)
Fetch ==
    /\ CanFetch /\ Cached = {} /\ next' = next + 1
    /\ kept' = IF MaxAge = 0 THEN kept
               ELSE kept \cup {[seq |-> next, old |-> FALSE, age |-> 0]}
    /\ heard' = [old |-> FALSE, age |-> 0]
    /\ idle' = 0
    /\ UNCHANGED <<there, live, made, part, nap, ends, listener, own, polls, left>>

(* It goes back, once, to the segment it heard last, which its HTTP cache  *)
(* no longer has and the channel's next pipeline does not have: 404, but   *)
(* serve_segment has touched last_access before it looks.                  *)
FetchMissing ==
    /\ listener = "waits" /\ there /\ next > 0 /\ next - 1 \notin Offered
    /\ ~\E k \in kept : k.seq = next - 1
    /\ next' = 0 /\ idle' = 0
    /\ UNCHANGED <<there, live, made, part, nap, ends, listener, own, polls, left, kept, heard>>

-----------------------------------------------------------------------------

(* The pipeline stays in the map, with what it has made.                   *)
StreamEnds ==
    /\ live /\ (ends < MaxEnds \/ made = MaxMade)
    /\ live' = FALSE /\ part' = 0
    /\ ends' = IF ends < MaxEnds THEN ends + 1 ELSE ends
    /\ made' = IF part > 0 THEN made + 1 ELSE made
    /\ UNCHANGED <<there, idle, nap, player>>

(* Mutant: who plays what is removed goes on as if it were there.          *)
RemovePipelineUnnoticed ==
    /\ there' = FALSE /\ live' = FALSE /\ made' = 0 /\ part' = 0 /\ idle' = 0
    /\ kept' = {[k EXCEPT !.old = TRUE] : k \in kept}
    /\ UNCHANGED <<own, left>>

(* grace_period_monitor: stop() flushes what the pipeline is making, and   *)
(* whoever waits keeps the store that nobody adds to.                      *)
RemovePipeline ==
    /\ there' = FALSE /\ live' = FALSE /\ made' = 0 /\ part' = 0 /\ idle' = 0
    /\ own' = FALSE
    /\ left' = IF listener = "waits" /\ own
               THEN IF part > 0 /\ Stored < RingSize THEN Stored + 1 ELSE Stored
               ELSE left
    /\ kept' = {[k EXCEPT !.old = TRUE] : k \in kept}

(* Mutant: the monitor removes what would be idle too long at its next     *)
(* scan.                                                                   *)
ScanEager ==
    /\ nap = 0 /\ nap' = MonitorPeriod
    /\ IF there /\ idle + MonitorPeriod > GracePeriod THEN RemovePipeline
       ELSE UNCHANGED <<pipeline, own, left, kept>>
    /\ UNCHANGED <<ends, listener, polls, next, heard>>

(* Mutant: a pipeline whose stream has ended needs no stopping.            *)
ScanLive ==
    /\ nap = 0 /\ nap' = MonitorPeriod
    /\ IF live /\ idle > GracePeriod THEN RemovePipeline
       ELSE UNCHANGED <<pipeline, own, left, kept>>
    /\ UNCHANGED <<ends, listener, polls, next, heard>>

Scan ==
    /\ nap = 0 /\ nap' = MonitorPeriod
    /\ IF there /\ idle > GracePeriod THEN RemovePipeline
       ELSE UNCHANGED <<pipeline, own, left, kept>>
    /\ UNCHANGED <<ends, listener, polls, next, heard>>

(* A second goes by, once all that is due now is done.                     *)
Tick ==
    /\ nap > 0 /\ listener # "asks" /\ ~CanFetch /\ ~Lost
    /\ ~(listener = "waits" /\ (Enough \/ polls = MaxPolls))
    /\ live => made < MaxMade
    /\ nap' = nap - 1
    /\ IF there /\ idle <= GracePeriod + MonitorPeriod
       THEN idle' = idle + 1 ELSE UNCHANGED idle
    /\ IF live
       THEN /\ part' = (part + 1) % SegTicks
            /\ made' = IF part + 1 = SegTicks THEN made + 1 ELSE made
       ELSE UNCHANGED <<made, part>>
    /\ polls' = IF listener = "waits" THEN polls + 1 ELSE polls
    /\ kept' = {[k EXCEPT !.age = @ + 1] : k \in {j \in kept : j.age + 1 < MaxAge}}
    /\ UNCHANGED <<there, live, ends, listener, own, left, next, heard>>

ListeningNext ==
    /\ \/ Join \/ Leave \/ Ask \/ GetPlaylist \/ TimeOut \/ Reload
       \/ FetchCached \/ Fetch \/ FetchMissing \/ StreamEnds \/ Scan \/ Tick
    /\ UNCHANGED setting

ListeningSpec == ListeningInit /\ [][ListeningNext]_listeningVars

(* Time goes by, the monitor runs, and the listener's requests are made    *)
(* and answered.  Nobody has to join, to leave or to ask for what is gone, *)
(* nor a stream to end that is not too long.                               *)
ListeningFairSpec ==
    /\ ListeningSpec
    /\ WF_events(Tick) /\ WF_events(Scan)
    /\ WF_events(made = MaxMade /\ StreamEnds)
    /\ WF_events(Ask) /\ WF_events(GetPlaylist) /\ WF_events(TimeOut)
    /\ WF_events(Reload) /\ WF_events(FetchCached) /\ WF_events(Fetch)

-----------------------------------------------------------------------------
(* Properties.                                                             *)

ListeningTypeOK ==
    /\ setting \in Settings
    /\ {there, live, own} \subseteq BOOLEAN /\ (live => there)
    /\ made \in 0..(MaxMade + 1) /\ part \in 0..(SegTicks - 1) /\ idle \in Nat
    /\ nap \in 0..MonitorPeriod /\ ends \in 0..MaxEnds
    /\ listener \in {"off", "asks", "waits", "plays"} /\ (own => there)
    /\ polls \in 0..MaxPolls /\ left \in 0..RingSize /\ next \in Nat
    /\ kept \subseteq [seq : 0..MaxMade, old : BOOLEAN, age : 0..MaxAge]
    /\ heard \in [old : BOOLEAN, age : 0..MaxAge]

(* The tuner is held no longer than the period between two scans beyond    *)
(* the grace period.                                                       *)
TunerFreed == there => idle <= GracePeriod + MonitorPeriod

(* Audio of an earlier pipeline is heard under its number only by a        *)
(* listener that got it more than the grace period and a second ago.       *)
StaleNeedsPause == heard.old => heard.age > GracePeriod + 1

(* "Pipelines ... stop 30 seconds after the last listener": not while one  *)
(* plays what the pipeline makes, and has all there is, if segments are    *)
(* shorter than the grace period; unless what it heard last was in its     *)
(* cache, so that the server knows nothing of it.                          *)
PlayingListenerKept ==
    there /\ ~there' /\ listener = "plays" /\ own /\ live /\ ~CanFetch =>
        SegTicks > GracePeriod \/ heard.age > 0

(* The first segments can be had: they fit the ring buffer and are made    *)
(* before the grace period of a pipeline that nobody asked segments of is  *)
(* over.                                                                   *)
StartFits == Needed <= RingSize /\ Needed * SegTicks <= GracePeriod

(* Nor is a pipeline removed that a listener waits for, if the start fits. *)
WaitingListenerKept ==
    there /\ ~there' /\ listener = "waits" /\ own /\ live /\ polls > 0 => ~StartFits

(* No step takes a pipeline from under its listener.                       *)
ListenersKept == [][PlayingListenerKept /\ WaitingListenerKept]_listeningVars

(* "The server waits for enough segments before serving the playlist":     *)
(* whoever keeps asking gets one, also when the stream has ended before.   *)
EventuallyServed == listener = "waits" /\ StartFits ~> listener \in {"plays", "off"}

(* Nobody gets a playlist of a server that waits for more segments than it *)
(* keeps.                                                                  *)
NeverServedBeyondRing == listener = "plays" => Needed <= RingSize

(* How long a tuner is held, what is heard of what is gone, and what is    *)
(* never heard.                                                            *)
ListeningBounded == TunerFreed /\ StaleNeedsPause /\ NeverServedBeyondRing

(* A listener does not stay with a pipeline whose stream has ended.        *)
DeadReplaced ==
    there /\ ~live /\ listener = "plays" ~> live \/ listener = "off"

(* A listener gets something to play, from a stream that goes on.          *)
ListenersServed == EventuallyServed /\ DeadReplaced
=============================================================================
