------------------------------ MODULE Sessions ------------------------------
(***************************************************************************)
(* The shared map of running pipelines (AppState.pipelines), the HTTP      *)
(* handlers of src/web/mod.rs that use it and the grace_period_monitor of  *)
(* src/main.rs, interleaved at their await points.                         *)
(*                                                                         *)
(* A stretch of a handler that holds only locks which are never held       *)
(* across an await of anything else is one action, taken when the map's    *)
(* lock is granted.  A pipeline is what PipelineLife promises; its session *)
(* lock is taken for writing only by the monitor, around stop().           *)
(***************************************************************************)
EXTENDS Integers, FiniteSets

CONSTANTS
    Channel,        \* channels a request can name
    Client,         \* connections, each with one request at a time
    Session,        \* identities of PipelineSessions, reused once dropped
    Monitor,        \* the grace_period_monitor task
    None,           \* no session, no channel
    GracePeriod,    \* --grace-period, in ticks
    MonitorPeriod,  \* the monitor's sleep (10 s), in ticks
    RequestKind,    \* requests made: "lookup" (playlist), "segment", "art",
                    \* "status"
    MaxPolls,       \* rounds of serve_playlist's wait (20)
    MinSegments,    \* --min-segments
    MaxTouches      \* bound: touch tasks of one session in flight

Task == Client \cup {Monitor}

ASSUME SessionsAssumption ==
    /\ Monitor \notin Client
    /\ None \notin Session /\ None \notin Channel
    /\ GracePeriod \in Nat /\ MonitorPeriod \in Nat /\ MinSegments \in Nat
    /\ RequestKind \subseteq {"lookup", "segment", "art", "status"}
    /\ MaxPolls \in Nat \ {0} /\ MaxTouches \in Nat \ {0}

VARIABLES
    mode, ahead,   \* the lock of AppState.pipelines
    pipelines,     \* pipelines[ch]: the registered session or None
    pc,            \* pc[c]: where the request of c is, "idle" without one
    chan,          \* chan[c]: the channel it names
    sess,          \* sess[c]: the session (Arc) serve_playlist holds
    polls,         \* polls[c]: rounds of its wait so far
    monitor,       \* "sleep", "scanWait", "scan", "sweepWait" or "stopping"
    nap,           \* ticks left of the monitor's sleep
    toCheck,       \* channels the running scan has not looked at
    toRemove,      \* to_remove
    home,          \* home[s]: the channel of session s
    owner,         \* owner[s], tuner[s], published[s]: the pipeline of s as
    tuner,         \* in PipelineLife, published counted up to MinSegments
    published,
    age,           \* age[s]: ticks since last_access, up to GracePeriod + 1
    touches        \* touches[s]: spawned touch_access tasks still to run

lockVars == <<mode, ahead>>
clientVars == <<pc, chan, sess, polls>>
monitorVars == <<monitor, nap, toCheck, toRemove>>
sessionVars == <<home, owner, tuner, published, age, touches>>
vars == <<lockVars, pipelines, clientVars, monitorVars, sessionVars>>

INSTANCE FairRwLock

Init ==
    /\ LockInit
    /\ pipelines = [ch \in Channel |-> None]
    /\ pc = [c \in Client |-> "idle"] /\ chan = [c \in Client |-> None]
    /\ sess = [c \in Client |-> None] /\ polls = [c \in Client |-> 0]
    /\ monitor = "sleep" /\ nap = MonitorPeriod
    /\ toCheck = {} /\ toRemove = {}
    /\ home = [s \in Session |-> None]
    /\ owner = [s \in Session |-> "absent"]
    /\ tuner = [s \in Session |-> "free"]
    /\ published = [s \in Session |-> 0]
    /\ age = [s \in Session |-> 0] /\ touches = [s \in Session |-> 0]

-----------------------------------------------------------------------------
(* Requests.  Every handler starts by asking for the map in read mode.     *)

Request(c, ch, first) ==
    /\ pc[c] = "idle"
    /\ Ask(c, "wantRead")
    /\ pc' = [pc EXCEPT ![c] = first] /\ chan' = [chan EXCEPT ![c] = ch]
    /\ UNCHANGED <<pipelines, sess, polls, monitorVars, sessionVars>>

(* The response is sent, or the connection is gone and the handler's       *)
(* future is dropped: the guards and the Arc it holds go with it.          *)
Finish(c) ==
    /\ pc' = [pc EXCEPT ![c] = "idle"] /\ chan' = [chan EXCEPT ![c] = None]
    /\ sess' = [sess EXCEPT ![c] = None] /\ polls' = [polls EXCEPT ![c] = 0]

Disconnect(c) ==
    /\ pc[c] # "idle"
    /\ Leave(c) /\ Finish(c)
    /\ UNCHANGED <<pipelines, monitorVars, sessionVars>>

(* get_or_create_pipeline returned session s: go and wait for segments.    *)
WaitOn(c, s) ==
    /\ sess' = [sess EXCEPT ![c] = s] /\ pc' = [pc EXCEPT ![c] = "poll"]
    /\ UNCHANGED <<chan, polls>>

(* get_or_create_pipeline: first look, under the read lock.                *)
Lookup(c) ==
    /\ pc[c] = "lookup" /\ CanRead(c)
    /\ IF pipelines[chan[c]] # None
       THEN Leave(c) /\ WaitOn(c, pipelines[chan[c]])
       ELSE /\ Ask(c, "wantWrite")
            /\ pc' = [pc EXCEPT ![c] = "createWait"]
            /\ UNCHANGED <<chan, sess, polls>>
    /\ UNCHANGED <<pipelines, monitorVars, sessionVars>>

(* Mutant: the second look at the map is left out.                         *)
CreateLookupNoRecheck(c) ==
    /\ pc[c] = "createWait" /\ CanWrite(c)
    /\ Become(c, "write")
    /\ pc' = [pc EXCEPT ![c] = "lineup"]
    /\ UNCHANGED <<chan, sess, polls>>
    /\ UNCHANGED <<pipelines, monitorVars, sessionVars>>

(* Second look, under the write lock, which is then kept over the lineup   *)
(* request to the device.                                                  *)
CreateLookup(c) ==
    /\ pc[c] = "createWait" /\ CanWrite(c)
    /\ IF pipelines[chan[c]] # None
       THEN Leave(c) /\ WaitOn(c, pipelines[chan[c]])
       ELSE /\ Become(c, "write")
            /\ pc' = [pc EXCEPT ![c] = "lineup"]
            /\ UNCHANGED <<chan, sess, polls>>
    /\ UNCHANGED <<pipelines, monitorVars, sessionVars>>

(* The identity the next session gets.                                     *)
Fresh == CHOOSE s \in Session : owner[s] = "absent"

(* The lineup is there, from the cache, the device or empty after an       *)
(* error: start the pipeline and register it.  No await lies between, so a *)
(* disconnect cannot separate the two.                                     *)
Create(c) ==
    /\ pc[c] = "lineup"
    /\ \E s \in Session : owner[s] = "absent"
    /\ pipelines' = [pipelines EXCEPT ![chan[c]] = Fresh]
    /\ home' = [home EXCEPT ![Fresh] = chan[c]]
    /\ owner' = [owner EXCEPT ![Fresh] = "running"]
    /\ tuner' = [tuner EXCEPT ![Fresh] = "held"]
    /\ age' = [age EXCEPT ![Fresh] = 0]
    /\ WaitOn(c, Fresh)
    /\ Leave(c)
    /\ UNCHANGED <<published, touches, monitorVars>>

(* serve_playlist, one round of the wait.  The session lock is the         *)
(* monitor's while it stops the session.                                   *)
PollHit(c) ==
    /\ pc[c] = "poll" /\ owner[sess[c]] # "joining"
    /\ published[sess[c]] >= MinSegments
    /\ Finish(c)
    /\ UNCHANGED <<lockVars, pipelines, monitorVars, sessionVars>>

PollMiss(c) ==
    /\ pc[c] = "poll" /\ owner[sess[c]] # "joining"
    /\ published[sess[c]] < MinSegments
    /\ pc' = [pc EXCEPT ![c] = "nap"]
    /\ polls' = [polls EXCEPT ![c] = @ + 1]
    /\ UNCHANGED <<lockVars, pipelines, chan, sess, monitorVars, sessionVars>>

(* The wait is over without enough segments: 503.                          *)
PollTimeout(c) ==
    /\ pc[c] = "expired"
    /\ Finish(c)
    /\ UNCHANGED <<lockVars, pipelines, monitorVars, sessionVars>>

(* serve_segment: spawn a touch of the registered session and answer.      *)
ServeSegment(c) ==
    /\ pc[c] = "segment" /\ CanRead(c)
    /\ LET s == pipelines[chan[c]] IN
       IF s = None THEN UNCHANGED touches
       ELSE /\ touches[s] < MaxTouches
            /\ touches' = [touches EXCEPT ![s] = @ + 1]
    /\ Leave(c) /\ Finish(c)
    /\ UNCHANGED <<pipelines, monitorVars, home, owner, tuner, published, age>>

(* api_status, and serve_art when the session has artwork.                 *)
ServeStatus(c) ==
    /\ pc[c] = "status" /\ CanRead(c)
    /\ Leave(c) /\ Finish(c)
    /\ UNCHANGED <<pipelines, monitorVars, sessionVars>>

ServeArt(c) ==
    /\ pc[c] = "art" /\ CanRead(c)
    /\ pipelines[chan[c]] # None
    /\ Leave(c) /\ Finish(c)
    /\ UNCHANGED <<pipelines, monitorVars, sessionVars>>

(* serve_art without artwork: the read lock is kept over resolve_logo's    *)
(* lineup request.                                                         *)
ArtNeedsLineup(c) ==
    /\ pc[c] = "art" /\ CanRead(c)
    /\ Become(c, "read")
    /\ pc' = [pc EXCEPT ![c] = "artLineup"]
    /\ UNCHANGED <<pipelines, chan, sess, polls, monitorVars, sessionVars>>

ServeLogo(c) ==
    /\ pc[c] = "artLineup"
    /\ Leave(c) /\ Finish(c)
    /\ UNCHANGED <<pipelines, monitorVars, sessionVars>>

-----------------------------------------------------------------------------
(* The grace period monitor.                                               *)

MonitorWake ==
    /\ monitor = "sleep" /\ nap = 0
    /\ Ask(Monitor, "wantRead")
    /\ monitor' = "scanWait"
    /\ UNCHANGED <<pipelines, clientVars, nap, toCheck, toRemove, sessionVars>>

MonitorScan ==
    /\ monitor = "scanWait" /\ CanRead(Monitor)
    /\ Become(Monitor, "read")
    /\ monitor' = "scan"
    /\ toCheck' = {ch \in Channel : pipelines[ch] # None}
    /\ UNCHANGED <<pipelines, clientVars, nap, toRemove, sessionVars>>

(* One entry of the map, with an await for each of its two locks: the      *)
(* entries are judged at different moments.                                *)
MonitorCheck(ch) ==
    /\ monitor = "scan" /\ ch \in toCheck
    /\ toCheck' = toCheck \ {ch}
    /\ toRemove' = IF age[pipelines[ch]] > GracePeriod
                   THEN toRemove \cup {ch} ELSE toRemove
    /\ UNCHANGED <<lockVars, pipelines, clientVars, monitor, nap, sessionVars>>

(* The next channel of to_remove, or back to sleep.                        *)
Sweep(left) ==
    IF left = {}
    THEN Leave(Monitor) /\ monitor' = "sleep" /\ nap' = MonitorPeriod
    ELSE Ask(Monitor, "wantWrite") /\ monitor' = "sweepWait" /\ UNCHANGED nap

(* Mutant: the verdicts of the scan are dropped.                           *)
MonitorScanEndDrops ==
    /\ monitor = "scan" /\ toCheck = {}
    /\ Sweep({}) /\ toRemove' = {}
    /\ UNCHANGED <<pipelines, clientVars, toCheck, sessionVars>>

MonitorScanEnd ==
    /\ monitor = "scan" /\ toCheck = {}
    /\ Sweep(toRemove)
    /\ UNCHANGED <<pipelines, clientVars, toCheck, toRemove, sessionVars>>

(* Mutant: the session stays in the map while it is being stopped.         *)
MonitorRemoveKeeps(ch) ==
    /\ monitor = "sweepWait" /\ CanWrite(Monitor) /\ ch \in toRemove
    /\ Become(Monitor, "write")
    /\ monitor' = "stopping" /\ toRemove' = toRemove \ {ch}
    /\ owner' = [owner EXCEPT ![pipelines[ch]] = "joining"]
    /\ age' = [age EXCEPT ![pipelines[ch]] = 0]
    /\ UNCHANGED <<pipelines, clientVars, nap, toCheck, home, tuner, published,
                   touches>>

(* Take the session out of the map, abort its poller and call stop(), with *)
(* the map's write lock held and without another look at last_access       *)
(* (whose age is of no further interest and kept 0).                       *)
MonitorRemove(ch) ==
    /\ monitor = "sweepWait" /\ CanWrite(Monitor) /\ ch \in toRemove
    /\ Become(Monitor, "write")
    /\ monitor' = "stopping" /\ toRemove' = toRemove \ {ch}
    /\ pipelines' = [pipelines EXCEPT ![ch] = None]
    /\ owner' = [owner EXCEPT ![pipelines[ch]] = "joining"]
    /\ age' = [age EXCEPT ![pipelines[ch]] = 0]
    /\ UNCHANGED <<clientVars, nap, toCheck, home, tuner, published, touches>>

(* Mutant: stop() signals the pipeline and does not wait for it.           *)
MonitorStopNoJoin(s) ==
    /\ monitor = "stopping" /\ owner[s] = "joining"
    /\ owner' = [owner EXCEPT ![s] = "stopped"]
    /\ Sweep(toRemove)
    /\ UNCHANGED <<pipelines, clientVars, toCheck, toRemove, home, tuner,
                   published, age, touches>>

(* stop() returns, both write locks are released.                          *)
MonitorStopReturns(s) ==
    /\ monitor = "stopping" /\ owner[s] = "joining" /\ tuner[s] = "free"
    /\ owner' = [owner EXCEPT ![s] = "stopped"]
    /\ Sweep(toRemove)
    /\ UNCHANGED <<pipelines, clientVars, toCheck, toRemove, home, tuner,
                   published, age, touches>>

-----------------------------------------------------------------------------
(* Pipelines, touch tasks, memory and time.                                *)

Publish(s) ==
    /\ owner[s] \in {"running", "joining"} /\ published[s] < MinSegments
    /\ published' = [published EXCEPT ![s] = @ + 1]
    /\ UNCHANGED <<lockVars, pipelines, clientVars, monitorVars, home, owner,
                   tuner, age, touches>>

(* The device ended the stream, or the transcoder followed the shutdown.   *)
ReleaseTuner(s) ==
    /\ owner[s] \in {"running", "joining"} /\ tuner[s] = "held"
    /\ tuner' = [tuner EXCEPT ![s] = "free"]
    /\ UNCHANGED <<lockVars, pipelines, clientVars, monitorVars, home, owner,
                   published, age, touches>>

(* A task spawned by touch_access writes last_access, whenever it runs.    *)
TouchLands(s) ==
    /\ touches[s] > 0
    /\ touches' = [touches EXCEPT ![s] = @ - 1]
    /\ age' = [age EXCEPT ![s] = 0]
    /\ UNCHANGED <<lockVars, pipelines, clientVars, monitorVars, home, owner,
                   tuner, published>>

(* The last Arc of a stopped session is gone.                              *)
Reclaim(s) ==
    /\ owner[s] = "stopped" /\ touches[s] = 0 /\ \A c \in Client : sess[c] # s
    /\ owner' = [owner EXCEPT ![s] = "absent"]
    /\ home' = [home EXCEPT ![s] = None]
    /\ published' = [published EXCEPT ![s] = 0]
    /\ UNCHANGED <<lockVars, pipelines, clientVars, monitorVars, tuner, age,
                   touches>>

(* Mutant: one round more than the wait has.                               *)
TickOneRoundMore ==
    /\ age' = [s \in Session |->
                  IF owner[s] = "running" /\ age[s] <= GracePeriod
                  THEN age[s] + 1 ELSE age[s]]
    /\ nap' = IF monitor = "sleep" /\ nap > 0 THEN nap - 1 ELSE nap
    /\ pc' = [c \in Client |->
                 IF pc[c] # "nap" THEN pc[c]
                 ELSE IF polls[c] > MaxPolls THEN "expired" ELSE "poll"]
    /\ UNCHANGED <<lockVars, pipelines, chan, sess, polls, monitor, toCheck,
                   toRemove, home, owner, tuner, published, touches>>

(* One tick.  Sleeps last at least their length; the tasks may run late.   *)
Tick ==
    /\ age' = [s \in Session |->
                  IF owner[s] = "running" /\ age[s] <= GracePeriod
                  THEN age[s] + 1 ELSE age[s]]
    /\ nap' = IF monitor = "sleep" /\ nap > 0 THEN nap - 1 ELSE nap
    /\ pc' = [c \in Client |->
                 IF pc[c] # "nap" THEN pc[c]
                 ELSE IF polls[c] = MaxPolls THEN "expired" ELSE "poll"]
    /\ UNCHANGED <<lockVars, pipelines, chan, sess, polls, monitor, toCheck,
                   toRemove, home, owner, tuner, published, touches>>

-----------------------------------------------------------------------------

ClientStep(c) ==
    \/ Lookup(c) \/ CreateLookup(c) \/ Create(c)
    \/ PollHit(c) \/ PollMiss(c) \/ PollTimeout(c)
    \/ ServeSegment(c) \/ ServeStatus(c)
    \/ ServeArt(c) \/ ArtNeedsLineup(c) \/ ServeLogo(c)

MonitorStep ==
    \/ MonitorWake \/ MonitorScan \/ MonitorScanEnd
    \/ \E ch \in Channel : MonitorCheck(ch) \/ MonitorRemove(ch)
    \/ \E s \in Session : MonitorStopReturns(s)

SessionStep(s) == Publish(s) \/ ReleaseTuner(s) \/ TouchLands(s) \/ Reclaim(s)

Next ==
    \/ \E c \in Client :
          \/ \E ch \in Channel, kind \in RequestKind : Request(c, ch, kind)
          \/ ClientStep(c) \/ Disconnect(c)
    \/ MonitorStep
    \/ \E s \in Session : SessionStep(s)
    \/ Tick

Spec == Init /\ [][Next]_vars

(* Every ready task is polled, the timers run and the device answers each  *)
(* lineup request.  Nothing is assumed of clients, of the audio or of the  *)
(* time a stream lasts.                                                    *)
Fairness ==
    /\ \A c \in Client : WF_vars(ClientStep(c))
    /\ WF_vars(MonitorStep) /\ WF_vars(Tick)
    /\ \A s \in Session : WF_vars(TouchLands(s)) /\ WF_vars(Reclaim(s))

(* Every stop() frees its tuner, as Pipeline!StopReturnsUnlessStuck says   *)
(* of all but two situations.                                              *)
StopsReturn ==
    \A s \in Session : WF_vars(owner[s] = "joining" /\ ReleaseTuner(s))

FairSpec == Spec /\ Fairness /\ StopsReturn

(* stop() may hang.                                                        *)
HangingSpec == Spec /\ Fairness

-----------------------------------------------------------------------------
(* Invariants.                                                             *)

TypeOK ==
    /\ LockTypeOK
    /\ pipelines \in [Channel -> Session \cup {None}]
    /\ pc \in [Client -> {"idle", "lookup", "createWait", "lineup", "poll",
                          "nap", "expired", "segment", "status", "art",
                          "artLineup"}]
    /\ chan \in [Client -> Channel \cup {None}]
    /\ sess \in [Client -> Session \cup {None}]
    /\ polls \in [Client -> 0..MaxPolls]
    /\ monitor \in {"sleep", "scanWait", "scan", "sweepWait", "stopping"}
    /\ nap \in 0..MonitorPeriod
    /\ toCheck \in SUBSET Channel /\ toRemove \in SUBSET Channel
    /\ home \in [Session -> Channel \cup {None}]
    /\ owner \in [Session -> {"absent", "running", "joining", "stopped"}]
    /\ tuner \in [Session -> {"free", "held"}]
    /\ published \in [Session -> 0..MinSegments]
    /\ age \in [Session -> 0..(GracePeriod + 1)]
    /\ touches \in [Session -> 0..MaxTouches]

(* Two requests for a channel, or a request and the removal of the         *)
(* channel's pipeline, never make the device tune it twice.                *)
OneTunerPerChannel ==
    \A r, s \in Session :
        tuner[r] = "held" /\ tuner[s] = "held" /\ home[r] = home[s] => r = s

(* A tuner in use belongs to a registered pipeline, which the monitor will *)
(* judge, or to the one it is stopping: no disconnect or race leaves a     *)
(* pipeline running that nothing can stop any more.                        *)
NoTunerLeak ==
    \A s \in Session :
        tuner[s] = "held" =>
            \/ home[s] # None /\ pipelines[home[s]] = s
            \/ owner[s] = "joining" /\ monitor = "stopping"

(* A request that finds a session in the map never gets one of another     *)
(* channel, nor one that is being stopped.                                 *)
RegisteredRuns ==
    \A ch \in Channel :
        pipelines[ch] # None =>
            home[pipelines[ch]] = ch /\ owner[pipelines[ch]] = "running"

(* Both at once: a channel has one tuner, and its pipeline runs.           *)
OneRunningPerChannel == OneTunerPerChannel /\ RegisteredRuns

-----------------------------------------------------------------------------
(* Action and liveness properties.                                         *)

(* The session the monitor removes under the write lock is the one it      *)
(* judged under the read lock: none is replaced in between, and "if let    *)
(* Some(session)" of the removal always finds it.                          *)
VerdictSticks ==
    [][\A ch \in toRemove :
          /\ pipelines[ch] # None
          /\ ch \in toRemove' => pipelines'[ch] = pipelines[ch]]_vars

(* Every request is answered: the handlers, the monitor and the fair lock  *)
(* have no deadlock and starve nobody.                                     *)
RequestsAnswered == \A c \in Client : (pc[c] # "idle") ~> (pc[c] = "idle")

(* A pipeline whose segments nobody fetches any more is removed.           *)
IdleReaped ==
    \A s \in Session : []<>(owner[s] # "running" \/ age[s] = 0)

(* "Seconds to keep pipeline alive after last listener": a pipeline is     *)
(* removed only when its last access is more than the grace period ago.    *)
FreshNotRemoved ==
    [][\A ch \in Channel :
          pipelines[ch] # None /\ pipelines'[ch] = None
              => age[pipelines[ch]] > GracePeriod]_vars

(* "Each channel runs independently": a segment request is answered        *)
(* unless the pipeline of its own channel is being stopped.                *)
ChannelsIndependent ==
    \A c \in Client, ch \in Channel :
        (pc[c] = "segment" /\ chan[c] = ch) ~>
            (\/ pc[c] # "segment"
             \/ \E s \in Session : home[s] = ch /\ owner[s] = "joining")

-----------------------------------------------------------------------------
(* Each session keeps to PipelineLife: for every s, Life(s)!Spec, with the  *)
(* quantifier drawn inside as TLC wants it.                                *)

Life(s) == INSTANCE PipelineLife WITH
               owner <- owner[s], tuner <- tuner[s], published <- published[s]

SessionsLive ==
    /\ \A s \in Session : Life(s)!Init
    /\ [][\A s \in Session :
             Life(s)!Next \/ UNCHANGED <<owner[s], tuner[s], published[s]>>]_vars
=============================================================================
