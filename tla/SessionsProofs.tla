--------------------------- MODULE SessionsProofs ---------------------------
(***************************************************************************)
(* Proofs about Sessions for every number of channels, clients, sessions   *)
(* and every setting.  The three safety invariants are not inductive: they *)
(* need to know who holds the map's lock in which program location.        *)
(***************************************************************************)
EXTENDS Sessions, TLAPS

(* A writer excludes every other holder of the map's lock.                 *)
LockExclusive ==
    \A t, u \in Task :
        mode[t] = "write" /\ mode[u] \in {"read", "write"} => t = u

(* What a request holds and knows where it is.                             *)
RequestInv ==
    \A c \in Client :
        /\ pc[c] # "idle" => chan[c] \in Channel
        /\ IF pc[c] \in {"poll", "nap", "expired"}
           THEN sess[c] \in Session ELSE polls[c] = 0
        /\ pc[c] = "poll" => polls[c] < MaxPolls
        /\ pc[c] = "lineup" =>
              mode[c] = "write" /\ pipelines[chan[c]] = None

(* The monitor's lock, and its two lists name registered channels.         *)
MonitorInv ==
    /\ monitor = "stopping" => mode[Monitor] = "write"
    /\ monitor = "scan" => mode[Monitor] = "read"
    /\ monitor # "scan" => toCheck = {}
    /\ \A ch \in toCheck \cup toRemove : pipelines[ch] # None

(* Running sessions are the registered ones, at most one session is being  *)
(* stopped and its channel is vacant, and only those two kinds have a      *)
(* tuner.                                                                  *)
SessionInv ==
    /\ \A s \in Session :
          owner[s] = "running" => home[s] \in Channel /\ pipelines[home[s]] = s
    /\ \A s \in Session :
          owner[s] = "joining" =>
              /\ monitor = "stopping"
              /\ home[s] \in Channel /\ pipelines[home[s]] = None
    /\ \A r, s \in Session :
          owner[r] = "joining" /\ owner[s] = "joining" => r = s
    /\ \A s \in Session :
          tuner[s] = "held" => owner[s] \in {"running", "joining"}
    /\ \A s \in Session : owner[s] = "absent" => published[s] = 0

IndInv ==
    TypeOK /\ LockExclusive /\ RequestInv /\ MonitorInv /\ SessionInv
        /\ RegisteredRuns

USE SessionsAssumption DEF Task

Modes == {"none", "wantRead", "wantWrite", "read", "write"}

-----------------------------------------------------------------------------
(* The lock.                                                               *)

LEMMA LockStep ==
    ASSUME LockTypeOK, NEW t \in Task, NEW m \in Modes, Ask(t, m) \/ Become(t, m)
    PROVE  LockTypeOK' /\ mode' = [mode EXCEPT ![t] = m]
BY DEF LockTypeOK, Ask, Become, Waiters, Modes

(* Asking and leaving keep the exclusion, and so does entering when the    *)
(* lock is granted.                                                        *)
LEMMA LockKeepsExclusive ==
    ASSUME LockTypeOK, LockExclusive, NEW t \in Task, NEW m \in Modes,
           Ask(t, m) \/ Become(t, m),
           m = "read" => CanRead(t), m = "write" => CanWrite(t)
    PROVE  LockExclusive'
<1>1. mode' = [mode EXCEPT ![t] = m] /\ mode \in [Task -> Modes]
  BY LockStep DEF LockTypeOK, Modes
<1>2. m = "read" => \A u \in Task : mode[u] # "write"
  BY DEF CanRead
<1>3. m = "write" => \A u \in Task : mode[u] \notin {"read", "write"}
  BY DEF CanWrite
<1> QED BY <1>1, <1>2, <1>3 DEF LockExclusive, Modes

(* Both facts in one.                                                      *)
LEMMA LockMoves ==
    ASSUME LockTypeOK, LockExclusive, NEW t \in Task, NEW m \in Modes,
           Ask(t, m) \/ Become(t, m),
           m = "read" => CanRead(t), m = "write" => CanWrite(t)
    PROVE  LockTypeOK' /\ LockExclusive' /\ mode' = [mode EXCEPT ![t] = m]
BY LockStep, LockKeepsExclusive

LEMMA LockStays ==
    ASSUME LockTypeOK, LockExclusive, UNCHANGED lockVars
    PROVE  LockTypeOK' /\ LockExclusive' /\ mode' = mode
BY DEF LockTypeOK, LockExclusive, lockVars

-----------------------------------------------------------------------------
(* What a step leaves alone.                                               *)

(* A request's step that changes neither map, monitor nor sessions.        *)
LEMMA RequestsOnly ==
    ASSUME IndInv, UNCHANGED <<pipelines, monitorVars, home, owner, tuner, published>>,
           mode'[Monitor] = mode[Monitor]
    PROVE  MonitorInv' /\ SessionInv' /\ RegisteredRuns'
BY DEF IndInv, MonitorInv, SessionInv, RegisteredRuns, monitorVars

(* A step of the monitor or of a session that registers nothing.           *)
LEMMA RequestsStay ==
    ASSUME IndInv, UNCHANGED clientVars,
           \A c \in Client : mode'[c] = mode[c],
           \A ch \in Channel : pipelines'[ch] \in {pipelines[ch], None}
    PROVE  RequestInv'
BY DEF IndInv, RequestInv, clientVars

(* A step of a session.                                                    *)
LEMMA MonitorStays ==
    ASSUME IndInv, UNCHANGED <<lockVars, pipelines, monitorVars>>
    PROVE  MonitorInv'
BY DEF IndInv, MonitorInv, lockVars, monitorVars


-----------------------------------------------------------------------------
(* The initial state, then one lemma per action.                           *)

LEMMA InitInv == Init => IndInv
BY DEF Init, LockInit, IndInv, TypeOK, LockTypeOK, LockExclusive, RequestInv,
       MonitorInv, SessionInv, RegisteredRuns

LEMMA RequestStep ==
    ASSUME IndInv, NEW c \in Client, NEW ch \in Channel, NEW kind \in RequestKind,
           Request(c, ch, kind)
    PROVE  IndInv'
<1>1. /\ LockTypeOK' /\ LockExclusive'
       /\ mode' = [mode EXCEPT ![c] = "wantRead"]
  BY LockMoves DEF IndInv, TypeOK, Modes, Leave, Request
<1>2. TypeOK'
  BY <1>1 DEF IndInv, TypeOK, RequestInv, MonitorInv, monitorVars,
     sessionVars, Request
<1>3. RequestInv'
  BY <1>1 DEF IndInv, TypeOK, LockTypeOK, RequestInv, Request
<1>4. MonitorInv' /\ SessionInv' /\ RegisteredRuns'
  BY <1>1, RequestsOnly DEF IndInv, TypeOK, LockTypeOK, sessionVars,
     Request
<1> QED BY <1>1, <1>2, <1>3, <1>4 DEF IndInv

LEMMA DisconnectStep ==
    ASSUME IndInv, NEW c \in Client, Disconnect(c)
    PROVE  IndInv'
<1>1. /\ LockTypeOK' /\ LockExclusive'
       /\ mode' = [mode EXCEPT ![c] = "none"]
  BY LockMoves DEF IndInv, TypeOK, Modes, Leave, Disconnect, Finish
<1>2. TypeOK'
  BY <1>1 DEF IndInv, TypeOK, RequestInv, MonitorInv, monitorVars,
     sessionVars, Disconnect, Finish
<1>3. RequestInv'
  BY <1>1 DEF IndInv, TypeOK, LockTypeOK, RequestInv, Disconnect, Finish
<1>4. MonitorInv' /\ SessionInv' /\ RegisteredRuns'
  BY <1>1, RequestsOnly DEF IndInv, TypeOK, LockTypeOK, sessionVars,
     Disconnect
<1> QED BY <1>1, <1>2, <1>3, <1>4 DEF IndInv

LEMMA LookupStep ==
    ASSUME IndInv, NEW c \in Client, Lookup(c)
    PROVE  IndInv'
<1>1. /\ LockTypeOK' /\ LockExclusive'
       /\ \/ mode' = [mode EXCEPT ![c] = "none"]
          \/ mode' = [mode EXCEPT ![c] = "wantWrite"]
  BY LockMoves DEF IndInv, TypeOK, Modes, Leave, Lookup, WaitOn
<1>2. TypeOK'
  BY <1>1 DEF IndInv, TypeOK, RequestInv, MonitorInv, monitorVars,
     sessionVars, Lookup, WaitOn
<1>3. RequestInv'
  BY <1>1 DEF IndInv, TypeOK, LockTypeOK, RequestInv, Lookup, WaitOn
<1>4. MonitorInv' /\ SessionInv' /\ RegisteredRuns'
  BY <1>1, RequestsOnly DEF IndInv, TypeOK, LockTypeOK, sessionVars, Lookup
<1> QED BY <1>1, <1>2, <1>3, <1>4 DEF IndInv

LEMMA CreateLookupStep ==
    ASSUME IndInv, NEW c \in Client, CreateLookup(c)
    PROVE  IndInv'
<1>1. /\ LockTypeOK' /\ LockExclusive'
       /\ \/ mode' = [mode EXCEPT ![c] = "none"]
          \/ mode' = [mode EXCEPT ![c] = "write"]
  BY LockMoves DEF IndInv, TypeOK, Modes, Leave, CreateLookup, WaitOn
<1>2. TypeOK'
  BY <1>1 DEF IndInv, TypeOK, RequestInv, MonitorInv, monitorVars,
     sessionVars, CreateLookup, WaitOn
<1>3. RequestInv'
  <2>1. CASE pipelines[chan[c]] # None
    BY <1>1, <2>1 DEF IndInv, TypeOK, LockTypeOK, RequestInv, CreateLookup,
                      WaitOn
  <2>2. CASE pipelines[chan[c]] = None
    <3>1. mode' = [mode EXCEPT ![c] = "write"]
      BY <2>2, LockMoves DEF IndInv, TypeOK, Modes, CreateLookup
    <3> QED BY <2>2, <3>1 DEF IndInv, TypeOK, LockTypeOK, RequestInv,
                              CreateLookup
  <2> QED BY <2>1, <2>2
<1>4. MonitorInv' /\ SessionInv' /\ RegisteredRuns'
  BY <1>1, RequestsOnly DEF IndInv, TypeOK, LockTypeOK, sessionVars,
     CreateLookup
<1> QED BY <1>1, <1>2, <1>3, <1>4 DEF IndInv

LEMMA CreateStep ==
    ASSUME IndInv, NEW c \in Client, Create(c)
    PROVE  IndInv'
<1>1. /\ LockTypeOK' /\ LockExclusive'
       /\ mode' = [mode EXCEPT ![c] = "none"]
  BY LockMoves DEF IndInv, TypeOK, Modes, Leave, Create, WaitOn, Fresh
<1>2. TypeOK'
  BY <1>1 DEF IndInv, TypeOK, RequestInv, MonitorInv, monitorVars,
     sessionVars, Create, WaitOn, Fresh
<1>3. RequestInv'
  BY <1>1 DEF IndInv, TypeOK, LockTypeOK, LockExclusive, RequestInv,
     Create, WaitOn, Fresh
<1>4. MonitorInv'
  BY <1>1 DEF IndInv, TypeOK, LockTypeOK, LockExclusive, RequestInv,
     MonitorInv, monitorVars, Create, WaitOn, Fresh
<1>5. SessionInv'
  BY <1>1 DEF IndInv, TypeOK, LockTypeOK, LockExclusive, RequestInv,
     MonitorInv, SessionInv, RegisteredRuns, monitorVars, sessionVars,
     Create, WaitOn, Fresh
<1>6. RegisteredRuns'
  BY <1>1 DEF IndInv, TypeOK, RequestInv, MonitorInv, SessionInv,
     RegisteredRuns, monitorVars, sessionVars, Create, WaitOn, Fresh
<1> QED BY <1>1, <1>2, <1>3, <1>4, <1>5, <1>6 DEF IndInv

LEMMA ServeSegmentStep ==
    ASSUME IndInv, NEW c \in Client, ServeSegment(c)
    PROVE  IndInv'
<1>1. /\ LockTypeOK' /\ LockExclusive'
       /\ mode' = [mode EXCEPT ![c] = "none"]
  BY LockMoves DEF IndInv, TypeOK, Modes, Leave, ServeSegment, Finish
<1>2. touches' \in [Session -> 0..MaxTouches]
  <2>1. chan[c] \in Channel
    BY DEF IndInv, RequestInv, ServeSegment
  <2> QED BY <2>1 DEF IndInv, TypeOK, ServeSegment
<1>3. TypeOK'
  BY <1>1, <1>2 DEF IndInv, TypeOK, monitorVars, ServeSegment, Finish
<1>4. RequestInv'
  BY <1>1 DEF IndInv, TypeOK, LockTypeOK, RequestInv, ServeSegment, Finish
<1>5. MonitorInv' /\ SessionInv' /\ RegisteredRuns'
  BY <1>1, RequestsOnly DEF IndInv, TypeOK, LockTypeOK, ServeSegment
<1> QED BY <1>1, <1>3, <1>4, <1>5 DEF IndInv

LEMMA PollHitStep ==
    ASSUME IndInv, NEW c \in Client, PollHit(c)
    PROVE  IndInv'
<1>1. LockTypeOK' /\ LockExclusive' /\ mode' = mode
  BY LockStays DEF IndInv, TypeOK, PollHit
<1>2. TypeOK'
  BY <1>1 DEF IndInv, TypeOK, RequestInv, MonitorInv, monitorVars,
     sessionVars, PollHit, Finish
<1>3. RequestInv'
  BY <1>1 DEF IndInv, TypeOK, LockTypeOK, RequestInv, PollHit, Finish
<1>4. MonitorInv' /\ SessionInv' /\ RegisteredRuns'
  BY <1>1, RequestsOnly DEF IndInv, TypeOK, LockTypeOK, sessionVars,
     PollHit
<1> QED BY <1>1, <1>2, <1>3, <1>4 DEF IndInv

LEMMA PollMissStep ==
    ASSUME IndInv, NEW c \in Client, PollMiss(c)
    PROVE  IndInv'
<1>1. LockTypeOK' /\ LockExclusive' /\ mode' = mode
  BY LockStays DEF IndInv, TypeOK, PollMiss
<1>2. TypeOK'
  BY <1>1 DEF IndInv, TypeOK, RequestInv, MonitorInv, monitorVars,
     sessionVars, PollMiss
<1>3. RequestInv'
  BY <1>1 DEF IndInv, TypeOK, LockTypeOK, RequestInv, PollMiss
<1>4. MonitorInv' /\ SessionInv' /\ RegisteredRuns'
  BY <1>1, RequestsOnly DEF IndInv, TypeOK, LockTypeOK, sessionVars,
     PollMiss
<1> QED BY <1>1, <1>2, <1>3, <1>4 DEF IndInv

LEMMA PollTimeoutStep ==
    ASSUME IndInv, NEW c \in Client, PollTimeout(c)
    PROVE  IndInv'
<1>1. LockTypeOK' /\ LockExclusive' /\ mode' = mode
  BY LockStays DEF IndInv, TypeOK, PollTimeout
<1>2. TypeOK'
  BY <1>1 DEF IndInv, TypeOK, RequestInv, MonitorInv, monitorVars,
     sessionVars, PollTimeout, Finish
<1>3. RequestInv'
  BY <1>1 DEF IndInv, TypeOK, LockTypeOK, RequestInv, PollTimeout, Finish
<1>4. MonitorInv' /\ SessionInv' /\ RegisteredRuns'
  BY <1>1, RequestsOnly DEF IndInv, TypeOK, LockTypeOK, sessionVars,
     PollTimeout
<1> QED BY <1>1, <1>2, <1>3, <1>4 DEF IndInv

LEMMA ServeStatusStep ==
    ASSUME IndInv, NEW c \in Client, ServeStatus(c)
    PROVE  IndInv'
<1>1. /\ LockTypeOK' /\ LockExclusive'
       /\ mode' = [mode EXCEPT ![c] = "none"]
  BY LockMoves DEF IndInv, TypeOK, Modes, Leave, ServeStatus, Finish
<1>2. TypeOK'
  BY <1>1 DEF IndInv, TypeOK, RequestInv, MonitorInv, monitorVars,
     sessionVars, ServeStatus, Finish
<1>3. RequestInv'
  BY <1>1 DEF IndInv, TypeOK, LockTypeOK, RequestInv, ServeStatus, Finish
<1>4. MonitorInv' /\ SessionInv' /\ RegisteredRuns'
  BY <1>1, RequestsOnly DEF IndInv, TypeOK, LockTypeOK, sessionVars,
     ServeStatus
<1> QED BY <1>1, <1>2, <1>3, <1>4 DEF IndInv

LEMMA ServeArtStep ==
    ASSUME IndInv, NEW c \in Client, ServeArt(c)
    PROVE  IndInv'
<1>1. /\ LockTypeOK' /\ LockExclusive'
       /\ mode' = [mode EXCEPT ![c] = "none"]
  BY LockMoves DEF IndInv, TypeOK, Modes, Leave, ServeArt, Finish
<1>2. TypeOK'
  BY <1>1 DEF IndInv, TypeOK, RequestInv, MonitorInv, monitorVars,
     sessionVars, ServeArt, Finish
<1>3. RequestInv'
  BY <1>1 DEF IndInv, TypeOK, LockTypeOK, RequestInv, ServeArt, Finish
<1>4. MonitorInv' /\ SessionInv' /\ RegisteredRuns'
  BY <1>1, RequestsOnly DEF IndInv, TypeOK, LockTypeOK, sessionVars,
     ServeArt
<1> QED BY <1>1, <1>2, <1>3, <1>4 DEF IndInv

LEMMA ArtNeedsLineupStep ==
    ASSUME IndInv, NEW c \in Client, ArtNeedsLineup(c)
    PROVE  IndInv'
<1>1. /\ LockTypeOK' /\ LockExclusive'
       /\ mode' = [mode EXCEPT ![c] = "read"]
  BY LockMoves DEF IndInv, TypeOK, Modes, Leave, ArtNeedsLineup
<1>2. TypeOK'
  BY <1>1 DEF IndInv, TypeOK, RequestInv, MonitorInv, monitorVars,
     sessionVars, ArtNeedsLineup
<1>3. RequestInv'
  BY <1>1 DEF IndInv, TypeOK, LockTypeOK, RequestInv, ArtNeedsLineup
<1>4. MonitorInv' /\ SessionInv' /\ RegisteredRuns'
  BY <1>1, RequestsOnly DEF IndInv, TypeOK, LockTypeOK, sessionVars,
     ArtNeedsLineup
<1> QED BY <1>1, <1>2, <1>3, <1>4 DEF IndInv

LEMMA ServeLogoStep ==
    ASSUME IndInv, NEW c \in Client, ServeLogo(c)
    PROVE  IndInv'
<1>1. /\ LockTypeOK' /\ LockExclusive'
       /\ mode' = [mode EXCEPT ![c] = "none"]
  BY LockMoves DEF IndInv, TypeOK, Modes, Leave, ServeLogo, Finish
<1>2. TypeOK'
  BY <1>1 DEF IndInv, TypeOK, RequestInv, MonitorInv, monitorVars,
     sessionVars, ServeLogo, Finish
<1>3. RequestInv'
  BY <1>1 DEF IndInv, TypeOK, LockTypeOK, RequestInv, ServeLogo, Finish
<1>4. MonitorInv' /\ SessionInv' /\ RegisteredRuns'
  BY <1>1, RequestsOnly DEF IndInv, TypeOK, LockTypeOK, sessionVars,
     ServeLogo
<1> QED BY <1>1, <1>2, <1>3, <1>4 DEF IndInv

LEMMA MonitorWakeStep ==
    ASSUME IndInv, MonitorWake
    PROVE  IndInv'
<1>1. /\ LockTypeOK' /\ LockExclusive'
       /\ mode' = [mode EXCEPT ![Monitor] = "wantRead"]
  BY LockMoves DEF IndInv, TypeOK, Modes, Leave, MonitorWake
<1>2. TypeOK'
  BY <1>1 DEF IndInv, TypeOK, RequestInv, MonitorInv, clientVars,
     sessionVars, MonitorWake
<1>3. RequestInv'
  BY <1>1, RequestsStay DEF IndInv, TypeOK, LockTypeOK, MonitorWake
<1>4. MonitorInv'
  BY <1>1 DEF IndInv, TypeOK, LockTypeOK, LockExclusive, RequestInv,
     MonitorInv, monitorVars, MonitorWake
<1>5. SessionInv'
  BY <1>1 DEF IndInv, TypeOK, LockTypeOK, LockExclusive, RequestInv,
     MonitorInv, SessionInv, RegisteredRuns, sessionVars, MonitorWake
<1>6. RegisteredRuns'
  BY <1>1 DEF IndInv, TypeOK, RequestInv, MonitorInv, SessionInv,
     RegisteredRuns, sessionVars, MonitorWake
<1> QED BY <1>1, <1>2, <1>3, <1>4, <1>5, <1>6 DEF IndInv

LEMMA MonitorScanStep ==
    ASSUME IndInv, MonitorScan
    PROVE  IndInv'
<1>1. /\ LockTypeOK' /\ LockExclusive'
       /\ mode' = [mode EXCEPT ![Monitor] = "read"]
  BY LockMoves DEF IndInv, TypeOK, Modes, Leave, MonitorScan
<1>2. TypeOK'
  BY <1>1 DEF IndInv, TypeOK, RequestInv, MonitorInv, clientVars,
     sessionVars, MonitorScan
<1>3. RequestInv'
  BY <1>1, RequestsStay DEF IndInv, TypeOK, LockTypeOK, MonitorScan
<1>4. MonitorInv'
  BY <1>1 DEF IndInv, TypeOK, LockTypeOK, LockExclusive, RequestInv,
     MonitorInv, monitorVars, MonitorScan
<1>5. SessionInv'
  BY <1>1 DEF IndInv, TypeOK, LockTypeOK, LockExclusive, RequestInv,
     MonitorInv, SessionInv, RegisteredRuns, sessionVars, MonitorScan
<1>6. RegisteredRuns'
  BY <1>1 DEF IndInv, TypeOK, RequestInv, MonitorInv, SessionInv,
     RegisteredRuns, sessionVars, MonitorScan
<1> QED BY <1>1, <1>2, <1>3, <1>4, <1>5, <1>6 DEF IndInv

LEMMA MonitorCheckStep ==
    ASSUME IndInv, NEW ch \in Channel, MonitorCheck(ch)
    PROVE  IndInv'
<1>1. LockTypeOK' /\ LockExclusive' /\ mode' = mode
  BY LockStays DEF IndInv, TypeOK, MonitorCheck
<1>2. TypeOK'
  BY <1>1 DEF IndInv, TypeOK, RequestInv, MonitorInv, clientVars,
     sessionVars, MonitorCheck
<1>3. RequestInv'
  BY <1>1, RequestsStay DEF IndInv, TypeOK, LockTypeOK, MonitorCheck
<1>4. MonitorInv'
  BY <1>1 DEF IndInv, TypeOK, LockTypeOK, LockExclusive, RequestInv,
     MonitorInv, monitorVars, MonitorCheck
<1>5. SessionInv'
  BY <1>1 DEF IndInv, TypeOK, LockTypeOK, LockExclusive, RequestInv,
     MonitorInv, SessionInv, RegisteredRuns, sessionVars, MonitorCheck
<1>6. RegisteredRuns'
  BY <1>1 DEF IndInv, TypeOK, RequestInv, MonitorInv, SessionInv,
     RegisteredRuns, sessionVars, MonitorCheck
<1> QED BY <1>1, <1>2, <1>3, <1>4, <1>5, <1>6 DEF IndInv

LEMMA MonitorScanEndStep ==
    ASSUME IndInv, MonitorScanEnd
    PROVE  IndInv'
<1>1. /\ LockTypeOK' /\ LockExclusive'
       /\ \/ mode' = [mode EXCEPT ![Monitor] = "none"]
          \/ mode' = [mode EXCEPT ![Monitor] = "wantWrite"]
  BY LockMoves DEF IndInv, TypeOK, Modes, Leave, MonitorScanEnd, Sweep
<1>2. TypeOK'
  BY <1>1 DEF IndInv, TypeOK, RequestInv, MonitorInv, clientVars,
     sessionVars, MonitorScanEnd, Sweep
<1>3. RequestInv'
  BY <1>1, RequestsStay DEF IndInv, TypeOK, LockTypeOK, MonitorScanEnd
<1>4. MonitorInv'
  BY <1>1 DEF IndInv, TypeOK, LockTypeOK, LockExclusive, RequestInv,
     MonitorInv, monitorVars, MonitorScanEnd, Sweep
<1>5. SessionInv'
  BY <1>1 DEF IndInv, TypeOK, LockTypeOK, LockExclusive, RequestInv,
     MonitorInv, SessionInv, RegisteredRuns, sessionVars, MonitorScanEnd,
     Sweep
<1>6. RegisteredRuns'
  BY <1>1 DEF IndInv, TypeOK, RequestInv, MonitorInv, SessionInv,
     RegisteredRuns, sessionVars, MonitorScanEnd, Sweep
<1> QED BY <1>1, <1>2, <1>3, <1>4, <1>5, <1>6 DEF IndInv

LEMMA MonitorRemoveStep ==
    ASSUME IndInv, NEW ch \in Channel, MonitorRemove(ch)
    PROVE  IndInv'
<1>1. /\ LockTypeOK' /\ LockExclusive'
       /\ mode' = [mode EXCEPT ![Monitor] = "write"]
  BY LockMoves DEF IndInv, TypeOK, Modes, Leave, MonitorRemove
<1>2. TypeOK'
  BY <1>1 DEF IndInv, TypeOK, RequestInv, MonitorInv, clientVars,
     sessionVars, MonitorRemove
<1>3. RequestInv'
  BY <1>1, RequestsStay DEF IndInv, TypeOK, LockTypeOK, MonitorRemove
<1>4. MonitorInv'
  BY <1>1 DEF IndInv, TypeOK, LockTypeOK, LockExclusive, RequestInv,
     MonitorInv, monitorVars, MonitorRemove
<1>5. SessionInv'
  BY <1>1 DEF IndInv, TypeOK, LockTypeOK, LockExclusive, RequestInv,
     MonitorInv, SessionInv, RegisteredRuns, sessionVars, MonitorRemove
<1>6. RegisteredRuns'
  BY <1>1 DEF IndInv, TypeOK, RequestInv, MonitorInv, SessionInv,
     RegisteredRuns, sessionVars, MonitorRemove
<1> QED BY <1>1, <1>2, <1>3, <1>4, <1>5, <1>6 DEF IndInv

LEMMA MonitorStopReturnsStep ==
    ASSUME IndInv, NEW s \in Session, MonitorStopReturns(s)
    PROVE  IndInv'
<1>1. /\ LockTypeOK' /\ LockExclusive'
       /\ \/ mode' = [mode EXCEPT ![Monitor] = "none"]
          \/ mode' = [mode EXCEPT ![Monitor] = "wantWrite"]
  BY LockMoves DEF IndInv, TypeOK, Modes, Leave, MonitorStopReturns, Sweep
<1>2. TypeOK'
  BY <1>1 DEF IndInv, TypeOK, RequestInv, MonitorInv, clientVars,
     sessionVars, MonitorStopReturns, Sweep
<1>3. RequestInv'
  BY <1>1, RequestsStay DEF IndInv, TypeOK, LockTypeOK, MonitorStopReturns
<1>4. MonitorInv'
  BY <1>1 DEF IndInv, TypeOK, LockTypeOK, LockExclusive, RequestInv,
     MonitorInv, monitorVars, MonitorStopReturns, Sweep
<1>5. SessionInv'
  BY <1>1 DEF IndInv, TypeOK, LockTypeOK, LockExclusive, RequestInv,
     MonitorInv, SessionInv, RegisteredRuns, sessionVars,
     MonitorStopReturns, Sweep
<1>6. RegisteredRuns'
  BY <1>1 DEF IndInv, TypeOK, RequestInv, MonitorInv, SessionInv,
     RegisteredRuns, sessionVars, MonitorStopReturns, Sweep
<1> QED BY <1>1, <1>2, <1>3, <1>4, <1>5, <1>6 DEF IndInv

LEMMA PublishStep ==
    ASSUME IndInv, NEW s \in Session, Publish(s)
    PROVE  IndInv'
<1>1. LockTypeOK' /\ LockExclusive' /\ mode' = mode
  BY LockStays DEF IndInv, TypeOK, Publish
<1>2. TypeOK'
  BY <1>1 DEF IndInv, TypeOK, RequestInv, MonitorInv, clientVars,
     monitorVars, Publish
<1>3. RequestInv'
  BY <1>1, RequestsStay DEF IndInv, TypeOK, LockTypeOK, Publish
<1>4. MonitorInv'
  BY MonitorStays DEF Publish
<1>5. SessionInv'
  BY <1>1 DEF IndInv, TypeOK, LockTypeOK, LockExclusive, RequestInv,
     MonitorInv, SessionInv, RegisteredRuns, monitorVars, Publish
<1>6. RegisteredRuns'
  BY <1>1 DEF IndInv, TypeOK, RequestInv, MonitorInv, SessionInv,
     RegisteredRuns, monitorVars, Publish
<1> QED BY <1>1, <1>2, <1>3, <1>4, <1>5, <1>6 DEF IndInv

LEMMA ReleaseTunerStep ==
    ASSUME IndInv, NEW s \in Session, ReleaseTuner(s)
    PROVE  IndInv'
<1>1. LockTypeOK' /\ LockExclusive' /\ mode' = mode
  BY LockStays DEF IndInv, TypeOK, ReleaseTuner
<1>2. TypeOK'
  BY <1>1 DEF IndInv, TypeOK, RequestInv, MonitorInv, clientVars,
     monitorVars, ReleaseTuner
<1>3. RequestInv'
  BY <1>1, RequestsStay DEF IndInv, TypeOK, LockTypeOK, ReleaseTuner
<1>4. MonitorInv'
  BY MonitorStays DEF ReleaseTuner
<1>5. SessionInv'
  BY <1>1 DEF IndInv, TypeOK, LockTypeOK, LockExclusive, RequestInv,
     MonitorInv, SessionInv, RegisteredRuns, monitorVars, ReleaseTuner
<1>6. RegisteredRuns'
  BY <1>1 DEF IndInv, TypeOK, RequestInv, MonitorInv, SessionInv,
     RegisteredRuns, monitorVars, ReleaseTuner
<1> QED BY <1>1, <1>2, <1>3, <1>4, <1>5, <1>6 DEF IndInv

LEMMA TouchLandsStep ==
    ASSUME IndInv, NEW s \in Session, TouchLands(s)
    PROVE  IndInv'
<1>1. LockTypeOK' /\ LockExclusive' /\ mode' = mode
  BY LockStays DEF IndInv, TypeOK, TouchLands
<1>2. TypeOK'
  BY <1>1 DEF IndInv, TypeOK, RequestInv, MonitorInv, clientVars,
     monitorVars, TouchLands
<1>3. RequestInv'
  BY <1>1, RequestsStay DEF IndInv, TypeOK, LockTypeOK, TouchLands
<1>4. MonitorInv'
  BY MonitorStays DEF TouchLands
<1>5. SessionInv'
  BY <1>1 DEF IndInv, TypeOK, LockTypeOK, LockExclusive, RequestInv,
     MonitorInv, SessionInv, RegisteredRuns, monitorVars, TouchLands
<1>6. RegisteredRuns'
  BY <1>1 DEF IndInv, TypeOK, RequestInv, MonitorInv, SessionInv,
     RegisteredRuns, monitorVars, TouchLands
<1> QED BY <1>1, <1>2, <1>3, <1>4, <1>5, <1>6 DEF IndInv

LEMMA ReclaimStep ==
    ASSUME IndInv, NEW s \in Session, Reclaim(s)
    PROVE  IndInv'
<1>1. LockTypeOK' /\ LockExclusive' /\ mode' = mode
  BY LockStays DEF IndInv, TypeOK, Reclaim
<1>2. TypeOK'
  BY <1>1 DEF IndInv, TypeOK, RequestInv, MonitorInv, clientVars,
     monitorVars, Reclaim
<1>3. RequestInv'
  BY <1>1, RequestsStay DEF IndInv, TypeOK, LockTypeOK, Reclaim
<1>4. MonitorInv'
  BY MonitorStays DEF Reclaim
<1>5. SessionInv'
  BY <1>1 DEF IndInv, TypeOK, LockTypeOK, LockExclusive, RequestInv,
     MonitorInv, SessionInv, RegisteredRuns, monitorVars, Reclaim
<1>6. RegisteredRuns'
  BY <1>1 DEF IndInv, TypeOK, RequestInv, MonitorInv, SessionInv,
     RegisteredRuns, monitorVars, Reclaim
<1> QED BY <1>1, <1>2, <1>3, <1>4, <1>5, <1>6 DEF IndInv

LEMMA TickStep ==
    ASSUME IndInv, Tick
    PROVE  IndInv'
<1>1. LockTypeOK' /\ LockExclusive' /\ mode' = mode
  BY LockStays DEF IndInv, TypeOK, Tick
<1>2. age' \in [Session -> 0..(GracePeriod + 1)] /\ nap' \in 0..MonitorPeriod
  BY DEF IndInv, TypeOK, Tick
<1>3. TypeOK'
  BY <1>1, <1>2 DEF IndInv, TypeOK, Tick
<1>4. RequestInv'
  BY <1>1 DEF IndInv, TypeOK, RequestInv, Tick
<1>5. MonitorInv' /\ SessionInv' /\ RegisteredRuns'
  BY <1>1 DEF IndInv, MonitorInv, SessionInv, RegisteredRuns, Tick
<1> QED BY <1>1, <1>3, <1>4, <1>5 DEF IndInv

-----------------------------------------------------------------------------

LEMMA NextInv == IndInv /\ [Next]_vars => IndInv'
<1> SUFFICES ASSUME IndInv, [Next]_vars PROVE IndInv'
  OBVIOUS
<1>1. ASSUME NEW c \in Client,
             \/ \E ch \in Channel, kind \in RequestKind : Request(c, ch, kind)
             \/ ClientStep(c) \/ Disconnect(c)
      PROVE  IndInv'
  BY <1>1, RequestStep, DisconnectStep, LookupStep, CreateLookupStep,
     CreateStep, PollHitStep, PollMissStep, PollTimeoutStep, ServeSegmentStep,
     ServeStatusStep, ServeArtStep, ArtNeedsLineupStep, ServeLogoStep
     DEF ClientStep
<1>2. CASE MonitorStep
  BY <1>2, MonitorWakeStep, MonitorScanStep, MonitorCheckStep,
     MonitorScanEndStep, MonitorRemoveStep, MonitorStopReturnsStep
     DEF MonitorStep
<1>3. ASSUME NEW s \in Session, SessionStep(s)
      PROVE  IndInv'
  BY <1>3, PublishStep, ReleaseTunerStep, TouchLandsStep, ReclaimStep
     DEF SessionStep
<1>4. CASE UNCHANGED vars
  BY <1>4 DEF vars, lockVars, clientVars, monitorVars, sessionVars, IndInv,
     TypeOK, LockTypeOK, LockExclusive, RequestInv, MonitorInv, SessionInv,
     RegisteredRuns
<1> QED BY <1>1, <1>2, <1>3, <1>4, TickStep DEF Next

THEOREM InductiveInvariant == Spec => []IndInv
BY InitInv, NextInv, PTL DEF Spec

(* Every variable keeps to its type: no counter passes its bound, no list  *)
(* names what does not exist.                                              *)
THEOREM TypeCorrect == Spec => []TypeOK
BY InductiveInvariant, PTL DEF IndInv

(* A request that finds a session finds one that runs and belongs to its   *)
(* channel.                                                                *)
THEOREM SessionsRegistered == Spec => []RegisteredRuns
BY InductiveInvariant, PTL DEF IndInv

(* A held tuner belongs to a registered session or to the one the monitor  *)
(* is stopping.                                                            *)
THEOREM TunersReachable == Spec => []NoTunerLeak
<1>1. IndInv => NoTunerLeak
  BY DEF IndInv, TypeOK, SessionInv, NoTunerLeak
<1> QED BY <1>1, InductiveInvariant, PTL

(* The device never has two tuners on one channel for this program.        *)
THEOREM TunersUnique == Spec => []OneTunerPerChannel
<1>1. IndInv => OneTunerPerChannel
  <2> SUFFICES ASSUME IndInv, NEW r \in Session, NEW s \in Session,
                      tuner[r] = "held", tuner[s] = "held", home[r] = home[s]
               PROVE  r = s
    BY DEF OneTunerPerChannel
  <2>1. owner[r] \in {"running", "joining"} /\ owner[s] \in {"running", "joining"}
    BY DEF IndInv, SessionInv
  <2>2. CASE owner[r] = "running" /\ owner[s] = "running"
    BY <2>2 DEF IndInv, SessionInv
  <2>3. CASE owner[r] = "joining" /\ owner[s] = "joining"
    BY <2>3 DEF IndInv, SessionInv
  <2>4. CASE owner[r] # owner[s]
    BY <2>1, <2>4 DEF IndInv, SessionInv
  <2> QED BY <2>1, <2>2, <2>3, <2>4
<1> QED BY <1>1, InductiveInvariant, PTL

(* Only Create and MonitorRemove write the map.                            *)
LEMMA MapChanges ==
    ASSUME [Next]_vars,
           \A c \in Client : ~ Create(c),
           \A ch \in Channel : ~ MonitorRemove(ch)
    PROVE  UNCHANGED pipelines
BY DEF Next, vars, ClientStep, MonitorStep, SessionStep, Request, Disconnect,
       Lookup, CreateLookup, PollHit, PollMiss, PollTimeout, ServeSegment,
       ServeStatus, ServeArt, ArtNeedsLineup, ServeLogo, MonitorWake,
       MonitorScan, MonitorCheck, MonitorScanEnd, MonitorStopReturns, Publish,
       ReleaseTuner, TouchLands, Reclaim, Tick

(* The session removed is the session judged.                              *)
THEOREM VerdictsHold == Spec => VerdictSticks
<1> DEFINE Kept(ch) == /\ pipelines[ch] # None
                       /\ ch \in toRemove' => pipelines'[ch] = pipelines[ch]
<1>1. ASSUME IndInv, [Next]_vars, NEW ch \in toRemove
      PROVE  Kept(ch)
  <2>1. pipelines[ch] # None /\ ch \in Channel
    BY <1>1 DEF IndInv, TypeOK, MonitorInv
  <2>2. ASSUME NEW c \in Client, Create(c)
        PROVE  pipelines'[ch] = pipelines[ch]
    BY <1>1, <2>1, <2>2 DEF IndInv, TypeOK, RequestInv, Create
  <2>3. ASSUME NEW d \in Channel, MonitorRemove(d)
        PROVE  ch \in toRemove' => pipelines'[ch] = pipelines[ch]
    BY <1>1, <2>1, <2>3 DEF IndInv, TypeOK, MonitorRemove
  <2> QED BY <1>1, <2>1, <2>2, <2>3, MapChanges
<1>2. IndInv /\ [Next]_vars => [\A ch \in toRemove : Kept(ch)]_vars
  BY <1>1
<1> QED BY <1>2, InductiveInvariant, PTL DEF Spec, VerdictSticks

-----------------------------------------------------------------------------
(* The refinement of PipelineLife.                                         *)

LifeStep(s) ==
    Life(s)!Next \/ UNCHANGED <<owner[s], tuner[s], published[s]>>

LEMMA CreateLives ==
    ASSUME IndInv, NEW c \in Client, Create(c), NEW s \in Session
    PROVE  LifeStep(s)
<1>1. Fresh \in Session /\ owner[Fresh] = "absent"
  BY DEF Create, Fresh
<1>2. CASE s = Fresh
  BY <1>1, <1>2 DEF IndInv, TypeOK, SessionInv, Create, LifeStep, Life!Next,
                    Life!Start
<1>3. CASE s # Fresh
  BY <1>1, <1>3 DEF IndInv, TypeOK, Create, LifeStep
<1> QED BY <1>2, <1>3

LEMMA MonitorLives ==
    ASSUME IndInv, NEW s \in Session, MonitorStep
    PROVE  LifeStep(s)
<1>1. ASSUME NEW ch \in Channel, MonitorRemove(ch)
      PROVE  LifeStep(s)
  <2>1. pipelines[ch] \in Session /\ owner[pipelines[ch]] = "running"
    BY <1>1 DEF IndInv, TypeOK, MonitorInv, RegisteredRuns, MonitorRemove
  <2>2. CASE s = pipelines[ch]
    BY <1>1, <2>1, <2>2 DEF IndInv, TypeOK, MonitorRemove, LifeStep, Life!Next,
                            Life!RequestStop
  <2>3. CASE s # pipelines[ch]
    BY <1>1, <2>1, <2>3 DEF IndInv, TypeOK, MonitorRemove, LifeStep
  <2> QED BY <2>2, <2>3
<1>2. ASSUME NEW r \in Session, MonitorStopReturns(r)
      PROVE  LifeStep(s)
  BY <1>2 DEF IndInv, TypeOK, MonitorStopReturns, LifeStep, Life!Next,
              Life!StopReturns
<1>3. CASE UNCHANGED sessionVars
  BY <1>3 DEF sessionVars, LifeStep
<1> QED BY <1>1, <1>2, <1>3 DEF MonitorStep, MonitorWake, MonitorScan,
           MonitorScanEnd, MonitorCheck

LEMMA SessionLives ==
    ASSUME IndInv, NEW r \in Session, NEW s \in Session, SessionStep(r)
    PROVE  LifeStep(s)
<1>1. CASE Publish(r)
  BY <1>1 DEF IndInv, TypeOK, Publish, LifeStep, Life!Next, Life!Publish
<1>2. CASE ReleaseTuner(r)
  BY <1>2 DEF IndInv, TypeOK, ReleaseTuner, LifeStep, Life!Next,
              Life!ReleaseTuner
<1>3. CASE TouchLands(r)
  BY <1>3 DEF TouchLands, LifeStep
<1>4. CASE Reclaim(r)
  BY <1>4 DEF IndInv, TypeOK, Reclaim, LifeStep, Life!Next, Life!Reclaim
<1> QED BY <1>1, <1>2, <1>3, <1>4 DEF SessionStep

(* Every session behaves as PipelineLife allows: what the handlers and the *)
(* monitor do to a pipeline is what Pipeline.tla is started and stopped    *)
(* with.                                                                   *)
THEOREM SessionsLiveAsPromised == Spec => SessionsLive
<1>1. Init => \A s \in Session : Life(s)!Init
  BY DEF Init, Life!Init
<1>2. ASSUME IndInv, [Next]_vars, NEW s \in Session
      PROVE  LifeStep(s)
  <2>1. CASE \E c \in Client : Create(c)
    BY <1>2, <2>1, CreateLives
  <2>2. CASE MonitorStep
    BY <1>2, <2>2, MonitorLives
  <2>3. CASE \E r \in Session : SessionStep(r)
    BY <1>2, <2>3, SessionLives
  <2>4. CASE UNCHANGED <<owner, tuner, published>>
    BY <2>4 DEF LifeStep
  <2> QED BY <1>2, <2>1, <2>2, <2>3, <2>4
          DEF Next, vars, sessionVars, ClientStep, Request, Disconnect, Lookup,
              CreateLookup, PollHit, PollMiss, PollTimeout, ServeSegment,
              ServeStatus, ServeArt, ArtNeedsLineup, ServeLogo, Tick
<1>3. IndInv /\ [Next]_vars => [\A s \in Session : LifeStep(s)]_vars
  BY <1>2
<1> QED BY <1>1, <1>3, InductiveInvariant, PTL DEF Spec, SessionsLive, LifeStep

(* A channel has one tuner, and what is registered for it runs.            *)
THEOREM OneRunning == Spec => []OneRunningPerChannel
BY TunersUnique, SessionsRegistered, PTL DEF OneRunningPerChannel
=============================================================================
