------------------------------- MODULE Lineup -------------------------------
(***************************************************************************)
(* fetch_lineup in src/src/web/mod.rs: the device's channel list is cached *)
(* for MaxAge seconds and asked for again by every request that finds it   *)
(* older, each for itself; and what get_or_create_pipeline makes of it:    *)
(* the name of the channel decides, for the life of a pipeline, whether it *)
(* has a logo and a metadata poller.                                       *)
(*                                                                         *)
(* The lineups of the device are numbered.  The steps of a request are its *)
(* awaits: for the device, and for the lock of the cache.                  *)
(***************************************************************************)
EXTENDS Integers

CONSTANTS
    Requests,    \* requests for a lineup: logo, artwork, stations
    Creator,     \* the one that creates the pipeline, under the map's lock
    Listing,     \* the lineups that list the channel
    MaxAge,      \* seconds the cache is used for (300)
    Patience,    \* seconds within which the device and the lock answer
    MaxVersion,  \* bound: lineups the device has
    MaxTime      \* bound: seconds

ASSUME LineupAssumption ==
    /\ MaxAge \in Nat /\ Patience \in Nat /\ MaxVersion \in Nat \ {0} /\ MaxTime \in Nat
    /\ Listing \subseteq 1..MaxVersion /\ Creator \notin Requests

Clients == Requests \cup {Creator}
None == 0    \* Option::None, and the empty lineup of a failure

VARIABLES
    now,
    version,   \* the lineup of the device
    ended,     \* when it ceased to have each of the earlier ones
    cache,     \* lineup_cache: the lineup and when it was stored
    pc,        \* of each request: "idle", "asked", "answered"
    asked,     \* when it asked the device
    got,       \* what the device said
    answer,    \* the last lineup that fetch_lineup returned, and when
    pipeline   \* of the channel: whether it knows its name, and from which answer

lineupVars == <<now, version, ended, cache, pc, asked, got, answer, pipeline>>

Version == 1..MaxVersion
Time == 0..MaxTime
NoEntry == [v |-> None, at |-> 0]
NoPipeline == [there |-> FALSE, named |-> FALSE, from |-> NoEntry]

LineupInit ==
    /\ now = 0 /\ version = 1 /\ ended = [v \in Version |-> 0]
    /\ cache = NoEntry
    /\ pc = [c \in Clients |-> "idle"] /\ asked = [c \in Clients |-> 0]
    /\ got = [c \in Clients |-> None] /\ answer = NoEntry
    /\ pipeline = NoPipeline

-----------------------------------------------------------------------------
(* The world around: channels are scanned anew, or the device says         *)
(* something else that is JSON (the status of its answer is not looked at).*)

Rescan ==
    /\ version < MaxVersion
    /\ version' = version + 1 /\ ended' = [ended EXCEPT ![version] = now]
    /\ UNCHANGED <<now, cache, pc, asked, got, answer, pipeline>>

Tick ==
    /\ now < MaxTime /\ now' = now + 1
    /\ \A c \in Clients : pc[c] # "idle" => now < asked[c] + Patience
    /\ UNCHANGED <<version, ended, cache, pc, asked, got, answer, pipeline>>

-----------------------------------------------------------------------------
(* A request.                                                              *)

(* A pipeline is created when there is none.                               *)
Wants(c) == pc[c] = "idle" /\ (c = Creator => ~pipeline.there)

Done(c) ==
    /\ pc' = [pc EXCEPT ![c] = "idle"]
    /\ asked' = [asked EXCEPT ![c] = 0] /\ got' = [got EXCEPT ![c] = None]

(* The answer of fetch_lineup; the creator looks its channel up in it.     *)
Return(c, v) ==
    /\ answer' = [v |-> v, at |-> now]
    /\ pipeline' = IF c = Creator
                   THEN [there |-> TRUE, named |-> v \in Listing, from |-> [v |-> v, at |-> now]]
                   ELSE pipeline

CacheFresh == cache.v # None /\ now - cache.at < MaxAge

(* Mutant: an entry that is used is good for another MaxAge.               *)
HitRenews(c) ==
    /\ Wants(c) /\ CacheFresh
    /\ Return(c, cache.v)
    /\ cache' = [cache EXCEPT !.at = now]
    /\ UNCHANGED <<now, version, ended, pc, asked, got>>

(* Mutant: the age of the entry is not looked at.                          *)
HitAnyAge(c) ==
    /\ Wants(c) /\ cache.v # None
    /\ Return(c, cache.v)
    /\ UNCHANGED <<now, version, ended, cache, pc, asked, got>>

Hit(c) ==
    /\ Wants(c) /\ CacheFresh
    /\ Return(c, cache.v)
    /\ UNCHANGED <<now, version, ended, cache, pc, asked, got>>

Ask(c) ==
    /\ Wants(c) /\ ~CacheFresh
    /\ pc' = [pc EXCEPT ![c] = "asked"] /\ asked' = [asked EXCEPT ![c] = now]
    /\ UNCHANGED <<now, version, ended, cache, got, answer, pipeline>>

DeviceAnswers(c) ==
    /\ pc[c] = "asked"
    /\ pc' = [pc EXCEPT ![c] = "answered"] /\ got' = [got EXCEPT ![c] = version]
    /\ UNCHANGED <<now, version, ended, cache, asked, answer, pipeline>>

(* Mutant: without a new lineup the old one is taken for another MaxAge.   *)
FailRenews(c) ==
    /\ pc[c] = "asked"
    /\ Done(c)
    /\ cache' = [cache EXCEPT !.at = now]
    /\ Return(c, cache.v)
    /\ UNCHANGED <<now, version, ended>>

(* No answer, or none that is JSON: an empty lineup, which is not cached.  *)
Fail(c) ==
    /\ pc[c] = "asked"
    /\ Done(c)
    /\ Return(c, None)
    /\ UNCHANGED <<now, version, ended, cache>>

(* Mutant: the entry is dated at its expiry.                               *)
StoreExpiry(c) ==
    /\ pc[c] = "answered"
    /\ Done(c)
    /\ cache' = [v |-> got[c], at |-> now + MaxAge]
    /\ Return(c, got[c])
    /\ UNCHANGED <<now, version, ended>>

(* The last one to get the lock of the cache has the last word, be its     *)
(* answer older or not.                                                    *)
Store(c) ==
    /\ pc[c] = "answered"
    /\ Done(c)
    /\ cache' = [v |-> got[c], at |-> now]
    /\ Return(c, got[c])
    /\ UNCHANGED <<now, version, ended>>

(* The monitor removes the pipeline.                                       *)
Remove ==
    /\ pipeline.there /\ pipeline' = NoPipeline
    /\ UNCHANGED <<now, version, ended, cache, pc, asked, got, answer>>

LineupNext ==
    \/ Rescan \/ Tick \/ Remove
    \/ \E c \in Clients : Hit(c) \/ Ask(c) \/ DeviceAnswers(c) \/ Fail(c) \/ Store(c)

LineupSpec == LineupInit /\ [][LineupNext]_lineupVars

-----------------------------------------------------------------------------
(* Properties.                                                             *)

Entry == [v : Version \cup {None}, at : Time]

LineupTypeOK ==
    /\ now \in Time /\ version \in Version /\ ended \in [Version -> Time]
    /\ cache \in Entry
    /\ pc \in [Clients -> {"idle", "asked", "answered"}] /\ asked \in [Clients -> Time]
    /\ got \in [Clients -> Version \cup {None}] /\ answer \in Entry
    /\ pipeline \in [there : BOOLEAN, named : BOOLEAN, from : Entry]

(* The device had lineup v at some time between from and to.               *)
Had(v, from, to) ==
    /\ v \in 1..version
    /\ v > 1 => ended[v - 1] <= to
    /\ v < version => from <= ended[v]

(* Whatever requests overlap, and although an older lineup may overwrite a *)
(* newer one, the cache holds what the device had Patience before it was   *)
(* stored, or later.                                                       *)
CacheYoung == cache.v # None => Had(cache.v, cache.at - Patience, cache.at)

(* A lineup that is returned is at most MaxAge and one request old.        *)
AnswersRecent ==
    answer.v # None => Had(answer.v, answer.at - MaxAge - Patience, answer.at)

(* A pipeline without a name was created while the lineup could not be had,*)
(* or did not list its channel in the time before; one with a name, when   *)
(* the lineup did.                                                         *)
NameExplained ==
    pipeline.there =>
        \/ ~pipeline.named /\ pipeline.from.v = None
        \/ \E v \in Version :
              /\ pipeline.named <=> v \in Listing
              /\ Had(v, pipeline.from.at - MaxAge - Patience, pipeline.from.at)

(* However requests overlap and fail, cache, answers and names are no      *)
(* older than they may be.                                                 *)
LineupTrue == CacheYoung /\ AnswersRecent /\ NameExplained
=============================================================================
