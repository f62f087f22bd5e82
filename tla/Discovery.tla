----------------------------- MODULE Discovery -----------------------------
(***************************************************************************)
(* The search for the tuner when --hdhr-host is not given: detect_subnets  *)
(* and find_hdhomerun in src/src/discovery.rs, and what main makes of the  *)
(* result.  A thread for every address of every subnet connects to it and  *)
(* reads its discover.json; the threads are joined in the order in which   *)
(* they were spawned.                                                      *)
(***************************************************************************)
EXTENDS Naturals, Sequences, FiniteSets, SequencesExt

CONSTANTS
    Subnet,       \* /24 networks
    Private,      \* those in 192.168, 10 or 172
    Default,      \* 192.168.1.0
    Hosts,        \* addresses of a subnet (254)
    Routes,       \* what the host may know: subnets its sockets bind to, and
                  \* subnets in /proc/net/fib_trie, in order of appearance
    NoAddress,
    MaxThreads,   \* threads the system lets a process have
    MaxTuners     \* bound: tuners, fast or slow

Address == Subnet \X (1..Hosts)

ASSUME DiscoveryAssumption ==
    /\ Private \subseteq Subnet /\ Default \in Private /\ NoAddress \notin Address
    /\ Hosts \in Nat \ {0} /\ MaxThreads \in Nat /\ MaxTuners \in Nat
    /\ \A r \in Routes : r.bound \in Seq(Subnet) /\ r.trie \in Seq(Subnet)

VARIABLES
    device,    \* addresses of tuners that answer within their time
    busy,      \* and of those that may or may not
    named,     \* what hdhomerun.local resolves to, or NoAddress
    subnets,   \* as detected
    handles,   \* threads: "runs", "none", "some"
    stage,     \* "mdns", "spawns", "joins"; "found", "exited", "panicked"
    joined,    \* threads that main has joined
    hdhr_host  \* what is found

networkVars == <<device, busy, named>>
discoveryVars == <<networkVars, subnets, handles, stage, joined, hdhr_host>>

(* Mutant: what is there already is pushed again.                          *)
PushAlways(list, subnet) == Append(list, subnet)

PushNew(list, subnet) ==
    IF Contains(list, subnet) THEN list ELSE Append(list, subnet)

PushPrivate(list, subnet) ==
    IF subnet \in Private THEN PushNew(list, subnet) ELSE list

(* Mutant: without the default.                                            *)
DetectSubnetsBare(routes) ==
    FoldLeft(PushPrivate, FoldLeft(PushNew, << >>, routes.bound), routes.trie)

DetectSubnets(routes) ==
    LET list == FoldLeft(PushPrivate, FoldLeft(PushNew, << >>, routes.bound), routes.trie)
    IN  IF list = << >> THEN <<Default>> ELSE list

DiscoveryInit ==
    /\ \E tuners \in {t \in SUBSET Address : Cardinality(t) <= MaxTuners} :
          device \in SUBSET tuners /\ busy = tuners \ device
    /\ named \in Address \cup {NoAddress}
    /\ subnets \in {DetectSubnets(r) : r \in Routes}
    /\ handles = << >> /\ stage = "mdns" /\ joined = 0 /\ hdhr_host = NoAddress

-----------------------------------------------------------------------------

(* verify_hdhomerun: what it may return.                                   *)
Verify(a) == IF a \in device THEN {TRUE} ELSE IF a \in busy THEN BOOLEAN ELSE {FALSE}

Found(a) == stage' = "found" /\ hdhr_host' = a

AskMdns ==
    /\ stage = "mdns"
    /\ \/ named # NoAddress /\ TRUE \in Verify(named) /\ Found(named)
       \/ /\ named = NoAddress \/ FALSE \in Verify(named)
          /\ stage' = "spawns" /\ UNCHANGED hdhr_host
    /\ UNCHANGED <<networkVars, subnets, handles, joined>>

(* The i-th address to be scanned.                                         *)
Scanned(i) == <<subnets[1 + ((i - 1) \div Hosts)], 1 + ((i - 1) % Hosts)>>
ToScan == Len(subnets) * Hosts
Running == {i \in DOMAIN handles : handles[i] = "runs"}

(* Without another thread, thread::spawn panics.                           *)
Spawn ==
    /\ stage = "spawns" /\ Len(handles) < ToScan
    /\ IF Cardinality(Running) < MaxThreads
       THEN handles' = Append(handles, "runs") /\ UNCHANGED stage
       ELSE stage' = "panicked" /\ UNCHANGED handles
    /\ UNCHANGED <<networkVars, subnets, joined, hdhr_host>>

AllSpawned ==
    /\ stage = "spawns" /\ Len(handles) = ToScan
    /\ stage' = "joins"
    /\ UNCHANGED <<networkVars, subnets, handles, joined, hdhr_host>>

(* Connection and answer have their time; a thread goes on when main has   *)
(* what it wants.                                                          *)
ThreadEnds(i) ==
    /\ i \in Running
    /\ \E some \in Verify(Scanned(i)) :
          handles' = [handles EXCEPT ![i] = IF some THEN "some" ELSE "none"]
    /\ UNCHANGED <<networkVars, subnets, stage, joined, hdhr_host>>

(* Mutant: the first thread to find something wins.                        *)
JoinAny ==
    /\ stage = "joins" /\ joined < ToScan
    /\ \E i \in DOMAIN handles :
          \/ handles[i] = "some" /\ Found(Scanned(i)) /\ joined' = i
          \/ /\ i = joined + 1 /\ handles[i] = "none" /\ joined' = i
             /\ UNCHANGED <<stage, hdhr_host>>
    /\ UNCHANGED <<networkVars, subnets, handles>>

(* The next thread, when it has ended.                                     *)
JoinNext ==
    /\ stage = "joins" /\ joined < ToScan /\ handles[joined + 1] # "runs"
    /\ joined' = joined + 1
    /\ IF handles[joined + 1] = "some" THEN Found(Scanned(joined + 1))
       ELSE UNCHANGED <<stage, hdhr_host>>
    /\ UNCHANGED <<networkVars, subnets, handles>>

(* Mutant: the last thread is not joined.                                  *)
NotFoundEarly ==
    /\ stage = "joins" /\ joined + 1 = ToScan /\ stage' = "exited"
    /\ UNCHANGED <<networkVars, subnets, handles, joined, hdhr_host>>

(* Mutant: the search begins again.                                        *)
NotFoundRetries ==
    /\ stage = "joins" /\ joined = ToScan
    /\ stage' = "mdns" /\ handles' = << >> /\ joined' = 0
    /\ UNCHANGED <<networkVars, subnets, hdhr_host>>

(* "No HDHomeRun found": main exits.                                       *)
NotFound ==
    /\ stage = "joins" /\ joined = ToScan /\ stage' = "exited"
    /\ UNCHANGED <<networkVars, subnets, handles, joined, hdhr_host>>

DiscoveryMain == AskMdns \/ Spawn \/ AllSpawned \/ JoinNext \/ NotFound
DiscoveryThread == \E i \in DOMAIN handles : ThreadEnds(i)

DiscoveryNext == DiscoveryMain \/ DiscoveryThread

DiscoverySpec == DiscoveryInit /\ [][DiscoveryNext]_discoveryVars

(* Connections and requests time out.                                      *)
DiscoveryFairSpec ==
    /\ DiscoverySpec
    /\ WF_discoveryVars(DiscoveryMain) /\ WF_discoveryVars(DiscoveryThread)

-----------------------------------------------------------------------------
(* Properties.                                                             *)

DiscoveryTypeOK ==
    /\ device \subseteq Address /\ busy \subseteq Address \ device
    /\ named \in Address \cup {NoAddress} /\ hdhr_host \in Address \cup {NoAddress}
    /\ subnets \in Seq(Subnet) /\ subnets # << >>
    /\ handles \in Seq({"runs", "none", "some"}) /\ Len(handles) <= ToScan
    /\ stage \in {"mdns", "spawns", "joins", "found", "exited", "panicked"}
    /\ joined \in 0..Len(handles)

(* What is found is a tuner, and whatever the order in which the threads   *)
(* end it is the same one at every start: the one with the name, else the  *)
(* first one in the order of the scan, unless one before it was too slow.  *)
FirstFound ==
    stage = "found" =>
        /\ hdhr_host \in device \cup busy
        /\ named # hdhr_host =>
              /\ named \notin device
              /\ \E i \in 1..ToScan :
                    /\ Scanned(i) = hdhr_host
                    /\ \A j \in 1..(i - 1) : Scanned(j) \notin device

(* No address is scanned twice, however often a subnet comes up; and the   *)
(* server gives up only if no tuner of the subnets would have answered, or *)
(* with more addresses to scan than threads to be had.                     *)
NoneMissed ==
    /\ \A i, j \in 1..ToScan : Scanned(i) = Scanned(j) => i = j
    /\ stage = "exited" =>
          named \notin device /\ \A i \in 1..ToScan : Scanned(i) \notin device
    /\ stage = "panicked" => ToScan > MaxThreads

(* The search comes to an end, whatever does not answer.                   *)
SearchEnds == stage = "spawns" ~> stage \in {"found", "exited", "panicked"}
=============================================================================
