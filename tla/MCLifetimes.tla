---------------------------- MODULE MCLifetimes ----------------------------
(***************************************************************************)
(* Pipelines, playlists, children and the tuner between a beginning and an *)
(* end, for one run of TLC.  A behaviour is one of its subject, the other  *)
(* components rest in an initial state.                                    *)
(***************************************************************************)
EXTENDS Playlist, Listening, Ffmpeg, Discovery

VARIABLE subject

lifetimesVars == <<subject, playlistVars, listeningVars, ffmpegVars, discoveryVars>>

(* As by default, on a smaller scale; with an HTTP cache that keeps        *)
(* segments for longer than a pause takes; with a start longer than the    *)
(* grace period; and with more segments to start with than are kept.       *)
Plain == [grace |-> 5, scan |-> 2, polls |-> 4, seg |-> 2, min |-> 2, ring |-> 4,
          age |-> 0, ends |-> 2, made |-> 8]
Caching == [grace |-> 3, scan |-> 1, polls |-> 2, seg |-> 2, min |-> 1, ring |-> 2,
            age |-> 9, ends |-> 1, made |-> 3]
LongStart == [Plain EXCEPT !.min = 4, !.made = 5]
NoRoom == [Plain EXCEPT !.grace = 20, !.min = 5, !.made = 6, !.ends = 1]
LifetimesSettings == {Plain, Caching, LongStart, NoRoom}

(* A host in one private network, with containers in another.              *)
LifetimesSubnets == {"lan", "docker", "public"}
LifetimesPrivate == {"lan", "docker"}
LifetimesRoutes ==
    {[bound |-> <<"lan", "lan">>, trie |-> <<"docker", "lan", "public">>],
     [bound |-> <<"public">>, trie |-> << >>],
     [bound |-> << >>, trie |-> <<"public", "public">>]}

LifetimesInit ==
    /\ subject \in {"playlist", "listening", "ffmpeg", "discovery"}
    /\ PlaylistInit /\ ListeningInit /\ FfmpegInit /\ DiscoveryInit
    /\ subject # "listening" => setting = Plain
    /\ subject # "discovery" =>
          device = {} /\ busy = {} /\ named = NoAddress /\ subnets = <<"public">>

LifetimesNext ==
    /\ UNCHANGED subject
    /\ \/ /\ subject = "playlist" /\ PlaylistNext
          /\ UNCHANGED <<listeningVars, ffmpegVars, discoveryVars>>
       \/ /\ subject = "listening" /\ ListeningNext
          /\ UNCHANGED <<playlistVars, ffmpegVars, discoveryVars>>
       \/ /\ subject = "ffmpeg" /\ FfmpegNext
          /\ UNCHANGED <<playlistVars, listeningVars, discoveryVars>>
       \/ /\ subject = "discovery" /\ DiscoveryNext
          /\ UNCHANGED <<playlistVars, listeningVars, ffmpegVars>>

(* ListeningFairSpec, FfmpegFairSpec and DiscoveryFairSpec, each for the    *)
(* behaviours that are its own.                                            *)
LifetimesFairSpec ==
    /\ LifetimesInit /\ [][LifetimesNext]_lifetimesVars
    /\ WF_events(subject = "listening" /\ Tick)
    /\ WF_events(subject = "listening" /\ Scan)
    /\ WF_events(subject = "listening" /\ made = MaxMade /\ StreamEnds)
    /\ WF_events(subject = "listening" /\ Ask)
    /\ WF_events(subject = "listening" /\ GetPlaylist)
    /\ WF_events(subject = "listening" /\ TimeOut)
    /\ WF_events(subject = "listening" /\ Reload)
    /\ WF_events(subject = "listening" /\ FetchCached)
    /\ WF_events(subject = "listening" /\ Fetch)
    /\ WF_ffmpegVars(subject = "ffmpeg" /\ ChildWrites)
    /\ WF_ffmpegVars(subject = "ffmpeg" /\ ChildWarns)
    /\ WF_ffmpegVars(subject = "ffmpeg" /\ (Read \/ ReadEnds))
    /\ WF_ffmpegVars(subject = "ffmpeg" /\ (Send \/ SendFails))
    /\ WF_ffmpegVars(subject = "ffmpeg" /\ (Receive \/ ReceiveEnds))
    /\ WF_ffmpegVars(subject = "ffmpeg" /\ StopSignals)
    /\ WF_ffmpegVars(subject = "ffmpeg" /\ StopKills)
    /\ WF_discoveryVars(subject = "discovery" /\ DiscoveryMain)
    /\ WF_discoveryVars(subject = "discovery" /\ DiscoveryThread)

(* The state of every component is what it is meant to be.                 *)
LifetimesTypeOK ==
    PlaylistTypeOK /\ ListeningTypeOK /\ FfmpegTypeOK /\ DiscoveryTypeOK
=============================================================================
