------------------------------ MODULE Metadata ------------------------------
(***************************************************************************)
(* Now-playing metadata on its way from the station to the ID3 tag: the    *)
(* poller of src/providers/abc.rs compares what two web services answer    *)
(* with its memo last_title and writes artwork_url and track_info, two     *)
(* cells with a lock each; for every frame the mux task of                 *)
(* src/hls/pipeline.rs reads the two cells, one after the other, into a    *)
(* tag.                                                                    *)
(*                                                                         *)
(* Texts are sequences of words, the empty one being << >>.  Each value    *)
(* carries, for the properties alone, the number of the update it belongs  *)
(* to.  Failing and changing services are the environment.                 *)
(***************************************************************************)
EXTENDS Naturals, Sequences

CONSTANTS
    Word,        \* the words titles and artists are made of
    Song,        \* answers of the now-playing service with a song in them
    Program,     \* titles the program service can answer
    Nothing,     \* an answer without a song, or without a program
    NoArt,       \* artwork_url is None
    Fallback,    \* fallback_art_url: the station's logo
    MaxChanges,  \* bound: times the services change their answers
    MaxFailures  \* bound: requests that fail

ASSUME MetadataAssumption ==
    /\ "-" \in Word
    /\ \A s \in Song : s.artist \in Seq(Word) /\ s.title \in Seq(Word)
    /\ \A s \in Song : s.artist # << >> \/ s.title # << >>
    /\ Program \subseteq Seq(Word)
    /\ Nothing \notin Song /\ Nothing \notin Program
    /\ MaxChanges \in Nat /\ MaxFailures \in Nat

VARIABLES
    song, program, \* what the services answer now
    changes, failures,
    poller,      \* "ask", "askProgram", "art" and "track" (about to write
                 \* the cell), "asleep" or "aborted"
    last_title,  \* the poller's memo
    update,      \* what "art" and "track" write
    artwork,     \* artwork_url, [url, ver]
    track,       \* track_info, [title, artist, ver]
    mux,         \* mux task: "track" or "art", the cell it reads next
    seen,        \* the track it has read
    tag          \* the last tag it made, [track, art]

externalVars == <<song, program, changes, failures>>
pollerVars == <<poller, last_title, update, artwork, track>>
muxVars == <<mux, seen, tag>>
vars == <<externalVars, pollerVars, muxVars>>

NoTrack == [title |-> << >>, artist |-> << >>, ver |-> 0]
Logo == [url |-> Fallback, ver |-> 0]

Init ==
    /\ song \in Song \cup {Nothing} /\ program \in Program \cup {Nothing}
    /\ changes = 0 /\ failures = 0
    /\ poller = "ask" /\ last_title = << >>
    /\ update = [track |-> NoTrack, art |-> Logo]
    /\ artwork = Logo /\ track = NoTrack
    /\ mux = "track" /\ seen = NoTrack
    /\ tag = [track |-> NoTrack, art |-> Logo]

-----------------------------------------------------------------------------
(* The poller.                                                             *)

(* The services change their answers.                                      *)
Change ==
    /\ changes < MaxChanges /\ changes' = changes + 1
    /\ song' \in Song \cup {Nothing} /\ program' \in Program \cup {Nothing}
    /\ UNCHANGED <<failures, pollerVars, muxVars>>

(* "{artist} - {title}".                                                   *)
Joined(t) == t.artist \o <<"-">> \o t.title

(* The answer amounts to line: write the two cells if the memo differs.    *)
Show(line, title, artist, url) ==
    IF line = last_title
    THEN poller' = "asleep" /\ UNCHANGED <<last_title, update>>
    ELSE LET ver == update.track.ver + 1 IN
         /\ poller' = "art" /\ last_title' = line
         /\ update' = [track |-> [title |-> title, artist |-> artist, ver |-> ver],
                       art |-> [url |-> url, ver |-> ver]]

NowFails ==
    /\ poller = "ask" /\ failures < MaxFailures
    /\ failures' = failures + 1 /\ poller' = "asleep"
    /\ UNCHANGED <<song, program, changes, last_title, update, artwork, track,
                   muxVars>>

(* Mutant: the memo is the title alone.                                    *)
NowPlayingTitleOnly ==
    /\ poller = "ask" /\ song # Nothing
    /\ Show(song.title, song.title, song.artist, song.art)
    /\ UNCHANGED <<externalVars, artwork, track, muxVars>>

NowPlaying ==
    /\ poller = "ask" /\ song # Nothing
    /\ Show(Joined(song), song.title, song.artist, song.art)
    /\ UNCHANGED <<externalVars, artwork, track, muxVars>>

NowNothing ==
    /\ poller = "ask" /\ song = Nothing
    /\ poller' = "askProgram"
    /\ UNCHANGED <<externalVars, last_title, update, artwork, track, muxVars>>

ProgramShown ==
    /\ poller = "askProgram" /\ program # Nothing
    /\ Show(program, program, << >>, Fallback)
    /\ UNCHANGED <<externalVars, artwork, track, muxVars>>

(* Mutant: the cells are cleared and the memo is not.                      *)
ProgramMissingKeepsMemo ==
    /\ poller = "askProgram"
    /\ IF program = Nothing THEN UNCHANGED failures
       ELSE failures < MaxFailures /\ failures' = failures + 1
    /\ poller' = "art"
    /\ update' = [track |-> [NoTrack EXCEPT !.ver = update.track.ver + 1],
                  art |-> [Logo EXCEPT !.ver = update.track.ver + 1]]
    /\ UNCHANGED <<song, program, changes, last_title, artwork, track, muxVars>>

(* No program, or the request failed.                                      *)
ProgramMissing ==
    /\ poller = "askProgram"
    /\ IF program = Nothing THEN UNCHANGED failures
       ELSE failures < MaxFailures /\ failures' = failures + 1
    /\ Show(<< >>, << >>, << >>, Fallback)
    /\ UNCHANGED <<song, program, changes, artwork, track, muxVars>>

(* Mutant: a song without artwork leaves the artwork of the one before.    *)
WriteArtIfPresent ==
    /\ poller = "art"
    /\ artwork' = IF update.art.url = NoArt THEN artwork ELSE update.art
    /\ poller' = "track"
    /\ UNCHANGED <<externalVars, last_title, update, track, muxVars>>

WriteArt ==
    /\ poller = "art"
    /\ artwork' = update.art /\ poller' = "track"
    /\ UNCHANGED <<externalVars, last_title, update, track, muxVars>>

(* Mutant: the pair of strings is written the wrong way round.             *)
WriteTrackSwapped ==
    /\ poller = "track"
    /\ track' = [update.track EXCEPT !.title = update.track.artist,
                                     !.artist = update.track.title]
    /\ poller' = "asleep"
    /\ UNCHANGED <<externalVars, last_title, update, artwork, muxVars>>

WriteTrack ==
    /\ poller = "track"
    /\ track' = update.track /\ poller' = "asleep"
    /\ UNCHANGED <<externalVars, last_title, update, artwork, muxVars>>

Wake ==
    /\ poller = "asleep"
    /\ poller' = "ask"
    /\ UNCHANGED <<externalVars, last_title, update, artwork, track, muxVars>>

(* The monitor removes the session and aborts the poller, at an await.     *)
Abort ==
    /\ poller # "aborted"
    /\ poller' = "aborted"
    /\ UNCHANGED <<externalVars, last_title, update, artwork, track, muxVars>>

-----------------------------------------------------------------------------
(* The mux task, for a frame.                                              *)

ReadTrack ==
    /\ mux = "track"
    /\ seen' = track /\ mux' = "art"
    /\ UNCHANGED <<externalVars, pollerVars, tag>>

ReadArt ==
    /\ mux = "art"
    /\ tag' = [track |-> seen, art |-> artwork] /\ mux' = "track"
    /\ UNCHANGED <<externalVars, pollerVars, seen>>

-----------------------------------------------------------------------------

PollerStep ==
    \/ NowFails \/ NowPlaying \/ NowNothing
    \/ ProgramShown \/ ProgramMissing
    \/ WriteArt \/ WriteTrack \/ Wake

Next == Change \/ PollerStep \/ Abort \/ ReadTrack \/ ReadArt

Spec == Init /\ [][Next]_vars

(* The poller's requests have timeouts and its sleep ends; frames come, as *)
(* they do while the pipeline runs.                                        *)
FairSpec == Spec /\ WF_vars(PollerStep) /\ WF_vars(ReadTrack) /\ WF_vars(ReadArt)

-----------------------------------------------------------------------------
(* Invariants.                                                             *)

Track == [title : {s.title : s \in Song} \cup Program \cup {<< >>},
          artist : {s.artist : s \in Song} \cup {<< >>}, ver : Nat]
Art == [url : {s.art : s \in Song} \cup {Fallback, NoArt}, ver : Nat]

(* Titles stay titles and artists artists, in all places they are kept.    *)
TypeOK ==
    /\ song \in Song \cup {Nothing} /\ program \in Program \cup {Nothing}
    /\ changes \in 0..MaxChanges /\ failures \in 0..MaxFailures
    /\ poller \in {"ask", "askProgram", "art", "track", "asleep", "aborted"}
    /\ last_title \in {Joined(s) : s \in Song} \cup Program \cup {<< >>}
    /\ update.track \in Track /\ update.art \in Art
    /\ artwork \in Art /\ track \in Track
    /\ mux \in {"track", "art"} /\ seen \in Track
    /\ tag.track \in Track /\ tag.art \in Art

(* Whenever the poller compares an answer with its memo, the memo stands   *)
(* for what the two cells show, and both are of the same update: what is   *)
(* not written again is there already.                                     *)
MemoTrue ==
    poller \in {"ask", "askProgram", "asleep"} =>
        /\ last_title \in {Joined(track), track.title}
        /\ last_title = track.title /\ track.artist = << >> =>
              artwork.url = Fallback
        /\ artwork.ver = track.ver

(* The artwork in a tag is never older than its title: no listener sees    *)
(* the cover of the song before.                                           *)
ArtNotOlder == tag.art.ver >= tag.track.ver

(* Memo, cells and tags keep to the order of the updates.                  *)
UpdatesInOrder == MemoTrue /\ ArtNotOlder

(* "Per-song metadata: Track title, artist, and album artwork": a tag that *)
(* names an artist has the artwork the station gave for that song.         *)
TagOfOneSong ==
    tag.track.artist # << >> =>
        \E s \in Song :
            /\ s.title = tag.track.title /\ s.artist = tag.track.artist
            /\ s.art = tag.art.url

-----------------------------------------------------------------------------
(* Liveness properties.                                                    *)

(* The lines a tag that shows what the services answer can have.           *)
OnAir ==
    IF song # Nothing THEN Joined(song)
    ELSE IF program # Nothing THEN program ELSE << >>

(* However answers changed and requests failed: when both are over, the    *)
(* tags come to show what is on air, and keep showing it.                  *)
Settles ==
    <>[](\/ poller = "aborted"
         \/ /\ OnAir \in {Joined(tag.track), tag.track.title}
            /\ tag.art.ver = tag.track.ver)

(* "Current artwork": the artwork comes to be the one of the song on air.  *)
ArtworkCurrent ==
    <>[](poller = "aborted" \/ song = Nothing \/ artwork.url = song.art)
=============================================================================
