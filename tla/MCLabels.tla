------------------------------ MODULE MCLabels -------------------------------
(***************************************************************************)
(* What a listener is shown, for one run of TLC: the metadata of the song, *)
(* the tag it is put into with its time stamp, and the lineup of the       *)
(* device, of which it depends whether there is any.  A behaviour is one   *)
(* of its subject, the other components rest in an initial state.          *)
(***************************************************************************)
EXTENDS MCMetadata, TimedMetadata, Lineup

VARIABLE subject

labelsVars == <<subject, vars, timedVars, lineupVars>>

(* The channel is dropped by one scan and comes back with the next.        *)
LabelsListing == {1, 3}

(* None and all of the bits, and each one at the border of a group.        *)
LabelsStamps ==
    {{}, 0..63} \cup {{b} : b \in {0, 7, 14, 15, 22, 24, 29, 32, 33, 63}}

LabelsInit ==
    /\ subject \in {"metadata", "tag", "lineup"}
    /\ Init /\ TimedInit /\ LineupInit
    /\ subject # "metadata" => song = Nothing /\ program = Nothing
    /\ subject # "tag" => pes.rest = Rest(1)

LabelsNext ==
    /\ UNCHANGED subject
    /\ \/ subject = "metadata" /\ Next /\ UNCHANGED <<timedVars, lineupVars>>
       \/ subject = "tag" /\ TimedNext /\ UNCHANGED <<vars, lineupVars>>
       \/ subject = "lineup" /\ LineupNext /\ UNCHANGED <<vars, timedVars>>

(* FairSpec of Metadata for the behaviours that are its own.               *)
LabelsFairSpec ==
    /\ LabelsInit /\ [][LabelsNext]_labelsVars
    /\ WF_vars(subject = "metadata" /\ PollerStep)
    /\ WF_vars(subject = "metadata" /\ ReadTrack)
    /\ WF_vars(subject = "metadata" /\ ReadArt)

(* The state of every component is what it is meant to be.                 *)
LabelsTypeOK == TypeOK /\ TimedTypeOK /\ LineupTypeOK
=============================================================================
