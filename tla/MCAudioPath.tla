----------------------------- MODULE MCAudioPath -----------------------------
(***************************************************************************)
(* The stations of the audio between the device and a segment, for one run *)
(* of TLC: packets, PES, decoded audio, the frames of the other backend,   *)
(* and packets again.  A behaviour is one of its subject, the other        *)
(* components rest in an initial state.                                    *)
(***************************************************************************)
EXTENDS TsDemux, PesAssembler, PcmBridge, AdtsParser, TsMuxer

VARIABLE subject

audioPathVars == <<subject, demuxVars, pesVars, pcmVars, adtsVars, vars>>

(* Audio that holds a sync byte at its end, or at its beginning and is     *)
(* there the image of a PAT.                                               *)
DemuxPayloads == {<<Filler, Filler, Sync>>, <<Sync, PatPid, Pat(OtherPid)>>}

(* Payloads with nothing special, with a sync word and a length that makes *)
(* sense or not, with half a sync word at either end.                      *)
AdtsPayloads ==
    {<<9>>, <<Sync1, Sync2, 4>>, <<Sync1, Sync2, 0>>, <<Sync2, Sync1>>}

AudioPathInit ==
    /\ subject \in {"demux", "pes", "pcm", "adts", "mux"}
    /\ DemuxInit /\ PesInit /\ PcmInit /\ AdtsInit /\ Init
    /\ subject # "demux" => cut = 0
    /\ subject # "adts" => head = 0

AudioPathNext ==
    /\ UNCHANGED subject
    /\ \/ /\ subject = "demux" /\ DemuxNext
          /\ UNCHANGED <<pesVars, pcmVars, adtsVars, vars>>
       \/ /\ subject = "pes" /\ PesNext
          /\ UNCHANGED <<demuxVars, pcmVars, adtsVars, vars>>
       \/ /\ subject = "pcm" /\ PcmNext
          /\ UNCHANGED <<demuxVars, pesVars, adtsVars, vars>>
       \/ /\ subject = "adts" /\ AdtsNext
          /\ UNCHANGED <<demuxVars, pesVars, pcmVars, vars>>
       \/ /\ subject = "mux" /\ Next
          /\ UNCHANGED <<demuxVars, pesVars, pcmVars, adtsVars>>

AudioPathSpec == AudioPathInit /\ [][AudioPathNext]_audioPathVars

(* The state of every station is what it is meant to be.                   *)
AudioPathTypeOK == DemuxTypeOK /\ PesTypeOK /\ PcmTypeOK /\ AdtsTypeOK /\ TypeOK
=============================================================================
