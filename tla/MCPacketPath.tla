---------------------------- MODULE MCPacketPath ----------------------------
(* Small instances of what works on captured packets: Recorder, PacketPath,  *)
(* Detection, FileExtraction, Telemetry, TrafficSeries, Reassembly,          *)
(* Attribution and Behaviours.  They share no state that is modelled: the    *)
(* first state chooses the one that makes the steps.                         *)
EXTENDS Recorder, PacketPath, Detection, FileExtraction, Telemetry, Reassembly,
        Attribution, Behaviours, TrafficSeries, TLC

CONSTANTS sock1, sock2, flow1, flow2, sig1, sig2, sig3

VARIABLE part

\* The first rule is loaded, the second is a draft, the third has nothing to match.
TheRules == <<[id |-> sig1, enabled |-> TRUE, status |-> "enabled", complete |-> TRUE],
              [id |-> sig2, enabled |-> TRUE, status |-> "draft", complete |-> TRUE],
              [id |-> sig3, enabled |-> TRUE, status |-> "enabled", complete |-> FALSE]>>

\* Three messages without and one with a body.
M(header, body) == [header |-> header, body |-> body, closes |-> FALSE]
TheMessages == <<M(1, 1), M(2, 0), M(1, 3), M(1, 0)>>

\* flow1 belongs to sock1 and may be taken for sock2, which is bound to any
\* address; flow2 is between the two.
End(exact, bound, any) == [exact |-> exact, bound |-> bound, any |-> any]
TheEnds ==
  flow1 :> <<End({sock1}, {sock1}, {sock2})>> @@
  flow2 :> <<End({sock1}, {sock1}, {}), End({sock2}, {sock2}, {})>>

Parts == {"recorder", "path", "detection", "files", "telemetry", "series", "streams", "sockets",
          "behaviours"}
PartInit ==
  /\ part \in Parts
  /\ RecorderInit /\ PathInit /\ DetectionInit /\ FilesInit /\ TelemetryInit /\ ReassemblyInit
  /\ AttributionInit /\ BehavioursInit /\ SeriesInit
  /\ part # "files" => wire = "http"

\* Every part but the one at work stands still.
PartNext ==
  /\ UNCHANGED part
  /\ IF part = "recorder" THEN RecorderNext ELSE UNCHANGED recorderVars
  /\ IF part = "path" THEN PathNext ELSE UNCHANGED pathVars
  /\ IF part = "detection" THEN DetectionNext ELSE UNCHANGED detectionVars
  /\ IF part = "files" THEN FilesNext ELSE UNCHANGED extractionVars
  /\ IF part = "telemetry" THEN TelemetryNext ELSE UNCHANGED telemetryVars
  /\ IF part = "series" THEN SeriesNext ELSE UNCHANGED seriesVars
  /\ IF part = "streams" THEN ReassemblyNext ELSE UNCHANGED reassemblyVars
  /\ IF part = "sockets" THEN AttributionNext ELSE UNCHANGED trackerVars
  /\ IF part = "behaviours" THEN BehavioursNext ELSE UNCHANGED behaviourVars
PartSpec ==
  PartInit /\ [][PartNext]_<<part, recorderVars, pathVars, detectionVars, extractionVars, telemetryVars,
                             seriesVars, reassemblyVars, trackerVars, behaviourVars>>

\* Interfaces, remote hosts, addresses, file ids and the flows of the series are
\* interchangeable.  Only one part makes steps, so that one permutation swaps them all.
Alike == {Interfaces, Ifaces, Addresses, Fids, SeriesFlows, RemoteHosts}
Symmetry ==
  {[x \in UNION Alike |-> CHOOSE y \in UNION {pair \in Alike : x \in pair} : (y # x) = swapped] :
     swapped \in BOOLEAN}
-----------------------------------------------------------------------------
\* The dashboards are truthful: the live counters and the series of the graphs.
TelemetryTruthful ==
  /\ part = "telemetry" => CountersTruthful
  /\ part = "series" => SeriesTruthful
=============================================================================
