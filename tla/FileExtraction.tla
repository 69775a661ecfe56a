---------------------------- MODULE FileExtraction ----------------------------
(***************************************************************************)
(* Files rebuilt from network traffic (internal/fileextract/extractor.go), *)
(* the retention policy that decides which packets may reach it            *)
(* (internal/smartpcap/policy.go, processFrame), and the YARA scans of     *)
(* what was rebuilt (Start, consumeFileUpdates of                          *)
(* internal/pipeline/pipeline.go).                                         *)
(*                                                                         *)
(* A connection carries units: units <<m, 0>> open message, transfer or    *)
(* file m, units <<m, 1>>, <<m, 2>>, ... are its bytes.  The engine appends *)
(* payloads in the order they are captured, without looking at sequence    *)
(* numbers or offsets.  The four protocols share nothing but the artifacts *)
(* and the scan queue, so one is on the wire at a time (wire).             *)
(***************************************************************************)
EXTENDS Integers, Sequences, FiniteSets, SequencesExt

CONSTANTS MaxFileBytes, MaxArtifacts, \* settings
          ScanQueue, UpdateQueue,     \* capacities of scanCh and updates
          RetentionMode, DefaultAction, RuleActions, \* smart_pcap
          Fids,                       \* SMB file ids, which servers use again
          MaxUnits, MaxLoss           \* bounds: units sent; packets lost or sent twice

ASSUME FileExtractionAssumption ==
  /\ {MaxFileBytes, MaxArtifacts, ScanQueue, UpdateQueue, MaxUnits, MaxLoss} \subseteq Nat
  /\ MaxFileBytes > 0 /\ MaxArtifacts > 0 /\ ScanQueue > 0 /\ UpdateQueue > 0

NoFile == 0

VARIABLES wire,       \* the protocol at work
          sentUnits,  \* the units sent so far, in order (the endpoints)
          buffers,    \* e.streams: what was captured of the connection(s)
          parsed,     \* streamState.parsed
          ftpSession, \* the port announced, the file asked for (ftpSession)
          dataPorts,  \* the keys of e.ftpData
          smb,        \* smbState: the names pending, the open files, their bytes
          artifacts,  \* e.artifacts: the numbers of those kept
          extracted,  \* all artifacts ever: [name, data] (history)
          complete,   \* the files the endpoints have transferred (history)
          losses,     \* packets lost, repeated or withheld so far (history)
          evidence,   \* units whose packet the recorder kept in full (history)
          scans,      \* scanCh
          scanning,   \* the artifact in the hands of the scanner
          updates,    \* the updates channel
          matches,    \* artifacts whose scan matched, and was stored (history)
          announcedMatches, \* those a finding was raised for
          lostUpdates \* updates that met a full channel (history)
extractionVars == <<wire, sentUnits, buffers, parsed, ftpSession, dataPorts, smb, artifacts,
                    extracted, complete, losses, evidence, scans, scanning, updates, matches,
                    announcedMatches, lostUpdates>>
tracks == <<scanning, updates, matches, announcedMatches, lostUpdates>>

NoNames == [f \in Fids |-> NoFile]
FilesInit ==
  /\ wire \in {"http", "smtp", "ftp", "smb"}
  /\ sentUnits = <<>> /\ buffers = [k \in 0..MaxUnits |-> <<>>] /\ parsed = 0
  /\ ftpSession = [port |-> 0, file |-> NoFile] /\ dataPorts = {}
  /\ smb = [pending |-> NoFile, open |-> NoNames, data |-> [f \in Fids |-> <<>>]]
  /\ artifacts = <<>> /\ extracted = <<>> /\ complete = <<>>
  /\ losses = 0 /\ evidence = {}
  /\ scans = <<>> /\ scanning = NoFile /\ updates = <<>>
  /\ matches = {} /\ announcedMatches = {} /\ lostUpdates = {}

-----------------------------------------------------------------------------
\* smartpcap Decide: the action of the first rule that matches, or the default;
\* an action that is not known is no action.
Known(a) == IF a \in {"full", "headers", "metadata", "drop"} THEN a ELSE ""
Decide(ruled) ==
  IF RetentionMode \in {"", "full"} THEN "full"
  ELSE IF ruled # <<>> THEN Known(ruled[1])
  ELSE IF Known(DefaultAction) # "" THEN Known(DefaultAction)
  ELSE IF RetentionMode = "metadata" THEN "metadata" ELSE "headers"
Decisions == {Decide(ruled) : ruled \in {<<>>} \union {<<a>> : a \in RuleActions}}
\* Apply: an unknown action keeps the frame as "full" does.
KeptWhole(decision) == decision \notin {"metadata", "drop", "headers"}
\* processFrame: only what the policy keeps in full may be extracted.
Extracts(decision) == decision = "full"

-----------------------------------------------------------------------------
\* artifact and appendArtifact: cut to the limit, the oldest make room, and each is
\* queued for a scan unless the queue is full.
FirstOf(seq, n) == IF Len(seq) > n THEN SubSeq(seq, 1, n) ELSE seq
Cut(data) == FirstOf(data, MaxFileBytes)
Newly(new) == [i \in 1..Len(new) |-> Len(extracted) + i]
KeepNewest(list) ==
  IF Len(list) > MaxArtifacts THEN SubSeq(list, Len(list) - MaxArtifacts + 1, Len(list)) ELSE list
Store(new) ==
  LET cut == [i \in 1..Len(new) |-> [new[i] EXCEPT !.data = Cut(@)]] IN
  /\ extracted' = extracted \o cut
  /\ artifacts' = KeepNewest(artifacts \o Newly(new))
  /\ scans' = FirstOf(scans \o Newly(new), ScanQueue)

\* appendStream: at most twice the limit of one direction of a connection is ever
\* kept, from its beginning.
Stream(k, payload) == FirstOf(buffers[k] \o payload, 2 * MaxFileBytes)

\* observeHTTP: from where it stopped, the next header that is complete together
\* with the bytes it announces is a message; HTTP unit <<m, 0, n>> announces n.
HeaderAt(b, i) == {j \in i..Len(b) : b[j][2] = 0}
First(positions) == CHOOSE j \in positions : \A k \in positions : j <= k
\* The end of the message whose header is at j, and whether it has arrived.
BodyEnd(b, j) == j + b[j][3]
Arrived(b, j) == BodyEnd(b, j) <= Len(b)
MessageData(b, j) == SubSeq(b, j + 1, BodyEnd(b, j))
MessageAt(b, j) ==
  IF b[j][3] = 0 THEN <<>> ELSE <<[name |-> b[j][1], data |-> MessageData(b, j)]>>
\* What is found from position i on, given what is found from any later one.
FoundFrom(b, i, later) ==
  LET heads == HeaderAt(b, i)
      rest == later[BodyEnd(b, First(heads)) + 1]
  IN  IF i > Len(b) \/ heads = {} THEN [found |-> <<>>, at |-> i]
      ELSE IF ~Arrived(b, First(heads)) THEN [found |-> <<>>, at |-> First(heads)]
      ELSE [found |-> MessageAt(b, First(heads)) \o rest.found, at |-> rest.at]
HTTPFrom(b) ==
  LET from[i \in 1..(2 * MaxFileBytes + 2)] == FoundFrom(b, i, from) IN from
ParseAgain(b, from) == HTTPFrom(b)[1] \* a plausible bug: parsed is not kept
Parse(b, from) == HTTPFrom(b)[from + 1]
ObserveHTTP(payload) ==
  LET b == Stream(0, payload) IN
  /\ wire = "http"
  /\ buffers' = [buffers EXCEPT ![0] = b]
  /\ parsed' = Parse(b, parsed).at - 1
  /\ Store(Parse(b, parsed).found)
  /\ UNCHANGED <<ftpSession, dataPorts, smb>>

\* observeSMTP: once the first mail of the buffer is complete its attachments (one
\* for each unit here) are extracted, for this and for every later packet.
MailEnd(b, j) == j + b[j][3] + 1
Mail(b) ==
  IF HeaderAt(b, 1) = {} \/ MailEnd(b, First(HeaderAt(b, 1))) > Len(b) THEN <<>>
  ELSE LET j == First(HeaderAt(b, 1))
       IN [i \in 1..b[j][3] |-> [name |-> b[j + i][1], data |-> <<b[j + i]>>]]
ObserveSMTP(payload) ==
  LET b == Stream(0, payload) IN
  /\ wire = "smtp"
  /\ buffers' = [buffers EXCEPT ![0] = b]
  /\ Store(Mail(b))
  /\ parsed' = (IF Mail(b) # <<>> THEN MailEnd(b, First(HeaderAt(b, 1))) ELSE parsed)
  /\ UNCHANGED <<ftpSession, dataPorts, smb>>

-----------------------------------------------------------------------------
\* The endpoints of HTTP and SMTP send messages one after the other; a mail ends
\* with a unit of its own.
LastSent == sentUnits[Len(sentUnits)]
Trailer == IF wire = "smtp" THEN 1 ELSE 0
Finished == sentUnits = <<>> \/ LastSent[2] = LastSent[3] + Trailer
NextUnits ==
  IF Finished THEN {<<IF sentUnits = <<>> THEN 1 ELSE LastSent[1] + 1, 0, n>> : n \in 0..(MaxFileBytes + 1)}
  ELSE {[LastSent EXCEPT ![2] = @ + 1]}
\* What the unit completes, seen by the endpoints.
Whole(units, u) ==
  IF wire = "http" /\ u[2] = u[3] /\ u[3] > 0
  THEN <<[name |-> u[1], data |-> Cut([i \in 1..u[3] |-> <<u[1], i, u[3]>>]), last |-> Len(units)]>>
  ELSE IF wire = "smtp" /\ u[2] = u[3] + 1 /\ u[1] = 1
  THEN [i \in 1..u[3] |-> [name |-> 1, data |-> <<<<1, i, u[3]>>>>, last |-> Len(units)]]
  ELSE <<>>
Lose(decision, repeats) ==
  /\ losses' = losses + (IF Extracts(decision) /\ repeats = 1 THEN 0 ELSE 1)
  /\ losses' <= MaxLoss
\* A packet with the next unit: captured once, twice (it was sent again) or never.
SendPacket(u, decision, repeats) ==
  /\ wire \in {"http", "smtp"} /\ Len(sentUnits) < MaxUnits /\ u \in NextUnits
  /\ sentUnits' = Append(sentUnits, u)
  /\ complete' = complete \o Whole(sentUnits', u)
  /\ Lose(decision, repeats)
  /\ evidence' = evidence \union {v \in {u} : repeats > 0 /\ KeptWhole(decision)}
  /\ IF Extracts(decision) /\ repeats > 0
     THEN LET payload == [i \in 1..repeats |-> u] IN ObserveHTTP(payload) \/ ObserveSMTP(payload)
     ELSE UNCHANGED <<buffers, parsed, ftpSession, dataPorts, smb, artifacts, extracted, scans>>
  /\ UNCHANGED <<wire, tracks>>

-----------------------------------------------------------------------------
\* The number of units of data of m sent so far, and the file that n of them are:
\* the last one says whether the connection ends with it.
DataOf(m, units) == Cardinality({i \in DOMAIN units : units[i][1] = m /\ units[i][2] > 0})
DataSent(m) == DataOf(m, sentUnits)
FileOf(m, n, fin) == [i \in 1..n |-> <<m, i, IF i = n THEN fin ELSE 0>>]

\* observeFTPControl: a port is announced, a file is asked for; the data port
\* leads to the session, not to the file.  The endpoints give every transfer m a
\* port of its own and start the next when the last is over.
Transfers == 1..MaxUnits
Asked == {sentUnits[i][1] : i \in {j \in 1..Len(sentUnits) : sentUnits[j][2] = 0}}
Over(m) == \E i \in 1..Len(sentUnits) : sentUnits[i][1] = m /\ sentUnits[i][3] = 1
FTPControl(m) ==
  /\ wire = "ftp" /\ Len(sentUnits) < MaxUnits
  /\ m = Cardinality(Asked) + 1 /\ \A k \in Asked : Over(k)
  /\ sentUnits' = Append(sentUnits, <<m, 0, 0>>)
  /\ ftpSession' = [port |-> m, file |-> m]
  /\ dataPorts' = dataPorts \union {m}
  /\ UNCHANGED <<wire, buffers, parsed, smb, artifacts, extracted, complete, losses, evidence, scans,
                 tracks>>
\* observeFTPData: the bytes of the data connection, a file when it ends (FIN).
FTPData(m, fin) ==
  LET n == DataSent(m) + 1
      u == <<m, n, fin>>
      b == Stream(m, <<u>>)
  IN
  /\ wire = "ftp" /\ Len(sentUnits) < MaxUnits /\ m \in Asked /\ ~Over(m)
  /\ sentUnits' = Append(sentUnits, u)
  /\ complete' = complete \o (IF fin = 1
       THEN <<[name |-> m, data |-> Cut(FileOf(m, n, 1)), last |-> 0]>> ELSE <<>>)
  /\ evidence' = evidence \union {u}
  /\ IF m \in dataPorts
     THEN /\ buffers' = [buffers EXCEPT ![m] = IF fin = 1 THEN <<>> ELSE b]
          /\ Store(IF fin = 1 THEN <<[name |-> ftpSession.file, data |-> b]>> ELSE <<>>)
     ELSE UNCHANGED <<buffers, artifacts, extracted, scans>>
  /\ UNCHANGED <<wire, parsed, ftpSession, dataPorts, smb, losses, tracks>>

-----------------------------------------------------------------------------
\* observeSMB: CREATE (request and response), WRITE, CLOSE of files that may be
\* open at the same time on one connection.
OpenFids == {f \in Fids : smb.open[f] # NoFile}
SMBCreate(m) ==
  /\ wire = "smb" /\ Len(sentUnits) < MaxUnits
  /\ smb.pending = NoFile /\ m = Cardinality(Asked) + 1
  /\ sentUnits' = Append(sentUnits, <<m, 0, 0>>)
  /\ smb' = [smb EXCEPT !.pending = m]
  /\ UNCHANGED <<artifacts, extracted, scans, complete, evidence>>
SMBCreated(f) ==
  /\ wire = "smb" /\ smb.pending # NoFile /\ f \notin OpenFids
  /\ smb' = [smb EXCEPT !.pending = NoFile, !.open[f] = smb.pending]
  /\ UNCHANGED <<sentUnits, artifacts, extracted, scans, complete, evidence>>
SMBWrite(f) ==
  LET u == <<smb.open[f], DataSent(smb.open[f]) + 1, 0>> IN
  /\ wire = "smb" /\ Len(sentUnits) < MaxUnits /\ f \in OpenFids
  /\ sentUnits' = Append(sentUnits, u)
  /\ smb' = [smb EXCEPT !.data[f] = Cut(Append(@, u))]
  /\ evidence' = evidence \union {u}
  /\ UNCHANGED <<artifacts, extracted, scans, complete>>
SmbClosed(f) == [smb EXCEPT !.open[f] = NoFile, !.data[f] = <<>>]
SMBClose(f) ==
  LET m == smb.open[f]
      n == DataSent(m)
  IN
  /\ wire = "smb" /\ f \in OpenFids
  /\ smb' = SmbClosed(f)
  /\ complete' = complete \o (IF n = 0 THEN <<>>
                              ELSE <<[name |-> m, data |-> Cut(FileOf(m, n, 0)), last |-> 0]>>)
  /\ Store(IF smb.data[f] = <<>> THEN <<>> ELSE <<[name |-> m, data |-> smb.data[f]]>>)
  /\ UNCHANGED <<sentUnits, evidence>>
SMBStep ==
  /\ \/ \E m \in Transfers : SMBCreate(m)
     \/ \E f \in Fids : SMBCreated(f) \/ SMBWrite(f) \/ SMBClose(f)
  /\ UNCHANGED <<wire, buffers, parsed, ftpSession, dataPorts, losses, tracks>>

-----------------------------------------------------------------------------
\* Start: the scanner takes one job at a time; its result goes to the artifact if
\* that is still kept, and then to whoever waits for updates, if there is room.
ScanBegin ==
  /\ scanning = NoFile /\ scans # <<>>
  /\ scanning' = Head(scans) /\ scans' = Tail(scans)
  /\ UNCHANGED <<wire, sentUnits, buffers, parsed, ftpSession, dataPorts, smb, artifacts, extracted,
                 complete, losses, evidence, updates, matches, announcedMatches, lostUpdates>>
IsKept(id) == \E i \in 1..Len(artifacts) : artifacts[i] = id
ScanEnd(found) ==
  LET told == IsKept(scanning) /\ Len(updates) < UpdateQueue IN
  /\ scanning # NoFile /\ scanning' = NoFile
  /\ matches' = matches \union {id \in {scanning} : found /\ IsKept(scanning)}
  /\ updates' = (IF told THEN Append(updates, [id |-> scanning, found |-> found]) ELSE updates)
  /\ lostUpdates' = lostUpdates \union {id \in {scanning} : IsKept(id) /\ ~told}
  /\ UNCHANGED <<wire, sentUnits, buffers, parsed, ftpSession, dataPorts, smb, artifacts, extracted,
                 complete, losses, evidence, scans, announcedMatches>>
\* consumeFileUpdates: every match is a finding.
ConsumeUpdate ==
  /\ updates # <<>> /\ updates' = Tail(updates)
  /\ announcedMatches' = announcedMatches \union {id \in {Head(updates).id} : Head(updates).found}
  /\ UNCHANGED <<wire, sentUnits, buffers, parsed, ftpSession, dataPorts, smb, artifacts, extracted,
                 complete, losses, evidence, scans, scanning, matches, lostUpdates>>

FilesNext ==
  \/ \E u \in NextUnits, decision \in Decisions, repeats \in 0..2 : SendPacket(u, decision, repeats)
  \/ \E m \in Transfers : FTPControl(m)
  \/ \E m \in Transfers, fin \in {0, 1} : FTPData(m, fin)
  \/ SMBStep
  \/ ScanBegin \/ \E found \in BOOLEAN : ScanEnd(found)
  \/ ConsumeUpdate

-----------------------------------------------------------------------------
\* What the endpoints transferred within the first 2 * MaxFileBytes units of the
\* connection (files are completed in the order of the units).
WithinBuffer ==
  SubSeq(complete, 1, Cardinality({i \in DOMAIN complete : complete[i].last <= 2 * MaxFileBytes}))
Transferred(c) == [name |-> c.name, data |-> c.data]

\* When every packet was captured once, each file that was transferred is
\* extracted once, under its name and with its bytes and no others (cut to the
\* limit), however the files of one connection are interleaved; of mails, all
\* attachments of the first one, over and over.
TransfersExtracted ==
  losses = 0 =>
    IF wire = "smtp" THEN Range(extracted) = {Transferred(c) : c \in Range(WithinBuffer)}
    ELSE extracted = [i \in 1..Len(WithinBuffer) |-> Transferred(WithinBuffer[i])]

\* Extraction is no second path by which payload is retained: what an artifact or
\* a buffer holds was kept by the retention policy.
NoSecondRetention ==
  /\ \A i \in 1..Len(extracted) : Range(extracted[i].data) \subseteq evidence
  /\ Range(buffers[0]) \subseteq evidence

\* A match that was stored is announced by a finding once the updates are
\* consumed, unless its update met a full channel.
MatchesAnnounced ==
  /\ announcedMatches \subseteq matches
  /\ updates = <<>> => matches \subseteq announcedMatches \union lostUpdates
FilesRetainedRightly == NoSecondRetention /\ MatchesAnnounced

\* What is extracted is what was transferred, as far as the policy lets it.
FilesTruthful == TransfersExtracted /\ FilesRetainedRightly
=============================================================================
