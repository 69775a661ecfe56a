----------------------------- MODULE Reassembly -----------------------------
(***************************************************************************)
(* From captured TCP segments to observed messages: one direction of a     *)
(* flow in internal/dpi/dpi.go (appendSegment, InspectObserved, Forget)    *)
(* and observations.go.  The sender's bytes are numbered from 1; they are  *)
(* cut into messages of a header and a body, as in HTTP/1.  A segment      *)
(* carries consecutive bytes; the capture may miss it, and the sender may  *)
(* send any bytes again, cut in another way.  To the capture, a late       *)
(* segment is one that was missed and sent again.                          *)
(*                                                                         *)
(* DNS over TCP, framed by a length, is a message that is all header.      *)
(***************************************************************************)
EXTENDS Integers, Sequences, FiniteSets

CONSTANTS Messages,    \* what is sent: a sequence of [header, body, closes]
          SequenceSpace, FirstSequence, \* sequence numbers, 2^32 of them
          MaxBuffer,   \* max: bytes a stream holds
          MaxPending,  \* segments held for later, 64
          MaxSegment, MaxSent, MaxForgets \* bounds

ASSUME ReassemblyAssumption ==
  /\ Messages \in Seq([header : Nat \ {0}, body : Nat, closes : BOOLEAN])
  /\ FirstSequence \in 0..(SequenceSpace - 1)
  /\ {SequenceSpace, MaxBuffer, MaxPending, MaxSegment, MaxSent, MaxForgets} \subseteq Nat

Indices == DOMAIN Messages
SizeOf(k) == Messages[k].header + Messages[k].body
EndOf[k \in 0..Len(Messages)] == IF k = 0 THEN 0 ELSE EndOf[k - 1] + SizeOf(k)
BeginOf(k) == EndOf[k - 1] + 1
StreamLength == EndOf[Len(Messages)]
Bytes(a, b) == [i \in 1..(b - a + 1) |-> a + i - 1]
SequenceOf(a) == (FirstSequence + a - 1) % SequenceSpace

VARIABLES sentTo,    \* the last byte sent so far
          prefix, \* the stream whose prefix is classified (flowState.tx)
          watched,   \* the stream whose messages are observed (observationTX)
          headerSeen,\* observedHeader of the watched stream
          reports,  \* messages observed, in this order
          info,      \* message the flow's classification shows, 0 for none
          orderly,   \* all was captured, new bytes in order (history)
          segments, forgets
reassemblyVars == <<sentTo, prefix, watched, headerSeen, reports, info, orderly,
                    segments, forgets>>

Unopened == [open |-> FALSE, next |-> 0, buf |-> <<>>, pending |-> <<>>]
ReassemblyInit ==
  /\ sentTo = 0 /\ prefix = Unopened /\ watched = Unopened
  /\ headerSeen = FALSE /\ reports = <<>> /\ info = 0
  /\ orderly = TRUE /\ segments = 0 /\ forgets = 0

-----------------------------------------------------------------------------
\* appendSegment: s is a stream, seq a sequence number.
IsFull(s) == Len(s.buf) >= MaxBuffer
Opened(s, seq) == IF s.open THEN s ELSE [s EXCEPT !.open = TRUE, !.next = seq]
SeenAlready(s, seq) == IF seq < s.next THEN s.next - seq ELSE 0
SmallerOf(x, y) == IF x < y THEN x ELSE y
Take(s, bytes) ==
  LET n == SmallerOf(Len(bytes), MaxBuffer - Len(s.buf))
  IN  [s EXCEPT !.buf = @ \o SubSeq(bytes, 1, n), !.next = (@ + n) % SequenceSpace]
Hold(s, seq, bytes) ==
  IF Cardinality(DOMAIN s.pending) >= MaxPending THEN s
  ELSE [s EXCEPT !.pending = [q \in DOMAIN @ \union {seq} |-> IF q = seq THEN bytes ELSE @[q]]]
TakeHeld(s) ==
  IF s.next \notin DOMAIN s.pending THEN s
  ELSE LET rest == [s EXCEPT !.pending = [q \in DOMAIN @ \ {s.next} |-> @[q]]]
       IN  IF IsFull(s) THEN rest ELSE Take(rest, s.pending[s.next])
TakeAllHeld(s) ==
  LET after[n \in 0..MaxPending] == IF n = 0 THEN s ELSE TakeHeld(after[n - 1])
  IN  after[MaxPending]

AppendOpened(s, seq, bytes) ==
  LET known == SeenAlready(s, seq)
      fresh == SubSeq(bytes, known + 1, Len(bytes))
  IN  IF known >= Len(bytes) THEN s
      ELSE IF known = 0 /\ seq > s.next THEN Hold(s, seq, bytes)
      ELSE TakeAllHeld(Take(s, fresh))
AppendSegmentUntrimmed(s, seq, bytes) == \* a plausible bug: what is known is taken again
  IF bytes = <<>> \/ IsFull(s) THEN s
  ELSE IF s.open /\ seq > s.next THEN Hold(s, seq, bytes)
  ELSE TakeAllHeld(Take(Opened(s, seq), bytes))
AppendSegment(s, seq, bytes) ==
  IF bytes = <<>> \/ IsFull(s) THEN s ELSE AppendOpened(Opened(s, seq), seq, bytes)

\* What a buffer begins with, as the parser reads it: its first n messages from
\* message k on are complete, and so is the header of the next.
BeginsWith(buf, bytes) == Len(bytes) <= Len(buf) /\ SubSeq(buf, 1, Len(bytes)) = bytes
Complete(buf, k, n) ==
  BeginsWith(buf, Bytes(BeginOf(k), EndOf[k + n - 1])) /\ \A j \in k..(k + n - 1) : ~Messages[j].closes
HeaderEnd(k) == BeginOf(k) + Messages[k].header - 1
HeaderThere(buf, k, n) ==
  k + n \in Indices /\ BeginsWith(buf, Bytes(BeginOf(k), HeaderEnd(k + n)))
FrontMessages(buf) == {k \in Indices : buf # <<>> /\ Head(buf) = BeginOf(k)}
CompleteCount(buf, k) ==
  Cardinality({n \in 1..(Len(Messages) - k + 1) : Complete(buf, k, n)})

\* observeMessages: complete messages leave the buffer; a message is reported
\* when its header is complete, and only then.
Reported(buf, k, reportedHeader) ==
  LET n     == CompleteCount(buf, k)
      first == IF reportedHeader THEN k + 1 ELSE k
      last  == IF HeaderThere(buf, k, n) THEN k + n ELSE k + n - 1
  IN  Bytes(first, last)
Remaining(buf, k) ==
  SubSeq(buf, EndOf[k + CompleteCount(buf, k) - 1] - BeginOf(k) + 2, Len(buf))

NewMessages(s) ==
  IF FrontMessages(s.buf) = {} THEN <<>>
  ELSE Reported(s.buf, CHOOSE k \in FrontMessages(s.buf) : TRUE, headerSeen)
ObserveMessages(s) ==
  IF FrontMessages(s.buf) = {} THEN watched' = s /\ UNCHANGED headerSeen
  ELSE \E k \in FrontMessages(s.buf) :
         /\ watched' = [s EXCEPT !.buf = Remaining(s.buf, k)]
         /\ headerSeen' = HeaderThere(s.buf, k, CompleteCount(s.buf, k))

\* InspectObserved: the classification shows the first message of the prefix
\* until messages are observed, then the last one observed.
PrefixMessage(buf) == {k \in FrontMessages(buf) : HeaderThere(buf, k, 0)}
Classified(buf, news) ==
  IF news # <<>> THEN {news[Len(news)]}
  ELSE IF info = 0 /\ PrefixMessage(buf) # {} THEN PrefixMessage(buf)
  ELSE {info}
InspectObserved(a, b) ==
  LET s    == AppendSegment(watched, SequenceOf(a), Bytes(a, b))
      news == NewMessages(s)
  IN  /\ ObserveMessages(s)
      /\ prefix' = AppendSegment(prefix, SequenceOf(a), Bytes(a, b))
      /\ info' \in Classified(prefix'.buf, news)
      /\ reports' = reports \o news

\* A segment of the sender's, with bytes it has sent before or not.
Segment(a, b, captured) ==
  /\ segments < MaxSent /\ segments' = segments + 1
  /\ a <= sentTo + 1 /\ sentTo' = IF b > sentTo THEN b ELSE sentTo
  /\ ~captured => b > sentTo
  /\ orderly' = (orderly /\ (b > sentTo => captured /\ a = sentTo + 1))
  /\ IF captured THEN InspectObserved(a, b)
     ELSE UNCHANGED <<prefix, watched, headerSeen, reports, info>>
  /\ UNCHANGED forgets

\* Forget: the flow was idle for too long; its next segment opens a new one.
ForgetFlow ==
  /\ forgets < MaxForgets /\ watched.open /\ forgets' = forgets + 1
  /\ prefix' = Unopened /\ watched' = Unopened /\ headerSeen' = FALSE
  /\ reports' = <<>> /\ info' = 0 /\ orderly' = FALSE
  /\ UNCHANGED <<sentTo, segments>>

ReassemblyNext ==
  \/ \E a \in 1..StreamLength, n \in 1..MaxSegment, captured \in BOOLEAN :
       a + n - 1 <= StreamLength /\ Segment(a, a + n - 1, captured)
  \/ ForgetFlow

-----------------------------------------------------------------------------
\* A stream holds consecutive bytes of what was sent, at most so many, and its
\* next sequence number follows them.
Contiguous(s) ==
  /\ Len(s.buf) <= MaxBuffer
  /\ \A i \in 1..(Len(s.buf) - 1) : s.buf[i + 1] = s.buf[i] + 1
  /\ s.buf # <<>> => s.next = (SequenceOf(s.buf[Len(s.buf)]) + 1) % SequenceSpace

\* Messages from which on a stream cannot be cut: the buffer ends first, or the
\* message ends with the connection. Message k does not begin before byte k.
Uncut(k) == SizeOf(k) + MaxSegment - 1 > MaxBuffer \/ Messages[k].closes
InOrderReports ==
  {k \in Indices \cap 1..sentTo :
     HeaderEnd(k) <= sentTo /\ \A j \in 1..(k - 1) : ~Uncut(j)}

\* Whatever is sent again, late or missed, in a stream shorter than the space of
\* sequence numbers (which it may wrap): the reported messages are distinct
\* messages in the order of the stream, without a gap; the flow shows the last of
\* them; and of a stream captured in order every message is reported, up to one
\* that does not fit.
MessagesObservedOnce ==
  /\ \A i \in 1..(Len(reports) - 1) : reports[i + 1] = reports[i] + 1
  /\ \A i \in DOMAIN reports : reports[i] \in Indices /\ HeaderEnd(reports[i]) <= sentTo
  /\ reports # <<>> => info = reports[Len(reports)]
  /\ Contiguous(prefix) /\ Contiguous(watched)
  /\ orderly => InOrderReports \subseteq {reports[i] : i \in DOMAIN reports}
=============================================================================
