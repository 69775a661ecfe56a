------------------------------ MODULE Recorder ------------------------------
(***************************************************************************)
(* The PCAPNG flight recorder (internal/pcapng/recorder.go): Record, Run,  *)
(* writeFrame, rotateLocked, Protect and prune.                            *)
(*                                                                         *)
(* A region under the mutex is one action; the copies of Protect and the   *)
(* goroutine that every rotation starts to prune the directory run outside *)
(* it, one file per step.  Sizes are counted in frames: the headers of a   *)
(* segment weigh nothing, and what bufio holds back belongs to its         *)
(* segment.  The name of an incident copy is made of a second, a reason    *)
(* and its source; a tag stands for the first two.                         *)
(***************************************************************************)
EXTENDS Integers, Sequences, FiniteSets, SequencesExt

CONSTANTS Interfaces,
          Protectors,      \* goroutines that call Protect
          ChannelSize,     \* capacity of the channel (8192)
          SegmentFrames,   \* size at which a segment is full
          MaxDisk,         \* disk budget
          SameTag,         \* may calls with one reason fall into one second
          MaxPrunes,       \* bound on the prunes that run at a time
          MaxFrames, MaxSegments, MaxCalls, MaxFileErrors   \* bounds

ASSUME RecorderAssumption ==
         /\ {ChannelSize, SegmentFrames, MaxPrunes} \subseteq Nat \ {0}
         /\ {MaxDisk, MaxFrames, MaxSegments, MaxCalls, MaxFileErrors} \subseteq Nat
         /\ SameTag \in BOOLEAN

VARIABLES loop,       \* Run: "none", "running" or "exited"
          buffered,   \* r.ch
          offered,    \* frames given to Record (history)
          dropped,    \* frames Record refused (history)
          rec,        \* the fields under the mutex, and the segments
          prunes,     \* the prune goroutines
          protector,  \* what each caller of Protect is doing
          incidents,  \* the incident directory
          protected,  \* the paths Protect has returned (history)
          calls, fileErrors

channel == <<buffered, offered, dropped>>
copies == <<protector, incidents, protected, calls>>
recorderVars == <<loop, channel, rec, prunes, copies, fileErrors>>

Segments == 1..MaxSegments
Tags == 0..MaxCalls
EmptySegment == [names |-> <<>>, packets |-> <<>>, state |-> "open"]
IdlePrune == [at |-> "idle", files |-> {}, size |-> [s \in Segments |-> 0], total |-> 0]
IdleProtector == [at |-> "idle", files |-> <<>>, tag |-> 0, saw |-> {}, out |-> {}]
NoCopy == [by |-> "nobody", done |-> FALSE, state |-> "none"]

\* handle is "none" while r.f is nil, and "closed" when r.f has been closed and
\* not been replaced; the writer then still accepts data, for a dead file.
RecorderInit ==
  /\ loop = "none" /\ buffered = <<>> /\ offered = 0 /\ dropped = {}
  /\ rec = [segs |-> <<>>, current |-> 0, handle |-> "none", written |-> 0,
            ifaces |-> <<>>, recent |-> <<>>]
  /\ prunes = [k \in 1..MaxPrunes |-> IdlePrune]
  /\ protector = [p \in Protectors |-> IdleProtector]
  /\ incidents = [d \in Tags \X Segments |-> NoCopy] /\ protected = {}
  /\ calls = 0 /\ fileErrors = 0

LastN(s, n) == IF Len(s) <= n THEN s ELSE SubSeq(s, Len(s) - n + 1, Len(s))
Cost(succeeded) == IF succeeded THEN 0 ELSE 1
Pay(n) == fileErrors + n <= MaxFileErrors /\ fileErrors' = fileErrors + n

-----------------------------------------------------------------------------

\* Record never waits: a frame that finds the channel full is dropped.
Record(i) ==
  /\ offered < MaxFrames /\ offered' = offered + 1
  /\ IF Len(buffered) < ChannelSize
       THEN /\ buffered' = Append(buffered, [n |-> offered', iface |-> i])
            /\ UNCHANGED dropped
       ELSE dropped' = dropped \cup {offered'} /\ UNCHANGED buffered
  /\ UNCHANGED <<loop, rec, prunes, copies, fileErrors>>

\* The open segment r.f is flushed and closed; a flush that fails leaves a file
\* that ends inside a block.
Closed(r, flushed) ==
  IF r.handle = "open"
    THEN [r EXCEPT !.segs[r.current].state = IF flushed THEN "complete" ELSE "cut",
                   !.handle = "closed"]
    ELSE r

\* rotateLocked: close the current segment, remember it, open the next one.
\* Errors of the flush are ignored, an error of the open is returned.
Rotated(r, flushed, opened) ==
  LET c == Closed(r, flushed)
      pushed == IF r.handle = "none" THEN c
                ELSE [c EXCEPT !.recent = LastN(Append(@, r.current), 4)]
  IN IF opened THEN [pushed EXCEPT !.segs = Append(@, EmptySegment),
                                   !.current = Len(r.segs) + 1, !.handle = "open",
                                   !.written = 0, !.ifaces = <<>>]
     ELSE pushed

CanOpen == Len(rec.segs) < MaxSegments /\ \E k \in 1..MaxPrunes : prunes[k].at = "idle"
PruneStarted ==
  LET k == CHOOSE j \in 1..MaxPrunes : prunes[j].at = "idle" IN
  prunes' = [prunes EXCEPT ![k].at = "started"]

\* A rotation with its outcomes: what went wrong, and the prune it starts.
Rotation(flushed, opened) ==
  /\ Pay(Cost(flushed) + Cost(opened))
  /\ IF opened THEN CanOpen /\ PruneStarted ELSE UNCHANGED prunes

StartRun ==
  /\ loop = "none"
  /\ \E flushed, opened \in BOOLEAN :
       /\ Rotation(flushed, opened)
       /\ rec' = Rotated(rec, flushed, opened)
       /\ loop' = IF opened THEN "running" ELSE "exited"
  /\ UNCHANGED <<channel, copies>>

\* The interface block, if the segment has none of the interface, and the
\* packet block.  They are lost when the file is closed.
Added(r, fr) ==
  LET ifaces == IF fr.iface \in ToSet(r.ifaces) THEN r.ifaces
                ELSE Append(r.ifaces, fr.iface)
      id == CHOOSE i \in 1..Len(ifaces) : ifaces[i] = fr.iface
      seg == r.segs[r.current]
      grown == [seg EXCEPT !.packets = Append(@, [n |-> fr.n, iface |-> fr.iface, id |-> id]),
                           !.names = IF ifaces = r.ifaces THEN @ ELSE Append(@, fr.iface)]
  IN [r EXCEPT !.ifaces = ifaces, !.written = @ + 1,
               !.segs[r.current] = IF r.handle = "open" THEN grown ELSE seg]

Full(r) == r.written >= SegmentFrames

\* Mutant: the frame that finds the segment full only rotates it.
WriteFrameOnlyRotates ==
  /\ loop = "running" /\ buffered # <<>> /\ buffered' = Tail(buffered)
  /\ IF Full(rec) THEN /\ Rotation(TRUE, TRUE) /\ rec' = Rotated(rec, TRUE, TRUE)
                  ELSE /\ rec' = Added(rec, Head(buffered)) /\ UNCHANGED <<prunes, fileErrors>>
  /\ UNCHANGED <<loop, offered, dropped, copies>>

\* Run takes a frame and writes it, into the next segment when this one is full.
WriteFrame ==
  /\ loop = "running" /\ buffered # <<>> /\ buffered' = Tail(buffered)
  /\ \/ /\ ~Full(rec)
        /\ rec' = Added(rec, Head(buffered))
        /\ UNCHANGED <<prunes, fileErrors>>
     \/ /\ Full(rec)
        /\ \E flushed \in BOOLEAN :
             /\ Rotation(flushed, TRUE)
             /\ rec' = Added(Rotated(rec, flushed, TRUE), Head(buffered))
  /\ UNCHANGED <<loop, offered, dropped, copies>>

\* writeFrame fails, in the rotation or in the write, and Run returns.
WriteFrameFails ==
  /\ loop = "running" /\ buffered # <<>> /\ buffered' = Tail(buffered)
  /\ loop' = "exited"
  /\ \/ /\ Full(rec)
        /\ \E flushed \in BOOLEAN : /\ Rotation(flushed, FALSE)
                                    /\ rec' = Rotated(rec, flushed, FALSE)
     \/ /\ ~Full(rec)
        /\ Pay(1) /\ rec' = Closed(rec, FALSE) /\ UNCHANGED prunes
  /\ UNCHANGED <<offered, dropped, copies>>

\* The root context is done: Run returns and its defer closes the segment.
StopRun ==
  /\ loop = "running" /\ loop' = "exited"
  /\ \E flushed \in BOOLEAN : /\ Pay(Cost(flushed))
                              /\ rec' = Closed(rec, flushed)
  /\ UNCHANGED <<channel, prunes, copies>>

-----------------------------------------------------------------------------
\* The numbers of the frames of a sequence of blocks or of waiting frames.
Numbers(blocks) == {x.n : x \in ToSet(blocks)}

Called(p, files) ==
  /\ protector[p].at = "idle"
  /\ calls < MaxCalls /\ calls' = calls + 1
  /\ protector' = [protector EXCEPT ![p] =
       [at |-> "copying", files |-> files, tag |-> IF SameTag THEN 0 ELSE calls', out |-> {},
        saw |-> IF rec.handle # "open" THEN {}
                ELSE Numbers(rec.segs[rec.current].packets)]]
  /\ UNCHANGED <<loop, channel, incidents, protected>>

\* The region of Protect under the mutex.  The error of the rotation is ignored.
Protect(p) ==
  \E flushed, opened \in BOOLEAN :
    /\ Rotation(flushed, opened)
    /\ rec' = Rotated(rec, flushed, opened)
    /\ Called(p, LastN(rec'.recent, 2))

Source(p) == Head(protector[p].files)
Target(p) == <<protector[p].tag, Source(p)>>
Copying(p, at) == protector[p].at = at /\ protector[p].files # <<>>

\* The caller has finished with a file, and goes on to the next.
NextFile(p, out) ==
  protector' = [protector EXCEPT ![p] =
                  [protector[p] EXCEPT !.at = "copying", !.files = Tail(@), !.out = out]]

\* copyFile opens its source, and creates or truncates its target.
CopyBegin(p) ==
  /\ Copying(p, "copying") /\ rec.segs[Source(p)].state # "pruned"
  /\ incidents' = [incidents EXCEPT ![Target(p)] =
                     [by |-> p, done |-> FALSE, state |-> rec.segs[Source(p)].state]]
  /\ protector' = [protector EXCEPT ![p].at = "writing"]
  /\ UNCHANGED <<loop, channel, rec, prunes, protected, calls, fileErrors>>

\* The source has been pruned, or one of the two files cannot be opened.
CopySkips(p) ==
  /\ Copying(p, "copying")
  /\ IF rec.segs[Source(p)].state = "pruned" THEN UNCHANGED fileErrors ELSE Pay(1)
  /\ NextFile(p, protector[p].out)
  /\ UNCHANGED <<loop, channel, rec, prunes, incidents, protected, calls>>

\* The copy ends, complete unless another call truncated the file meanwhile, or
\* fails and leaves a part of it.
CopyEnd(p) ==
  /\ Copying(p, "writing")
  /\ \/ /\ incidents' = [incidents EXCEPT ![Target(p)].done = @ \/ incidents[Target(p)].by = p]
        /\ NextFile(p, protector[p].out \cup {Target(p)})
        /\ UNCHANGED fileErrors
     \/ /\ Pay(1) /\ UNCHANGED incidents
        /\ NextFile(p, protector[p].out)
  /\ UNCHANGED <<loop, channel, rec, prunes, protected, calls>>

Return(p) ==
  /\ protector[p].at = "copying" /\ protector[p].files = <<>>
  /\ protected' = protected \cup protector[p].out
  /\ protector' = [protector EXCEPT ![p] = IdleProtector]
  /\ UNCHANGED <<loop, channel, rec, prunes, incidents, calls, fileErrors>>

-----------------------------------------------------------------------------
Size(s) == Len(rec.segs[s].packets)
OnDisk == {s \in 1..Len(rec.segs) : rec.segs[s].state # "pruned"}
\* The blocks of some files of the given sizes, counted.
Total(files, size) == Cardinality(UNION {{s} \X (1..size[s]) : s \in files})
Oldest(files) == CHOOSE s \in files : \A t \in files : s <= t
Pruned(k, v) ==
  /\ prunes' = [prunes EXCEPT ![k] = v]
  /\ UNCHANGED <<loop, channel, copies, fileErrors>>

\* The directory is read; a part of the open segment is on disk by then.
PruneLists(k) ==
  /\ prunes[k].at = "started"
  /\ \E flushed \in 0..SegmentFrames :
       LET size == [s \in Segments |-> IF s \notin OnDisk THEN 0
                                       ELSE IF rec.segs[s].state = "open" THEN flushed
                                       ELSE Size(s)]
       IN /\ \A s \in OnDisk : size[s] <= Size(s)
          /\ Pruned(k, [at |-> "listed", files |-> OnDisk, size |-> size,
                        total |-> Total(OnDisk, size)])
  /\ UNCHANGED rec

\* The loop over the files, oldest first, with its bound on the total.
Prune(k, bound) ==
  /\ prunes[k].at = "listed"
  /\ LET g == prunes[k]
         f == Oldest(g.files)
         rest == [g EXCEPT !.files = @ \ {f}]
     IN IF g.files = {} \/ g.total <= bound THEN Pruned(k, IdlePrune) /\ UNCHANGED rec
        ELSE IF f = rec.current \/ rec.segs[f].state = "pruned"
        THEN Pruned(k, rest) /\ UNCHANGED rec
        ELSE /\ rec' = [rec EXCEPT !.segs[f].state = "pruned"]
             /\ Pruned(k, [rest EXCEPT !.total = @ - g.size[f]])

PruneStep(k) == Prune(k, MaxDisk)

RecorderNext ==
  \/ \E i \in Interfaces : Record(i)
  \/ StartRun \/ WriteFrame \/ WriteFrameFails \/ StopRun
  \/ \E p \in Protectors : Protect(p) \/ CopyBegin(p) \/ CopySkips(p) \/ CopyEnd(p) \/ Return(p)
  \/ \E k \in 1..MaxPrunes : PruneLists(k) \/ PruneStep(k)

RecorderSpec == RecorderInit /\ [][RecorderNext]_recorderVars

-----------------------------------------------------------------------------
Outcomes == {"open", "complete", "cut", "pruned"}
PacketBlock == [n : 1..MaxFrames, iface : Interfaces, id : Nat \ {0}]
SegmentType == [names : Seq(Interfaces), packets : Seq(PacketBlock), state : Outcomes]
RecordType == [segs : Seq(SegmentType), current : Nat, handle : {"none", "open", "closed"},
               written : Nat, ifaces : Seq(Interfaces), recent : Seq(Segments)]
PruneType == [at : {"idle", "started", "listed"}, files : SUBSET Segments,
              size : [Segments -> Nat], total : Int]
ProtectorType == [at : {"idle", "copying", "writing"}, files : Seq(Segments), tag : Tags,
                  saw : SUBSET (1..MaxFrames), out : SUBSET (Tags \X Segments)]
CopyType == [by : Protectors \cup {"nobody"}, done : BOOLEAN, state : Outcomes \cup {"none"}]

ChannelTypeOK ==
  /\ loop \in {"none", "running", "exited"} /\ fileErrors \in 0..MaxFileErrors
  /\ buffered \in Seq([n : 1..MaxFrames, iface : Interfaces]) /\ Len(buffered) <= ChannelSize
  /\ offered \in 0..MaxFrames /\ dropped \subseteq 1..offered
WriterTypeOK ==
  /\ rec \in RecordType /\ rec.current = Len(rec.segs) /\ rec.current <= MaxSegments
  /\ Len(rec.recent) <= 4 /\ \A i \in 1..Len(rec.recent) : rec.recent[i] <= rec.current
  /\ \A s \in 1..Len(rec.segs) :
       rec.segs[s].state = "open" <=> rec.handle = "open" /\ s = rec.current
PrunesTypeOK ==
  /\ prunes \in [1..MaxPrunes -> PruneType]
  /\ \A k \in 1..MaxPrunes : prunes[k].files \subseteq 1..Len(rec.segs)
CopiesTypeOK ==
  /\ protector \in [Protectors -> ProtectorType] /\ calls \in 0..MaxCalls
  /\ \A p \in Protectors : ToSet(protector[p].files) \subseteq 1..Len(rec.segs)
  /\ incidents \in [Tags \X Segments -> CopyType] /\ protected \subseteq Tags \X Segments

\* The types, the capacity of the channel and of the list of recent segments,
\* and one open segment at most, the newest.
RecorderTypeOK == ChannelTypeOK /\ WriterTypeOK /\ PrunesTypeOK /\ CopiesTypeOK

InOrder(blocks) == \A i, j \in 1..Len(blocks) : i < j => blocks[i].n < blocks[j].n
Before(S, T) == \A m \in S, n \in T : m < n
Recorded == UNION {Numbers(rec.segs[s].packets) : s \in 1..Len(rec.segs)}

\* Every packet block names its own interface through an interface block of the
\* same file, so each segment can be read without the others.
InterfaceResolves ==
  \A s \in 1..Len(rec.segs) : \A x \in ToSet(rec.segs[s].packets) :
    x.id <= Len(rec.segs[s].names) /\ rec.segs[s].names[x.id] = x.iface

\* Without file errors every accepted frame is recorded exactly once and in the
\* order of capture, through rotations by size and by Protect: the segments,
\* oldest first, followed by the channel are the frames that were not dropped.
\* With errors too, what was recorded can be read from its own segment.
FramesRecordedOnce ==
  /\ InterfaceResolves
  /\ fileErrors = 0 =>
       /\ Recorded \cup Numbers(buffered) = (1..offered) \ dropped
       /\ InOrder(buffered) /\ Before(Recorded, Numbers(buffered))
       /\ \A s \in 1..Len(rec.segs) :
            /\ InOrder(rec.segs[s].packets)
            /\ \A t \in 1..Len(rec.segs) :
                 s < t => Before(Numbers(rec.segs[s].packets), Numbers(rec.segs[t].packets))

\* "every protected PCAPNG is a stable block-complete forensic artifact"
\* (comment in Protect): a path that was returned holds a whole copy from then
\* on, and that of a segment that had been flushed and closed.  The first part
\* holds while no two calls with the same reason fall into one second and one
\* file error happened at most: an open that fails leaves the closed segment
\* current, the next call lists it twice, and when its second copy fails the path
\* of the first is returned.  The second part holds until a flush fails, which is
\* ignored and its segment copied all the same.
ProtectedWhole ==
  \A d \in protected : /\ ~SameTag /\ fileErrors <= 1 => incidents[d].done
                       /\ fileErrors = 0 => incidents[d].state = "complete"

\* "the current segment is closed first, then recent closed segments are copied"
\* (docs/ARCHITECTURE.md:158): a call that ends has copied every frame of the
\* segment that was open when it was made, however many calls and rotations
\* interleave, unless a file failed or the segment was pruned first.
AlertSegmentCopied ==
  \A p \in Protectors :
    protector[p].at = "copying" /\ protector[p].files = <<>> /\ fileErrors = 0 =>
      \A s \in 1..Len(rec.segs) :
        Numbers(rec.segs[s].packets) \cap protector[p].saw # {} =>
          <<protector[p].tag, s>> \in protector[p].out \/ rec.segs[s].state = "pruned"

\* What Protect promises of the evidence it keeps.
EvidenceWhole == ProtectedWhole /\ AlertSegmentCopied

ClosedOnDisk == {s \in OnDisk : rec.segs[s].state # "open"}
DiskUse == Total(ClosedOnDisk, [s \in ClosedOnDisk |-> Size(s)])

\* "rotating recorder disk budget" (README.md:645): without file errors, when
\* no prune is running the closed segments fit in the budget.
BudgetHeld ==
  fileErrors = 0 /\ loop = "running" /\ (\A k \in 1..MaxPrunes : prunes[k].at = "idle")
    => DiskUse <= MaxDisk

\* What the recorder promises of frames, incidents and the disk together.
RecordingWhole == FramesRecordedOnce /\ EvidenceWhole /\ BudgetHeld
=============================================================================
