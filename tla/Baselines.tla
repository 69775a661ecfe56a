------------------------------ MODULE Baselines ------------------------------
(***************************************************************************)
(* What processes, users and services usually do on the network            *)
(* (internal/baseline/engine.go, internal/identitybaseline/engine.go).     *)
(* Both engines learn a profile for every identity of a new flow's         *)
(* process and report what an established profile has not seen.  A         *)
(* profile is written to disk every so many observations; when the daemon  *)
(* stops, main flushes the first engine and not the second.                *)
(*                                                                         *)
(* Destinations stand for all three things a profile remembers             *)
(* (destinations, applications and hours).                                 *)
(***************************************************************************)
EXTENDS Integers, FiniteSets

CONSTANTS Programs, Owners,  \* processes, and the users they run as
          OwnerOf,           \* OwnerOf[p]: the user of process p
          Peers,             \* destinations
          Mature,            \* min: observations that establish a profile
          SaveEvery,         \* observations between two saves, of both engines
          MaxObservations, MaxSaveFailures, MaxStops \* bounds

ASSUME BaselinesAssumption ==
  /\ IsFiniteSet(Programs) /\ IsFiniteSet(Owners)
  /\ OwnerOf \in [Programs -> Owners]
  /\ {Mature, SaveEvery, MaxObservations, MaxSaveFailures, MaxStops} \subseteq Nat
  /\ SaveEvery > 0

Engines == {"process", "identity"}
\* procKey, and identities: a flow counts for each of them.
Identities(e, p) == IF e = "process" THEN {p} ELSE {p, OwnerOf[p]}
Keys(e) == UNION {Identities(e, p) : p \in Programs}
KeysPerFlow == 2

VARIABLES profiles,   \* profiles of both engines, in memory
          onDisk,     \* ... and on disk
          dirty,      \* observations since the last attempt to save
          failures,   \* attempts that failed since the last that succeeded
          flows,      \* flows observed so far
          everSaved,  \* [engine, key, peer] that were ever on disk (history)
          again,      \* those that were reported as new later (history)
          stops
baselineVars == <<profiles, onDisk, dirty, failures, flows, everSaved, again, stops>>

Empty == [e \in Engines |-> [k \in Keys(e) |-> [total |-> 0, peers |-> {}]]]
BaselinesInit ==
  /\ profiles = Empty /\ onDisk = Empty
  /\ dirty = [e \in Engines |-> 0] /\ failures = [e \in Engines |-> 0]
  /\ flows = 0 /\ everSaved = {} /\ again = {} /\ stops = 0

KnownPeers(all) == {r \in [engine : Engines, key : Programs \union Owners, peer : Peers] :
                 r.key \in Keys(r.engine) /\ r.peer \in all[r.engine][r.key].peers}

\* Observe: judged by the profile as it was, then learnt.
Deviates(profile, peer) == profile.total >= Mature /\ peer \notin profile.peers
Deviations(e, p, peer) ==
  {[engine |-> e, key |-> k, peer |-> peer] :
     k \in {k \in Identities(e, p) : Deviates(profiles[e][k], peer)}}
Learnt(e, p, peer) ==
  [k \in Keys(e) |-> IF k \in Identities(e, p)
                     THEN [total |-> profiles[e][k].total + 1,
                           peers |-> profiles[e][k].peers \union {peer}]
                     ELSE profiles[e][k]]
Unsaved(e, p) == dirty[e] + Cardinality(Identities(e, p))
Due(count) == count >= SaveEvery

\* saveLocked: to a temporary file that is renamed; when it fails, the count
\* starts again all the same.
SaveInPlace(e, contents, ok) == \* a plausible bug: the file itself is written
  onDisk' = [onDisk EXCEPT ![e] = IF ok THEN contents ELSE Empty[e]]
SaveTo(e, contents, ok) == onDisk' = [onDisk EXCEPT ![e] = IF ok THEN contents ELSE @]
Saved(e, contents, ok) ==
  /\ SaveTo(e, contents, ok)
  /\ failures' = [failures EXCEPT ![e] = IF ok THEN 0 ELSE @ + 1]
  /\ ~ok => \A f \in Engines : failures[f] < MaxSaveFailures
  /\ everSaved' = everSaved \union KnownPeers(onDisk')

LearnFlow(e, p, peer, ok) ==
  /\ flows < MaxObservations /\ flows' = flows + 1
  /\ profiles' = [profiles EXCEPT ![e] = Learnt(e, p, peer)]
  /\ again' = again \union (Deviations(e, p, peer) \intersect everSaved)
  /\ IF Due(Unsaved(e, p))
     THEN dirty' = [dirty EXCEPT ![e] = 0] /\ Saved(e, profiles'[e], ok)
     ELSE /\ ok /\ dirty' = [dirty EXCEPT ![e] = Unsaved(e, p)]
          /\ UNCHANGED <<onDisk, failures, everSaved>>
  /\ UNCHANGED stops

\* main flushes the profiles of processes when it is told to stop (a crash does
\* not); New loads both files.
Stopped(flushed) == [profiles EXCEPT !["identity"] = onDisk["identity"],
                                     !["process"] = IF flushed THEN @ ELSE onDisk["process"]]
StopAndStart(flushed) ==
  /\ stops < MaxStops /\ stops' = stops + 1
  /\ profiles' = Stopped(flushed)
  /\ onDisk' = Stopped(flushed)
  /\ everSaved' = everSaved \union KnownPeers(onDisk')
  /\ dirty' = [e \in Engines |-> 0] /\ failures' = [e \in Engines |-> 0]
  /\ UNCHANGED <<flows, again>>

BaselinesNext ==
  \/ \E e \in Engines, p \in Programs, peer \in Peers, ok \in BOOLEAN : LearnFlow(e, p, peer, ok)
  \/ \E flushed \in BOOLEAN : StopAndStart(flushed)
BaselinesSpec == BaselinesInit /\ [][BaselinesNext]_baselineVars

-----------------------------------------------------------------------------
\* What an engine has observed, each observation of a key with its number.
Learned(all, e) == UNION {{k} \X (1..all[e][k].total) : k \in Keys(e)}
TotalOf(all, e) == Cardinality(Learned(all, e))

\* What was saved once is never forgotten, so never reported as new again, over
\* failed saves, crashes and restarts; and what a crash can lose of an engine is
\* less than one period between saves for every attempt that has failed, and one
\* more.
LearntIsKept ==
  /\ again = {} /\ everSaved \subseteq KnownPeers(profiles)
  /\ \A e \in Engines : TotalOf(profiles, e) - TotalOf(onDisk, e)
       <= (failures[e] + 1) * (SaveEvery + KeysPerFlow - 1) - 1
=============================================================================
