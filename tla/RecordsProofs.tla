---------------------------- MODULE RecordsProofs -----------------------------
(***************************************************************************)
(* Proofs about AuditLog, NotificationSettings, Intelligence, Cases,       *)
(* Backups, Baselines and Journals, for any cases, analysts, files,        *)
(* callers and programs, any limits, and any number of events, records,    *)
(* updates, saves, refreshes, exports, backups, faults and restarts.       *)
(***************************************************************************)
EXTENDS MCRecords, FiniteSetTheorems, SequenceTheorems, WellFoundedInduction, TLAPS

-----------------------------------------------------------------------------
\* The chain of a log nothing was done to: every line is a record, ids go up,
\* each record is chained to the one before, and the log knows the last one.
Chained(f) ==
  /\ \A i \in 1..Len(f) : f[i].id # 0 /\ f[i].prev = IF i = 1 THEN 0 ELSE f[i - 1].id
  /\ \A i, j \in 1..Len(f) : i < j => f[i].id < f[j].id
LastKnown ==
  /\ last = IF file = <<>> THEN 0 ELSE file[Len(file)].id
  /\ last <= events
Sound == Untouched => ~ragged /\ Chained(file) /\ LastKnown

\* A copy of a file that ends inside a line has that line.
CopyWhole == backup.ragged => backup.lines # <<>>

\* What every step preserves.
AuditInv == TypeOK /\ CopyWhole /\ Sound /\ NoSilentLoss

-----------------------------------------------------------------------------
\* A set of numbers that is not empty has a least one.
LEMMA LeastNumber ==
  ASSUME NEW T, T \subseteq Nat, T # {}
  PROVE  \E x \in T : \A y \in T : x <= y
<1>1. IsWellFoundedOn(OpToRel(<, Nat), Nat)
  BY NatLessThanWellFounded
<1>2. PICK x \in T : \A y \in T : ~ (<<y, x>> \in OpToRel(<, Nat))
  BY <1>1, WFMin
<1>3. ASSUME NEW y \in T PROVE x <= y
  <2>1. x \in Nat /\ y \in Nat
    OBVIOUS
  <2>2. y < x => <<y, x>> \in OpToRel(<, Nat)
    BY <2>1 DEF OpToRel
  <2>3. ~(y < x)
    BY <1>2, <2>2
  <2> QED BY <2>1, <2>3
<1> QED BY <1>3

\* The least number of 1..n at which a sentence, given by the set where it
\* holds, is false has it true everywhere below: induction on 1..n.
LEMMA UpTo ==
  ASSUME NEW n \in Nat, NEW Good,
         \A i \in 1..n : (\A j \in 1..n : j < i => j \in Good) => i \in Good
  PROVE  1..n \subseteq Good
<1> DEFINE Bad == {i \in 1..n : i \notin Good}
<1> SUFFICES ASSUME Bad # {} PROVE FALSE
  OBVIOUS
<1>1. Bad \subseteq Nat
  OBVIOUS
<1> HIDE DEF Bad
<1>2. PICK i \in Bad : \A j \in Bad : i <= j
  BY <1>1, LeastNumber
<1>3. i \in 1..n /\ i \notin Good /\ \A j \in 1..n : j < i => j \in Good
  BY <1>2 DEF Bad
<1> QED BY <1>3

\* A file of lines, one line longer or with its last line damaged.
LEMMA FileFacts ==
  ASSUME TypeOK
  PROVE  /\ Len(file) \in Nat /\ \A i \in 1..Len(file) : file[i] \in Lines
         /\ file # <<>> => Len(file) \in 1..Len(file)
         /\ file = <<>> => Len(file) = 0
         /\ DOMAIN file = 1..Len(file)
  BY LenProperties, EmptySeq, ElementOfSeq DEF TypeOK

LEMMA WrittenFacts ==
  ASSUME TypeOK, NEW r \in Lines
  PROVE  /\ Written(r) \in Seq(Lines) /\ Written(r) # <<>>
         /\ ~ragged => /\ Len(Written(r)) = Len(file) + 1
                       /\ \A i \in 1..Len(file) : Written(r)[i] = file[i]
                       /\ Written(r)[Len(file) + 1] = r
         /\ ragged => ~Parses(Written(r))
<1>1. CASE ~ragged
  <2>1. Written(r) = Append(file, r) /\ file \in Seq(Lines)
    BY <1>1 DEF Written, TypeOK
  <2> QED BY <1>1, <2>1, AppendProperties
<1>2. CASE ragged
  <2>1. file \in Seq(Lines) /\ Len(file) \in 1..Len(file) /\ Garbage \in Lines
    BY <1>2, FileFacts, AuditAssumption DEF TypeOK, Garbage, Lines
  <2>2. Written(r) = [file EXCEPT ![Len(file)] = Garbage]
    BY <1>2 DEF Written
  <2>3. /\ Written(r) \in Seq(Lines) /\ Len(Written(r)) = Len(file)
        /\ Written(r)[Len(file)] = Garbage
    BY <2>1, <2>2, ExceptSeq
  <2>4. Written(r) # <<>> /\ ~Parses(Written(r))
    BY <2>1, <2>3, EmptySeq DEF Parses
  <2> QED BY <1>2, <2>3, <2>4
<1> QED BY <1>1, <1>2
\* A file that verifies after a line was added verified before, and shows the
\* same events and the new one.
LEMMA VerifiedBefore ==
  ASSUME TypeOK, ~ragged, NEW r \in Lines, Verify(Written(r))
  PROVE  Verify(file) /\ List(Written(r)) = List(file) \cup {r.id}
<1> DEFINE w == Written(r)
<1>1. /\ Len(file) \in Nat /\ Len(w) = Len(file) + 1
      /\ \A i \in 1..Len(file) : w[i] = file[i]
      /\ w[Len(file) + 1] = r
  BY WrittenFacts, FileFacts
<1>2. Parses(w) /\ \A i \in 1..Len(w) : w[i].prev = IF i = 1 THEN 0 ELSE w[i - 1].id
  BY DEF Verify
<1> HIDE DEF w
<1>3. Parses(file)
  BY <1>1, <1>2 DEF Parses
<1>4. \A i \in 1..Len(file) : file[i].prev = IF i = 1 THEN 0 ELSE file[i - 1].id
  <2> SUFFICES ASSUME NEW i \in 1..Len(file)
               PROVE  file[i].prev = IF i = 1 THEN 0 ELSE file[i - 1].id
    OBVIOUS
  <2>1. i \in 1..Len(w) /\ w[i] = file[i]
    BY <1>1
  <2>2. i # 1 => i - 1 \in 1..Len(file) /\ w[i - 1] = file[i - 1]
    BY <1>1
  <2> QED BY <1>2, <2>1, <2>2
<1>5. {w[i].id : i \in 1..Len(w)} = {file[i].id : i \in 1..Len(file)} \cup {r.id}
  <2>1. 1..Len(w) = 1..Len(file) \cup {Len(file) + 1}
    BY <1>1
  <2> QED BY <1>1, <2>1
<1> QED BY <1>2, <1>3, <1>4, <1>5 DEF Verify, List, w

\* A record that is added to a chain it continues makes a chain.
LEMMA ChainGoesOn ==
  ASSUME TypeOK, Chained(file), ~ragged, NEW r \in Lines, r.id # 0,
         file = <<>> => r.prev = 0,
         file # <<>> => r.prev = file[Len(file)].id /\ file[Len(file)].id < r.id
  PROVE  Chained(Written(r)) /\ Written(r)[Len(Written(r))] = r
<1> DEFINE w == Written(r)
           n == Len(file)
<1>1. /\ n \in Nat /\ Len(w) = n + 1
      /\ \A i \in 1..n : w[i] = file[i] /\ file[i] \in Lines
      /\ w[n + 1] = r
  BY WrittenFacts, FileFacts
<1>2. /\ n = 0 => r.prev = 0
      /\ n # 0 => r.prev = w[n].id /\ w[n].id < r.id
  BY <1>1, FileFacts
<1>3. /\ \A i \in 1..n : file[i].id # 0 /\ file[i].prev = IF i = 1 THEN 0 ELSE file[i - 1].id
      /\ \A i, j \in 1..n : i < j => file[i].id < file[j].id
  BY DEF Chained
<1>4. \A i \in 1..n : w[i].id \in Nat
  BY <1>1, AuditAssumption DEF Lines
<1> HIDE DEF w, n
<1>5. ASSUME NEW i \in 1..(n + 1)
      PROVE  w[i].id # 0 /\ w[i].prev = IF i = 1 THEN 0 ELSE w[i - 1].id
  <2>1. CASE i \in 1..n
    <3>1. i # 1 => i - 1 \in 1..n
      BY <1>1
    <3> QED BY <1>1, <1>3, <2>1, <3>1
  <2>2. CASE i = n + 1
    BY <1>1, <1>2, <2>2
  <2> QED BY <1>1, <2>1, <2>2
<1>6. ASSUME NEW i \in 1..(n + 1), NEW j \in 1..(n + 1), i < j
      PROVE  w[i].id < w[j].id
  <2>1. CASE j \in 1..n
    BY <1>1, <1>3, <1>6, <2>1
  <2>2. CASE j = n + 1 /\ i = n
    BY <1>1, <1>2, <2>2
  <2>3. CASE j = n + 1 /\ i < n
    <3>1. w[i].id < w[n].id
      BY <1>1, <1>3, <2>3
    <3> QED BY <1>1, <1>2, <1>4, <2>3, <3>1 DEF Lines
  <2> QED BY <1>1, <1>6, <2>1, <2>2, <2>3
<1> QED BY <1>1, <1>5, <1>6 DEF Chained, w

-----------------------------------------------------------------------------
LEMMA AuditInitInv == Init => AuditInv
<1> SUFFICES ASSUME Init PROVE AuditInv
  OBVIOUS
<1>1. TypeOK /\ CopyWhole
  <2>1. <<>> \in Seq(Lines)
    BY EmptySeq
  <2>2. backup = NoBackup /\ NoBackup \in [lines : Seq(Lines), ragged : BOOLEAN, made : BOOLEAN]
    BY <2>1 DEF Init, NoBackup
  <2>3. CopyWhole
    BY <2>2 DEF CopyWhole, NoBackup
  <2>4. 0 \in 0..MaxEvents /\ 0 \in 0..MaxTorn /\ 0 \in 0..MaxRestarts /\ 0 \in 0..MaxRestores
    BY AuditAssumption
  <2> QED BY <2>1, <2>2, <2>3, <2>4 DEF Init, TypeOK
<1>2. Len(file) = 0
  BY EmptySeq DEF Init
<1>3. Sound
  BY <1>2, AuditAssumption DEF Init, Sound, Chained, LastKnown
<1> QED BY <1>1, <1>3 DEF Init, AuditInv, NoSilentLoss

\* What a write does to the promise that nothing acknowledged is lost unseen.
LEMMA WriteKeeps ==
  ASSUME AuditInv, NEW r \in Lines, file' = Written(r), restores' = restores,
         acked' \subseteq acked \cup {r.id}
  PROVE  NoSilentLoss'
<1> SUFFICES ASSUME restores = 0, NEW e \in acked', Verify(Written(r))
             PROVE  e \in List(Written(r))
  BY DEF NoSilentLoss
<1>1. ~ragged
  BY WrittenFacts DEF Verify, AuditInv
<1>2. Verify(file) /\ List(Written(r)) = List(file) \cup {r.id}
  BY <1>1, VerifiedBefore DEF AuditInv
<1> QED BY <1>2 DEF AuditInv, NoSilentLoss

LEMMA AppendEventInv ==
  ASSUME AuditInv, AppendEvent
  PROVE  AuditInv'
<1> DEFINE r == Record(events + 1, last)
<1>1. /\ events \in 0..MaxEvents /\ events' = events + 1 /\ events' \in 1..MaxEvents
      /\ last \in 0..MaxEvents
  BY AuditAssumption DEF AppendEvent, AuditInv, TypeOK
<1>2. r \in Lines /\ r.id = events' /\ r.prev = last
  BY <1>1, AuditAssumption DEF Record, Lines
<1>3. /\ file' = Written(r) /\ ragged' = FALSE /\ last' = events'
      /\ acked' = acked \cup {r.id}
      /\ UNCHANGED <<backup, torn, restarts, restores>>
  BY <1>1, <1>2 DEF AppendEvent
<1> HIDE DEF r
<1>4. file' \in Seq(Lines) /\ file' # <<>>
  BY <1>2, <1>3, WrittenFacts DEF AuditInv
<1>5. TypeOK' /\ CopyWhole'
  <2>1. events' \in 0..MaxEvents
    BY <1>1, AuditAssumption
  <2>2. r.id \in 1..MaxEvents
    BY <1>1, <1>2
  <2>3. acked' \subseteq 1..MaxEvents
    BY <1>3, <2>2 DEF AuditInv, TypeOK
  <2> QED BY <1>3, <1>4, <2>1, <2>3 DEF AuditInv, TypeOK, CopyWhole
<1>6. Sound'
  <2> SUFFICES ASSUME Untouched PROVE Chained(file') /\ LastKnown'
    BY <1>3 DEF Sound, Untouched
  <2>1. ~ragged /\ Chained(file) /\ LastKnown
    BY DEF AuditInv, Sound
  <2>2. /\ file = <<>> => r.prev = 0
        /\ file # <<>> => r.prev = file[Len(file)].id /\ file[Len(file)].id < r.id
    BY <1>1, <1>2, <2>1 DEF LastKnown, AuditInv, TypeOK
  <2>3. Chained(file') /\ file'[Len(file')] = r
    BY <1>2, <1>3, <2>1, <2>2, <1>1, ChainGoesOn DEF AuditInv
  <2> QED BY <1>1, <1>2, <1>3, <1>4, <2>3 DEF LastKnown
<1>7. NoSilentLoss'
  BY <1>2, <1>3, WriteKeeps
<1> QED BY <1>5, <1>6, <1>7 DEF AuditInv

LEMMA AppendTornInv ==
  ASSUME AuditInv, AppendTorn
  PROVE  AuditInv'
<1>1. PICK r \in {Garbage, Record(events', last)} : file' = Written(r)
  BY DEF AppendTorn
<1>2. /\ events' = events + 1 /\ events' \in 1..MaxEvents
      /\ torn' \in 1..MaxTorn /\ ragged' = TRUE
      /\ UNCHANGED <<last, acked, backup, restarts, restores>>
  BY AuditAssumption DEF AppendTorn, AuditInv, TypeOK
<1>3. r \in Lines
  <2>1. events' \in 0..MaxEvents /\ last \in 0..MaxEvents /\ 0 \in 0..MaxEvents
    BY <1>2, AuditAssumption DEF AuditInv, TypeOK
  <2>2. Garbage \in Lines /\ Record(events', last) \in Lines
    BY <2>1 DEF Garbage, Record, Lines
  <2> QED BY <2>2
<1>4. file' \in Seq(Lines) /\ file' # <<>>
  BY <1>1, <1>3, WrittenFacts DEF AuditInv
<1>5. TypeOK' /\ CopyWhole'
  BY <1>2, <1>4, AuditAssumption DEF AuditInv, TypeOK, CopyWhole
<1>6. Sound'
  BY <1>2 DEF Sound, Untouched
<1>7. NoSilentLoss'
  BY <1>1, <1>2, <1>3, WriteKeeps
<1> QED BY <1>5, <1>6, <1>7 DEF AuditInv

LEMMA RestartInv ==
  ASSUME AuditInv, Restart
  PROVE  AuditInv'
<1>1. /\ restarts' \in 0..MaxRestarts
      /\ last' = IF Parses(file) /\ file # <<>> THEN file[Len(file)].id ELSE 0
      /\ UNCHANGED <<file, ragged, events, acked, backup, torn, restores>>
  BY AuditAssumption DEF Restart, AuditInv, TypeOK
<1>2. last' \in 0..MaxEvents
  BY <1>1, FileFacts, AuditAssumption DEF AuditInv, Lines
<1>3. TypeOK' /\ CopyWhole'
  BY <1>1, <1>2 DEF AuditInv, TypeOK, CopyWhole
<1>4. Sound'
  <2> SUFFICES ASSUME Untouched PROVE LastKnown'
    BY <1>1 DEF AuditInv, Sound, Untouched, Chained
  <2>1. Parses(file)
    BY FileFacts DEF AuditInv, Sound, Chained, Parses, Garbage
  <2> QED BY <1>1, <2>1 DEF AuditInv, Sound, LastKnown
<1>5. NoSilentLoss'
  BY <1>1 DEF AuditInv, NoSilentLoss
<1> QED BY <1>3, <1>4, <1>5 DEF AuditInv

LEMMA RestoreInv ==
  ASSUME AuditInv, Restore
  PROVE  AuditInv'
<1>1. /\ restores' \in 1..MaxRestores
      /\ file' = backup.lines /\ ragged' = backup.ragged
      /\ UNCHANGED <<last, events, acked, backup, torn, restarts>>
  BY AuditAssumption DEF Restore, AuditInv, TypeOK
<1>2. Sound' /\ NoSilentLoss'
  BY <1>1 DEF Sound, Untouched, NoSilentLoss
<1>3. TypeOK' /\ CopyWhole'
  <2>1. backup.lines \in Seq(Lines) /\ backup.ragged \in BOOLEAN
    BY DEF AuditInv, TypeOK
  <2> QED BY <1>1, <2>1 DEF AuditInv, TypeOK, CopyWhole
<1> QED BY <1>2, <1>3 DEF AuditInv

LEMMA StepInv == AuditInv /\ [Next]_vars => AuditInv'
<1> SUFFICES ASSUME AuditInv, [Next]_vars PROVE AuditInv'
  OBVIOUS
<1>1. CASE AppendEvent
  BY <1>1, AppendEventInv
<1>2. CASE AppendRefused
  <2>1. events' \in 0..MaxEvents /\ events <= events'
    BY <1>2, AuditAssumption DEF AppendRefused, AuditInv, TypeOK
  <2>2. TypeOK' /\ CopyWhole' /\ NoSilentLoss'
    BY <1>2, <2>1 DEF AppendRefused, AuditInv, TypeOK, CopyWhole, NoSilentLoss
  <2>3. last \in Nat /\ events \in Nat /\ events' \in Nat
    BY <2>1, AuditAssumption DEF AuditInv, TypeOK
  <2>4. Sound'
    BY <1>2, <2>1, <2>3 DEF AppendRefused, AuditInv, Sound, Untouched, Chained, LastKnown
  <2> QED BY <2>2, <2>4 DEF AuditInv
<1>3. CASE AppendTorn
  BY <1>3, AppendTornInv
<1>4. CASE Restart
  BY <1>4, RestartInv
<1>5. CASE Backup
  <2>1. /\ backup' = [lines |-> file, ragged |-> ragged, made |-> TRUE]
        /\ UNCHANGED <<file, ragged, last, events, acked, torn, restarts, restores>>
    BY <1>5 DEF Backup
  <2>2. TypeOK' /\ CopyWhole'
    BY <2>1 DEF AuditInv, TypeOK, CopyWhole
  <2>3. Sound' /\ NoSilentLoss'
    BY <2>1 DEF AuditInv, Sound, Untouched, Chained, LastKnown, NoSilentLoss
  <2> QED BY <2>2, <2>3 DEF AuditInv
<1>6. CASE Restore
  BY <1>6, RestoreInv
<1>7. CASE UNCHANGED vars
  BY <1>7 DEF vars, AuditInv, TypeOK, CopyWhole, Sound, Untouched, Chained, LastKnown, NoSilentLoss
<1> QED BY <1>1, <1>2, <1>3, <1>4, <1>5, <1>6, <1>7 DEF Next

LEMMA Invariance == Spec => []AuditInv
<1> QED BY AuditInitInv, StepInv, PTL DEF Spec
-----------------------------------------------------------------------------
\* The record of a chain that is chained to the one before i is the i-th.
LEMMA OneSuccessor ==
  ASSUME TypeOK, Chained(file), NEW i \in 1..Len(file), NEW k \in 1..Len(file),
         file[k].prev = file[i].prev
  PROVE  k = i
<1>1. Len(file) \in Nat /\ \A j \in 1..Len(file) : file[j].id \in Nat /\ file[j].id # 0
  BY FileFacts, AuditAssumption DEF Chained, Lines
<1>2. \A j \in 1..Len(file) : file[j].prev = IF j = 1 THEN 0 ELSE file[j - 1].id
  BY DEF Chained
<1>3. CASE i = 1 \/ k = 1
  <2>1. \A j \in 1..Len(file) : j # 1 => j - 1 \in 1..Len(file)
    BY <1>1
  <2> QED BY <1>1, <1>2, <1>3, <2>1
<1>4. CASE i # 1 /\ k # 1
  <2>1. i - 1 \in 1..Len(file) /\ k - 1 \in 1..Len(file)
    BY <1>1, <1>4
  <2>2. file[i - 1].id = file[k - 1].id
    BY <1>2, <1>4
  <2>3. \A a, b \in 1..Len(file) : a < b => file[a].id < file[b].id
    BY DEF Chained
  <2>4. ~(i - 1 < k - 1) /\ ~(k - 1 < i - 1)
    BY <1>1, <2>1, <2>2, <2>3
  <2> QED BY <1>1, <2>4
<1> QED BY <1>3, <1>4

\* A sequence is a prefix of the file when it has the file's lines.
LEMMA PrefixFacts ==
  ASSUME TypeOK, NEW n \in 1..Len(file), NEW g \in [1..n -> ToSet(file)]
  PROVE  /\ Len(g) = n
         /\ IsPrefix(g, file) <=> \A i \in 1..n : g[i] = file[i]
<1>1. Len(file) \in Nat /\ n \in Nat /\ n <= Len(file) /\ file \in Seq(Lines)
  BY FileFacts DEF TypeOK
<1>2. ToSet(file) \subseteq Lines
  BY FileFacts DEF ToSet
<1>3. g \in Seq(Lines) /\ Len(g) = n
  <2>1. g \in [1..n -> Lines]
    BY <1>2
  <2>2. g \in Seq(Lines)
    BY <1>1, <2>1, SeqDef
  <2> QED BY <1>1, <2>1, <2>2, LenProperties
<1> DEFINE a == SubSeq(g, 1, n)
           b == SubSeq(file, 1, n)
<1>4. /\ a \in Seq(Lines) /\ Len(a) = n /\ \A i \in 1..n : a[i] = g[i]
      /\ b \in Seq(Lines) /\ Len(b) = n /\ \A i \in 1..n : b[i] = file[i]
  <2>1. \A s \in Seq(Lines) : n <= Len(s) =>
          LET c == SubSeq(s, 1, n) IN
          c \in Seq(Lines) /\ Len(c) = n /\ \A i \in 1..n : c[i] = s[i]
    BY <1>1, SubSeqProperties, LenProperties
  <2> QED BY <1>1, <1>3, <2>1
<1>5. IsPrefix(g, file) <=> a = b
  BY <1>1, <1>3 DEF IsPrefix
<1> HIDE DEF a, b
<1>6. a = b <=> \A i \in 1..n : a[i] = b[i]
  BY <1>4, SeqEqual
<1> QED BY <1>3, <1>4, <1>5, <1>6

\* The chain detects every change of an untouched log but a cut at its end.
LEMMA ChainDetects == AuditInv => ExactlyPrefixesVerify
<1> SUFFICES ASSUME AuditInv, Untouched, NEW n \in 1..Len(file), NEW g \in [1..n -> ToSet(file)]
             PROVE  Verify(g) <=> IsPrefix(g, file)
  BY DEF ExactlyPrefixesVerify
<1>1. TypeOK /\ Chained(file)
  BY DEF AuditInv, Sound
<1>2. Len(file) \in Nat /\ n \in Nat /\ 1..n \subseteq 1..Len(file)
  BY <1>1, FileFacts
<1>3. \A j \in 1..Len(file) : file[j].prev = IF j = 1 THEN 0 ELSE file[j - 1].id
  BY <1>1 DEF Chained
<1>4. Len(g) = n
  BY <1>1, PrefixFacts
<1>5. ASSUME Verify(g) PROVE \A i \in 1..n : g[i] = file[i]
  <2> DEFINE Good == {i \in 1..n : g[i] = file[i]}
  <2>1. ASSUME NEW i \in 1..n, \A j \in 1..n : j < i => j \in Good
        PROVE  g[i] = file[i]
    <3>1. PICK k \in 1..Len(file) : g[i] = file[k]
      BY <1>1, FileFacts DEF ToSet
    <3>2. g[i].prev = IF i = 1 THEN 0 ELSE g[i - 1].id
      BY <1>4, <1>5 DEF Verify
    <3>3. i # 1 => i - 1 \in 1..n /\ g[i - 1] = file[i - 1]
      <4>1. i # 1 => i - 1 \in 1..n /\ i - 1 < i
        BY <1>2
      <4> QED BY <2>1, <4>1
    <3>4. file[k].prev = file[i].prev
      BY <1>2, <1>3, <3>1, <3>2, <3>3
    <3> QED BY <1>1, <1>2, <3>1, <3>4, OneSuccessor
  <2>2. \A i \in 1..n : (\A j \in 1..n : j < i => j \in Good) => i \in Good
    BY <2>1
  <2> HIDE DEF Good
  <2>3. 1..n \subseteq Good
    BY <1>2, <2>2, UpTo
  <2> QED BY <2>3 DEF Good
<1>6. ASSUME \A i \in 1..n : g[i] = file[i] PROVE Verify(g)
  <2>1. Parses(g)
    BY <1>1, <1>2, <1>4, <1>6 DEF Parses, Garbage, Chained
  <2>2. \A i \in 1..n : g[i].prev = IF i = 1 THEN 0 ELSE g[i - 1].id
    <3> SUFFICES ASSUME NEW i \in 1..n
                 PROVE  g[i].prev = IF i = 1 THEN 0 ELSE g[i - 1].id
      OBVIOUS
    <3>1. i # 1 => i - 1 \in 1..n
      BY <1>2
    <3> QED BY <1>2, <1>3, <1>6, <3>1
  <2> QED BY <1>4, <2>1, <2>2 DEF Verify
<1> QED BY <1>1, <1>5, <1>6, PrefixFacts

\* Whatever writes were torn, whenever the daemon restarted and whatever was
\* restored: the log has its types; until a write is torn or a backup restored,
\* of all sequences of its records exactly the prefixes of the file verify; and
\* until a backup is restored nothing that was acknowledged is lost unseen.
THEOREM AuditSoundCorrect == Spec => []AuditSound
<1>1. AuditInv => AuditSound
  BY ChainDetects DEF AuditInv, AuditSound
<1> QED BY <1>1, Invariance, PTL

-----------------------------------------------------------------------------
\* Settings that were sealed with the key of the file open with it.
Kept == live # 0 => keyFile > 0 /\ inode[live] = [document |-> saved, key |-> keyFile]

\* The one call that runs: it has a number, and once it has the key, that is the
\* key of the file; the file it writes is the temporary one and not the live one.
CallOK(c) ==
  /\ saver[c].call > 0
  /\ saver[c].at = "make key" => keyFile = 0
  /\ saver[c].at = "write key" => keyFile = -1
  /\ saver[c].at \in {"open", "write", "rename"} => keyFile > 0 /\ saver[c].key = keyFile
  /\ saver[c].at \in {"write", "rename"} => temp # 0 /\ saver[c].fd = temp
  /\ saver[c].at = "write" => inode[temp] = Blank
  /\ saver[c].at = "rename" => inode[temp] = Sealed(saver[c])
Alone ==
  /\ \A c, e \in Busy : c = e
  /\ \A c \in Busy : CallOK(c)
SettingsKept ==
  /\ opened /\ Kept /\ Alone
  /\ live = 0 => saved = "default"
  /\ temp # 0 => temp # live
SettingsInv == SettingsTypeOK /\ (~overlapped => SettingsKept)

LEMMA SettingsConstants ==
  /\ MaxSaves \in Nat /\ MaxSaveFaults \in Nat /\ Preferences \cap {"empty", "torn"} = {}
  /\ AtRest \in Calls /\ AtRest.at = "idle" /\ Blank \in Contents /\ Mixed \in Contents
  /\ \A c \in Calls : Sealed(c) \in Contents
<1>1. MaxSaves \in Nat /\ MaxSaveFaults \in Nat /\ Preferences \cap {"empty", "torn"} = {}
  BY NotificationSettingsAssumption
<1>2. AtRest \in Calls /\ AtRest.at = "idle"
  BY <1>1 DEF AtRest, CallAt, Calls, Writings
<1>3. Blank \in Contents /\ Mixed \in Contents
  BY <1>1 DEF Blank, Mixed, Contents, Writings
<1>4. \A c \in Calls : Sealed(c) \in Contents
  BY <1>1 DEF Sealed, Calls, Contents, Writings
<1> QED BY <1>1, <1>2, <1>3, <1>4

LEMMA CallTypes ==
  ASSUME NEW n \in 0..MaxSaves
  PROVE  /\ CallAt("marshal", n) \in Calls
         /\ CallAt("marshal", n).call = n /\ CallAt("marshal", n).at = "marshal"
<1>1. 0 \in 0..MaxSaves /\ 0 \in {0} \cup Inodes
  BY SettingsConstants
<1>2. "default" \in Writings
  BY DEF Writings
<1>3. CallAt("marshal", n) \in Calls
  BY <1>1, <1>2 DEF CallAt, Calls
<1> QED BY <1>3 DEF CallAt

LEMMA SettingsInitInv == SettingsInit => SettingsInv
<1> SUFFICES ASSUME SettingsInit PROVE SettingsInv
  OBVIOUS
<1>1. Busy = {}
  BY SettingsConstants DEF SettingsInit, Busy
<1>2. SettingsTypeOK
  <2>1. 0 \in 0..MaxSaves /\ 0 \in 0..MaxSaveFaults
    BY SettingsConstants
  <2>2. inode \in [Inodes -> Contents] /\ saver \in [Savers -> Calls]
    BY SettingsConstants DEF SettingsInit
  <2> QED BY <2>1, <2>2 DEF SettingsInit, SettingsTypeOK, Writings
<1>3. SettingsKept
  BY <1>1 DEF SettingsInit, SettingsKept, Kept, Alone
<1> QED BY <1>2, <1>3 DEF SettingsInv

\* A step of a call that leaves the settings, and what Update counts, alone.
LEMMA SaverMoves ==
  ASSUME SettingsInv, NEW c \in Savers, saver[c].at # "idle", NEW s \in Calls, Goes(c, s)
  PROVE  /\ saver' \in [Savers -> Calls] /\ saver'[c] = s
         /\ ~overlapped => /\ SettingsKept /\ CallOK(c)
                           /\ s.at = "idle" \/ CallOK(c)' => Alone'
<1>1. saver' \in [Savers -> Calls] /\ saver'[c] = s /\ \A e \in Savers \ {c} : saver'[e] = saver[e]
  BY DEF SettingsInv, SettingsTypeOK, Goes
<1>2. ASSUME ~overlapped PROVE SettingsKept /\ CallOK(c) /\ \A e \in Busy' : e = c
  BY <1>1, <1>2 DEF SettingsInv, SettingsKept, Alone, Busy
<1>3. ASSUME ~overlapped, s.at = "idle" \/ CallOK(c)' PROVE Alone'
  <2>1. \A e \in Busy' : e = c /\ s.at # "idle"
    BY <1>1, <1>2, <1>3 DEF Busy
  <2>2. \A e \in Busy' : CallOK(e)'
    BY <2>1, <1>3
  <2> QED BY <2>1, <2>2 DEF Alone
<1> QED BY <1>1, <1>2, <1>3

LEMMA SetSettingsInv ==
  ASSUME SettingsInv, NEW c \in Savers, NEW d \in Preferences, SetSettings(c, d)
  PROVE  SettingsInv'
<1>1. updates' \in 1..MaxSaves
  BY SettingsConstants DEF SettingsInv, SettingsTypeOK, SetSettings
<1>2. CallAt("marshal", updates') \in Calls
  BY <1>1, CallTypes, SettingsConstants
<1>3. saver' \in [Savers -> Calls] /\ saver'[c] = CallAt("marshal", updates')
  BY <1>2 DEF SettingsInv, SettingsTypeOK, SetSettings
<1>4. SettingsTypeOK'
  BY <1>1, <1>3, SettingsConstants
  DEF SettingsInv, SettingsTypeOK, SetSettings, Writings
<1>5. ASSUME ~overlapped' PROVE SettingsKept'
  <2>1. ~overlapped /\ Busy = {}
    BY <1>5 DEF SetSettings
  <2>2. \A e \in Busy' : e = c
    BY <2>1 DEF SettingsInv, SettingsTypeOK, SetSettings, Busy
  <2>3. CallOK(c)'
    <3>1. updates' \in 0..MaxSaves /\ updates' > 0
      BY <1>1, SettingsConstants
    <3>2. saver'[c].at = "marshal" /\ saver'[c].call = updates'
      BY <1>3, <3>1, CallTypes
    <3> QED BY <3>1, <3>2 DEF CallOK
  <2>4. Alone'
    BY <2>2, <2>3 DEF Alone
  <2> QED BY <2>1, <2>4 DEF SettingsInv, SettingsKept, Kept, SetSettings
<1> QED BY <1>4, <1>5 DEF SettingsInv

\* The steps of a save, each with what becomes of the call.
LEMMA MarshalInv == ASSUME SettingsInv, NEW c \in Savers, Marshal(c) PROVE SettingsInv'
<1> saver[c] \in Calls
  BY DEF SettingsInv, SettingsTypeOK
<1> DEFINE s == [saver[c] EXCEPT !.at = "key", !.document = memory]
<1>1. s \in Calls /\ s.at = "key" /\ s.call = saver[c].call
  BY SettingsConstants DEF Calls, SettingsInv, SettingsTypeOK
<1> HIDE DEF s
<1>2. Goes(c, s) /\ saver[c].at = "marshal"
  BY DEF Marshal, s, At
<1>3. SettingsTypeOK'
  BY <1>1, <1>2, SaverMoves, SettingsConstants DEF SettingsInv, SettingsTypeOK, Marshal, CallVars
<1>4. ASSUME ~overlapped' PROVE SettingsKept'
  <2>1. SettingsKept /\ CallOK(c)
    BY <1>1, <1>2, <1>4, SaverMoves DEF Marshal, CallVars
  <2>2. CallOK(c)'
    BY <1>1, <1>2, <2>1, SaverMoves, SettingsConstants DEF CallOK, Marshal, CallVars, SettingsKept, Kept
  <2>3. Alone'
    BY <1>1, <1>2, <1>4, <2>2, SaverMoves DEF Marshal, CallVars
  <2> QED BY <1>2, <2>1, <2>3 DEF SettingsKept, Kept, CallOK, Marshal, CallVars
<1> QED BY <1>3, <1>4 DEF SettingsInv

LEMMA ReadKeyInv == ASSUME SettingsInv, NEW c \in Savers, ReadKey(c) PROVE SettingsInv'
<1> saver[c] \in Calls
  BY DEF SettingsInv, SettingsTypeOK
<1>1. \E s \in Calls :
        /\ Goes(c, s)
        /\ s.at = "idle" \/ s.call = saver[c].call
        /\ \/ s.at = "idle"
           \/ s.at = "open" /\ keyFile > 0 /\ s.key = keyFile
           \/ s.at = "make key" /\ keyFile = 0
  <2>1. CASE keyFile > 0 /\ Goes(c, [saver[c] EXCEPT !.at = "open", !.key = keyFile])
    <3>1. keyFile \in 0..MaxSaves
      BY <2>1 DEF SettingsInv, SettingsTypeOK
    <3>2. [saver[c] EXCEPT !.at = "open", !.key = keyFile] \in Calls
      BY <3>1 DEF Calls
    <3> QED BY <2>1, <3>2 DEF Calls
  <2>2. CASE Goes(c, AtRest)
    BY <2>2, SettingsConstants
  <2>3. CASE keyFile = 0 /\ Goes(c, [saver[c] EXCEPT !.at = "make key"])
    <3>1. [saver[c] EXCEPT !.at = "make key"] \in Calls
      BY DEF Calls
    <3> QED BY <2>3, <3>1 DEF Calls
  <2> QED BY <2>1, <2>2, <2>3 DEF ReadKey
<1> PICK s \in Calls :
        /\ Goes(c, s)
        /\ s.at = "idle" \/ s.call = saver[c].call
        /\ \/ s.at = "idle"
           \/ s.at = "open" /\ keyFile > 0 /\ s.key = keyFile
           \/ s.at = "make key" /\ keyFile = 0
  BY <1>1
<1>2. Goes(c, s) /\ saver[c].at = "key"
  BY DEF ReadKey, At
<1>3. SettingsTypeOK'
  BY <1>1, <1>2, SaverMoves, SettingsConstants DEF SettingsInv, SettingsTypeOK, ReadKey, CallVars
<1>4. ASSUME ~overlapped' PROVE SettingsKept'
  <2>1. SettingsKept /\ CallOK(c)
    BY <1>1, <1>2, <1>4, SaverMoves DEF ReadKey, CallVars
  <2>2. s.at = "idle" \/ CallOK(c)'
    BY <1>1, <1>2, <2>1, SaverMoves, SettingsConstants DEF CallOK, ReadKey, CallVars, SettingsKept, Kept
  <2>3. Alone'
    BY <1>1, <1>2, <1>4, <2>2, SaverMoves DEF ReadKey, CallVars
  <2> QED BY <1>2, <2>1, <2>3 DEF SettingsKept, Kept, CallOK, ReadKey, CallVars
<1> QED BY <1>3, <1>4 DEF SettingsInv


LEMMA MakeKeyInv == ASSUME SettingsInv, NEW c \in Savers, MakeKey(c) PROVE SettingsInv'
<1> saver[c] \in Calls
  BY DEF SettingsInv, SettingsTypeOK
<1> DEFINE s == [saver[c] EXCEPT !.at = "write key"]
<1>1. s \in Calls /\ s.at = "write key" /\ s.call = saver[c].call
  BY SettingsConstants DEF Calls, SettingsInv, SettingsTypeOK
<1> HIDE DEF s
<1>2. Goes(c, s) /\ saver[c].at = "make key"
  BY DEF MakeKey, s, At
<1>3. SettingsTypeOK'
  BY <1>1, <1>2, SaverMoves, SettingsConstants DEF SettingsInv, SettingsTypeOK, MakeKey, CallVars
<1>4. ASSUME ~overlapped' PROVE SettingsKept'
  <2>1. SettingsKept /\ CallOK(c)
    BY <1>1, <1>2, <1>4, SaverMoves DEF MakeKey, CallVars
  <2>2. CallOK(c)'
    BY <1>1, <1>2, <2>1, SaverMoves, SettingsConstants DEF CallOK, MakeKey, CallVars, SettingsKept, Kept
  <2>3. Alone'
    BY <1>1, <1>2, <1>4, <2>2, SaverMoves DEF MakeKey, CallVars
  <2>4. live = 0
    <3>1. keyFile \in {0, -1}
      BY <1>2, <2>1 DEF CallOK
    <3>2. live # 0 => keyFile > 0
      BY <2>1 DEF SettingsKept, Kept
    <3> QED BY <3>1, <3>2
  <2> QED BY <2>1, <2>3, <2>4 DEF SettingsKept, Kept, MakeKey, CallVars
<1> QED BY <1>3, <1>4 DEF SettingsInv

LEMMA WriteKeyInv == ASSUME SettingsInv, NEW c \in Savers, WriteKey(c) PROVE SettingsInv'
<1> saver[c] \in Calls
  BY DEF SettingsInv, SettingsTypeOK
<1> DEFINE s == [saver[c] EXCEPT !.at = "open", !.key = FreshKey(c)]
<1>1. s \in Calls /\ s.at = "open" /\ s.call = saver[c].call /\ s.key = saver[c].call
  BY SettingsConstants DEF Calls, SettingsInv, SettingsTypeOK, FreshKey
<1> HIDE DEF s
<1>2. Goes(c, s) /\ saver[c].at = "write key"
  BY DEF WriteKey, s, At, FreshKey
<1>3. SettingsTypeOK'
  BY <1>1, <1>2, SaverMoves, SettingsConstants DEF SettingsInv, SettingsTypeOK, WriteKey, CallVars, FreshKey, Calls
<1>4. ASSUME ~overlapped' PROVE SettingsKept'
  <2>1. SettingsKept /\ CallOK(c)
    BY <1>1, <1>2, <1>4, SaverMoves DEF WriteKey, CallVars
  <2>2. CallOK(c)'
    BY <1>1, <1>2, <2>1, SaverMoves, SettingsConstants DEF CallOK, WriteKey, CallVars, SettingsKept, Kept, FreshKey
  <2>3. Alone'
    BY <1>1, <1>2, <1>4, <2>2, SaverMoves DEF WriteKey, CallVars
  <2>4. live = 0
    <3>1. keyFile \in {0, -1}
      BY <1>2, <2>1 DEF CallOK
    <3>2. live # 0 => keyFile > 0
      BY <2>1 DEF SettingsKept, Kept
    <3> QED BY <3>1, <3>2
  <2> QED BY <2>1, <2>3, <2>4 DEF SettingsKept, Kept, WriteKey, CallVars
<1> QED BY <1>3, <1>4 DEF SettingsInv

LEMMA OpenTempInv == ASSUME SettingsInv, NEW c \in Savers, OpenTemp(c) PROVE SettingsInv'
<1> saver[c] \in Calls
  BY DEF SettingsInv, SettingsTypeOK
<1> PICK i \in Inodes :
      /\ temp # 0 => i = temp
      /\ temp = 0 => i # live
      /\ temp' = i /\ inode' = [inode EXCEPT ![i] = Blank]
      /\ Goes(c, [saver[c] EXCEPT !.at = "write", !.fd = i])
  BY DEF OpenTemp
<1>5. /\ inode' \in [Inodes -> Contents] /\ inode'[i] = Blank /\ i # 0
      /\ \A j \in Inodes \ {i} : inode'[j] = inode[j]
  BY SettingsConstants DEF SettingsInv, SettingsTypeOK, Inodes
<1> DEFINE s == [saver[c] EXCEPT !.at = "write", !.fd = i]
<1>1. s \in Calls /\ s.at = "write" /\ s.call = saver[c].call /\ s.key = saver[c].key /\ s.fd = i
  BY SettingsConstants DEF Calls, SettingsInv, SettingsTypeOK
<1> HIDE DEF s
<1>2. Goes(c, s) /\ saver[c].at = "open"
  BY DEF OpenTemp, s, At
<1>3. SettingsTypeOK'
  BY <1>1, <1>2, <1>5, SaverMoves, SettingsConstants DEF SettingsInv, SettingsTypeOK, OpenTemp, CallVars
<1>4. ASSUME ~overlapped' PROVE SettingsKept'
  <2>1. SettingsKept /\ CallOK(c)
    BY <1>1, <1>2, <1>4, SaverMoves DEF OpenTemp, CallVars
  <2>2. CallOK(c)'
    BY <1>1, <1>2, <1>5, <2>1, SaverMoves, SettingsConstants DEF CallOK, OpenTemp, CallVars, SettingsKept, Kept
  <2>3. Alone'
    BY <1>1, <1>2, <1>4, <2>2, SaverMoves DEF OpenTemp, CallVars
  <2> QED BY <1>2, <1>5, <2>1, <2>3 DEF SettingsInv, SettingsTypeOK, SettingsKept, Kept, CallOK, OpenTemp, CallVars
<1> QED BY <1>3, <1>4 DEF SettingsInv

LEMMA WriteTempInv == ASSUME SettingsInv, NEW c \in Savers, WriteTemp(c) PROVE SettingsInv'
<1> saver[c] \in Calls
  BY DEF SettingsInv, SettingsTypeOK
<1> PICK i \in {0} \cup Inodes : i = saver[c].fd
  BY DEF Calls
<1> PICK content \in {Sealed(saver[c])} \cup (IF inode[i] = Blank THEN {} ELSE {Mixed}) :
      inode' = [inode EXCEPT ![i] = content]
  BY DEF WriteTemp
<1>5. /\ inode' \in [Inodes -> Contents] /\ (i \in Inodes => inode'[i] = content)
      /\ \A j \in Inodes \ {i} : inode'[j] = inode[j]
  BY SettingsConstants DEF SettingsInv, SettingsTypeOK
<1> DEFINE s == [saver[c] EXCEPT !.at = "rename"]
<1>1. s \in Calls /\ s.at = "rename" /\ s.call = saver[c].call /\ s.key = saver[c].key /\ s.fd = saver[c].fd
      /\ Sealed(s) = Sealed(saver[c])
  BY SettingsConstants DEF Calls, SettingsInv, SettingsTypeOK, Sealed
<1> HIDE DEF s
<1>2. Goes(c, s) /\ saver[c].at = "write"
  BY DEF WriteTemp, s, At, Sealed
<1>3. SettingsTypeOK'
  BY <1>1, <1>2, <1>5, SaverMoves, SettingsConstants DEF SettingsInv, SettingsTypeOK, WriteTemp, CallVars, Sealed
<1>4. ASSUME ~overlapped' PROVE SettingsKept'
  <2>1. SettingsKept /\ CallOK(c)
    BY <1>1, <1>2, <1>4, SaverMoves DEF WriteTemp, CallVars
  <2>2. CallOK(c)'
    BY <1>1, <1>2, <1>5, <2>1, SaverMoves, SettingsConstants DEF CallOK, WriteTemp, CallVars, SettingsKept, Kept
  <2>3. Alone'
    BY <1>1, <1>2, <1>4, <2>2, SaverMoves DEF WriteTemp, CallVars
  <2> QED BY <1>2, <1>5, <2>1, <2>3 DEF SettingsInv, SettingsTypeOK, SettingsKept, Kept, CallOK, WriteTemp, CallVars
<1> QED BY <1>3, <1>4 DEF SettingsInv

LEMMA WriteFailsInv == ASSUME SettingsInv, NEW c \in Savers, WriteFails(c) PROVE SettingsInv'
<1> saver[c] \in Calls
  BY DEF SettingsInv, SettingsTypeOK
<1>5. /\ inode' \in [Inodes -> Contents]
      /\ \A j \in Inodes : j # saver[c].fd => inode'[j] = inode[j]
  BY SettingsConstants DEF WriteFails, SettingsInv, SettingsTypeOK
<1> DEFINE s == AtRest
<1>1. s \in Calls /\ s.at = "idle"
  BY SettingsConstants DEF Calls, SettingsInv, SettingsTypeOK
<1> HIDE DEF s
<1>2. Goes(c, s) /\ saver[c].at = "write"
  BY DEF WriteFails, s, At
<1>3. SettingsTypeOK'
  BY <1>1, <1>2, <1>5, SaverMoves, SettingsConstants DEF SettingsInv, SettingsTypeOK, WriteFails, CallVars
<1>4. ASSUME ~overlapped' PROVE SettingsKept'
  <2>1. SettingsKept /\ CallOK(c)
    BY <1>1, <1>2, <1>4, SaverMoves DEF WriteFails, CallVars
  <2>3. Alone'
    BY <1>1, <1>2, <1>4, SaverMoves DEF WriteFails, CallVars
  <2> QED BY <1>2, <1>5, <2>1, <2>3 DEF SettingsInv, SettingsTypeOK, SettingsKept, Kept, CallOK, WriteFails, CallVars
<1> QED BY <1>3, <1>4 DEF SettingsInv

LEMMA RenameInv == ASSUME SettingsInv, NEW c \in Savers, Rename(c) PROVE SettingsInv'
<1> saver[c] \in Calls
  BY DEF SettingsInv, SettingsTypeOK
<1> DEFINE s == AtRest
<1>1. s \in Calls /\ s.at = "idle"
  BY SettingsConstants DEF Calls, SettingsInv, SettingsTypeOK
<1> HIDE DEF s
<1>2. Goes(c, s) /\ saver[c].at = "rename"
  BY DEF Rename, s, At
<1>3. SettingsTypeOK'
  BY <1>1, <1>2, SaverMoves, SettingsConstants DEF SettingsInv, SettingsTypeOK, Rename, CallVars, Calls
<1>4. ASSUME ~overlapped' PROVE SettingsKept'
  <2>1. SettingsKept /\ CallOK(c)
    BY <1>1, <1>2, <1>4, SaverMoves DEF Rename, CallVars
  <2>3. Alone'
    BY <1>1, <1>2, <1>4, SaverMoves DEF Rename, CallVars
  <2> QED BY <1>2, <2>1, <2>3 DEF SettingsKept, Kept, CallOK, Sealed, Rename, CallVars
<1> QED BY <1>3, <1>4 DEF SettingsInv

LEMMA SettingsRestartInv == ASSUME SettingsInv, SettingsRestart PROVE SettingsInv'
<1>1. saver' \in [Savers -> Calls] /\ Busy' = {}
  BY SettingsConstants DEF SettingsRestart, Busy
<1>2. ASSUME live # 0, Loadable PROVE inode[live].document \in Writings
  BY <1>2 DEF SettingsInv, SettingsTypeOK, Loadable, Contents
<1>3. /\ saveFaults' \in 0..MaxSaveFaults
      /\ memory' \in Writings /\ opened' \in BOOLEAN
  <2>1. saveFaults' \in 0..MaxSaveFaults
    BY SettingsConstants DEF SettingsInv, SettingsTypeOK, SettingsRestart
  <2>2. memory' \in Writings
    BY <1>2 DEF SettingsRestart, Writings
  <2>3. opened' \in BOOLEAN
    BY DEF SettingsRestart
  <2> QED BY <2>1, <2>2, <2>3
<1>4. SettingsTypeOK'
  BY <1>1, <1>3 DEF SettingsInv, SettingsTypeOK, SettingsRestart, Calls
<1>5. ASSUME ~overlapped' PROVE SettingsKept'
  <2>1. SettingsKept
    BY <1>5 DEF SettingsInv, SettingsRestart
  <2>2. live # 0 => /\ inode[live].document = saved /\ inode[live].key = keyFile
                    /\ saved \notin {"empty", "torn"}
    <3>1. saved \notin {"empty", "torn"}
      BY SettingsConstants DEF SettingsInv, SettingsTypeOK, Writings
    <3> QED BY <2>1, <3>1 DEF SettingsKept, Kept
  <2>3. live # 0 => Loadable
    BY <2>2 DEF Loadable
  <2>4. opened' /\ saved' = IF live # 0 THEN saved ELSE "default"
    BY <2>2, <2>3 DEF SettingsRestart
  <2> QED BY <1>1, <2>1, <2>4 DEF SettingsKept, Kept, Alone, SettingsRestart
<1> QED BY <1>4, <1>5 DEF SettingsInv

\* Settings survive failed writes and crashes anywhere, for any requests,
\* settings and numbers of saves and faults.
THEOREM SettingsSurviveCorrect == SettingsSpec => []SettingsSurvive
<1>1. SettingsInv /\ [SettingsNext]_fileVars => SettingsInv'
  <2> SUFFICES ASSUME SettingsInv, [SettingsNext]_fileVars PROVE SettingsInv'
    OBVIOUS
  <2>1. CASE UNCHANGED fileVars
    BY <2>1
    DEF SettingsInv, SettingsTypeOK, SettingsKept, Kept, Alone, Busy, CallOK, fileVars
  <2> QED BY <2>1, SetSettingsInv, SettingsRestartInv, MarshalInv, ReadKeyInv, MakeKeyInv,
            WriteKeyInv, OpenTempInv, WriteTempInv, WriteFailsInv, RenameInv
         DEF SettingsNext, SaveStep
<1>2. SettingsInv => SettingsSurvive
  <2> SUFFICES ASSUME SettingsInv, ~overlapped PROVE SettingsReadable
    BY DEF SettingsInv, SettingsSurvive, SettingsReadable
  <2>1. SettingsKept /\ saved \notin {"empty", "torn"}
    BY SettingsConstants DEF SettingsInv, SettingsTypeOK, Writings
  <2>2. live # 0 => inode[live].document = saved /\ inode[live].key = keyFile
    BY <2>1 DEF SettingsKept, Kept
  <2> QED BY <2>1, <2>2 DEF SettingsKept, SettingsReadable, Loadable
<1> QED BY <1>1, <1>2, SettingsInitInv, PTL DEF SettingsSpec

-----------------------------------------------------------------------------
\* The records of a value, and what the file and the first n - 1 pages of the
\* collection say of it.
RecordsOf(v) == {k \in indicators : k.value = v}
PagesBefore(v, n) == {i \in PagesAbout(v) : i < n}
SaidBefore(v, n) ==
  IF PagesBefore(v, n) = {} THEN {o \in stixFile : o.value = v}
  ELSE {collection[i] : i \in {i \in PagesBefore(v, n) : \A j \in PagesBefore(v, n) : j <= i}}

\* Until an error, or a change of a source, what is known of a value that the
\* pages read so far speak of is what they say; every value that was ever added
\* has one record.
PagesRead == IF page = 0 THEN Len(collection) + 1 ELSE page
ToldSoFar ==
  ~failed /\ ~moved.taxii =>
    \A v \in Values : SaidBefore(v, PagesRead) # {} => RecordsOf(v) = SaidBefore(v, PagesRead)
OneEach(S) == \A k, o \in S : k.value = o.value => k = o
IndicatorsOK ==
  /\ collection \in Seq(Objects) /\ stixFile \subseteq Objects /\ OneEach(stixFile)
  /\ indicators \subseteq Objects /\ OneEach(indicators)
  /\ imported \subseteq {k.value : k \in indicators}
  /\ page \in Nat /\ moved \in [taxii : BOOLEAN, kev : BOOLEAN]
  /\ ToldSoFar

\* A refresh of the catalog that nothing disturbed has the packages after its
\* first step, and the catalog after its last.
CatalogOK ==
  /\ moved \in [taxii : BOOLEAN, kev : BOOLEAN] /\ HasURL \in BOOLEAN
  /\ exposures = ExposuresOf(packages, kev)
  /\ kevStep \in {"idle", "packages", "file", "url"} /\ (kevStep = "url" => HasURL)
  /\ ~kevFailed /\ ~moved.kev =>
       /\ kevStep \in {"idle", "file", "url"} => packages = installed
       /\ kevStep = "idle" => kev = IF HasURL THEN kevFeed ELSE kevFile
IntelligenceInv == IndicatorsOK /\ CatalogOK

-----------------------------------------------------------------------------
\* Import leaves one record of each value it brings, and the others alone.
LEMMA ImportFacts ==
  ASSUME NEW known \in SUBSET Objects, NEW new \in SUBSET Objects, OneEach(known), OneEach(new)
  PROVE  /\ Import(known, new) \subseteq Objects /\ OneEach(Import(known, new))
         /\ {k.value : k \in known} \cup {o.value : o \in new}
              \subseteq {k.value : k \in Import(known, new)}
  BY DEF Import, OneEach

LEMMA IntelligenceInitInv == IntelligenceInit => IntelligenceInv
<1> SUFFICES ASSUME IntelligenceInit PROVE IntelligenceInv
  OBVIOUS
<1>1. collection \in Seq(Objects) /\ moved = [taxii |-> TRUE, kev |-> TRUE]
  BY DEF IntelligenceInit
<1>2. moved \in [taxii : BOOLEAN, kev : BOOLEAN] /\ moved.taxii /\ moved.kev
  BY <1>1
<1>3. stixFile \subseteq Objects /\ OneEach(stixFile)
  BY DEF IntelligenceInit, OneEach
<1>4. IndicatorsOK
  BY <1>1, <1>2, <1>3 DEF IntelligenceInit, IndicatorsOK, ToldSoFar, OneEach
<1>5. CatalogOK
  BY <1>2, IntelligenceAssumption DEF IntelligenceInit, CatalogOK, ExposuresOf
<1> QED BY <1>4, <1>5 DEF IntelligenceInv

LEMMA RefreshInv == ASSUME IntelligenceInv, Refresh PROVE IndicatorsOK'
<1> USE DEF IntelligenceInv, IndicatorsOK
<1>1. moved' \in [taxii : BOOLEAN, kev : BOOLEAN]
  BY DEF Refresh, Asked
<1>2. page' = 1 /\ UNCHANGED <<collection, stixFile>>
  BY DEF Refresh
<1>3. CASE indicators' = Import(indicators, stixFile)
           /\ imported' = imported \cup {o.value : o \in stixFile}
  <2>1. /\ indicators' \subseteq Objects /\ OneEach(indicators')
        /\ imported' \subseteq {k.value : k \in indicators'}
    BY <1>3, ImportFacts
  <2>2. \A v : PagesBefore(v, 1)' = {}
    BY <1>2 DEF PagesBefore, PagesAbout
  <2>3. \A v \in Values : SaidBefore(v, PagesRead)' = {o \in stixFile : o.value = v}
    BY <1>2, <2>2 DEF SaidBefore, PagesRead
  <2>4. \A v \in Values : {o \in stixFile : o.value = v} # {}
                            => RecordsOf(v)' = {o \in stixFile : o.value = v}
    BY <1>3 DEF RecordsOf, Import
  <2>5. ToldSoFar'
    BY <2>3, <2>4 DEF ToldSoFar
  <2> QED BY <1>1, <1>2, <2>1, <2>5 DEF OneEach
<1>4. CASE failed' = TRUE /\ UNCHANGED <<indicators, imported>>
  BY <1>1, <1>2, <1>4 DEF OneEach, ToldSoFar
<1> QED BY <1>3, <1>4 DEF Refresh

\* A page adds what it says to what the pages before it said.
LEMMA PageSaid ==
  ASSUME collection \in Seq(Objects), page \in 1..Len(collection), NEW v \in Values
  PROVE  SaidBefore(v, page + 1) =
           IF collection[page].value = v THEN {collection[page]} ELSE SaidBefore(v, page)
<1>1. CASE collection[page].value = v
  <2>1. page \in PagesBefore(v, page + 1) /\ \A j \in PagesBefore(v, page + 1) : j <= page
    BY <1>1 DEF PagesBefore, PagesAbout
  <2>2. {i \in PagesBefore(v, page + 1) : \A j \in PagesBefore(v, page + 1) : j <= i} = {page}
    BY <2>1 DEF PagesBefore, PagesAbout
  <2> QED BY <1>1, <2>1, <2>2 DEF SaidBefore
<1>2. CASE collection[page].value # v
  <2>1. PagesBefore(v, page + 1) = PagesBefore(v, page)
    BY <1>2 DEF PagesBefore, PagesAbout
  <2> QED BY <1>2, <2>1 DEF SaidBefore
<1> QED BY <1>1, <1>2

\* All pages have been read when as many as there are have been.
LEMMA AllSaid ==
  ASSUME collection \in Seq(Objects), NEW n \in Nat, n > Len(collection), NEW v
  PROVE  PagesBefore(v, n) = PagesAbout(v) /\ SaidBefore(v, n) = Said(v)
<1>1. PagesBefore(v, n) = PagesAbout(v)
  BY DEF PagesBefore, PagesAbout
<1> QED BY <1>1 DEF SaidBefore, Said

LEMMA FetchPageInv == ASSUME IntelligenceInv, FetchPage PROVE IndicatorsOK'
<1> USE DEF IntelligenceInv, IndicatorsOK
<1>1. /\ page > 0 /\ UNCHANGED <<collection, stixFile, moved>>
      /\ indicators' = Import(indicators, PageObjects)
      /\ imported' = imported \cup {o.value : o \in PageObjects}
  BY DEF FetchPage
<1>2. PageObjects \subseteq Objects /\ OneEach(PageObjects)
  BY <1>1 DEF PageObjects, OneEach
<1>3. /\ indicators' \subseteq Objects /\ OneEach(indicators')
      /\ imported' \subseteq {k.value : k \in indicators'}
  BY <1>1, <1>2, ImportFacts
<1>4. page' \in Nat
  BY DEF FetchPage
<1>5. ASSUME ~failed', ~moved'.taxii, NEW v \in Values, SaidBefore(v, PagesRead)' # {}
      PROVE  RecordsOf(v)' = SaidBefore(v, PagesRead)'
  <2>1. ~failed /\ ~moved.taxii /\ ((page' = page + 1 /\ More) \/ (page' = 0 /\ ~More))
    BY <1>1, <1>5 DEF FetchPage
  <2>2. RecordsOf(v)' = IF {k \in PageObjects : k.value = v} = {} THEN RecordsOf(v)
                        ELSE {k \in PageObjects : k.value = v}
    <3>1. {k \in Import(indicators, PageObjects) : k.value = v} =
            IF {k \in PageObjects : k.value = v} = {} THEN {k \in indicators : k.value = v}
            ELSE {k \in PageObjects : k.value = v}
      BY DEF Import
    <3> QED BY <1>1, <3>1 DEF RecordsOf
  <2>3. SaidBefore(v, page) # {} => RecordsOf(v) = SaidBefore(v, page)
    BY <1>1, <2>1 DEF ToldSoFar, PagesRead
  <2>4. CASE page \in 1..Len(collection)
    <3>1. RecordsOf(v)' = IF collection[page].value = v THEN {collection[page]} ELSE RecordsOf(v)
      <4>1. PageObjects = {collection[page]}
        BY <2>4 DEF PageObjects
      <4>2. {k \in PageObjects : k.value = v} =
              IF collection[page].value = v THEN {collection[page]} ELSE {}
        BY <4>1
      <4> QED BY <2>2, <4>2
    <3>2. SaidBefore(v, page + 1) # {} => RecordsOf(v)' = SaidBefore(v, page + 1)
      BY <2>3, <2>4, <3>1, PageSaid
    <3>3. PICK n : n = PagesRead'
      OBVIOUS
    <3>4. n = page + 1
      BY <1>1, <2>1, <2>4, <3>3 DEF PagesRead, More
    <3>5. SaidBefore(v, PagesRead)' = SaidBefore(v, n)
      BY <1>1, <3>3 DEF SaidBefore, PagesBefore, PagesAbout
    <3> QED BY <1>5, <3>2, <3>4, <3>5
  <2>5. CASE page \notin 1..Len(collection)
    <3>1. page > Len(collection) /\ page' = 0
      BY <1>1, <2>1, <2>5 DEF More
    <3>2. RecordsOf(v)' = RecordsOf(v)
      BY <2>2, <3>1 DEF PageObjects
    <3>3. PICK n : n = PagesRead'
      OBVIOUS
    <3>4. n = Len(collection) + 1
      BY <1>1, <3>1, <3>3 DEF PagesRead
    <3>5. SaidBefore(v, PagesRead)' = SaidBefore(v, n)
      BY <1>1, <3>3 DEF SaidBefore, PagesBefore, PagesAbout
    <3>6. SaidBefore(v, n) = SaidBefore(v, page)
      BY <3>1, <3>4, AllSaid
    <3> QED BY <1>5, <2>3, <3>2, <3>5, <3>6
  <2> QED BY <2>4, <2>5
<1>6. ToldSoFar'
  BY <1>5 DEF ToldSoFar
<1> QED BY <1>1, <1>3, <1>4, <1>6 DEF OneEach

LEMMA PageFailsInv == ASSUME IntelligenceInv, PageFails PROVE IndicatorsOK'
  BY DEF IntelligenceInv, IndicatorsOK, PageFails, OneEach, ToldSoFar

LEMMA PublishInv == ASSUME IntelligenceInv, Publish PROVE IndicatorsOK'
<1> USE DEF IntelligenceInv, IndicatorsOK
<1>1. moved' \in [taxii : BOOLEAN, kev : BOOLEAN] /\ moved'.taxii
  BY DEF Publish, Changed
<1>2. UNCHANGED <<indicators, imported, page>>
  BY DEF Publish, Changed
<1>3. /\ collection' \in Seq(Objects) /\ stixFile' \subseteq Objects /\ OneEach(stixFile')
  <2> PICK o \in Objects :
        \/ collection' = Append(collection, o) /\ UNCHANGED stixFile
        \/ \E i \in DOMAIN collection : collection' = [collection EXCEPT ![i] = o] /\ UNCHANGED stixFile
        \/ stixFile' = {o} /\ UNCHANGED collection
    BY DEF Publish
  <2>1. CASE collection' = Append(collection, o) /\ UNCHANGED stixFile
    BY <2>1
  <2>2. CASE \E i \in DOMAIN collection : collection' = [collection EXCEPT ![i] = o] /\ UNCHANGED stixFile
    BY <2>2
  <2>3. CASE stixFile' = {o} /\ UNCHANGED collection
    BY <2>3 DEF OneEach
  <2> QED BY <2>1, <2>2, <2>3
<1> QED BY <1>1, <1>2, <1>3 DEF OneEach, ToldSoFar

\* The steps of the other hub, and the days, change nothing here.
LEMMA SameIndicators ==
  ASSUME IntelligenceInv, UNCHANGED hubVars, moved' \in [taxii : BOOLEAN, kev : BOOLEAN],
         moved'.taxii = moved.taxii
  PROVE  IndicatorsOK'
<1>1. \A v \in Values : SaidBefore(v, PagesRead)' = SaidBefore(v, PagesRead)
  BY DEF hubVars, SaidBefore, PagesBefore, PagesAbout, PagesRead
<1>2. \A v \in Values : RecordsOf(v)' = RecordsOf(v)
  BY DEF hubVars, RecordsOf
<1>3. ToldSoFar'
  BY <1>1, <1>2 DEF IntelligenceInv, IndicatorsOK, ToldSoFar, hubVars
<1> QED BY <1>3 DEF IntelligenceInv, IndicatorsOK, OneEach, hubVars

LEMMA IndicatorsStep ==
  IntelligenceInv /\ [IndicatorsNext \/ CatalogNext]_intelligenceVars => IndicatorsOK'
<1> SUFFICES ASSUME IntelligenceInv, [IndicatorsNext \/ CatalogNext]_intelligenceVars
             PROVE  IndicatorsOK'
  OBVIOUS
<1>0. moved \in [taxii : BOOLEAN, kev : BOOLEAN]
  BY DEF IntelligenceInv, IndicatorsOK
<1>1. CASE UNCHANGED intelligenceVars \/ NextDay
  BY <1>0, <1>1, SameIndicators DEF intelligenceVars, NextDay
<1>2. CASE CatalogNext
  <2>1. UNCHANGED hubVars
    BY <1>2 DEF CatalogNext, RefreshKEV, DiscoverPackages, LoadKEVFile, FetchKEV, PublishKEV,
                KevGoes, hubVars, Changed
  <2>2. UNCHANGED moved \/ \E b \in BOOLEAN : moved' = [moved EXCEPT !.kev = b]
    BY <1>2 DEF CatalogNext, RefreshKEV, DiscoverPackages, LoadKEVFile, FetchKEV, PublishKEV,
                Asked, Changed
  <2> QED BY <1>0, <2>1, <2>2, SameIndicators
<1> QED BY <1>1, <1>2, RefreshInv, FetchPageInv, PageFailsInv, PublishInv DEF IndicatorsNext

LEMMA CatalogStep ==
  IntelligenceInv /\ [IndicatorsNext \/ CatalogNext]_intelligenceVars => CatalogOK'
<1> SUFFICES ASSUME IntelligenceInv, [IndicatorsNext \/ CatalogNext]_intelligenceVars
             PROVE  CatalogOK'
  OBVIOUS
<1> USE DEF IntelligenceInv, CatalogOK
<1>1. CASE UNCHANGED intelligenceVars \/ NextDay \/ PageFails \/ FetchPage
  BY <1>1 DEF intelligenceVars, kevVars, NextDay, PageFails, FetchPage, ExposuresOf
<1>2. CASE Refresh \/ Publish
  <2>1. moved' \in [taxii : BOOLEAN, kev : BOOLEAN] /\ moved'.kev = moved.kev
    BY <1>2 DEF Refresh, Publish, Asked, Changed
  <2> QED BY <1>2, <2>1 DEF Refresh, Publish, Changed, kevVars, ExposuresOf
<1>3. CASE RefreshKEV \/ PublishKEV
  <2>1. /\ moved' \in [taxii : BOOLEAN, kev : BOOLEAN]
        /\ RefreshKEV => kevStep' = "packages"
        /\ PublishKEV => moved'.kev
    BY <1>3 DEF RefreshKEV, PublishKEV, Asked, Changed
  <2> QED BY <1>3, <2>1 DEF RefreshKEV, PublishKEV, Changed, ExposuresOf
<1>4. CASE DiscoverPackages
  BY <1>4 DEF DiscoverPackages, KevGoes, SetPackages, NoKevFault, KevFault, ExposuresOf
<1>5. CASE LoadKEVFile
  BY <1>5 DEF LoadKEVFile, KevGoes, LoadKEV, NoKevFault, KevFault, ExposuresOf
<1>6. CASE FetchKEV
  BY <1>6 DEF FetchKEV, KevGoes, LoadKEV, NoKevFault, KevFault, ExposuresOf
<1> QED BY <1>1, <1>2, <1>3, <1>4, <1>5, <1>6 DEF IndicatorsNext, CatalogNext

\* What others published is known as they published it, for any values, feeds,
\* pages and faults.
THEOREM KnowledgeTruthfulCorrect == IntelligenceSpec => []KnowledgeTruthful
<1>1. ASSUME IntelligenceInv PROVE RefreshTold
  <2> SUFFICES ASSUME page = 0, ~failed, ~moved.taxii, NEW v \in Values, Said(v) # {}
               PROVE  MatchFlow(v) = {o \in Said(v) : Valid(o)}
    BY DEF RefreshTold
  <2>1. SaidBefore(v, PagesRead) = Said(v)
    <3> DEFINE n == Len(collection) + 1
    <3>1. collection \in Seq(Objects) /\ n \in Nat /\ n > Len(collection) /\ PagesRead = n
      BY <1>1 DEF IntelligenceInv, IndicatorsOK, PagesRead
    <3> HIDE DEF n
    <3> QED BY <3>1, AllSaid
  <2>2. RecordsOf(v) = Said(v)
    BY <1>1, <2>1 DEF IntelligenceInv, IndicatorsOK, ToldSoFar
  <2> QED BY <2>2 DEF MatchFlow, RecordsOf
<1>2. ASSUME IntelligenceInv PROVE NothingForgotten
  <2> SUFFICES ASSUME NEW v \in imported PROVE Cardinality(RecordsOf(v)) = 1
    BY DEF NothingForgotten, RecordsOf
  <2> PICK k \in indicators : k.value = v
    BY <1>2 DEF IntelligenceInv, IndicatorsOK
  <2>1. RecordsOf(v) = {k}
    BY <1>2 DEF IntelligenceInv, IndicatorsOK, OneEach, RecordsOf
  <2> QED BY <2>1, FS_Singleton
<1>3. IntelligenceInv => KnowledgeTruthful
  BY <1>1, <1>2 DEF IntelligenceInv, CatalogOK, KnowledgeTruthful, ExposuresCurrent
<1>4. IntelligenceInv /\ [IndicatorsNext \/ CatalogNext]_intelligenceVars => IntelligenceInv'
  BY IndicatorsStep, CatalogStep DEF IntelligenceInv
<1> QED BY <1>3, <1>4, IntelligenceInitInv, PTL DEF IntelligenceSpec

-----------------------------------------------------------------------------
\* What a handler holds between two steps, and an archive.
Exported == {"case.json", "triage", "pcap"} \X (Nat \cup Pcaps)
ExportTasks ==
  [at : {"built", "writing", "serving"}, id : CaseIds, since : Nat, files : SUBSET Exported,
   manifest : SUBSET Exported, alone : BOOLEAN]
ServedTasks ==
  [at : {"served"}, id : CaseIds, since : Nat, alone : BOOLEAN, whole : BOOLEAN,
   files : SUBSET Exported, manifest : SUBSET Exported]
TriageTasks == [at : {"collecting"}, id : CaseIds]
Tasks == {Idle} \cup TriageTasks \cup ExportTasks \cup ServedTasks
CaseFiles ==
  [notes : 0..MaxUpdates, snapshots : 0..MaxUpdates, pcaps : SUBSET Pcaps,
   locked : BOOLEAN, exists : BOOLEAN]
ArchiveFiles ==
  [writers : SUBSET Analysts, mixed : BOOLEAN, files : SUBSET Exported,
   manifest : SUBSET Exported]

\* A case that does not exist is not locked, and the file shows what was
\* confirmed.
CaseOK(id) ==
  /\ ~store[id].exists => ~store[id].locked
  /\ store[id].snapshots <= MaxSnapshots
  /\ Updates(store[id]) = confirmed[id]
CasesOK ==
  /\ store \in [CaseIds -> CaseFiles] /\ confirmed \in [CaseIds -> Nat]
  /\ pcaps \subseteq Pcaps /\ immutable \in BOOLEAN
  /\ exports \in 0..MaxExports /\ caseFailures \in 0..MaxCaseFailures
  /\ \A id \in CaseIds : CaseOK(id)

\* A handler that writes is known to the archive; while no other export of the
\* case came, the archive is that of the one handler.
Covered(t) == t.manifest = t.files /\ <<"case.json", t.since>> \in t.files
OwnArchive(a, t) ==
  /\ t.at = "writing" => a \in archive[t.id].writers
  /\ t.at \in {"writing", "serving"} /\ t.alone =>
       /\ ~archive[t.id].mixed
       /\ archive[t.id].files = t.files /\ archive[t.id].manifest = t.manifest
       /\ archive[t.id].writers = IF t.at = "writing" THEN {a} ELSE {}
ExportsOK ==
  /\ task \in [Analysts -> Tasks] /\ archive \in [CaseIds -> ArchiveFiles]
  /\ \A a \in Analysts :
       /\ task[a] \in ExportTasks => Covered(task[a]) /\ OwnArchive(a, task[a])
       /\ task[a] \in ServedTasks /\ task[a].alone => task[a].whole /\ Covered(task[a])
CasesInv == CasesOK /\ ExportsOK

-----------------------------------------------------------------------------
LEMMA CaseBounds ==
  MaxSnapshots \in Nat /\ MaxUpdates \in Nat /\ MaxExports \in Nat /\ MaxCaseFailures \in Nat
  BY CasesAssumption

LEMMA TaskKinds ==
  ASSUME NEW t \in Tasks
  PROVE  /\ t.at \in {"idle", "collecting", "built", "writing", "serving", "served"}
         /\ t.at = "collecting" => t \in TriageTasks
         /\ t.at \in {"built", "writing", "serving"} <=> t \in ExportTasks
         /\ t.at = "served" <=> t \in ServedTasks
<1>1. CASE t = Idle
  BY <1>1 DEF Idle, TriageTasks, ExportTasks, ServedTasks
<1>2. CASE t \in TriageTasks
  BY <1>2 DEF TriageTasks, ExportTasks, ServedTasks
<1>3. CASE t \in ExportTasks
  BY <1>3 DEF TriageTasks, ExportTasks, ServedTasks
<1>4. CASE t \in ServedTasks
  BY <1>4 DEF TriageTasks, ExportTasks, ServedTasks
<1> QED BY <1>1, <1>2, <1>3, <1>4 DEF Tasks

LEMMA IdleTask == Idle \in Tasks /\ Idle \notin ExportTasks /\ Idle \notin ServedTasks
  BY DEF Idle, Tasks, ExportTasks, ServedTasks

LEMMA CasesInitInv == CasesInit => CasesInv
<1> SUFFICES ASSUME CasesInit PROVE CasesInv
  OBVIOUS
<1>1. NoCase \in CaseFiles /\ Updates(NoCase) = 0 /\ ~NoCase.exists /\ ~NoCase.locked
      /\ NoCase.snapshots = 0
  BY CaseBounds DEF NoCase, CaseFiles, Updates
<1>2. NoArchive \in ArchiveFiles
  BY DEF NoArchive, ArchiveFiles
<1>3. CasesOK
  BY <1>1, CaseBounds DEF CasesInit, CasesOK, CaseOK
<1>4. ExportsOK
  BY <1>2, IdleTask DEF CasesInit, ExportsOK
<1> QED BY <1>3, <1>4 DEF CasesInv

-----------------------------------------------------------------------------
\* The file of a case: the write of a new one over an unlocked one.
LEMMA WriteKeepsCases ==
  ASSUME CasesOK, NEW id \in CaseIds, NEW c \in CaseFiles, Write(id, c), ~store[id].locked,
         ~c.exists => ~c.locked, c.snapshots <= MaxSnapshots,
         UNCHANGED <<pcaps, immutable>>, exports' \in 0..MaxExports
  PROVE  /\ CasesOK'
         /\ \A i \in CaseIds : store[i].locked => store'[i] = store[i]
<1>1. CASE /\ store' = [store EXCEPT ![id] = c]
           /\ confirmed' = [confirmed EXCEPT ![id] = Updates(c)]
           /\ UNCHANGED caseFailures
  <2>1. Updates(c) \in Nat
    BY CaseBounds DEF Updates, CaseFiles
  <2>2. /\ store' \in [CaseIds -> CaseFiles] /\ confirmed' \in [CaseIds -> Nat]
        /\ store'[id] = c /\ confirmed'[id] = Updates(c)
        /\ \A i \in CaseIds \ {id} : store'[i] = store[i] /\ confirmed'[i] = confirmed[i]
    BY <1>1, <2>1 DEF CasesOK
  <2>3. ASSUME NEW i \in CaseIds PROVE CaseOK(i)'
    <3>1. CASE i = id
      BY <2>2, <3>1 DEF CaseOK, Updates
    <3>2. CASE i # id
      BY <2>2, <3>2 DEF CasesOK, CaseOK, Updates
    <3> QED BY <3>1, <3>2
  <2> QED BY <1>1, <2>2, <2>3 DEF CasesOK
<1>2. CASE /\ caseFailures < MaxCaseFailures /\ caseFailures' = caseFailures + 1
           /\ UNCHANGED <<store, confirmed>>
  <2>1. caseFailures' \in 0..MaxCaseFailures
    BY <1>2, CaseBounds DEF CasesOK
  <2> QED BY <1>2, <2>1 DEF CasesOK, CaseOK
<1> QED BY <1>1, <1>2 DEF Write

LEMMA CasesStep ==
  ASSUME CasesInv, [CasesNext]_caseVars
  PROVE  /\ CasesOK'
         /\ \A i \in CaseIds : store[i].locked => store'[i] = store[i]
<1> USE DEF CasesInv
<1>1. ASSUME NEW id \in CaseIds, Create(id)
      PROVE  CasesOK' /\ \A i \in CaseIds : store[i].locked => store'[i] = store[i]
  <2> PICK files \in {{}, pcaps} : Write(id, NewCase(files))
    BY <1>1 DEF Create
  <2>1. /\ NewCase(files) \in CaseFiles /\ NewCase(files).exists
        /\ NewCase(files).snapshots = 0
    <3>1. 0 \in 0..MaxUpdates /\ files \in SUBSET Pcaps /\ immutable \in BOOLEAN
      BY CaseBounds DEF CasesOK
    <3> QED BY <3>1 DEF NewCase, CaseFiles
  <2>2. ~store[id].locked
    BY <1>1 DEF Create, CasesOK, CaseOK
  <2>3. UNCHANGED <<pcaps, immutable>> /\ exports' \in 0..MaxExports
    BY <1>1 DEF Create, CasesOK
  <2> QED BY <2>1, <2>2, <2>3, WriteKeepsCases, CaseBounds
<1>2. ASSUME NEW id \in CaseIds, AddNote(id)
      PROVE  CasesOK' /\ \A i \in CaseIds : store[i].locked => store'[i] = store[i]
  <2> DEFINE c == [store[id] EXCEPT !.notes = @ + 1]
  <2>1. store[id] \in CaseFiles /\ ~store[id].locked /\ Updates(store[id]) < MaxUpdates
        /\ store[id].exists /\ store[id].snapshots <= MaxSnapshots
    BY <1>2 DEF AddNote, Updatable, CasesOK, CaseOK
  <2>2. store[id].notes + 1 \in 0..MaxUpdates
    BY <2>1, CaseBounds DEF Updates, CaseFiles
  <2>3. c \in CaseFiles /\ c.exists /\ c.snapshots <= MaxSnapshots
    BY <2>1, <2>2 DEF CaseFiles
  <2> HIDE DEF c
  <2>4. Write(id, c) /\ UNCHANGED <<pcaps, immutable>> /\ exports' \in 0..MaxExports
    BY <1>2 DEF AddNote, c, CasesOK
  <2> QED BY <2>1, <2>3, <2>4, WriteKeepsCases
<1>3. ASSUME NEW id \in CaseIds, Lock(id)
      PROVE  CasesOK' /\ \A i \in CaseIds : store[i].locked => store'[i] = store[i]
  <2> DEFINE c == [store[id] EXCEPT !.locked = TRUE]
  <2>1. store[id] \in CaseFiles /\ ~store[id].locked
        /\ store[id].exists /\ store[id].snapshots <= MaxSnapshots
    BY <1>3 DEF Lock, CasesOK, CaseOK
  <2>2. c \in CaseFiles /\ c.exists /\ c.snapshots <= MaxSnapshots
    BY <2>1 DEF CaseFiles
  <2> HIDE DEF c
  <2>3. Write(id, c) /\ UNCHANGED <<pcaps, immutable>> /\ exports' \in 0..MaxExports
    BY <1>3 DEF Lock, c, CasesOK
  <2> QED BY <2>1, <2>2, <2>3, WriteKeepsCases
<1>4. ASSUME NEW a \in Analysts, TriageEnd(a)
      PROVE  CasesOK' /\ \A i \in CaseIds : store[i].locked => store'[i] = store[i]
  <2>1. CASE UNCHANGED <<store, confirmed, caseFailures>>
    BY <1>4, <2>1 DEF TriageEnd, CasesOK, CaseOK
  <2>2. CASE ~UNCHANGED <<store, confirmed, caseFailures>>
    <3> PICK id : id = task[a].id
      OBVIOUS
    <3>1. id \in CaseIds
      BY <1>4, TaskKinds DEF TriageEnd, ExportsOK, TriageTasks
    <3> DEFINE c == [store[id] EXCEPT !.snapshots = @ + 1]
    <3>2. /\ Updatable(id) /\ store[id].snapshots < MaxSnapshots /\ Write(id, c)
          /\ UNCHANGED <<pcaps, immutable, exports>>
      BY <1>4, <2>2 DEF TriageEnd
    <3>3. store[id] \in CaseFiles /\ ~store[id].locked /\ Updates(store[id]) < MaxUpdates
          /\ store[id].exists
      BY <3>1, <3>2 DEF Updatable, CasesOK
    <3>4. store[id].snapshots + 1 \in 0..MaxUpdates /\ store[id].snapshots + 1 <= MaxSnapshots
      BY <3>2, <3>3, CaseBounds DEF Updates, CaseFiles
    <3>5. c \in CaseFiles /\ c.exists /\ c.snapshots <= MaxSnapshots
      BY <3>3, <3>4 DEF CaseFiles
    <3> HIDE DEF c
    <3> QED BY <3>1, <3>2, <3>3, <3>5, WriteKeepsCases DEF CasesOK
  <2> QED BY <2>1, <2>2
<1>5. ASSUME NEW a \in Analysts, NEW id \in CaseIds, TriageBegin(a, id) \/ ExportBegin(a, id)
      PROVE  CasesOK' /\ UNCHANGED store
  <2>1. exports' \in 0..MaxExports /\ UNCHANGED <<store, pcaps, immutable, confirmed, caseFailures>>
    BY <1>5, CaseBounds DEF TriageBegin, ExportBegin, CasesOK
  <2> QED BY <2>1 DEF CasesOK, CaseOK
<1>6. ASSUME NEW a \in Analysts, ExportOpen(a) \/ ExportClose(a) \/ ExportServe(a) \/ ExportDone(a)
      PROVE  CasesOK' /\ UNCHANGED store
  <2>1. UNCHANGED <<store, pcaps, immutable, confirmed, exports>>
    BY <1>6 DEF ExportOpen, ExportClose, ExportServe, ExportDone
  <2>2. \/ UNCHANGED caseFailures
        \/ caseFailures < MaxCaseFailures /\ caseFailures' = caseFailures + 1
    BY <1>6 DEF ExportOpen, ExportClose, ExportServe, ExportDone
  <2>3. caseFailures' \in 0..MaxCaseFailures
    BY <2>2, CaseBounds DEF CasesOK
  <2> QED BY <2>1, <2>3 DEF CasesOK, CaseOK
<1>7. ASSUME (\E p \in pcaps : PcapGone(p)) \/ CasesRestart \/ UNCHANGED caseVars
      PROVE  CasesOK' /\ UNCHANGED store
  <2>1. /\ pcaps' \subseteq pcaps
        /\ UNCHANGED <<store, immutable, confirmed, exports, caseFailures>>
    BY <1>7 DEF PcapGone, CasesRestart, caseVars
  <2> QED BY <2>1 DEF CasesOK, CaseOK
<1> QED BY <1>1, <1>2, <1>3, <1>4, <1>5, <1>6, <1>7 DEF CasesNext

-----------------------------------------------------------------------------
\* A handler that goes on while the archives stay.
LEMMA TaskStep ==
  ASSUME ExportsOK, NEW a \in Analysts, NEW t \in Tasks, UNCHANGED archive,
         task' = [task EXCEPT ![a] = t],
         t \in ExportTasks => t.at = "built" /\ Covered(t),
         t \in ServedTasks /\ t.alone => t.whole /\ Covered(t)
  PROVE  ExportsOK'
<1>1. task' \in [Analysts -> Tasks] /\ task'[a] = t /\ \A b \in Analysts \ {a} : task'[b] = task[b]
  BY DEF ExportsOK
<1>2. ASSUME NEW b \in Analysts, task'[b] \in ExportTasks
      PROVE  Covered(task'[b]) /\ OwnArchive(b, task[b])'
  BY <1>1, <1>2 DEF ExportsOK, OwnArchive
<1>3. ASSUME NEW b \in Analysts, task'[b] \in ServedTasks, task'[b].alone
      PROVE  task'[b].whole /\ Covered(task'[b])
  BY <1>1, <1>3 DEF ExportsOK
<1> QED BY <1>1, <1>2, <1>3 DEF ExportsOK

\* The files of a case are exported under their names.
LEMMA CollectFacts ==
  ASSUME NEW c \in CaseFiles
  PROVE  /\ Collect(c) \subseteq Exported /\ Updates(c) \in Nat
         /\ <<"case.json", Updates(c)>> \in Collect(c)
<1>1. Updates(c) \in Nat
  BY CaseBounds DEF Updates, CaseFiles
<1>2. \A n \in 1..c.snapshots : n \in Nat
  BY DEF CaseFiles
<1>3. c.pcaps \cap pcaps \subseteq Pcaps
  BY DEF CaseFiles
<1> QED BY <1>1, <1>2, <1>3 DEF Collect, Documents, Exported

LEMMA TriageExports ==
  ASSUME CasesInv, NEW a \in Analysts, TriageEnd(a) \/ ExportDone(a) \/ \E id \in CaseIds : TriageBegin(a, id)
  PROVE  ExportsOK'
<1>1. CASE \E id \in CaseIds : TriageBegin(a, id)
  <2> PICK id \in CaseIds : TriageBegin(a, id)
    BY <1>1
  <2> DEFINE t == [at |-> "collecting", id |-> id]
  <2>1. t \in Tasks /\ t \notin ExportTasks /\ t \notin ServedTasks
    BY DEF Tasks, TriageTasks, ExportTasks, ServedTasks
  <2>2. task' = [task EXCEPT ![a] = t] /\ UNCHANGED archive
    BY DEF TriageBegin
  <2> HIDE DEF t
  <2> QED BY <2>1, <2>2, TaskStep DEF CasesInv
<1>2. CASE TriageEnd(a) \/ ExportDone(a)
  BY <1>2, IdleTask, TaskStep DEF CasesInv, TriageEnd, ExportDone
<1> QED BY <1>1, <1>2

LEMMA ExportBeginExports ==
  ASSUME CasesInv, NEW a \in Analysts, NEW id \in CaseIds, ExportBegin(a, id)
  PROVE  ExportsOK'
<1> DEFINE t == [at |-> "built", id |-> id, since |-> Updates(store[id]),
                 files |-> Collect(store[id]), manifest |-> Build(store[id]), alone |-> TRUE]
<1>1. store[id] \in CaseFiles
  BY DEF CasesInv, CasesOK
<1>2. t \in ExportTasks
  BY <1>1, CollectFacts DEF ExportTasks, Build
<1>3. Covered(t) /\ t.at = "built"
  BY <1>1, CollectFacts DEF Covered, Build
<1>4. task' = [task EXCEPT ![a] = t] /\ UNCHANGED archive
  BY DEF ExportBegin
<1> HIDE DEF t
<1>5. t \in Tasks /\ t \notin ServedTasks
  BY <1>2, TaskKinds DEF Tasks, ExportTasks, ServedTasks
<1> QED BY <1>2, <1>3, <1>4, <1>5, TaskStep DEF CasesInv

LEMMA ExportOpenExports ==
  ASSUME CasesInv, NEW a \in Analysts, ExportOpen(a)
  PROVE  ExportsOK'
<1> USE DEF CasesInv
<1>1. task[a] \in ExportTasks /\ Covered(task[a])
  BY TaskKinds DEF ExportOpen, ExportsOK
<1> PICK id \in CaseIds : id = task[a].id
  BY <1>1 DEF ExportTasks
<1> PICK writing \in BOOLEAN : writing = (archive[id].writers # {})
  OBVIOUS
<1> DEFINE z == [writers |-> archive[id].writers \cup {a}, mixed |-> writing,
                 files |-> task[a].files, manifest |-> task[a].manifest]
           t == [task[a] EXCEPT !.at = "writing", !.alone = ~writing]
<1>2. t \in ExportTasks /\ t.at = "writing" /\ t.alone = ~writing /\ t.id = id
      /\ t.files = task[a].files /\ t.manifest = task[a].manifest /\ t.since = task[a].since
  BY <1>1 DEF ExportTasks
<1>3. z \in ArchiveFiles /\ z.writers = archive[id].writers \cup {a} /\ z.mixed = writing
      /\ z.files = task[a].files /\ z.manifest = task[a].manifest
  BY <1>1 DEF ExportsOK, ArchiveFiles, ExportTasks
<1>4. /\ archive' = [archive EXCEPT ![id] = z]
      /\ task' = [b \in Analysts |->
           IF b = a THEN t
           ELSE IF b \in Sharing(id) THEN [task[b] EXCEPT !.alone = FALSE] ELSE task[b]]
  BY DEF ExportOpen
<1> HIDE DEF z, t
<1>5. /\ archive' \in [CaseIds -> ArchiveFiles] /\ archive'[id] = z
      /\ \A i \in CaseIds \ {id} : archive'[i] = archive[i]
  BY <1>3, <1>4 DEF ExportsOK
<1>6. task'[a] = t /\ Covered(t) /\ OwnArchive(a, task[a])'
  BY <1>1, <1>2, <1>3, <1>4, <1>5 DEF Covered, OwnArchive
<1>7. ASSUME NEW b \in Analysts, b # a
      PROVE  /\ task'[b] \in Tasks
             /\ task'[b] \in ExportTasks => Covered(task'[b]) /\ OwnArchive(b, task[b])'
             /\ task'[b] \in ServedTasks /\ task'[b].alone => task'[b].whole /\ Covered(task'[b])
  <2>1. CASE b \in Sharing(id)
    <3>1. task[b] \in ExportTasks /\ task[b].id = id /\ task[b].at \in {"writing", "serving"}
      BY <2>1, TaskKinds DEF Sharing, ExportsOK
    <3> DEFINE s == [task[b] EXCEPT !.alone = FALSE]
    <3>2. s \in ExportTasks /\ s.at = task[b].at /\ s.alone = FALSE /\ s.id = id
          /\ s.files = task[b].files /\ s.manifest = task[b].manifest /\ s.since = task[b].since
      BY <3>1 DEF ExportTasks
    <3>3. task'[b] = s
      BY <1>4, <1>7, <2>1
    <3> HIDE DEF s
    <3>4. Covered(s)
      BY <3>1, <3>2 DEF ExportsOK, Covered
    <3>5. task[b].at = "writing" => b \in archive[id].writers
      BY <3>1 DEF ExportsOK, OwnArchive
    <3>6. OwnArchive(b, task[b])'
      BY <1>3, <1>5, <3>2, <3>3, <3>5 DEF OwnArchive
    <3>7. s \in Tasks /\ s \notin ServedTasks
      BY <3>2 DEF Tasks, ExportTasks, ServedTasks
    <3> QED BY <3>3, <3>4, <3>6, <3>7
  <2>2. CASE b \notin Sharing(id)
    <3>1. task'[b] = task[b] /\ task[b] \in Tasks
      BY <1>4, <1>7, <2>2 DEF ExportsOK
    <3>2. ASSUME task[b] \in ExportTasks PROVE OwnArchive(b, task[b])'
      <4>1. task[b].id \in CaseIds /\ OwnArchive(b, task[b])
        BY <3>2 DEF ExportTasks, ExportsOK
      <4>2. task[b].at = "built" \/ task[b].id # id
        BY <2>2, <3>2 DEF Sharing, ExportTasks
      <4> QED BY <1>5, <3>1, <4>1, <4>2 DEF OwnArchive
    <3> QED BY <3>1, <3>2 DEF ExportsOK
  <2> QED BY <2>1, <2>2
<1>8. t \in Tasks /\ t \notin ServedTasks
  BY <1>2 DEF Tasks, ExportTasks, ServedTasks
<1>9. task' \in [Analysts -> Tasks]
  <2> DEFINE next(b) ==
        IF b = a THEN t
        ELSE IF b \in Sharing(id) THEN [task[b] EXCEPT !.alone = FALSE] ELSE task[b]
  <2>1. task' = [b \in Analysts |-> next(b)]
    BY <1>4
  <2>2. \A b \in Analysts : task'[b] = next(b)
    BY <2>1
  <2> HIDE DEF next
  <2>3. \A b \in Analysts : next(b) \in Tasks
    BY <1>6, <1>7, <1>8, <2>2
  <2> QED BY <2>1, <2>3
<1> QED BY <1>5, <1>6, <1>7, <1>8, <1>9 DEF ExportsOK

LEMMA ExportCloseExports ==
  ASSUME CasesInv, NEW a \in Analysts, ExportClose(a)
  PROVE  ExportsOK'
<1> USE DEF CasesInv
<1>1. task[a] \in ExportTasks /\ Covered(task[a]) /\ OwnArchive(a, task[a]) /\ task[a].at = "writing"
  BY TaskKinds DEF ExportClose, ExportsOK
<1> PICK id \in CaseIds : id = task[a].id
  BY <1>1 DEF ExportTasks
<1> PICK z \in ArchiveFiles, t \in Tasks :
      /\ archive' = [archive EXCEPT ![id] = z] /\ task' = [task EXCEPT ![a] = t]
      /\ z.writers = archive[id].writers \ {a}
      /\ z.files = archive[id].files /\ z.manifest = archive[id].manifest
      /\ \/ /\ t \in ExportTasks /\ t.at = "serving" /\ t.id = id /\ t.alone = task[a].alone
            /\ t.files = task[a].files /\ t.manifest = task[a].manifest /\ t.since = task[a].since
            /\ z.mixed = archive[id].mixed
         \/ t = Idle
  <2>1. archive[id] \in ArchiveFiles
    BY DEF ExportsOK
  <2>2. CASE /\ archive' = [archive EXCEPT ![id].writers = @ \ {a}]
             /\ task' = [task EXCEPT ![a].at = "serving"]
    <3> DEFINE z == [archive[id] EXCEPT !.writers = @ \ {a}]
               t == [task[a] EXCEPT !.at = "serving"]
    <3>1. z \in ArchiveFiles /\ z.writers = archive[id].writers \ {a} /\ z.mixed = archive[id].mixed
          /\ z.files = archive[id].files /\ z.manifest = archive[id].manifest
      BY <2>1 DEF ArchiveFiles
    <3>2. t \in ExportTasks /\ t.at = "serving" /\ t.id = id /\ t.alone = task[a].alone
          /\ t.files = task[a].files /\ t.manifest = task[a].manifest /\ t.since = task[a].since
      BY <1>1 DEF ExportTasks
    <3>3. archive' = [archive EXCEPT ![id] = z] /\ task' = [task EXCEPT ![a] = t]
      BY <2>2
    <3> HIDE DEF z, t
    <3>4. t \in Tasks
      BY <3>2 DEF Tasks
    <3> QED BY <3>1, <3>2, <3>3, <3>4
  <2>3. CASE /\ archive' = [archive EXCEPT ![id].writers = @ \ {a}, ![id].mixed = TRUE]
             /\ task' = [task EXCEPT ![a] = Idle]
    <3> DEFINE z == [archive[id] EXCEPT !.writers = @ \ {a}, !.mixed = TRUE]
    <3>1. z \in ArchiveFiles /\ z.writers = archive[id].writers \ {a}
          /\ z.files = archive[id].files /\ z.manifest = archive[id].manifest
      BY <2>1 DEF ArchiveFiles
    <3>3. archive' = [archive EXCEPT ![id] = z]
      BY <2>3
    <3> HIDE DEF z
    <3> QED BY <2>3, <3>1, <3>3, IdleTask
  <2> QED BY <2>2, <2>3 DEF ExportClose
<1>2. /\ archive' \in [CaseIds -> ArchiveFiles] /\ archive'[id] = z
      /\ \A i \in CaseIds \ {id} : archive'[i] = archive[i]
  BY DEF ExportsOK
<1>3. task' \in [Analysts -> Tasks] /\ task'[a] = t /\ \A b \in Analysts \ {a} : task'[b] = task[b]
  BY DEF ExportsOK
<1>4. t \in ExportTasks => Covered(t) /\ OwnArchive(a, task[a])'
  BY <1>1, <1>2, <1>3, IdleTask DEF Covered, OwnArchive
<1>5. t \notin ServedTasks
  BY IdleTask, TaskKinds
<1>6. ASSUME NEW b \in Analysts, b # a, task[b] \in ExportTasks
      PROVE  OwnArchive(b, task[b])'
  <2>1. task[b].id \in CaseIds /\ OwnArchive(b, task[b])
    BY <1>6 DEF ExportTasks, ExportsOK
  <2>2. CASE task[b].id # id
    BY <1>2, <1>3, <1>6, <2>1, <2>2 DEF OwnArchive
  <2>3. CASE task[b].id = id
    <3>1. a \in archive[id].writers
      BY <1>1 DEF OwnArchive
    <3>2. task[b].at \in {"writing", "serving"} => ~task[b].alone
      BY <1>6, <2>1, <2>3, <3>1 DEF OwnArchive
    <3> QED BY <1>2, <1>3, <1>6, <2>1, <2>3, <3>2 DEF OwnArchive
  <2> QED BY <2>2, <2>3
<1>7. ASSUME NEW b \in Analysts
      PROVE  /\ task'[b] \in ExportTasks => Covered(task'[b]) /\ OwnArchive(b, task[b])'
             /\ task'[b] \in ServedTasks /\ task'[b].alone => task'[b].whole /\ Covered(task'[b])
  BY <1>3, <1>4, <1>5, <1>6 DEF ExportsOK
<1> QED BY <1>2, <1>3, <1>7 DEF ExportsOK

LEMMA ExportServeExports ==
  ASSUME CasesInv, NEW a \in Analysts, ExportServe(a)
  PROVE  ExportsOK'
<1> USE DEF CasesInv
<1>1. task[a] \in ExportTasks /\ Covered(task[a]) /\ OwnArchive(a, task[a]) /\ task[a].at = "serving"
  BY TaskKinds DEF ExportServe, ExportsOK
<1> PICK id \in CaseIds : id = task[a].id
  BY <1>1 DEF ExportTasks
<1> PICK z \in ArchiveFiles : z = archive[id]
  BY DEF ExportsOK
<1> DEFINE t == [at |-> "served", id |-> id, since |-> task[a].since, alone |-> task[a].alone,
                 whole |-> z.writers = {} /\ ~z.mixed, files |-> z.files, manifest |-> z.manifest]
<1>2. t \in ServedTasks
  BY <1>1 DEF ServedTasks, ExportTasks, ArchiveFiles
<1>3. t.alone => t.whole /\ Covered(t)
  BY <1>1 DEF Covered, OwnArchive
<1>4. task' = [task EXCEPT ![a] = t] /\ UNCHANGED archive
  BY DEF ExportServe
<1> HIDE DEF t
<1>5. t \in Tasks /\ t \notin ExportTasks
  BY <1>2 DEF Tasks, ExportTasks, ServedTasks
<1> QED BY <1>3, <1>4, <1>5, TaskStep

LEMMA RestartExports == ASSUME CasesInv, CasesRestart PROVE ExportsOK'
<1> USE DEF CasesInv
<1>1. task' \in [Analysts -> Tasks] /\ \A a \in Analysts : task'[a] = Idle
  BY IdleTask DEF CasesRestart
<1>2. \A id \in CaseIds : archive[id] \in ArchiveFiles
  BY DEF ExportsOK
<1>3. \A id \in CaseIds :
        [archive[id] EXCEPT !.writers = {}, !.mixed = @ \/ archive[id].writers # {}] \in ArchiveFiles
  BY <1>2 DEF ArchiveFiles
<1>4. archive' \in [CaseIds -> ArchiveFiles]
  BY <1>3 DEF CasesRestart
<1> QED BY <1>1, <1>4, IdleTask DEF ExportsOK

LEMMA ExportsStep == ASSUME CasesInv, [CasesNext]_caseVars PROVE ExportsOK'
<1>1. ASSUME UNCHANGED <<task, archive>> PROVE ExportsOK'
  BY <1>1 DEF CasesInv, ExportsOK, Covered, OwnArchive
<1>2. ASSUME NEW id \in CaseIds, Create(id) \/ AddNote(id) \/ Lock(id) PROVE ExportsOK'
  BY <1>1, <1>2 DEF Create, AddNote, Lock
<1>3. CASE UNCHANGED caseVars \/ \E p \in pcaps : PcapGone(p)
  BY <1>1, <1>3 DEF caseVars, PcapGone
<1> QED BY <1>2, <1>3, TriageExports, ExportBeginExports, ExportOpenExports, ExportCloseExports,
           ExportServeExports, RestartExports DEF CasesNext

\* Store and the handlers of exports keep the invariant, whatever they interleave.
THEOREM CasesInvariance == CasesSpec => []CasesInv
<1>1. CasesInv /\ [CasesNext]_caseVars => CasesInv'
  BY CasesStep, ExportsStep DEF CasesInv
<1> QED BY <1>1, CasesInitInv, PTL DEF CasesSpec

\* Store.Update and Store.AddTriage: a locked case never changes, the snapshots
\* stay within their limit and what was confirmed is in the file, for any
\* analysts, cases, failed writes and restarts.
THEOREM CaseKeptCorrect == CasesSpec => CaseKept
<1>1. CasesInv /\ [CasesNext]_caseVars
        => [\A id \in CaseIds : store[id].locked => store'[id] = store[id]]_caseVars
  BY CasesStep
<1>2. CasesInv => \A id \in CaseIds : /\ store[id].snapshots <= MaxSnapshots
                                      /\ Updates(store[id]) = confirmed[id]
  BY DEF CasesInv, CasesOK, CaseOK
<1> QED BY <1>1, <1>2, CasesInvariance, PTL DEF CasesSpec, CaseKept

\* The invariant is enough for the types and for whole exports.
LEMMA CasesSound == CasesInv => CasesTypeOK /\ ExportSound
<1> SUFFICES ASSUME CasesInv PROVE CasesTypeOK /\ ExportSound
  OBVIOUS
<1>1. CasesTypeOK
  BY TaskKinds DEF CasesInv, CasesOK, ExportsOK, CasesTypeOK, CaseFiles, ArchiveFiles
<1>2. ExportSound
  BY TaskKinds DEF CasesInv, ExportsOK, ExportSound, Covered, Verifies
<1> QED BY <1>1, <1>2

-----------------------------------------------------------------------------
\* What the handler holds between two files, and an archive.
Entries == Files \X (1..Torn)
SeenVersions == [Files -> SUBSET (0..Torn)]
CopyJobs ==
  [op : {"copy"}, left : SUBSET DOMAIN Paths, entries : Seq(Entries),
   manifest : SUBSET Entries, seen : SeenVersions, pass : Passphrases,
   skipped : SUBSET Files]
RestoreJobs == [op : {"restore"}, todo : Seq(Entries), put : [Files -> 0..Torn]]
BackupArchives ==
  [entries : Seq(Entries), manifest : SUBSET Entries, seen : SeenVersions,
   skipped : SUBSET Files, pass : Passphrases, encrypted : BOOLEAN, damaged : BOOLEAN]

\* The entries of a copy or an archive are the listed ones, each file once; what
\* is listed was seen, and a file was seen missing, was skipped or is listed.
Faithful(z) ==
  /\ \A i \in DOMAIN z.entries : z.entries[i] \in z.manifest
  /\ \A e \in z.manifest : \E i \in DOMAIN z.entries : z.entries[i] = e
  /\ \A i, j \in DOMAIN z.entries : z.entries[i][1] = z.entries[j][1] => i = j
Seen(z) == \A e \in z.manifest : e[2] # Torn /\ e[2] \in z.seen[e[1]]
Accounted(z, p) == 0 \in z.seen[p] \/ p \in z.skipped \/ \E e \in z.manifest : e[1] = p

CopySound(z) ==
  /\ Faithful(z) /\ Seen(z)
  /\ \A p \in Files : data[p] \in z.seen[p]
  /\ \A n \in z.left, i \in DOMAIN z.entries : z.entries[i][1] # Paths[n]
  /\ \A n \in DOMAIN Paths \ z.left : Accounted(z, Paths[n])
ArchiveSound(a) ==
  /\ Seen(a)
  /\ \/ a.damaged
     \/ Faithful(a) /\ \A p \in Files : Accounted(a, p)
     \/ \E e \in a.manifest : \A i \in DOMAIN a.entries : a.entries[i] # e

\* The types; what restores put back is there; and, until a copy stops half way
\* through a file, no file is torn and every copy and archive is sound.
BackupShape ==
  /\ data \in [Files -> 0..Torn] /\ restored \in [Files -> 0..Torn]
  /\ job \in {NoJob} \cup CopyJobs \cup RestoreJobs
  /\ archives \subseteq BackupArchives
  /\ writes \in 0..MaxWrites /\ calls \in 0..MaxBackups /\ faults \in 0..MaxFaults
  /\ readErrors \in BOOLEAN
RestoredOK ==
  /\ \A p \in Files : restored[p] # 0 => data[p] = restored[p]
  /\ job \in RestoreJobs => \A p \in Files : job.put[p] # 0 => data[p] = job.put[p]
NothingTorn ==
  /\ \A p \in Files : data[p] # Torn
  /\ job \in RestoreJobs => \A i \in DOMAIN job.todo : job.todo[i][2] # Torn
  /\ job \in CopyJobs => CopySound(job)
  /\ \A a \in archives : ArchiveSound(a)
BackupInv == BackupShape /\ RestoredOK /\ (~readErrors => NothingTorn)

-----------------------------------------------------------------------------
LEMMA BackupBounds ==
  /\ MaxWrites \in Nat /\ MaxBackups \in Nat /\ MaxFaults \in Nat
  /\ Torn \in Nat /\ Torn = MaxWrites + 2 /\ 0 \in 0..Torn
  BY BackupAssumption DEF Torn

LEMMA PlacesAreFiles ==
  /\ \A n \in DOMAIN Paths : Paths[n] \in Files
  /\ \A p \in Files : \E n \in DOMAIN Paths : Paths[n] = p
  /\ \A n, m \in DOMAIN Paths : Paths[n] = Paths[m] => n = m
  BY BackupAssumption DEF Files, ToSet, IsInjective

LEMMA JobKinds ==
  ASSUME NEW j \in {NoJob} \cup CopyJobs \cup RestoreJobs
  PROVE  /\ j.op = "copy" <=> j \in CopyJobs
         /\ j.op = "restore" <=> j \in RestoreJobs
         /\ j.op \in {"none", "copy", "restore"}
  BY DEF NoJob, CopyJobs, RestoreJobs

LEMMA NoJobAlone == NoJob \notin CopyJobs /\ NoJob \notin RestoreJobs
  BY DEF NoJob, CopyJobs, RestoreJobs

LEMMA NothingIsShaped == Nothing \in [Files -> 0..Torn] /\ \A p \in Files : Nothing[p] = 0
  BY BackupBounds DEF Nothing

LEMMA BackupInitInv == BackupInit => BackupInv
<1> SUFFICES ASSUME BackupInit PROVE BackupInv
  OBVIOUS
<1>1. /\ data \in [Files -> 0..Torn] /\ \A p \in Files : data[p] # Torn
  <2>1. \A p \in Files : data[p] \in 0..1
    BY DEF BackupInit
  <2>2. \A p \in Files : data[p] \in 0..Torn /\ data[p] # Torn
    BY <2>1, BackupBounds
  <2> QED BY <2>2 DEF BackupInit
<1>2. 0 \in 0..MaxWrites /\ 0 \in 0..MaxBackups /\ 0 \in 0..MaxFaults
  BY BackupBounds
<1>3. BackupShape
  BY <1>1, <1>2, NothingIsShaped DEF BackupInit, BackupShape
<1> QED BY <1>1, <1>3, NothingIsShaped, NoJobAlone
        DEF BackupInit, BackupInv, RestoredOK, NothingTorn

\* A fault and a call are counted within their bounds.
LEMMA FaultBound == ASSUME BackupShape, Fault \/ UNCHANGED faults PROVE faults' \in 0..MaxFaults
  BY BackupBounds DEF Fault, BackupShape
LEMMA CallBound == ASSUME BackupShape, Call PROVE calls' \in 0..MaxBackups
  BY BackupBounds DEF Call, BackupShape

-----------------------------------------------------------------------------
\* The daemon replaces a file.
LEMMA ReplaceKeeps == ASSUME BackupInv, NEW p \in Files, Replace(p) PROVE BackupInv'
<1> PICK v \in Nat : v = writes' + 1
  BY BackupBounds DEF BackupInv, BackupShape, Replace
<1>1. v \in 1..Torn /\ v # Torn /\ v \in 0..Torn /\ writes' \in 0..MaxWrites
  BY BackupBounds DEF BackupInv, BackupShape, Replace
<1>2. /\ data' \in [Files -> 0..Torn] /\ restored' \in [Files -> 0..Torn]
      /\ data'[p] = v /\ restored'[p] = 0
      /\ \A q \in Files \ {p} : data'[q] = data[q] /\ restored'[q] = restored[q]
  BY <1>1, BackupBounds DEF BackupInv, BackupShape, Replace
<1>3. UNCHANGED <<archives, calls, faults, readErrors>>
  BY DEF Replace
<1>4. CASE job \in CopyJobs
  <2> DEFINE j == [job EXCEPT !.seen[p] = @ \cup {v}]
  <2>1. job' = j
    BY <1>2, <1>4, JobKinds DEF Replace, BackupInv, BackupShape
  <2>2. /\ j \in CopyJobs /\ j.left = job.left /\ j.entries = job.entries
        /\ j.manifest = job.manifest /\ j.skipped = job.skipped
        /\ j.seen[p] = job.seen[p] \cup {v} /\ \A q \in Files \ {p} : j.seen[q] = job.seen[q]
    BY <1>1, <1>4 DEF CopyJobs, SeenVersions
  <2> HIDE DEF j
  <2>3. BackupShape' /\ RestoredOK'
    BY <1>1, <1>2, <1>3, <2>1, <2>2, JobKinds DEF BackupInv, BackupShape, RestoredOK
  <2>4. ASSUME ~readErrors PROVE NothingTorn'
    <3>1. CopySound(job)
      BY <1>4, <2>4 DEF BackupInv, NothingTorn
    <3>2. job.manifest \subseteq Entries /\ \A q \in Files : job.seen[q] \subseteq j.seen[q]
      BY <1>4, <2>2 DEF CopyJobs
    <3>3. Faithful(j) /\ Seen(j)
      BY <2>2, <3>1, <3>2 DEF CopySound, Faithful, Seen, Entries
    <3>4. \A n \in DOMAIN Paths \ j.left : Accounted(j, Paths[n])
      BY <2>2, <3>1, <3>2, PlacesAreFiles DEF CopySound, Accounted
    <3>5. \A q \in Files : data'[q] \in j.seen[q]
      BY <1>2, <2>2, <3>1 DEF CopySound
    <3>6. CopySound(job)'
      BY <2>1, <2>2, <3>1, <3>3, <3>4, <3>5 DEF CopySound, Faithful, Seen, Accounted
    <3>7. \A a \in archives : ArchiveSound(a)
      BY <2>4 DEF BackupInv, NothingTorn
    <3>8. \A q \in Files : data[q] # Torn
      BY <2>4 DEF BackupInv, NothingTorn
    <3>9. j \notin RestoreJobs
      BY <2>2 DEF CopyJobs, RestoreJobs
    <3> QED BY <1>1, <1>2, <1>3, <2>1, <3>6, <3>7, <3>8, <3>9
            DEF NothingTorn, ArchiveSound, Seen, Faithful, Accounted
  <2> QED BY <1>3, <2>3, <2>4 DEF BackupInv
<1>5. CASE job \in RestoreJobs
  <2> DEFINE j == [job EXCEPT !.put[p] = 0]
  <2>1. job' = j
    BY <1>5, JobKinds DEF Replace, BackupInv, BackupShape
  <2>2. /\ j \in RestoreJobs /\ j.todo = job.todo
        /\ j.put[p] = 0 /\ \A q \in Files \ {p} : j.put[q] = job.put[q]
    BY <1>5, BackupBounds DEF RestoreJobs
  <2> HIDE DEF j
  <2>3. BackupShape' /\ RestoredOK'
    BY <1>1, <1>2, <1>3, <1>5, <2>1, <2>2 DEF BackupInv, BackupShape, RestoredOK
  <2>4. ASSUME ~readErrors PROVE NothingTorn'
    <3>1. j \notin CopyJobs
      BY <2>2 DEF CopyJobs, RestoreJobs
    <3> QED BY <1>1, <1>2, <1>3, <1>5, <2>1, <2>2, <2>4, <3>1
            DEF BackupInv, NothingTorn, ArchiveSound, Seen, Faithful, Accounted
  <2> QED BY <1>3, <2>3, <2>4 DEF BackupInv
<1>6. CASE job = NoJob
  <2>1. job' = NoJob
    BY <1>6 DEF Replace, NoJob
  <2> QED BY <1>1, <1>2, <1>3, <2>1, NoJobAlone
          DEF BackupInv, BackupShape, RestoredOK, NothingTorn, ArchiveSound, Seen, Faithful, Accounted
<1> QED BY <1>4, <1>5, <1>6 DEF BackupInv, BackupShape

-----------------------------------------------------------------------------
LEMMA CreateBeginKeeps ==
  ASSUME BackupInv, NEW pass \in Passphrases, CreateBegin(pass) PROVE BackupInv'
<1> DEFINE j == [op |-> "copy", left |-> DOMAIN Paths, entries |-> <<>>, manifest |-> {},
                 seen |-> [p \in Files |-> {data[p]}], pass |-> pass, skipped |-> {}]
<1>1. job' = j /\ UNCHANGED <<data, archives, restored, writes, faults, readErrors>>
      /\ calls' \in 0..MaxBackups
  BY CallBound DEF CreateBegin, BackupInv
<1>2. [p \in Files |-> {data[p]}] \in SeenVersions
  BY DEF BackupInv, BackupShape, SeenVersions
<1>3. j \in CopyJobs /\ j \notin RestoreJobs
  BY <1>2 DEF CopyJobs, RestoreJobs
<1>4. CopySound(j)
  BY DEF CopySound, Faithful, Seen
<1> HIDE DEF j
<1> QED BY <1>1, <1>3, <1>4
        DEF BackupInv, BackupShape, RestoredOK, NothingTorn, CopySound, ArchiveSound, Seen,
            Faithful, Accounted

\* The copy goes on to a job that is of the right shape, and sound while no copy
\* stopped half way.
LEMMA CopyGoesOn ==
  ASSUME BackupInv, NEW j \in CopyJobs, job' = j,
         UNCHANGED <<data, archives, restored, writes, calls>>,
         faults' \in 0..MaxFaults, readErrors' \in BOOLEAN,
         ~readErrors' => ~readErrors /\ CopySound(j)
  PROVE  BackupInv'
<1>1. j \notin RestoreJobs
  BY DEF CopyJobs, RestoreJobs
<1>2. BackupShape' /\ RestoredOK'
  BY <1>1 DEF BackupInv, BackupShape, RestoredOK
<1>3. ASSUME ~readErrors' PROVE NothingTorn'
  <2>1. CopySound(job)'
    BY <1>3 DEF CopySound, Faithful, Seen, Accounted
  <2> QED BY <1>1, <1>3, <2>1 DEF BackupInv, NothingTorn, ArchiveSound, Seen, Faithful, Accounted
<1> QED BY <1>2, <1>3 DEF BackupInv

LEMMA CopyFileKeeps == ASSUME BackupInv, CopyFile PROVE BackupInv'
<1>1. job \in CopyJobs /\ UNCHANGED <<data, archives, restored, writes, calls>>
  BY JobKinds DEF BackupInv, BackupShape, CopyFile
<1> PICK n \in job.left, p \in Files, rest \in SUBSET DOMAIN Paths :
      /\ p = Paths[n] /\ rest = job.left \ {n} /\ n \in DOMAIN Paths
      /\ \/ /\ data[p] = 0
            /\ job' = [job EXCEPT !.left = rest]
            /\ UNCHANGED <<faults, readErrors>>
         \/ /\ data[p] # 0
            /\ job' = [job EXCEPT !.left = rest, !.entries = Append(@, <<p, data[p]>>),
                                  !.manifest = @ \cup {<<p, data[p]>>}]
            /\ UNCHANGED <<faults, readErrors>>
         \/ /\ data[p] # 0 /\ Fault
            /\ job' = [job EXCEPT !.left = rest, !.skipped = @ \cup {p}]
            /\ UNCHANGED readErrors
         \/ /\ data[p] # 0 /\ Fault /\ readErrors' = TRUE
            /\ job' = [job EXCEPT !.entries = Append(@, <<p, Torn>>),
                 !.left = {m \in rest : Directory(Paths[m]) # Directory(p)}]
  <2> PICK n \in job.left :
        LET p == Paths[n]
            rest == job.left \ {n}
        IN
        \/ /\ data[p] = 0
           /\ job' = [job EXCEPT !.left = rest]
           /\ UNCHANGED <<faults, readErrors>>
        \/ /\ data[p] # 0
           /\ job' = [job EXCEPT !.left = rest, !.entries = Append(@, <<p, data[p]>>),
                                 !.manifest = @ \cup {<<p, data[p]>>}]
           /\ UNCHANGED <<faults, readErrors>>
        \/ /\ data[p] # 0 /\ Fault
           /\ job' = [job EXCEPT !.left = rest, !.skipped = @ \cup {p}]
           /\ UNCHANGED readErrors
        \/ /\ data[p] # 0 /\ Fault /\ readErrors' = TRUE
           /\ job' = [job EXCEPT !.entries = Append(@, <<p, Torn>>),
                !.left = {m \in rest : Directory(Paths[m]) # Directory(p)}]
    BY ZenonT(60) DEF CopyFile
  <2>1. n \in DOMAIN Paths /\ job.left \ {n} \in SUBSET DOMAIN Paths
    BY <1>1 DEF CopyJobs
  <2>2. Paths[n] \in Files
    BY <2>1, PlacesAreFiles
  <2> PICK p \in Files, rest \in SUBSET DOMAIN Paths : p = Paths[n] /\ rest = job.left \ {n}
    BY <2>1, <2>2
  <2> QED BY <2>1
<1>2. /\ data[p] \in 0..Torn /\ readErrors \in BOOLEAN
      /\ \A m \in DOMAIN Paths : Paths[m] = p => m = n
  BY PlacesAreFiles DEF BackupInv, BackupShape
<1>3. ~readErrors => CopySound(job)
  BY <1>1 DEF BackupInv, NothingTorn
<1>4. CASE data[p] = 0 /\ job' = [job EXCEPT !.left = rest] /\ UNCHANGED <<faults, readErrors>>
  <2> DEFINE j == [job EXCEPT !.left = rest]
  <2>1. /\ j \in CopyJobs /\ j.left = rest /\ j.entries = job.entries
        /\ j.manifest = job.manifest /\ j.skipped = job.skipped /\ j.seen = job.seen
    BY <1>1 DEF CopyJobs
  <2>2. job' = j /\ faults' \in 0..MaxFaults
    BY <1>4 DEF BackupInv, BackupShape
  <2> HIDE DEF j
  <2>3. ~readErrors => CopySound(j)
    BY <1>2, <1>3, <1>4, <2>1 DEF CopySound, Faithful, Seen, Accounted
  <2> QED BY <1>1, <1>2, <1>4, <2>1, <2>2, <2>3, CopyGoesOn
<1>5. CASE /\ data[p] # 0
           /\ job' = [job EXCEPT !.left = rest, !.entries = Append(@, <<p, data[p]>>),
                                 !.manifest = @ \cup {<<p, data[p]>>}]
           /\ UNCHANGED <<faults, readErrors>>
  <2> PICK e \in Entries : e = <<p, data[p]>> /\ e[1] = p /\ e[2] = data[p]
    <3>1. data[p] \in 1..Torn
      BY <1>2, <1>5, BackupBounds
    <3>2. <<p, data[p]>> \in Entries
      BY <3>1 DEF Entries
    <3> QED BY <3>2
  <2> DEFINE j == [job EXCEPT !.left = rest, !.entries = Append(@, e),
                              !.manifest = @ \cup {e}]
  <2>1. /\ j \in CopyJobs /\ j.left = rest /\ j.entries = Append(job.entries, e)
        /\ j.manifest = job.manifest \cup {e} /\ j.skipped = job.skipped /\ j.seen = job.seen
    <3>1. job.entries \in Seq(Entries)
      BY <1>1 DEF CopyJobs
    <3>2. Append(job.entries, e) \in Seq(Entries)
      BY <3>1, AppendProperties
    <3> QED BY <1>1, <3>2 DEF CopyJobs
  <2>2. job' = j /\ faults' \in 0..MaxFaults
    BY <1>5 DEF BackupInv, BackupShape
  <2> HIDE DEF j
  <2>3. /\ job.entries \in Seq(Entries)
        /\ DOMAIN j.entries = DOMAIN job.entries \cup {Len(job.entries) + 1}
        /\ Len(job.entries) + 1 \notin DOMAIN job.entries
        /\ j.entries[Len(job.entries) + 1] = e
        /\ \A i \in DOMAIN job.entries : j.entries[i] = job.entries[i]
    BY <1>1, <2>1 DEF CopyJobs
  <2>4. ASSUME ~readErrors PROVE CopySound(j)
    <3> PICK place : place = Len(job.entries) + 1
      OBVIOUS
    <3>1. CopySound(job) /\ data[p] # Torn /\ data[p] \in job.seen[p]
      BY <1>3, <2>4 DEF CopySound, BackupInv, NothingTorn
    <3>2. \A i \in DOMAIN job.entries : job.entries[i][1] # p
      BY <3>1 DEF CopySound
    <3>3. Faithful(j)
      <4>1. \A i \in DOMAIN j.entries : j.entries[i] \in j.manifest
        BY <2>1, <2>3, <3>1 DEF CopySound, Faithful
      <4>2. \A f \in j.manifest : \E i \in DOMAIN j.entries : j.entries[i] = f
        BY <2>1, <2>3, <3>1 DEF CopySound, Faithful
      <4>3. \A i, k \in DOMAIN j.entries : j.entries[i][1] = j.entries[k][1] => i = k
        BY <2>3, <3>1, <3>2 DEF CopySound, Faithful
      <4> QED BY <4>1, <4>2, <4>3 DEF Faithful
    <3>4. Seen(j)
      BY <2>1, <3>1 DEF CopySound, Seen
    <3>5. \A m \in j.left, i \in DOMAIN j.entries : j.entries[i][1] # Paths[m]
      BY <1>2, <2>1, <2>3, <3>1 DEF CopySound
    <3>6. \A m \in DOMAIN Paths \ j.left : Accounted(j, Paths[m])
      BY <2>1, <3>1 DEF CopySound, Accounted
    <3> QED BY <2>1, <3>1, <3>3, <3>4, <3>5, <3>6 DEF CopySound
  <2> QED BY <1>1, <1>2, <1>5, <2>1, <2>2, <2>4, CopyGoesOn
<1>6. CASE /\ data[p] # 0 /\ Fault
           /\ job' = [job EXCEPT !.left = rest, !.skipped = @ \cup {p}]
           /\ UNCHANGED readErrors
  <2> DEFINE j == [job EXCEPT !.left = rest, !.skipped = @ \cup {p}]
  <2>1. /\ j \in CopyJobs /\ j.left = rest /\ j.entries = job.entries
        /\ j.manifest = job.manifest /\ j.skipped = job.skipped \cup {p} /\ j.seen = job.seen
    BY <1>1 DEF CopyJobs
  <2>2. job' = j /\ faults' \in 0..MaxFaults
    BY <1>6, FaultBound DEF BackupInv
  <2> HIDE DEF j
  <2>3. ~readErrors => CopySound(j)
    BY <1>2, <1>3, <2>1 DEF CopySound, Faithful, Seen, Accounted
  <2> QED BY <1>1, <1>2, <1>6, <2>1, <2>2, <2>3, CopyGoesOn
<1>7. CASE /\ Fault /\ readErrors' = TRUE
           /\ job' = [job EXCEPT !.entries = Append(@, <<p, Torn>>),
                !.left = {m \in rest : Directory(Paths[m]) # Directory(p)}]
  <2> PICK left \in SUBSET DOMAIN Paths : left = {m \in rest : Directory(Paths[m]) # Directory(p)}
    OBVIOUS
  <2> PICK e \in Entries : e = <<p, Torn>>
    <3>1. Torn \in 1..Torn
      BY BackupBounds
    <3> QED BY <3>1 DEF Entries
  <2> DEFINE j == [job EXCEPT !.entries = Append(@, e), !.left = left]
  <2>1. j \in CopyJobs
    <3>1. job.entries \in Seq(Entries)
      BY <1>1 DEF CopyJobs
    <3>2. Append(job.entries, e) \in Seq(Entries)
      BY <3>1, AppendProperties
    <3> QED BY <1>1, <3>2 DEF CopyJobs
  <2>2. job' = j /\ faults' \in 0..MaxFaults
    BY <1>7, FaultBound DEF BackupInv
  <2> HIDE DEF j
  <2> QED BY <1>1, <1>7, <2>1, <2>2, CopyGoesOn
<1> QED BY <1>4, <1>5, <1>6, <1>7

-----------------------------------------------------------------------------
\* The handler is done, and archives of the right shape are left.
LEMMA JobEnds ==
  ASSUME BackupInv, job' = NoJob, archives' \subseteq BackupArchives,
         ~readErrors => \A a \in archives' : ArchiveSound(a),
         restored' \in [Files -> 0..Torn],
         \A p \in Files : restored'[p] # 0 => data[p] = restored'[p],
         UNCHANGED <<data, writes, calls, readErrors>>, faults' \in 0..MaxFaults
  PROVE  BackupInv'
<1>1. BackupShape' /\ RestoredOK'
  BY NoJobAlone DEF BackupInv, BackupShape, RestoredOK
<1>2. ASSUME ~readErrors PROVE NothingTorn'
  <2> PICK as : as = archives'
    OBVIOUS
  <2>1. \A a \in as : ArchiveSound(a)
    BY <1>2
  <2>2. (\A a \in archives : ArchiveSound(a))'
    BY <2>1 DEF ArchiveSound, Seen, Faithful, Accounted
  <2> QED BY <1>2, <2>2, NoJobAlone DEF BackupInv, NothingTorn
<1> QED BY <1>1, <1>2 DEF BackupInv

\* What a copy leaves behind.
LEMMA ArchiveOfCopy ==
  ASSUME BackupInv, job \in CopyJobs, NEW encrypted \in BOOLEAN, NEW damaged \in BOOLEAN,
         damaged \/ job.left = {}
  PROVE  /\ Archive(encrypted, damaged) \in BackupArchives
         /\ ~readErrors => ArchiveSound(Archive(encrypted, damaged))
<1> DEFINE z == Archive(encrypted, damaged)
<1>1. z \in BackupArchives
  BY DEF Archive, BackupArchives, CopyJobs
<1>2. /\ z.entries = job.entries /\ z.manifest = job.manifest /\ z.seen = job.seen
      /\ z.skipped = job.skipped /\ z.damaged = damaged
  BY DEF Archive
<1> HIDE DEF z
<1>3. ASSUME ~readErrors PROVE ArchiveSound(z)
  <2>1. CopySound(job)
    BY <1>3 DEF BackupInv, NothingTorn
  <2>2. Seen(z) /\ Faithful(z)
    BY <1>2, <2>1 DEF CopySound, Seen, Faithful
  <2>3. ASSUME job.left = {} PROVE \A p \in Files : Accounted(z, p)
    BY <1>2, <2>1, <2>3, PlacesAreFiles DEF CopySound, Accounted
  <2> QED BY <1>2, <2>2, <2>3 DEF ArchiveSound
<1> QED BY <1>1, <1>3 DEF z

LEMMA EncryptKeeps == ASSUME BackupInv, Encrypt PROVE BackupInv'
<1>1. job \in CopyJobs /\ job.left = {}
  BY JobKinds DEF BackupInv, BackupShape, Encrypt
<1>2. PICK z \in BackupArchives : /\ z = Archive(TRUE, FALSE)
                                  /\ ~readErrors => ArchiveSound(z)
  BY <1>1, ArchiveOfCopy
<1>3. archives' \subseteq archives \cup {z}
  BY <1>2 DEF Encrypt
<1>4. ~readErrors => \A a \in archives' : ArchiveSound(a)
  BY <1>2, <1>3 DEF BackupInv, NothingTorn
<1>5. archives' \subseteq BackupArchives /\ faults' \in 0..MaxFaults
  BY <1>3, FaultBound DEF BackupInv, BackupShape, Encrypt
<1> QED BY <1>4, <1>5, JobEnds DEF Encrypt, BackupInv, BackupShape, RestoredOK

LEMMA CrashKeeps == ASSUME BackupInv, Crash PROVE BackupInv'
<1>1. ASSUME NEW a \in archives', a \notin archives
      PROVE  a \in BackupArchives /\ (~readErrors => ArchiveSound(a))
  <2>1. job \in CopyJobs
    BY <1>1, JobKinds DEF BackupInv, BackupShape, Crash
  <2>2. \/ a = Archive(FALSE, job.left # {})
        \/ job.left = {} /\ a = Archive(TRUE, TRUE)
    BY <1>1 DEF Crash
  <2>3. \A d \in BOOLEAN : d \/ job.left = {} =>
          /\ Archive(FALSE, d) \in BackupArchives /\ Archive(TRUE, d) \in BackupArchives
          /\ ~readErrors => ArchiveSound(Archive(FALSE, d)) /\ ArchiveSound(Archive(TRUE, d))
    BY <2>1, ArchiveOfCopy
  <2> QED BY <2>2, <2>3
<1>2. archives' \subseteq BackupArchives /\ faults' \in 0..MaxFaults
  BY <1>1, FaultBound DEF BackupInv, BackupShape, Crash
<1>3. ~readErrors => \A a \in archives' : ArchiveSound(a)
  BY <1>1 DEF BackupInv, NothingTorn
<1> QED BY <1>2, <1>3, JobEnds DEF Crash, BackupInv, BackupShape, RestoredOK

-----------------------------------------------------------------------------
\* Damage makes an archive one that is not taken; it cannot make up for damage.
LEMMA DamageSpoils ==
  ASSUME NEW a \in BackupArchives, NEW i \in DOMAIN a.entries
  PROVE  LET d == [a EXCEPT !.entries[i] = <<@[1], Torn>>, !.damaged = @ \/ a.encrypted]
         IN  d \in BackupArchives /\ (ArchiveSound(a) => ArchiveSound(d))
<1>0. a.entries \in Seq(Entries) /\ i \in 1..Len(a.entries) /\ a.entries[i] \in Entries
  BY DEF BackupArchives
<1> PICK e \in Entries : e = <<a.entries[i][1], Torn>> /\ e[2] = Torn
  <2>1. Torn \in 1..Torn
    BY BackupBounds
  <2>2. a.entries[i][1] \in Files
    BY <1>0 DEF Entries
  <2>3. <<a.entries[i][1], Torn>> \in Entries
    BY <2>1, <2>2 DEF Entries
  <2> QED BY <2>3
<1> PICK es \in Seq(Entries) : es = [a.entries EXCEPT ![i] = e]
  <2>1. [a.entries EXCEPT ![i] = e] \in Seq(Entries)
    BY <1>0, ExceptSeq
  <2> QED BY <2>1
<1>1. /\ a.entries \in Seq(Entries) /\ DOMAIN es = DOMAIN a.entries /\ es[i] = e
      /\ \A k \in DOMAIN es : k # i => es[k] = a.entries[k]
  BY DEF BackupArchives
<1> PICK spoilt \in BOOLEAN : spoilt = (a.damaged \/ a.encrypted)
  OBVIOUS
<1> DEFINE d == [a EXCEPT !.entries = es, !.damaged = spoilt]
<1>2. d = [a EXCEPT !.entries[i] = <<@[1], Torn>>, !.damaged = @ \/ a.encrypted]
  OBVIOUS
<1>3. /\ d \in BackupArchives /\ d.entries = es /\ d.manifest = a.manifest
      /\ d.seen = a.seen /\ d.skipped = a.skipped /\ d.damaged = spoilt
  BY DEF BackupArchives
<1> HIDE DEF d
<1>4. ASSUME ArchiveSound(a) PROVE ArchiveSound(d)
  <2>1. Seen(d)
    BY <1>3, <1>4 DEF ArchiveSound, Seen
  <2>2. CASE a.damaged
    BY <1>3, <2>1, <2>2 DEF ArchiveSound
  <2>3. CASE Faithful(a)
    <3>1. a.entries[i] \in a.manifest /\ a.entries[i][2] # Torn
      BY <1>4, <2>3 DEF Faithful, ArchiveSound, Seen
    <3>2. \A k \in DOMAIN es : es[k] # a.entries[i]
      BY <1>1, <2>3, <3>1 DEF Faithful
    <3> QED BY <1>3, <2>1, <3>1, <3>2 DEF ArchiveSound
  <2>4. CASE \E f \in a.manifest : \A k \in DOMAIN a.entries : a.entries[k] # f
    <3> PICK f \in a.manifest : \A k \in DOMAIN a.entries : a.entries[k] # f
      BY <2>4
    <3>1. f[2] # Torn
      BY <1>4 DEF ArchiveSound, Seen
    <3>2. \A k \in DOMAIN es : es[k] # f
      BY <1>1, <3>1
    <3> QED BY <1>3, <2>1, <3>2 DEF ArchiveSound
  <2> QED BY <1>4, <2>2, <2>3, <2>4 DEF ArchiveSound
<1> QED BY <1>2, <1>3, <1>4

LEMMA DamageKeeps == ASSUME BackupInv, NEW a \in archives, Damage(a) PROVE BackupInv'
<1> PICK i \in DOMAIN a.entries :
      archives' = (archives \ {a}) \cup
        {[a EXCEPT !.entries[i] = <<@[1], Torn>>, !.damaged = @ \/ a.encrypted]}
  BY DEF Damage
<1>1. a \in BackupArchives
  BY DEF BackupInv, BackupShape
<1> PICK d \in BackupArchives : /\ archives' = (archives \ {a}) \cup {d}
                                /\ ArchiveSound(a) => ArchiveSound(d)
  BY <1>1, DamageSpoils
<1>2. UNCHANGED <<data, job, restored, writes, calls, readErrors>> /\ faults' \in 0..MaxFaults
  BY FaultBound DEF Damage, BackupInv
<1>3. BackupShape' /\ RestoredOK'
  BY <1>2 DEF BackupInv, BackupShape, RestoredOK
<1>4. ASSUME ~readErrors PROVE NothingTorn'
  <2> PICK as : as = archives'
    OBVIOUS
  <2>1. \A z \in as : ArchiveSound(z)
    BY <1>4 DEF BackupInv, NothingTorn
  <2>2. (\A z \in archives : ArchiveSound(z))'
    BY <2>1 DEF ArchiveSound, Seen, Faithful, Accounted
  <2>3. job \in CopyJobs => CopySound(job)'
    BY <1>2, <1>4 DEF BackupInv, NothingTorn, CopySound, Seen, Faithful, Accounted
  <2> QED BY <1>2, <1>4, <2>2, <2>3 DEF BackupInv, NothingTorn
<1> QED BY <1>2, <1>3, <1>4 DEF BackupInv

-----------------------------------------------------------------------------
\* An archive that verifies holds what was seen, and no torn file.
LEMMA VerifiedIsFaithful ==
  ASSUME NEW a \in BackupArchives, NEW pass, ArchiveSound(a), VerifyArchive(a, pass)
  PROVE  /\ Faithful(a) /\ Seen(a) /\ \A p \in Files : Accounted(a, p)
         /\ \A i \in DOMAIN a.entries : a.entries[i][2] # Torn
<1>1. ~a.damaged /\ \A e \in a.manifest : \E i \in DOMAIN a.entries : a.entries[i] = e
  BY DEF VerifyArchive, Authentic, Intact, ToSet
<1>2. Faithful(a) /\ Seen(a) /\ \A p \in Files : Accounted(a, p)
  BY <1>1 DEF ArchiveSound
<1> QED BY <1>2 DEF Faithful, Seen

LEMMA RestoreBeginKeeps ==
  ASSUME BackupInv, NEW pass \in Passphrases, NEW a \in archives, RestoreBegin(a, pass)
  PROVE  BackupInv'
<1> DEFINE j == [op |-> "restore", todo |-> a.entries, put |-> Nothing]
<1>1. a \in BackupArchives
  BY DEF BackupInv, BackupShape
<1>2. j \in RestoreJobs /\ j \notin CopyJobs /\ j.todo = a.entries /\ j.put = Nothing
  BY <1>1, NothingIsShaped DEF RestoreJobs, CopyJobs, BackupArchives
<1>3. job' = j /\ UNCHANGED <<data, archives, restored, writes, faults, readErrors>>
      /\ calls' \in 0..MaxBackups
  BY CallBound DEF RestoreBegin, BackupInv
<1>4. ~readErrors => \A i \in DOMAIN a.entries : a.entries[i][2] # Torn
  BY <1>1, VerifiedIsFaithful DEF BackupInv, NothingTorn, RestoreBegin
<1> HIDE DEF j
<1>5. BackupShape' /\ RestoredOK'
  BY <1>2, <1>3, NothingIsShaped DEF BackupInv, BackupShape, RestoredOK
<1> QED BY <1>2, <1>3, <1>4, <1>5
        DEF BackupInv, NothingTorn, ArchiveSound, Seen, Faithful, Accounted

LEMMA RestoreFileKeeps == ASSUME BackupInv, RestoreFile PROVE BackupInv'
<1>1. job \in RestoreJobs /\ job.todo # <<>> /\ UNCHANGED <<archives, writes, calls, readErrors>>
  BY JobKinds DEF BackupInv, BackupShape, RestoreFile
<1>2. CASE Fault /\ job' = NoJob /\ UNCHANGED <<data, restored>>
  <2>1. faults' \in 0..MaxFaults
    BY <1>2, FaultBound DEF BackupInv
  <2> QED BY <1>1, <1>2, <2>1, JobEnds DEF BackupInv, BackupShape, RestoredOK, NothingTorn
<1>3. CASE LET e == Head(job.todo) IN
           /\ data' = [data EXCEPT ![e[1]] = e[2]]
           /\ restored' = [restored EXCEPT ![e[1]] = 0]
           /\ job' = [job EXCEPT !.todo = Tail(@), !.put[e[1]] = e[2]]
           /\ UNCHANGED faults
  <2>1. job.todo \in Seq(Entries)
    BY <1>1 DEF RestoreJobs
  <2> PICK e \in Entries : e = Head(job.todo)
    BY <1>1, <2>1
  <2> PICK p \in Files, v \in 1..Torn : p = e[1] /\ v = e[2]
    BY DEF Entries
  <2> PICK rest \in Seq(Entries) : rest = Tail(job.todo)
    BY <1>1, <2>1, HeadTailProperties
  <2> DEFINE j == [job EXCEPT !.todo = rest, !.put[p] = v]
  <2>2. v \in 0..Torn /\ v # 0
    BY BackupBounds
  <2>3. /\ j \in RestoreJobs /\ j.todo = rest
        /\ j.put[p] = v /\ \A q \in Files \ {p} : j.put[q] = job.put[q]
    BY <1>1, <2>2 DEF RestoreJobs
  <2>4. /\ data' = [data EXCEPT ![p] = v] /\ restored' = [restored EXCEPT ![p] = 0]
        /\ job' = j /\ UNCHANGED faults
    BY <1>3
  <2> HIDE DEF j
  <2>5. j \notin CopyJobs
    BY <2>3 DEF CopyJobs, RestoreJobs
  <2>6. /\ data' \in [Files -> 0..Torn] /\ restored' \in [Files -> 0..Torn]
        /\ data'[p] = v /\ restored'[p] = 0
        /\ \A q \in Files \ {p} : data'[q] = data[q] /\ restored'[q] = restored[q]
    BY <2>2, <2>4, BackupBounds DEF BackupInv, BackupShape
  <2>7. BackupShape' /\ RestoredOK'
    BY <1>1, <2>3, <2>4, <2>6 DEF BackupInv, BackupShape, RestoredOK
  <2>8. ASSUME ~readErrors PROVE NothingTorn'
    <3>1. \A i \in DOMAIN job.todo : job.todo[i][2] # Torn
      BY <1>1, <2>8 DEF BackupInv, NothingTorn
    <3>2. v # Torn
      BY <1>1, <2>1, <3>1
    <3>3. \A i \in DOMAIN rest : rest[i][2] # Torn
      <4>1. \A i \in DOMAIN rest : i + 1 \in DOMAIN job.todo /\ rest[i] = job.todo[i + 1]
        BY <1>1, <2>1
      <4> QED BY <3>1, <4>1
    <3> QED BY <1>1, <2>3, <2>4, <2>5, <2>6, <2>8, <3>2, <3>3
            DEF BackupInv, NothingTorn, ArchiveSound, Seen, Faithful, Accounted
  <2> QED BY <1>1, <2>7, <2>8 DEF BackupInv
<1> QED BY <1>2, <1>3 DEF RestoreFile

LEMMA RestoreEndKeeps == ASSUME BackupInv, RestoreEnd PROVE BackupInv'
<1>1. job \in RestoreJobs /\ job.put \in [Files -> 0..Torn]
  BY JobKinds DEF BackupInv, BackupShape, RestoreEnd, RestoreJobs
<1>2. /\ restored' \in [Files -> 0..Torn]
      /\ \A p \in Files : restored'[p] = IF job.put[p] # 0 THEN job.put[p] ELSE restored[p]
  BY <1>1 DEF RestoreEnd, BackupInv, BackupShape
<1>3. \A p \in Files : restored'[p] # 0 => data[p] = restored'[p]
  BY <1>1, <1>2 DEF BackupInv, RestoredOK
<1> QED BY <1>2, <1>3, JobEnds DEF RestoreEnd, BackupInv, BackupShape, NothingTorn

-----------------------------------------------------------------------------
\* CreateEncrypted and RestoreEncrypted keep the invariant while the daemon writes.
THEOREM BackupInvariance == BackupSpec => []BackupInv
<1>1. BackupInv /\ [BackupNext]_backupVars => BackupInv'
  <2> SUFFICES ASSUME BackupInv, [BackupNext]_backupVars PROVE BackupInv'
    OBVIOUS
  <2>1. CASE UNCHANGED backupVars
    BY <2>1 DEF backupVars, BackupInv, BackupShape, RestoredOK, NothingTorn, CopySound,
                ArchiveSound, Seen, Faithful, Accounted
  <2> QED BY <2>1, ReplaceKeeps, CreateBeginKeeps, CopyFileKeeps, EncryptKeeps, CrashKeeps,
             DamageKeeps, RestoreBeginKeeps, RestoreFileKeeps, RestoreEndKeeps DEF BackupNext
<1> QED BY <1>1, BackupInitInv, PTL DEF BackupSpec

\* The invariant is enough for the types and for exact archives.
LEMMA BackupsSound == BackupInv => BackupTypeOK /\ BackupExact
<1> SUFFICES ASSUME BackupInv PROVE BackupTypeOK /\ BackupExact
  OBVIOUS
<1>1. \A a \in archives : ToSet(a.entries) \subseteq Files \X (1..Torn)
  BY DEF BackupInv, BackupShape, BackupArchives, Entries, ToSet
<1>2. BackupTypeOK
  BY <1>1, JobKinds DEF BackupInv, BackupShape, BackupTypeOK
<1>3. ASSUME ~readErrors, NEW a \in archives, VerifyArchive(a, a.pass)
      PROVE  /\ \A e \in ToSet(a.entries) : e[2] \in a.seen[e[1]]
             /\ \A p \in Files : 0 \in a.seen[p] \/ p \in a.skipped
                                 \/ \E e \in ToSet(a.entries) : e[1] = p
  <2>1. Faithful(a) /\ Seen(a) /\ \A p \in Files : Accounted(a, p)
    BY <1>3, VerifiedIsFaithful DEF BackupInv, BackupShape, NothingTorn
  <2>2. ToSet(a.entries) = a.manifest
    BY <2>1 DEF ToSet, Faithful
  <2> QED BY <2>1, <2>2 DEF Seen, Accounted
<1>4. BackupExact
  BY <1>3 DEF BackupInv, RestoredOK, NothingTorn, BackupExact
<1> QED BY <1>2, <1>4

-----------------------------------------------------------------------------
\* An export of a case that no other export ran into, and a backup that verifies,
\* are what the program had when they were made: Store.Export and Signer.Build,
\* CreateEncrypted and RestoreEncrypted, for any cases, analysts, files, faults
\* and restarts.
THEOREM ArchivesExactCorrect == CasesSpec /\ BackupSpec => []ArchivesExact
<1>1. CasesInv /\ BackupInv => ArchivesExact
  BY CasesSound, BackupsSound DEF ArchivesExact
<1> QED BY <1>1, CasesInvariance, BackupInvariance, PTL

-----------------------------------------------------------------------------
\* The baselines.  A profile counts its observations and knows its peers.
ProfileType == [total : Nat, peers : SUBSET Peers]
ProfilesType(all) ==
  /\ all = [e \in Engines |-> all[e]]
  /\ \A e \in Engines : all[e] \in [Keys(e) -> ProfileType]
CountsType(counts) == counts \in [Engines -> Nat]

\* What is on disk is known in memory, and what was ever on disk still is.
DiskKnown == \A e \in Engines : \A k \in Keys(e) : onDisk[e][k].peers \subseteq profiles[e][k].peers
SavedStays == everSaved \subseteq KnownPeers(onDisk)

\* What is not on disk was observed since the last attempt to save, or between
\* attempts that failed.
Behind(e) ==
  /\ dirty[e] < SaveEvery
  /\ TotalOf(profiles, e) <= TotalOf(onDisk, e) + dirty[e] + failures[e] * (SaveEvery + 1)

BaselinesInv ==
  /\ ProfilesType(profiles) /\ ProfilesType(onDisk) /\ CountsType(dirty) /\ CountsType(failures)
  /\ DiskKnown /\ SavedStays /\ again = {}
  /\ \A e \in Engines : Behind(e)

\* A finite set has at most as many images.
LEMMA ImagesFew ==
  ASSUME NEW S, IsFiniteSet(S), NEW f, f = [x \in S |-> f[x]]
  PROVE  LET T == {f[x] : x \in S} IN IsFiniteSet(T) /\ Cardinality(T) <= Cardinality(S)
<1> DEFINE T == {f[x] : x \in S}
<1>1. f \in Surjection(S, T)
  BY DEF Surjection
<1> HIDE DEF T
<1>2. IsFiniteSet(T) /\ Cardinality(T) <= Cardinality(S)
  BY <1>1, FS_Surjection
<1> QED BY <1>2 DEF T

\* The observations of an engine can be counted.
LEMMA LearnedFinite ==
  ASSUME NEW all, ProfilesType(all), NEW e \in Engines
  PROVE  IsFiniteSet(Learned(all, e)) /\ TotalOf(all, e) \in Nat
<1> DEFINE S == {{k} \X (1..all[e][k].total) : k \in Keys(e)}
<1>1. IsFiniteSet(Keys(e))
  <2>1. Keys(e) \subseteq Programs \cup Owners
    BY BaselinesAssumption DEF Keys, Identities
  <2>2. IsFiniteSet(Programs \cup Owners)
    BY BaselinesAssumption, FS_Union
  <2> QED BY <2>1, <2>2, FS_Subset
<1>2. IsFiniteSet(S)
  <2> DEFINE f == [k \in Keys(e) |-> {k} \X (1..all[e][k].total)]
  <2>1. f = [k \in Keys(e) |-> f[k]] /\ S = {f[k] : k \in Keys(e)}
    OBVIOUS
  <2> HIDE DEF f, S
  <2> QED BY <1>1, <2>1, ImagesFew
<1>3. ASSUME NEW k \in Keys(e)
      PROVE  IsFiniteSet({k} \X (1..all[e][k].total))
  <2>1. all[e][k].total \in Nat
    BY DEF ProfilesType, ProfileType
  <2>2. IsFiniteSet({k})
    BY FS_Singleton
  <2>3. IsFiniteSet(1..all[e][k].total)
    <3>1. all[e][k].total \in Int
      BY <2>1
    <3> QED BY <3>1, FS_Interval
  <2> QED BY <2>2, <2>3, FS_Product
<1>4. IsFiniteSet(UNION S)
  <2>1. \A T \in S : IsFiniteSet(T)
    BY <1>3
  <2> HIDE DEF S
  <2> QED BY <1>2, <2>1, FS_UNION
<1> QED BY <1>4, FS_CardinalityType DEF Learned, TotalOf

\* A flow counts for two keys at most.
LEMMA IdentitiesFew ==
  ASSUME NEW e \in Engines, NEW p \in Programs
  PROVE  /\ Identities(e, p) \subseteq Keys(e) /\ IsFiniteSet(Identities(e, p))
         /\ Cardinality(Identities(e, p)) \in Nat /\ Cardinality(Identities(e, p)) <= 2
<1>1. IsFiniteSet({p}) /\ Cardinality({p}) = 1
  BY FS_Singleton
<1>2. IsFiniteSet({p} \cup {OwnerOf[p]}) /\ Cardinality({p} \cup {OwnerOf[p]}) <= 2
      /\ Cardinality({p} \cup {OwnerOf[p]}) \in Nat
  <2>1. IsFiniteSet({OwnerOf[p]}) /\ Cardinality({OwnerOf[p]}) = 1
    BY FS_Singleton
  <2>2. IsFiniteSet({p} \cup {OwnerOf[p]})
        /\ Cardinality({p} \cup {OwnerOf[p]}) = 1 + 1 - Cardinality({p} \cap {OwnerOf[p]})
    BY <1>1, <2>1, FS_Union
  <2>3. IsFiniteSet({p} \cap {OwnerOf[p]})
    BY <1>1, FS_Subset
  <2>4. Cardinality({p} \cap {OwnerOf[p]}) \in Nat /\ Cardinality({p} \cup {OwnerOf[p]}) \in Nat
    BY <2>2, <2>3, FS_CardinalityType
  <2> QED BY <2>2, <2>4
<1>3. {p, OwnerOf[p]} = {p} \cup {OwnerOf[p]}
  OBVIOUS
<1>4. Identities(e, p) \subseteq Keys(e)
  BY DEF Keys
<1>5. Identities(e, p) = {p} \/ Identities(e, p) = {p} \cup {OwnerOf[p]}
  BY <1>3 DEF Identities
<1> QED BY <1>1, <1>2, <1>4, <1>5

\* Learning a flow counts one observation for each of its keys.
LEMMA LearntOnce ==
  ASSUME ProfilesType(profiles), NEW e \in Engines, NEW p \in Programs, NEW peer \in Peers,
         profiles' = [profiles EXCEPT ![e] = Learnt(e, p, peer)]
  PROVE  /\ ProfilesType(profiles')
         /\ \A f \in Engines \ {e} : profiles'[f] = profiles[f]
         /\ \A k \in Keys(e) : profiles[e][k].peers \subseteq profiles'[e][k].peers
         /\ TotalOf(profiles', e) <= TotalOf(profiles, e) + Cardinality(Identities(e, p))
<1>1. /\ profiles'[e] = Learnt(e, p, peer) /\ profiles' = [f \in Engines |-> profiles'[f]]
      /\ \A f \in Engines \ {e} : profiles'[f] = profiles[f]
  BY DEF ProfilesType
<1>2. ASSUME NEW k \in Keys(e)
      PROVE  /\ profiles[e][k] \in ProfileType /\ profiles'[e][k] \in ProfileType
             /\ profiles[e][k].peers \subseteq profiles'[e][k].peers
             /\ profiles'[e][k].total = IF k \in Identities(e, p) THEN profiles[e][k].total + 1
                                        ELSE profiles[e][k].total
  <2>1. profiles[e][k] \in ProfileType
    BY DEF ProfilesType
  <2>2. profiles'[e][k] = IF k \in Identities(e, p)
                          THEN [total |-> profiles[e][k].total + 1,
                                peers |-> profiles[e][k].peers \union {peer}]
                          ELSE profiles[e][k]
    BY <1>1 DEF Learnt
  <2> QED BY <2>1, <2>2 DEF ProfileType
<1>3. ProfilesType(profiles')
  <2>1. profiles'[e] \in [Keys(e) -> ProfileType]
    <3>1. profiles'[e] = [k \in Keys(e) |-> profiles'[e][k]]
      BY <1>1 DEF Learnt
    <3> QED BY <1>2, <3>1
  <2> QED BY <1>1, <2>1 DEF ProfilesType
<1>4. TotalOf(profiles', e) <= TotalOf(profiles, e) + Cardinality(Identities(e, p))
  <2> DEFINE new == {<<k, profiles[e][k].total + 1>> : k \in Identities(e, p)}
             old == Learned(profiles, e)
  <2>1. Identities(e, p) \subseteq Keys(e) /\ IsFiniteSet(Identities(e, p))
        /\ Cardinality(Identities(e, p)) \in Nat
    BY IdentitiesFew
  <2>2. IsFiniteSet(new) /\ Cardinality(new) <= Cardinality(Identities(e, p))
    <3> DEFINE f == [k \in Identities(e, p) |-> <<k, profiles[e][k].total + 1>>]
    <3>1. f = [k \in Identities(e, p) |-> f[k]] /\ new = {f[k] : k \in Identities(e, p)}
      OBVIOUS
    <3> HIDE DEF f, new
    <3> QED BY <2>1, <3>1, ImagesFew
  <2>3. Learned(profiles', e) \subseteq old \cup new
    <3> SUFFICES ASSUME NEW k \in Keys(e), NEW i \in 1..profiles'[e][k].total
                 PROVE  <<k, i>> \in old \cup new
      BY DEF Learned
    <3>1. profiles[e][k].total \in Nat
      BY <1>2 DEF ProfileType
    <3>2. CASE i \in 1..profiles[e][k].total
      BY <3>2 DEF Learned
    <3>3. CASE i \notin 1..profiles[e][k].total
      <4>1. k \in Identities(e, p) /\ i = profiles[e][k].total + 1
        BY <1>2, <3>1, <3>3
      <4> QED BY <4>1
    <3> QED BY <3>2, <3>3
  <2>4. IsFiniteSet(old) /\ Cardinality(old) \in Nat
    BY LearnedFinite DEF TotalOf
  <2> HIDE DEF new, old
  <2>5. IsFiniteSet(old \cup new)
        /\ Cardinality(old \cup new) = Cardinality(old) + Cardinality(new) - Cardinality(old \cap new)
    BY <2>2, <2>4, FS_Union
  <2>6. Cardinality(old \cap new) \in Nat /\ Cardinality(new) \in Nat
    BY <2>2, <2>4, FS_Subset, FS_CardinalityType
  <2>7. Cardinality(Learned(profiles', e)) <= Cardinality(old \cup new)
        /\ IsFiniteSet(Learned(profiles', e))
    BY <2>3, <2>5, FS_Subset
  <2>8. Cardinality(Learned(profiles', e)) \in Nat /\ Cardinality(old \cup new) \in Nat
    BY <2>5, <2>7, FS_CardinalityType
  <2>9. TotalOf(profiles, e) = Cardinality(old) /\ TotalOf(profiles', e) = Cardinality(Learned(profiles', e))
    BY DEF TotalOf, old
  <2> QED BY <2>1, <2>2, <2>4, <2>5, <2>6, <2>7, <2>8, <2>9
<1> QED BY <1>1, <1>2, <1>3, <1>4

\* What is known in one place is known in another that knows as much.
LEMMA KnownGrows ==
  ASSUME NEW old, NEW new,
         \A e \in Engines : \A k \in Keys(e) : old[e][k].peers \subseteq new[e][k].peers
  PROVE  KnownPeers(old) \subseteq KnownPeers(new)
BY DEF KnownPeers

\* Nothing has been observed yet.
LEMMA BaselinesStart == BaselinesInit => BaselinesInv
<1> SUFFICES ASSUME BaselinesInit
             PROVE  BaselinesInv
  OBVIOUS
<1>1. /\ profiles = Empty /\ onDisk = Empty /\ everSaved = {} /\ again = {}
      /\ dirty = [e \in Engines |-> 0] /\ failures = [e \in Engines |-> 0]
  BY DEF BaselinesInit
<1>2. ProfilesType(Empty)
  BY DEF ProfilesType, Empty, ProfileType
<1>3. CountsType(dirty) /\ CountsType(failures)
  BY <1>1 DEF CountsType
<1>4. DiskKnown /\ SavedStays
  BY <1>1 DEF DiskKnown, SavedStays
<1>5. ASSUME NEW e \in Engines
      PROVE  Behind(e)
  <2>1. TotalOf(Empty, e) \in Nat
    BY <1>2, LearnedFinite
  <2>2. dirty[e] = 0 /\ failures[e] = 0
    BY <1>1
  <2>3. SaveEvery \in Nat /\ SaveEvery > 0
    BY BaselinesAssumption
  <2> QED BY <1>1, <2>1, <2>2, <2>3 DEF Behind
<1> QED BY <1>1, <1>2, <1>3, <1>4, <1>5 DEF BaselinesInv

\* A flow is learnt: an attempt to save that fails leaves less than one period, and
\* two observations, more behind.
LEMMA LearnFlowInv ==
  ASSUME BaselinesInv, NEW e \in Engines, NEW p \in Programs, NEW peer \in Peers,
         NEW ok \in BOOLEAN, LearnFlow(e, p, peer, ok)
  PROVE  BaselinesInv'
<1> DEFINE few == Cardinality(Identities(e, p))
<1>1. /\ ProfilesType(profiles) /\ ProfilesType(onDisk) /\ CountsType(dirty) /\ CountsType(failures)
      /\ DiskKnown /\ SavedStays /\ again = {} /\ \A f \in Engines : Behind(f)
  BY DEF BaselinesInv
<1>2. profiles' = [profiles EXCEPT ![e] = Learnt(e, p, peer)]
  BY DEF LearnFlow
<1>3. /\ ProfilesType(profiles')
      /\ \A f \in Engines \ {e} : profiles'[f] = profiles[f]
      /\ \A k \in Keys(e) : profiles[e][k].peers \subseteq profiles'[e][k].peers
      /\ TotalOf(profiles', e) <= TotalOf(profiles, e) + few
  BY <1>1, <1>2, LearntOnce
<1>4. few \in Nat /\ few <= 2
  BY IdentitiesFew
<1>5. SaveEvery \in Nat /\ SaveEvery > 0
  BY BaselinesAssumption
<1>6. dirty[e] \in Nat /\ failures[e] \in Nat
  BY <1>1 DEF CountsType
<1>7. \A f \in Engines : \A k \in Keys(f) : profiles[f][k].peers \subseteq profiles'[f][k].peers
  BY <1>3
<1>8. again' = {}
  <2>1. Deviations(e, p, peer) \cap everSaved = {}
    <3> SUFFICES ASSUME NEW r \in Deviations(e, p, peer), r \in everSaved
                 PROVE  FALSE
      OBVIOUS
    <3>1. /\ r.engine = e /\ r.key \in Identities(e, p) /\ r.peer = peer
          /\ peer \notin profiles[e][r.key].peers
      BY DEF Deviations, Deviates
    <3>2. r.key \in Keys(e)
      BY <3>1, IdentitiesFew
    <3>3. r \in KnownPeers(onDisk)
      BY <1>1 DEF SavedStays
    <3>4. peer \in onDisk[e][r.key].peers
      BY <3>1, <3>3 DEF KnownPeers
    <3> QED BY <1>1, <3>1, <3>2, <3>4 DEF DiskKnown
  <2> QED BY <1>1, <2>1 DEF LearnFlow
<1>9. \A f \in Engines \ {e} :
        (/\ onDisk'[f] = onDisk[f] /\ dirty'[f] = dirty[f] /\ failures'[f] = failures[f]) => Behind(f)'
  <2> TAKE f \in Engines \ {e}
  <2> HAVE onDisk'[f] = onDisk[f] /\ dirty'[f] = dirty[f] /\ failures'[f] = failures[f]
  <2>1. TotalOf(profiles', f) = TotalOf(profiles, f) /\ TotalOf(onDisk', f) = TotalOf(onDisk, f)
    BY <1>3 DEF TotalOf, Learned
  <2> QED BY <1>1, <2>1 DEF Behind
<1>10. TotalOf(profiles, e) \in Nat /\ TotalOf(onDisk, e) \in Nat /\ TotalOf(profiles', e) \in Nat
  BY <1>1, <1>3, LearnedFinite
<1>11. /\ dirty[e] < SaveEvery
       /\ TotalOf(profiles, e) <= TotalOf(onDisk, e) + dirty[e] + failures[e] * (SaveEvery + 1)
  BY <1>1 DEF Behind
<1>12. CASE ~Due(Unsaved(e, p))
  <2>1. /\ dirty' = [dirty EXCEPT ![e] = dirty[e] + few]
        /\ onDisk' = onDisk /\ failures' = failures /\ everSaved' = everSaved
    BY <1>12 DEF LearnFlow, Unsaved
  <2>2. dirty[e] + few < SaveEvery /\ dirty'[e] = dirty[e] + few
    BY <1>1, <1>4, <1>5, <1>6, <1>12, <2>1 DEF Due, Unsaved, CountsType
  <2>3. CountsType(dirty') /\ CountsType(failures')
    BY <1>1, <1>4, <1>6, <2>1 DEF CountsType
  <2>4. Behind(e)'
    <3> DEFINE gap == failures[e] * (SaveEvery + 1)
    <3>1. gap \in Nat
      BY <1>5, <1>6
    <3>2. TotalOf(profiles, e) <= TotalOf(onDisk, e) + dirty[e] + gap
      BY <1>11
    <3> HIDE DEF gap, few
    <3>3. TotalOf(profiles', e) <= TotalOf(onDisk, e) + (dirty[e] + few) + gap
      BY <1>3, <1>4, <1>6, <1>10, <3>1, <3>2
    <3> QED BY <2>1, <2>2, <3>3 DEF Behind, gap
  <2>5. \A f \in Engines : Behind(f)'
    BY <1>9, <2>1, <2>4 DEF CountsType
  <2>6. DiskKnown' /\ SavedStays'
    BY <1>1, <1>7, <2>1 DEF DiskKnown, SavedStays
  <2> QED BY <1>1, <1>3, <1>8, <2>1, <2>3, <2>5, <2>6 DEF BaselinesInv
<1>13. CASE Due(Unsaved(e, p))
  <2>1. /\ dirty' = [dirty EXCEPT ![e] = 0]
        /\ onDisk' = [onDisk EXCEPT ![e] = IF ok THEN profiles'[e] ELSE @]
        /\ failures' = [failures EXCEPT ![e] = IF ok THEN 0 ELSE @ + 1]
        /\ everSaved' = everSaved \cup KnownPeers(onDisk')
    BY <1>13 DEF LearnFlow, Saved, SaveTo
  <2>2. /\ onDisk'[e] = IF ok THEN profiles'[e] ELSE onDisk[e]
        /\ dirty'[e] = 0 /\ failures'[e] = IF ok THEN 0 ELSE failures[e] + 1
        /\ \A f \in Engines \ {e} : /\ onDisk'[f] = onDisk[f] /\ dirty'[f] = dirty[f]
                                    /\ failures'[f] = failures[f]
    BY <1>1, <2>1 DEF CountsType, ProfilesType
  <2>3. CountsType(dirty') /\ CountsType(failures')
    BY <1>1, <1>6, <2>1 DEF CountsType
  <2>4. ProfilesType(onDisk')
    <3>1. onDisk' = [f \in Engines |-> onDisk'[f]]
      BY <1>1, <2>1 DEF ProfilesType
    <3> QED BY <1>1, <1>3, <2>2, <3>1 DEF ProfilesType
  <2>5. \A f \in Engines : \A k \in Keys(f) : onDisk[f][k].peers \subseteq onDisk'[f][k].peers
    BY <1>1, <1>7, <2>2 DEF DiskKnown
  <2>6. SavedStays'
    BY <1>1, <2>1, <2>5, KnownGrows DEF SavedStays
  <2>7. DiskKnown'
    BY <1>1, <1>7, <2>2 DEF DiskKnown
  <2>8. Behind(e)'
    <3> DEFINE gap == failures[e] * (SaveEvery + 1)
    <3>1. gap \in Nat
      BY <1>5, <1>6
    <3>2. TotalOf(profiles, e) <= TotalOf(onDisk, e) + dirty[e] + gap
      BY <1>11
    <3>3. (failures[e] + 1) * (SaveEvery + 1) = gap + (SaveEvery + 1)
      BY <1>5, <1>6
    <3>4. 0 * (SaveEvery + 1) = 0
      BY <1>5
    <3>5. CASE ok
      <4>1. TotalOf(onDisk', e) = TotalOf(profiles', e)
        BY <2>2, <3>5 DEF TotalOf, Learned
      <4> QED BY <1>5, <1>10, <2>2, <3>4, <3>5, <4>1 DEF Behind
    <3>6. CASE ~ok
      <4>1. TotalOf(onDisk', e) = TotalOf(onDisk, e)
        BY <2>2, <3>6 DEF TotalOf, Learned
      <4>2. dirty[e] + few <= SaveEvery + 1
        BY <1>4, <1>5, <1>6, <1>11
      <4> HIDE DEF gap, few
      <4>3. TotalOf(profiles', e) <= TotalOf(onDisk, e) + (gap + (SaveEvery + 1))
        BY <1>3, <1>4, <1>5, <1>6, <1>10, <3>1, <3>2, <4>2
      <4>4. failures'[e] = failures[e] + 1 /\ dirty'[e] = 0
        BY <2>2, <3>6
      <4>5. TotalOf(onDisk, e) + 0 = TotalOf(onDisk, e)
        BY <1>10
      <4> QED BY <1>5, <3>3, <4>1, <4>3, <4>4, <4>5 DEF Behind
    <3> QED BY <3>5, <3>6
  <2>9. \A f \in Engines : Behind(f)'
    BY <1>9, <2>2, <2>8
  <2> QED BY <1>3, <1>8, <2>3, <2>4, <2>6, <2>7, <2>9 DEF BaselinesInv
<1> QED BY <1>12, <1>13

\* After a start memory and disk agree.
LEMMA StopAndStartInv ==
  ASSUME BaselinesInv, NEW flushed \in BOOLEAN, StopAndStart(flushed)
  PROVE  BaselinesInv'
<1>1. /\ ProfilesType(profiles) /\ ProfilesType(onDisk)
      /\ DiskKnown /\ SavedStays /\ again = {}
  BY DEF BaselinesInv
<1>2. /\ profiles' = Stopped(flushed) /\ onDisk' = Stopped(flushed)
      /\ dirty' = [e \in Engines |-> 0] /\ failures' = [e \in Engines |-> 0]
      /\ everSaved' = everSaved \cup KnownPeers(onDisk') /\ again' = again
  BY DEF StopAndStart
<1>3. /\ Stopped(flushed) = [e \in Engines |-> Stopped(flushed)[e]]
      /\ \A e \in Engines : Stopped(flushed)[e] = profiles[e] \/ Stopped(flushed)[e] = onDisk[e]
  BY <1>1 DEF Stopped, ProfilesType, Engines
<1>4. ProfilesType(profiles') /\ ProfilesType(onDisk')
  BY <1>1, <1>2, <1>3 DEF ProfilesType
<1>5. \A e \in Engines : \A k \in Keys(e) : onDisk[e][k].peers \subseteq onDisk'[e][k].peers
  BY <1>1, <1>2, <1>3 DEF DiskKnown
<1>6. SavedStays'
  BY <1>1, <1>2, <1>5, KnownGrows DEF SavedStays
<1>7. DiskKnown'
  BY <1>2 DEF DiskKnown
<1>8. CountsType(dirty') /\ CountsType(failures')
  BY <1>2 DEF CountsType
<1>9. ASSUME NEW e \in Engines
      PROVE  Behind(e)'
  <2>1. TotalOf(onDisk', e) \in Nat /\ TotalOf(profiles', e) = TotalOf(onDisk', e)
    BY <1>2, <1>4, LearnedFinite
  <2>2. dirty'[e] = 0 /\ failures'[e] = 0
    BY <1>2
  <2>3. SaveEvery \in Nat /\ SaveEvery > 0
    BY BaselinesAssumption
  <2> QED BY <2>1, <2>2, <2>3 DEF Behind
<1> QED BY <1>1, <1>2, <1>4, <1>6, <1>7, <1>8, <1>9 DEF BaselinesInv

\* The invariant is kept when another part of the program makes the step.
LEMMA BaselinesStill ==
  ASSUME BaselinesInv, UNCHANGED baselineVars
  PROVE  BaselinesInv'
BY DEF BaselinesInv, baselineVars, ProfilesType, CountsType, DiskKnown, SavedStays, KnownPeers,
       Behind, TotalOf, Learned

\* What a crash can lose of an engine is bounded, and nothing saved is lost.
LEMMA BaselinesSound == BaselinesInv => LearntIsKept
<1> SUFFICES ASSUME BaselinesInv
             PROVE  LearntIsKept
  OBVIOUS
<1>1. everSaved \subseteq KnownPeers(profiles)
  BY KnownGrows DEF BaselinesInv, SavedStays, DiskKnown
<1>2. ASSUME NEW e \in Engines
      PROVE  TotalOf(profiles, e) - TotalOf(onDisk, e)
               <= (failures[e] + 1) * (SaveEvery + KeysPerFlow - 1) - 1
  <2> DEFINE gap == failures[e] * (SaveEvery + 1)
  <2>1. SaveEvery \in Nat /\ SaveEvery > 0 /\ failures[e] \in Nat /\ dirty[e] \in Nat
    BY BaselinesAssumption DEF BaselinesInv, CountsType
  <2>2. (failures[e] + 1) * (SaveEvery + KeysPerFlow - 1) = gap + (SaveEvery + 1) /\ gap \in Nat
    BY <2>1 DEF KeysPerFlow
  <2>3. dirty[e] < SaveEvery /\ TotalOf(profiles, e) <= TotalOf(onDisk, e) + dirty[e] + gap
    BY DEF BaselinesInv, Behind
  <2>4. TotalOf(profiles, e) \in Nat /\ TotalOf(onDisk, e) \in Nat
    BY LearnedFinite DEF BaselinesInv
  <2> HIDE DEF gap
  <2> QED BY <2>1, <2>2, <2>3, <2>4
<1> QED BY <1>1, <1>2 DEF LearntIsKept, BaselinesInv

\* What a baseline saved once is never reported as new again, and what a crash loses
\* of it is bounded (LearnFlow, SaveTo, StopAndStart), for any programs, owners,
\* peers, periods of saving, flows, failed saves and restarts.
THEOREM LearntIsKeptCorrect == BaselinesSpec => []LearntIsKept
<1>1. BaselinesInv /\ [BaselinesNext]_baselineVars => BaselinesInv'
  BY LearnFlowInv, StopAndStartInv, BaselinesStill DEF BaselinesNext
<1> QED BY <1>1, BaselinesStart, BaselinesSound, PTL DEF BaselinesSpec

-----------------------------------------------------------------------------
\* The types of the state; a line holds a record, and a number is at most the last.
LineOf == [recs : Seq(Records), whole : BOOLEAN, closed : BOOLEAN]
NumbersOnly == journal \in DocumentStores
JournalsTypeOK ==
  /\ journal \in JournalStores \union DocumentStores
  /\ entries \in Seq(LineOf) /\ \A i \in DOMAIN entries : entries[i].recs # <<>>
  /\ tries \in 0..MaxRecords
  /\ ackd \subseteq 1..tries /\ gone \subseteq 1..tries
  /\ journal = "timeline" => remembered \subseteq Records /\ Numbers(remembered) \subseteq 1..tries
  /\ NumbersOnly => remembered \subseteq 1..tries /\ document \subseteq 1..tries

\* The lines of a journal: they begin with ever later records, and the last is open
\* only when the last record was not acknowledged.  A record that was, after one that
\* was, has a line of its own that nothing is appended to any more.
FirstOf(lines, i) == lines[i].recs[1].n
After1(A, n) == n = 1 \/ n - 1 \in A
Finished(lines, n) ==
  \E i \in DOMAIN lines : Readable(lines[i]) /\ lines[i].closed /\ FirstOf(lines, i) = n
LinesKept(lines, t, A) ==
  /\ \A i, j \in DOMAIN lines : i < j => FirstOf(lines, i) < FirstOf(lines, j)
  /\ \A i \in DOMAIN lines : FirstOf(lines, i) <= t
  /\ lines # <<>> /\ ~lines[Len(lines)].closed => t \notin A
  /\ \A n \in A : After1(A, n) => Finished(lines, n)

\* What is kept of acknowledged records: each, or the newest ones as many as there is
\* room for.
KeptOf(S, A) == \A n \in A : n \in S \/ (Cardinality(S) = JournalMax /\ \A m \in S : m > n)
Unique(records) == \A r, q \in records : r.n = q.n => r = q
Fresh(A) == {n \in A : After1(A, n)}

RulesKept ==
  /\ ackd \ deletions \subseteq remembered /\ ackd \ deletions \subseteq document
  /\ gone \intersect remembered = {} /\ gone \intersect document = {}

JournalsInv ==
  /\ JournalsTypeOK
  /\ journal \in JournalStores => LinesKept(entries, tries, ackd)
  /\ journal = "timeline" => Unique(remembered) /\ KeptOf(Numbers(remembered), Fresh(ackd))
  /\ journal = "quality" => KeptOf(remembered, ackd) /\ KeptOf(document, ackd)
  /\ journal = "tuning" => RulesKept

\* A finite number of numbers have a greatest.
Later(S, n) == {m \in S : m > n}
LEMMA GreatestOf ==
  ASSUME NEW k \in Nat, NEW T \in SUBSET (1..k), T # {}
  PROVE  \E x \in T : \A y \in T : y <= x
<1> DEFINE D == {d \in 0..k : k - d \in T}
<1>1. PICK z \in T : TRUE
  OBVIOUS
<1>2. z \in 1..k /\ k - z \in 0..k /\ k - (k - z) = z
  OBVIOUS
<1>3. D # {} /\ D \subseteq Nat
  <2>1. k - z \in D
    BY <1>1, <1>2
  <2>2. \A d \in D : d \in Nat
    OBVIOUS
  <2> QED BY <2>1, <2>2
<1> HIDE DEF D
<1>4. PICK d \in D : \A e \in D : d <= e
  BY <1>3, LeastNumber
<1>5. d \in 0..k /\ k - d \in T
  BY <1>4 DEF D
<1>6. ASSUME NEW y \in T PROVE y <= k - d
  <2>1. y \in 1..k
    OBVIOUS
  <2>2. k - y \in 0..k /\ k - (k - y) = y
    BY <2>1
  <2>3. k - y \in D
    BY <2>2 DEF D
  <2>4. d <= k - y
    BY <1>4, <2>3
  <2> QED BY <2>1, <2>4, <1>5
<1> QED BY <1>5, <1>6

\* The members of a finite set above a number are finite; without its least there is
\* one less.
LEMMA LaterFinite ==
  ASSUME NEW S, IsFiniteSet(S), NEW n
  PROVE  /\ IsFiniteSet(Later(S, n)) /\ Cardinality(Later(S, n)) \in Nat
         /\ Cardinality(Later(S, n)) <= Cardinality(S) /\ Cardinality(S) \in Nat
<1>1. Later(S, n) \in SUBSET S
  BY DEF Later
<1>2. IsFiniteSet(Later(S, n)) /\ Cardinality(Later(S, n)) <= Cardinality(S)
  BY <1>1, FS_Subset
<1> QED BY <1>2, FS_CardinalityType
LEMMA LaterMonotone ==
  ASSUME NEW S, IsFiniteSet(S), S \subseteq Nat, NEW n \in Nat, NEW m \in Nat, n <= m
  PROVE  Cardinality(Later(S, m)) <= Cardinality(Later(S, n))
<1>1. Later(S, m) \in SUBSET Later(S, n)
  <2>1. ASSUME NEW x \in S, x > m PROVE x > n
    <3>1. x \in Nat
      OBVIOUS
    <3> QED BY <2>1, <3>1
  <2> QED BY <2>1 DEF Later
<1>2. IsFiniteSet(Later(S, n))
  BY LaterFinite
<1> QED BY <1>1, <1>2, FS_Subset
LEMMA WithoutLeast ==
  ASSUME NEW S, IsFiniteSet(S), S \subseteq Nat, S # {}
  PROVE  \E m \in S : Cardinality(S) = Cardinality(Later(S, m)) + 1
<1>1. PICK m \in S : \A y \in S : m <= y
  BY LeastNumber
<1>2. Later(S, m) = S \ {m}
  <2>1. ASSUME NEW y \in S PROVE y > m <=> y # m
    <3>1. m \in Nat /\ y \in Nat /\ m <= y
      BY <1>1
    <3> QED BY <3>1
  <2> QED BY <2>1 DEF Later
<1>3. Cardinality(S \ {m}) = Cardinality(S) - 1
  BY <1>1, FS_RemoveElement
<1>4. Cardinality(S) \in Nat
  BY FS_CardinalityType
<1> QED BY <1>1, <1>2, <1>3, <1>4

\* Latest keeps numbers of the list: a number it drops is less than all it keeps, which
\* are as many as the limit allows; and it keeps that many when there are.
LEMMA LatestFacts ==
  ASSUME NEW k \in Nat, NEW S \in SUBSET (1..k), NEW limit \in Nat, limit > 0
  PROVE  LET kept == Latest(S, limit) IN
         /\ kept \subseteq S
         /\ \A n \in S \ kept : Cardinality(kept) = limit /\ \A m \in kept : m > n
         /\ Cardinality(S) >= limit => Cardinality(kept) = limit
<1> DEFINE kept == Latest(S, limit)
<1>1. kept = {n \in S : Cardinality(Later(S, n)) < limit}
  BY DEF Latest, Later
<1>2. IsFiniteSet(S) /\ S \subseteq Nat /\ Cardinality(S) \in Nat
  <2>1. IsFiniteSet(1..k)
    BY FS_Interval
  <2>2. IsFiniteSet(S)
    BY <2>1, FS_Subset
  <2> QED BY <2>2, FS_CardinalityType
<1>3. \A n : Cardinality(Later(S, n)) \in Nat /\ IsFiniteSet(Later(S, n))
  BY <1>2, LaterFinite
<1> HIDE DEF kept
<1>4. ASSUME S \ kept # {}
      PROVE  /\ Cardinality(kept) = limit
             /\ \A n \in S \ kept : \A m \in kept : m > n
  <2>1. PICK r \in S \ kept : \A y \in S \ kept : y <= r
    <3>1. S \ kept \in SUBSET (1..k)
      OBVIOUS
    <3> QED BY <3>1, <1>4, GreatestOf
  <2>2. Cardinality(Later(S, r)) >= limit
    <3>1. ~(Cardinality(Later(S, r)) < limit)
      BY <2>1, <1>1
    <3> QED BY <3>1, <1>3
  <2>3. ASSUME NEW m \in kept PROVE m \in S /\ m > r
    <3>1. m \in S /\ Cardinality(Later(S, m)) < limit
      BY <1>1
    <3>2. CASE m <= r
      <4>1. Cardinality(Later(S, r)) <= Cardinality(Later(S, m))
        BY <3>1, <3>2, <2>1, <1>2, LaterMonotone
      <4> QED BY <4>1, <3>1, <2>2, <1>3
    <3> QED BY <3>1, <3>2, <2>1, <1>2
  <2>4. ASSUME NEW m \in Later(S, r) PROVE m \in kept
    <3>1. m \in S /\ m > r
      BY DEF Later
    <3>2. m \in Nat /\ r \in Nat
      BY <3>1, <2>1, <1>2
    <3>3. m \notin S \ kept
      BY <3>1, <3>2, <2>1
    <3> QED BY <3>1, <3>3
  <2>5. kept = Later(S, r)
    BY <2>3, <2>4 DEF Later
  <2>6. Cardinality(kept) <= limit
    <3>1. IsFiniteSet(kept) /\ kept \subseteq Nat
      BY <2>5, <1>3, <1>2, <2>3
    <3>2. kept # {}
      <4>1. Cardinality(kept) # 0
        BY <2>5, <2>2
      <4> QED BY <4>1, FS_EmptySet
    <3>3. PICK m \in kept : Cardinality(kept) = Cardinality(Later(kept, m)) + 1
      BY <3>1, <3>2, WithoutLeast
    <3>4. Later(kept, m) \in SUBSET Later(S, m)
      BY <2>3 DEF Later
    <3>5. Cardinality(Later(kept, m)) <= Cardinality(Later(S, m))
      BY <3>4, <1>3, FS_Subset
    <3>6. Cardinality(Later(S, m)) < limit
      BY <1>1
    <3>7. Cardinality(Later(kept, m)) \in Nat
      BY <3>1, LaterFinite
    <3> QED BY <3>3, <3>5, <3>6, <3>7, <1>3
  <2>7. Cardinality(kept) = limit
    BY <2>5, <2>2, <2>6, <1>3
  <2>8. ASSUME NEW n \in S \ kept, NEW m \in kept PROVE m > n
    <3>1. n <= r /\ m > r
      BY <2>1, <2>3
    <3>2. n \in Nat /\ m \in Nat /\ r \in Nat
      BY <1>2, <2>1, <2>3
    <3> QED BY <3>1, <3>2
  <2> QED BY <2>7, <2>8
<1>5. ASSUME Cardinality(S) >= limit PROVE Cardinality(kept) = limit
  <2>1. CASE S \ kept # {}
    BY <2>1, <1>4
  <2>2. CASE S \ kept = {}
    <3>1. kept = S
      BY <2>2, <1>1
    <3>2. S # {}
      <4>1. Cardinality(S) # 0
        BY <1>5, <1>2
      <4> QED BY <4>1, FS_EmptySet
    <3>3. PICK m \in S : Cardinality(S) = Cardinality(Later(S, m)) + 1
      BY <1>2, <3>2, WithoutLeast
    <3>4. Cardinality(Later(S, m)) < limit
      BY <3>1, <1>1
    <3> QED BY <3>1, <3>3, <3>4, <1>5, <1>3
  <2> QED BY <2>1, <2>2
<1>6. kept \subseteq S
  BY <1>1
<1> QED BY <1>4, <1>5, <1>6 DEF kept

\* Latest as LatestRecords uses it.
LEMMA LatestNumbers ==
  ASSUME NEW records, NEW limit
  PROVE  Numbers(LatestRecords(records, limit)) = Latest(Numbers(records), limit)
<1>1. Latest(Numbers(records), limit) \subseteq Numbers(records)
  BY DEF Latest
<1> QED BY <1>1 DEF LatestRecords, Numbers

\* Different records with different numbers are as many as their numbers.
LEMMA AsManyNumbers ==
  ASSUME NEW records, IsFiniteSet(Numbers(records)), Unique(records)
  PROVE  Cardinality(records) = Cardinality(Numbers(records))
<1> DEFINE f == [n \in Numbers(records) |-> CHOOSE r \in records : r.n = n]
<1>1. ASSUME NEW n \in Numbers(records) PROVE f[n] \in records /\ f[n].n = n
  <2>1. \E r \in records : r.n = n
    BY DEF Numbers
  <2> QED BY <2>1
<1>2. ASSUME NEW r \in records PROVE r.n \in Numbers(records) /\ f[r.n] = r
  <2>1. r.n \in Numbers(records)
    BY DEF Numbers
  <2>2. f[r.n] \in records /\ f[r.n].n = r.n
    BY <2>1, <1>1
  <2> QED BY <2>1, <2>2 DEF Unique
<1> HIDE DEF f
<1>3. f \in [Numbers(records) -> records]
  BY <1>1 DEF f
<1>4. f \in Bijection(Numbers(records), records)
  <2>1. \A n, m \in Numbers(records) : f[n] = f[m] => n = m
    BY <1>1
  <2>2. \A r \in records : \E n \in Numbers(records) : f[n] = r
    BY <1>2
  <2>3. f \in Injection(Numbers(records), records)
    BY <2>1, <1>3 DEF Injection, IsInjective
  <2>4. f \in Surjection(Numbers(records), records)
    BY <2>2, <1>3 DEF Surjection
  <2> QED BY <2>3, <2>4 DEF Bijection
<1>5. ExistsBijection(Numbers(records), records)
  BY <1>4 DEF ExistsBijection
<1> QED BY <1>5, FS_Bijection

\* The newest of what is kept are kept, and what replaces the rest is newer.
LEMMA KeptNewest ==
  ASSUME NEW k \in Nat, NEW S \in SUBSET (1..k), NEW A \in SUBSET (1..k), KeptOf(S, A), JournalMax \in Nat,
         JournalMax > 0
  PROVE  /\ KeptOf(Latest(S, JournalMax), A)
         /\ KeptOf(Latest(S \union {k + 1}, JournalMax), A \union {k + 1})
<1>1. ASSUME NEW n \in A, NEW U \in SUBSET (1..(k + 1)), S \subseteq U, U \subseteq S \union {k + 1}
      PROVE  LET kept == Latest(U, JournalMax)
             IN n \in kept \/ (Cardinality(kept) = JournalMax /\ \A m \in kept : m > n)
  <2> DEFINE kept == Latest(U, JournalMax)
  <2>1. /\ kept \subseteq U
        /\ \A x \in U \ kept : Cardinality(kept) = JournalMax /\ \A m \in kept : m > x
        /\ Cardinality(U) >= JournalMax => Cardinality(kept) = JournalMax
    BY LatestFacts, k + 1 \in Nat
  <2> SUFFICES n \in kept \/ (Cardinality(kept) = JournalMax /\ \A m \in kept : m > n)
    OBVIOUS
  <2> HIDE DEF kept
  <2>2. CASE n \in S
    <3>1. n \in U
      BY <2>2, <1>1
    <3> QED BY <3>1, <2>1
  <2>3. CASE n \notin S
    <3>1. Cardinality(S) = JournalMax /\ \A m \in S : m > n
      BY <2>3 DEF KeptOf
    <3>2. IsFiniteSet(U)
      <4>1. IsFiniteSet(1..(k + 1))
        BY FS_Interval, k + 1 \in Int, 1 \in Int
      <4> QED BY <4>1, FS_Subset
    <3>3. Cardinality(U) >= JournalMax
      <4>1. Cardinality(S) <= Cardinality(U)
        BY <3>2, <1>1, FS_Subset
      <4>2. Cardinality(U) \in Nat
        BY <3>2, FS_CardinalityType
      <4> QED BY <4>1, <4>2, <3>1
    <3>4. ASSUME NEW m \in kept PROVE m > n
      <4>1. m \in S \/ m = k + 1
        BY <2>1, <1>1
      <4>2. n \in 1..k /\ k + 1 > n
        OBVIOUS
      <4> QED BY <4>1, <4>2, <3>1
    <3> QED BY <3>3, <3>4, <2>1
  <2> QED BY <2>2, <2>3
<1>2. KeptOf(Latest(S, JournalMax), A)
  <2>1. S \in SUBSET (1..(k + 1))
    OBVIOUS
  <2> QED BY <1>1, <2>1 DEF KeptOf
<1>3. KeptOf(Latest(S \union {k + 1}, JournalMax), A \union {k + 1})
  <2> DEFINE U == S \union {k + 1}
             kept == Latest(U, JournalMax)
  <2>1. U \in SUBSET (1..(k + 1)) /\ S \subseteq U /\ U \subseteq S \union {k + 1}
    <3>1. k + 1 \in 1..(k + 1) /\ 1..k \subseteq 1..(k + 1)
      OBVIOUS
    <3> QED BY <3>1
  <2>2. \A x \in U \ kept : Cardinality(kept) = JournalMax /\ \A m \in kept : m > x
    BY <2>1, LatestFacts, k + 1 \in Nat
  <2>3. k + 1 \in U
    OBVIOUS
  <2> HIDE DEF U
  <2>4. ASSUME NEW n \in A
        PROVE  n \in kept \/ (Cardinality(kept) = JournalMax /\ \A m \in kept : m > n)
    BY <1>1, <2>1
  <2> HIDE DEF kept
  <2>5. KeptOf(kept, A \union {k + 1})
    BY <2>2, <2>3, <2>4 DEF KeptOf
  <2> QED BY <2>5 DEF kept, U
<1> QED BY <1>2, <1>3

-----------------------------------------------------------------------------
\* A line and its first record.
LEMMA LineFacts ==
  ASSUME JournalsTypeOK, NEW i \in DOMAIN entries
  PROVE  /\ entries[i] \in LineOf /\ entries[i].recs[1] \in Records
         /\ FirstOf(entries, i) \in 1..MaxRecords
         /\ Len(entries[i].recs) \in Nat \ {0}
<1>1. entries[i] \in LineOf /\ entries[i].recs # <<>>
  BY DEF JournalsTypeOK
<1> DEFINE recs == entries[i].recs
<1>2. recs \in Seq(Records) /\ recs # <<>>
  BY <1>1 DEF LineOf
<1> HIDE DEF recs
<1>3. recs[1] \in Records /\ Len(recs) \in Nat \ {0}
  BY <1>2
<1>4. recs[1].n \in 1..MaxRecords
  BY <1>3 DEF Records
<1> QED BY <1>1, <1>3, <1>4 DEF recs, FirstOf

\* A record continues the line that is still open, whose beginning does not change.
ContinuedAs(es, closed) ==
  /\ es \in Seq(LineOf) /\ DOMAIN es = DOMAIN entries /\ Len(es) = Len(entries) /\ es # <<>>
  /\ \A i \in DOMAIN es : es[i].recs # <<>> /\ FirstOf(es, i) = FirstOf(entries, i)
  /\ \A i \in DOMAIN es : i # Len(entries) => es[i] = entries[i]
  /\ es[Len(entries)].closed = closed
LEMMA Continued ==
  ASSUME JournalsTypeOK, NEW r \in Records, NEW closed \in BOOLEAN, entries # <<>>, NEW es,
         es = [entries EXCEPT ![Len(entries)].recs = Append(@, r), ![Len(entries)].closed = closed]
  PROVE  ContinuedAs(es, closed)
<1> DEFINE end == Len(entries)
           line == [entries[end] EXCEPT !.recs = Append(@, r), !.closed = closed]
<1>1. entries \in Seq(LineOf)
  BY DEF JournalsTypeOK
<1>2. end \in Nat \ {0} /\ DOMAIN entries = 1..end
  BY <1>1
<1>3. entries[end] \in LineOf /\ entries[end].recs # <<>>
  BY <1>2, LineFacts DEF JournalsTypeOK
<1>4. entries[end].recs \in Seq(Records) /\ entries[end].whole \in BOOLEAN
  BY <1>3 DEF LineOf
<1>5. /\ Append(entries[end].recs, r) \in Seq(Records)
      /\ Append(entries[end].recs, r)[1] = entries[end].recs[1]
      /\ Append(entries[end].recs, r) # <<>>
  <2> DEFINE recs == entries[end].recs
  <2>1. recs \in Seq(Records) /\ recs # <<>>
    BY <1>3, <1>4
  <2> HIDE DEF recs
  <2>2. Append(recs, r) \in Seq(Records) /\ Append(recs, r)[1] = recs[1] /\ Append(recs, r) # <<>>
    BY <2>1
  <2> QED BY <2>2 DEF recs
<1>6. /\ line \in LineOf /\ line.recs = Append(entries[end].recs, r) /\ line.closed = closed
  BY <1>3, <1>4, <1>5 DEF LineOf
<1> HIDE DEF line
<1>7. es = [entries EXCEPT ![end] = line]
  BY <1>1, <1>2, <1>3 DEF line, LineOf
<1>8. es \in Seq(LineOf) /\ Len(es) = end /\ DOMAIN es = 1..end
  <2>1. end \in 1..Len(entries)
    BY <1>2
  <2>2. /\ [entries EXCEPT ![end] = line] \in Seq(LineOf)
        /\ Len([entries EXCEPT ![end] = line]) = Len(entries)
    BY <1>1, <2>1, <1>6, ExceptSeq
  <2>3. es \in Seq(LineOf) /\ Len(es) = end
    BY <2>2, <1>7
  <2>4. DOMAIN es = 1..Len(es)
    BY <2>3
  <2> QED BY <2>3, <2>4
<1>9. ASSUME NEW i \in 1..end
      PROVE  es[i] = IF i = end THEN line ELSE entries[i]
  BY <1>1, <1>2, <1>7
<1>10. ASSUME NEW i \in 1..end
       PROVE  es[i].recs # <<>> /\ FirstOf(es, i) = FirstOf(entries, i)
  <2>1. CASE i = end
    BY <2>1, <1>9, <1>6, <1>5 DEF FirstOf
  <2>2. CASE i # end
    <3>1. entries[i].recs # <<>>
      BY <1>2 DEF JournalsTypeOK
    <3> QED BY <2>2, <3>1, <1>9 DEF FirstOf
  <2> QED BY <2>1, <2>2
<1>11. es # <<>>
  BY <1>8, <1>2
<1>12. es[end].closed = closed
  BY <1>9, <1>6, <1>2
<1>13. \A i \in DOMAIN es : i # end => es[i] = entries[i]
  BY <1>8, <1>9
<1>14. \A i \in DOMAIN es : es[i].recs # <<>> /\ FirstOf(es, i) = FirstOf(entries, i)
  BY <1>8, <1>10
<1> QED BY <1>2, <1>8, <1>11, <1>12, <1>13, <1>14 DEF ContinuedAs

\* ... or begins a line.
BegunAs(es, line) ==
  /\ es \in Seq(LineOf) /\ Len(es) = Len(entries) + 1 /\ es # <<>>
  /\ DOMAIN es = DOMAIN entries \union {Len(es)}
  /\ \A i \in DOMAIN entries : es[i] = entries[i] /\ i < Len(es)
  /\ es[Len(es)] = line
  /\ \A i \in DOMAIN es : es[i].recs # <<>>
LEMMA Begun ==
  ASSUME JournalsTypeOK, NEW r \in Records, NEW outcome \in Outcomes, NEW es,
         es = Append(entries, Line(r, outcome))
  PROVE  BegunAs(es, Line(r, outcome))
<1> DEFINE line == Line(r, outcome)
<1>1. line \in LineOf /\ line.recs # <<>>
  BY DEF Line, LineOf
<1>2. entries \in Seq(LineOf) /\ Len(entries) \in Nat /\ DOMAIN entries = 1..Len(entries)
  BY DEF JournalsTypeOK
<1> HIDE DEF line
<1>3. es = Append(entries, line)
  BY DEF line
<1>4. es \in Seq(LineOf) /\ Len(es) = Len(entries) + 1 /\ es # <<>> /\ es[Len(es)] = line
  BY <1>1, <1>2, <1>3
<1>5. DOMAIN es = 1..(Len(entries) + 1)
  BY <1>4
<1>6. ASSUME NEW i \in DOMAIN entries PROVE es[i] = entries[i] /\ i < Len(es)
  BY <1>2, <1>3, <1>1, <1>4
<1>7. DOMAIN es = DOMAIN entries \union {Len(es)}
  BY <1>2, <1>4, <1>5
<1>8. \A i \in DOMAIN es : es[i].recs # <<>>
  BY <1>1, <1>4, <1>6, <1>7 DEF JournalsTypeOK
<1>9. BegunAs(es, line)
  BY <1>4, <1>6, <1>7, <1>8 DEF BegunAs
<1> QED BY <1>9 DEF line

\* Whatever a write leaves of a record, the lines are kept in order, and what was
\* acknowledged can still be read.
LEMMA LinesAppended ==
  ASSUME JournalsTypeOK, LinesKept(entries, tries, ackd), NEW r \in Records, r.n = tries + 1,
         NEW outcome \in Outcomes, NEW es, es = Appended(r, outcome),
         NEW A, A = ackd \union {k \in {r.n} : outcome = "written"}
  PROVE  /\ es \in Seq(LineOf) /\ \A i \in DOMAIN es : es[i].recs # <<>>
         /\ LinesKept(es, tries + 1, A)
<1> DEFINE t == tries
<1>1. /\ entries \in Seq(LineOf) /\ t \in Nat /\ ackd \subseteq 1..t
      /\ \A i \in DOMAIN entries : entries[i].recs # <<>>
      /\ DOMAIN entries = 1..Len(entries) /\ Len(entries) \in Nat
  BY DEF JournalsTypeOK
<1>2. \A i \in DOMAIN entries : FirstOf(entries, i) \in 1..t
  <2>1. ASSUME NEW i \in DOMAIN entries PROVE FirstOf(entries, i) \in 1..t
    <3>1. FirstOf(entries, i) \in 1..MaxRecords /\ FirstOf(entries, i) <= t
      BY LineFacts DEF LinesKept
    <3> QED BY <3>1, <1>1
  <2> QED BY <2>1
<1>3. r.n = t + 1 /\ t + 1 \notin ackd
  BY <1>1
<1>4. ASSUME NEW n \in ackd, After1(A, n) PROVE Finished(entries, n)
  <2>1. n \in 1..t /\ n - 1 # t + 1
    BY <1>1
  <2>2. After1(ackd, n)
    BY <2>1, <1>3, <1>4 DEF After1
  <2> QED BY <2>2 DEF LinesKept
<1>5. ASSUME t + 1 \in A, After1(A, t + 1) PROVE entries = <<>> \/ entries[Len(entries)].closed
  <2>1. CASE t = 0
    <3>1. ASSUME NEW i \in DOMAIN entries PROVE FALSE
      <4>1. FirstOf(entries, i) \in 1..0
        BY <1>2, <2>1
      <4> QED BY <4>1
    <3>2. Len(entries) = 0
      BY <3>1, <1>1
    <3> QED BY <3>2, <1>1
  <2>2. CASE t # 0
    <3>1. t \in A
      BY <2>2, <1>5, <1>1 DEF After1
    <3>2. t \in ackd
      BY <3>1, <1>1, <1>3
    <3> QED BY <3>2 DEF LinesKept
  <2> QED BY <2>1, <2>2
<1>6. A \subseteq ackd \union {t + 1} /\ (t + 1 \in A <=> outcome = "written")
  BY <1>3
<1> HIDE DEF t
<1>7. CASE outcome = "nothing"
  <2>1. es = entries /\ A = ackd
    BY <1>7 DEF Appended
  <2>2. t + 1 \notin A
    BY <2>1, <1>3
  <2>3. \A i \in DOMAIN es : FirstOf(es, i) <= t + 1
    BY <2>1, <1>2, <1>1
  <2>4. LinesKept(es, t + 1, A)
    BY <2>1, <2>2, <2>3, <1>4 DEF LinesKept
  <2> QED BY <2>1, <2>4, <1>1 DEF t
<1>8. CASE outcome # "nothing" /\ entries # <<>> /\ ~entries[Len(entries)].closed
  <2>1. es = [entries EXCEPT ![Len(entries)].recs = Append(@, r),
                             ![Len(entries)].closed = (outcome = "written")]
    BY <1>8 DEF Appended
  <2> DEFINE closed == outcome = "written"
  <2>2. closed \in BOOLEAN
    OBVIOUS
  <2>3. /\ es \in Seq(LineOf) /\ DOMAIN es = DOMAIN entries /\ Len(es) = Len(entries) /\ es # <<>>
        /\ \A i \in DOMAIN es : es[i].recs # <<>> /\ FirstOf(es, i) = FirstOf(entries, i)
        /\ \A i \in DOMAIN es : i # Len(entries) => es[i] = entries[i]
        /\ es[Len(entries)].closed = closed
    <3>1. ContinuedAs(es, closed)
      BY <2>1, <2>2, <1>8, Continued
    <3> QED BY <3>1 DEF ContinuedAs
  <2>4. \A i, j \in DOMAIN es : i < j => FirstOf(es, i) < FirstOf(es, j)
    <3>1. \A i, j \in DOMAIN entries : i < j => FirstOf(entries, i) < FirstOf(entries, j)
      BY DEF LinesKept
    <3> QED BY <3>1, <2>3
  <2>5. \A i \in DOMAIN es : FirstOf(es, i) <= t + 1
    BY <2>3, <1>2, <1>1
  <2>6. ~es[Len(es)].closed => t + 1 \notin A
    BY <2>3, <1>6
  <2>7. ASSUME NEW n \in A, After1(A, n) PROVE Finished(es, n)
    <3>1. n \in ackd
      BY <2>7, <1>5, <1>6, <1>8
    <3>2. PICK i \in DOMAIN entries : Readable(entries[i]) /\ entries[i].closed /\ FirstOf(entries, i) = n
      BY <3>1, <2>7, <1>4 DEF Finished
    <3>3. i # Len(entries) /\ i \in DOMAIN es
      BY <3>2, <1>8, <2>3
    <3>4. es[i] = entries[i] /\ FirstOf(es, i) = n
      BY <3>2, <3>3, <2>3
    <3> QED BY <3>2, <3>3, <3>4 DEF Finished
  <2>8. LinesKept(es, t + 1, A)
    BY <2>4, <2>5, <2>6, <2>7 DEF LinesKept
  <2> QED BY <2>3, <2>8 DEF t
<1>9. CASE outcome # "nothing" /\ ~(entries # <<>> /\ ~entries[Len(entries)].closed)
  <2>1. es = Append(entries, Line(r, outcome))
    BY <1>9 DEF Appended
  <2>2. /\ es \in Seq(LineOf) /\ Len(es) = Len(entries) + 1 /\ es # <<>>
        /\ DOMAIN es = DOMAIN entries \union {Len(es)}
        /\ \A i \in DOMAIN entries : es[i] = entries[i] /\ i < Len(es)
        /\ es[Len(es)] = Line(r, outcome)
        /\ \A i \in DOMAIN es : es[i].recs # <<>>
    <3>1. BegunAs(es, Line(r, outcome))
      BY <2>1, Begun
    <3> QED BY <3>1 DEF BegunAs
  <2>3. FirstOf(es, Len(es)) = t + 1
    BY <2>2, <1>3 DEF FirstOf, Line
  <2>4. \A i \in DOMAIN entries : FirstOf(es, i) = FirstOf(entries, i)
    BY <2>2 DEF FirstOf
  <2>5. ASSUME NEW i \in DOMAIN es, NEW j \in DOMAIN es, i < j
        PROVE  FirstOf(es, i) < FirstOf(es, j)
    <3>1. i \in DOMAIN entries
      <4>1. i # Len(es)
        <5>1. j <= Len(es) /\ Len(es) \in Nat
          BY <2>2, <1>1
        <5>2. i \in Nat /\ j \in Nat
          BY <2>2, <1>1
        <5> QED BY <5>1, <5>2, <2>5
      <4> QED BY <4>1, <2>2
    <3>2. CASE j \in DOMAIN entries
      BY <3>1, <3>2, <2>4, <2>5 DEF LinesKept
    <3>3. CASE j = Len(es)
      BY <3>1, <3>3, <2>3, <2>4, <1>2, <1>1
    <3> QED BY <3>2, <3>3, <2>2
  <2>6. \A i \in DOMAIN es : FirstOf(es, i) <= t + 1
    BY <2>2, <2>3, <2>4, <1>2, <1>1
  <2>7. ~es[Len(es)].closed => t + 1 \notin A
    <3>1. Line(r, outcome).closed = (outcome = "written")
      BY DEF Line
    <3> QED BY <2>2, <3>1, <1>6
  <2>8. ASSUME NEW n \in A, After1(A, n) PROVE Finished(es, n)
    <3>1. CASE n \in ackd
      <4>1. PICK i \in DOMAIN entries : Readable(entries[i]) /\ entries[i].closed /\ FirstOf(entries, i) = n
        BY <3>1, <2>8, <1>4 DEF Finished
      <4>2. i \in DOMAIN es /\ es[i] = entries[i] /\ FirstOf(es, i) = n
        BY <4>1, <2>2, <2>4
      <4> QED BY <4>1, <4>2 DEF Finished
    <3>2. CASE n = t + 1
      <4>1. outcome = "written"
        BY <3>2, <1>6
      <4>2. Readable(Line(r, outcome)) /\ Line(r, outcome).closed
        BY <4>1 DEF Readable, Line
      <4>3. Len(es) \in DOMAIN es
        BY <2>2
      <4> QED BY <4>2, <4>3, <3>2, <2>2, <2>3 DEF Finished
    <3> QED BY <3>1, <3>2, <1>6
  <2>9. LinesKept(es, t + 1, A)
    BY <2>5, <2>6, <2>7, <2>8 DEF LinesKept
  <2> QED BY <2>2, <2>9 DEF t
<1> QED BY <1>7, <1>8, <1>9

-----------------------------------------------------------------------------
\* Less was promised of fewer records.
LEMMA KeptOfFewer ==
  ASSUME NEW S, NEW A, NEW B, B \subseteq A, KeptOf(S, A)
  PROVE  KeptOf(S, B)
BY DEF KeptOf

\* Scanning the file finds records in their order, and the acknowledged ones that
\* follow one that was.
ScanWhole ==
  /\ Scan \subseteq Records /\ Numbers(Scan) \subseteq 1..tries /\ Unique(Scan)
  /\ Fresh(ackd) \subseteq Numbers(Scan)
LEMMA ScanFacts ==
  ASSUME JournalsTypeOK, LinesKept(entries, tries, ackd)
  PROVE  ScanWhole
<1>1. ASSUME NEW x \in Scan
      PROVE  \E i \in DOMAIN entries : Readable(entries[i]) /\ x = entries[i].recs[1]
  BY <1>1 DEF Scan
<1>2. Scan \subseteq Records
  <2>1. ASSUME NEW x \in Scan PROVE x \in Records
    <3>1. PICK i \in DOMAIN entries : x = entries[i].recs[1]
      BY <1>1
    <3> QED BY <3>1, LineFacts
  <2> QED BY <2>1
<1>3. Numbers(Scan) \subseteq 1..tries
  <2>1. ASSUME NEW x \in Scan PROVE x.n \in 1..tries
    <3>1. PICK i \in DOMAIN entries : x = entries[i].recs[1]
      BY <1>1
    <3>2. x.n = FirstOf(entries, i)
      BY <3>1 DEF FirstOf
    <3>3. x.n \in 1..MaxRecords /\ x.n <= tries
      BY <3>2, LineFacts DEF LinesKept
    <3>4. tries \in Nat
      BY DEF JournalsTypeOK
    <3> QED BY <3>3, <3>4
  <2> QED BY <2>1 DEF Numbers
<1>4. ASSUME NEW x \in Scan, NEW y \in Scan, x.n = y.n PROVE x = y
  <2>1. PICK i \in DOMAIN entries : x = entries[i].recs[1]
    BY <1>1
  <2>2. PICK j \in DOMAIN entries : y = entries[j].recs[1]
    BY <1>1
  <2>3. FirstOf(entries, i) = FirstOf(entries, j)
    BY <2>1, <2>2, <1>4 DEF FirstOf
  <2>4. i \in Nat /\ j \in Nat /\ FirstOf(entries, i) \in Nat
    <3>1. FirstOf(entries, i) \in 1..MaxRecords
      BY LineFacts
    <3>2. DOMAIN entries = 1..Len(entries)
      BY DEF JournalsTypeOK
    <3> QED BY <3>1, <3>2
  <2>5. ~(i < j) /\ ~(j < i)
    <3>1. i < j => FirstOf(entries, i) < FirstOf(entries, j)
      BY DEF LinesKept
    <3>2. j < i => FirstOf(entries, j) < FirstOf(entries, i)
      BY DEF LinesKept
    <3> QED BY <3>1, <3>2, <2>3, <2>4
  <2> QED BY <2>1, <2>2, <2>4, <2>5
<1>5. ASSUME NEW n \in Fresh(ackd) PROVE n \in Numbers(Scan)
  <2>1. Finished(entries, n)
    BY DEF Fresh, LinesKept
  <2>2. PICK i \in DOMAIN entries : Readable(entries[i]) /\ FirstOf(entries, i) = n
    BY <2>1 DEF Finished
  <2>3. entries[i].recs[1] \in Scan
    BY <2>2 DEF Scan
  <2> QED BY <2>2, <2>3 DEF Numbers, FirstOf
<1>6. Unique(Scan)
  BY <1>4 DEF Unique
<1> QED BY <1>2, <1>3, <1>5, <1>6 DEF ScanWhole

\* Query with a limit no file exceeds returns every event.
LEMMA QueryAll ==
  ASSUME JournalsTypeOK, ScanWhole, journal = "analytics"
  PROVE  Visible = Numbers(Scan)
<1> DEFINE all == Numbers(Scan)
<1>1. tries \in 0..MaxRecords /\ MaxRecords \in Nat /\ all \subseteq 1..MaxRecords
  BY JournalsAssumption DEF JournalsTypeOK, ScanWhole
<1>2. {r \in Scan : r.time >= 0 /\ r.time <= LastMoment} = Scan
  <2>1. ASSUME NEW r \in Scan PROVE r.time >= 0 /\ r.time <= LastMoment
    <3>1. r \in Records
      BY DEF ScanWhole
    <3>2. r.time \in 0..LastMoment
      BY <3>1 DEF Records
    <3> QED BY <3>2, JournalsAssumption
  <2> QED BY <2>1
<1>3. QueryEvents(0, LastMoment, MaxRecords).events = LatestRecords(Scan, MaxRecords)
  BY <1>2 DEF QueryEvents
<1>4. Visible = Latest(all, MaxRecords)
  BY <1>3, LatestNumbers DEF Visible
<1>5. ASSUME NEW n \in all PROVE Cardinality({m \in all : m > n}) < MaxRecords
  <2> DEFINE above == {m \in all : m > n}
  <2>1. n \in 1..MaxRecords /\ n + 1 \in Int /\ MaxRecords \in Int
    BY <1>1
  <2>2. above \in SUBSET ((n + 1)..MaxRecords)
    BY <1>1, <2>1
  <2> HIDE DEF above
  <2>3. /\ IsFiniteSet((n + 1)..MaxRecords)
        /\ Cardinality((n + 1)..MaxRecords) = IF n + 1 > MaxRecords THEN 0 ELSE MaxRecords - (n + 1) + 1
    BY <2>1, FS_Interval
  <2>4. IsFiniteSet(above) /\ Cardinality(above) <= Cardinality((n + 1)..MaxRecords)
    BY <2>2, <2>3, FS_Subset
  <2>5. Cardinality(above) \in Nat
    BY <2>4, FS_CardinalityType
  <2>6. Cardinality(above) < MaxRecords
    BY <2>1, <2>3, <2>4, <2>5, <1>1
  <2> QED BY <2>6 DEF above
<1>6. Latest(all, MaxRecords) = all
  BY <1>5 DEF Latest
<1> QED BY <1>4, <1>6

\* Compare at the time of an event has it in one of its windows.
LEMMA CompareAll ==
  ASSUME JournalsTypeOK, ScanWhole, journal = "network"
  PROVE  Numbers(Scan) \subseteq Visible
<1>1. ASSUME NEW r \in Scan PROVE r.n \in Visible
  <2>1. r \in Records
    BY DEF ScanWhole
  <2>2. r.time \in 0..LastMoment /\ r.time \in Nat
    BY <2>1, JournalsAssumption DEF Records
  <2>3. Historically \in Nat /\ r.time >= r.time - Historically /\ r.time <= r.time
    BY <2>2, JournalsAssumption
  <2>4. r \in Compare(r.time).recent \union Compare(r.time).historical
    BY <2>3 DEF Compare
  <2>5. r.n \in Numbers(Compare(r.time).recent \union Compare(r.time).historical)
    BY <2>4 DEF Numbers
  <2> QED BY <2>2, <2>5 DEF Visible
<1> QED BY <1>1 DEF Numbers

\* Range and Nearest show the snapshots in memory: there is always a nearest one.
LEMMA NearestThere ==
  ASSUME remembered \subseteq Records, remembered # {}, NEW at \in 0..LastMoment
  PROVE  Nearest(at) \in remembered
<1> DEFINE D(r) == Distance(r.time, at)
           near == {D(r) : r \in remembered}
<1>1. ASSUME NEW r \in remembered PROVE D(r) \in Nat /\ r.n \in Nat
  <2>1. r.time \in 0..LastMoment /\ r.n \in 1..MaxRecords
    BY DEF Records
  <2>2. at \in Nat /\ r.time \in Nat
    BY <2>1, JournalsAssumption
  <2> QED BY <2>1, <2>2 DEF Distance
<1> HIDE DEF D
<1>2. near \subseteq Nat /\ near # {}
  BY <1>1
<1>3. PICK d \in near : \A e \in near : d <= e
  BY <1>2, LeastNumber
<1> DEFINE best == {r \in remembered : D(r) = d}
           first == Numbers(best)
<1>4. first \subseteq Nat /\ first # {}
  BY <1>1, <1>3 DEF Numbers
<1>5. PICK n \in first : \A m \in first : n <= m
  BY <1>4, LeastNumber
<1>6. PICK r \in best : r.n = n
  BY DEF Numbers
<1>7. ASSUME NEW q \in remembered
      PROVE  D(r) < D(q) \/ (D(r) = D(q) /\ r.n <= q.n)
  <2>1. D(r) = d /\ d <= D(q) /\ d \in Nat /\ D(q) \in Nat
    BY <1>3, <1>6, <1>2, <1>1
  <2>2. CASE D(q) = d
    <3>1. q.n \in first
      BY <2>2 DEF Numbers
    <3> QED BY <3>1, <2>1, <2>2, <1>5, <1>6
  <2> QED BY <2>1, <2>2
<1>8. \E x \in remembered : \A q \in remembered : D(x) < D(q) \/ (D(x) = D(q) /\ x.n <= q.n)
  BY <1>6, <1>7
<1> QED BY <1>8 DEF Nearest, D
LEMMA RangeAll ==
  ASSUME JournalsTypeOK, journal = "timeline"
  PROVE  Visible = Numbers(remembered)
<1>1. remembered \subseteq Records
  BY DEF JournalsTypeOK
<1>2. SnapshotRange(0, LastMoment) = remembered
  <2>1. ASSUME NEW r \in remembered PROVE r.time >= 0 /\ r.time <= LastMoment
    <3>1. r.time \in 0..LastMoment
      BY <1>1 DEF Records
    <3> QED BY <3>1, JournalsAssumption
  <2> QED BY <2>1 DEF SnapshotRange
<1>3. \A at \in {t \in 0..LastMoment : remembered # {}} : Nearest(at).n \in Numbers(remembered)
  BY <1>1, NearestThere DEF Numbers
<1> QED BY <1>2, <1>3 DEF Visible

\* The stores keep their word in every state the invariant allows.
LEMMA JournalsSound ==
  ASSUME JournalsInv
  PROVE  StoresKeepTheirWord
<1>1. JournalsTypeOK
  BY DEF JournalsInv
<1>2. CASE journal \in {"analytics", "network"}
  <2>1. ScanWhole
    BY <1>1, <1>2, ScanFacts DEF JournalsInv, JournalStores
  <2>2. Numbers(Scan) \subseteq Visible
    BY <1>1, <1>2, <2>1, QueryAll, CompareAll
  <2>3. \A n \in ackd : (n = 1 \/ n - 1 \in ackd) => n \in Visible
    BY <2>1, <2>2 DEF ScanWhole, Fresh, After1
  <2>4. journal \in JournalStores /\ journal # "tuning"
    BY <1>2 DEF JournalStores
  <2> QED BY <2>3, <2>4 DEF StoresKeepTheirWord, AcknowledgedKept, SuppressionsKept
<1>3. CASE journal = "timeline"
  <2>1. Visible = Numbers(remembered)
    BY <1>1, <1>3, RangeAll
  <2>2. IsFiniteSet(Numbers(remembered))
    <3>1. Numbers(remembered) \subseteq 1..tries /\ tries \in Nat
      BY <1>1, <1>3 DEF JournalsTypeOK
    <3>2. IsFiniteSet(1..tries)
      BY <3>1, FS_Interval, 1 \in Int, tries \in Int
    <3> QED BY <3>1, <3>2, FS_Subset
  <2>3. Cardinality(remembered) = Cardinality(Numbers(remembered))
    BY <1>3, <2>2, AsManyNumbers DEF JournalsInv
  <2>4. KeptOf(Numbers(remembered), Fresh(ackd))
    BY <1>3 DEF JournalsInv
  <2>5. ASSUME NEW n \in ackd, n = 1 \/ n - 1 \in ackd PROVE n \in Visible \/ Dropped(n)
    <3>1. n \in Fresh(ackd)
      BY <2>5 DEF Fresh, After1
    <3>2. n \in Visible \/ (Cardinality(remembered) = JournalMax /\ \A m \in Visible : m > n)
      BY <3>1, <2>1, <2>3, <2>4 DEF KeptOf
    <3> QED BY <3>2, <1>3 DEF Dropped
  <2>6. journal \in JournalStores /\ journal # "tuning"
    BY <1>3 DEF JournalStores
  <2> QED BY <2>5, <2>6 DEF StoresKeepTheirWord, AcknowledgedKept, SuppressionsKept
<1>4. CASE journal = "quality"
  <2>1. Visible = remembered
    BY <1>4 DEF Visible
  <2>2. KeptOf(remembered, ackd)
    BY <1>4 DEF JournalsInv
  <2>3. \A n \in ackd : n \in Visible \/ Dropped(n)
    BY <2>1, <2>2, <1>4 DEF KeptOf, Dropped
  <2> QED BY <2>3, <1>4 DEF StoresKeepTheirWord, AcknowledgedKept, SuppressionsKept
<1>5. CASE journal = "tuning"
  <2>1. Visible = remembered
    BY <1>5 DEF Visible
  <2>2. RulesKept
    BY <1>5 DEF JournalsInv
  <2> QED BY <2>1, <2>2, <1>5 DEF RulesKept, StoresKeepTheirWord, AcknowledgedKept, SuppressionsKept
<1> QED BY <1>1, <1>2, <1>3, <1>4, <1>5 DEF JournalsTypeOK, JournalStores, DocumentStores

\* Nothing has been recorded at first.
LEMMA JournalsStart == JournalsInit => JournalsInv
<1> SUFFICES ASSUME JournalsInit PROVE JournalsInv
  OBVIOUS
<1>1. JournalsTypeOK
  BY JournalsAssumption DEF JournalsInit, JournalsTypeOK, Numbers
<1>2. LinesKept(entries, tries, ackd)
  BY DEF JournalsInit, LinesKept
<1>3. Unique(remembered) /\ KeptOf(Numbers(remembered), Fresh(ackd))
  BY DEF JournalsInit, Unique, KeptOf, Fresh
<1>4. KeptOf(remembered, ackd) /\ KeptOf(document, ackd)
  BY DEF JournalsInit, KeptOf
<1>5. RulesKept
  BY DEF JournalsInit, RulesKept
<1> QED BY <1>1, <1>2, <1>3, <1>4, <1>5 DEF JournalsInv

\* A record is tried under the next number.
Tried(n, outcome) == Try(n) /\ Acknowledge(outcome, n)
LEMMA TriedNext ==
  ASSUME JournalsTypeOK, NEW n, NEW outcome, Tried(n, outcome), gone' = gone
  PROVE  /\ n = tries + 1 /\ tries' = n /\ tries' \in 0..MaxRecords /\ tries \in Nat
         /\ ackd' = ackd \union {k \in {n} : outcome = "written"}
         /\ ackd' \subseteq 1..tries' /\ gone' \subseteq 1..tries' /\ 1..tries \subseteq 1..tries'
         /\ Fresh(ackd') \subseteq Fresh(ackd) \union {n}
<1>1. n = tries + 1 /\ tries' = n /\ tries < MaxRecords /\ tries \in 0..MaxRecords /\ MaxRecords \in Nat
  BY JournalsAssumption DEF JournalsTypeOK, Tried, Try
<1>2. ackd' = ackd \union {k \in {n} : outcome = "written"}
  BY DEF Tried, Acknowledge
<1>3. ackd \subseteq 1..tries /\ gone \subseteq 1..tries
  BY DEF JournalsTypeOK
<1>4. 1..tries \subseteq 1..n /\ n \in 1..n
  BY <1>1
<1>5. ackd' \subseteq 1..n /\ gone' \subseteq 1..n
  BY <1>2, <1>3, <1>4
<1>6. ASSUME NEW k \in Fresh(ackd'), k # n PROVE k \in Fresh(ackd)
  <2>1. k \in ackd /\ After1(ackd', k)
    BY <1>6, <1>2 DEF Fresh
  <2>2. k \in 1..tries /\ k - 1 # n
    BY <2>1, <1>1, <1>3
  <2>3. After1(ackd, k)
    BY <2>1, <2>2, <1>2 DEF After1
  <2> QED BY <2>1, <2>3 DEF Fresh
<1>7. Fresh(ackd') \subseteq Fresh(ackd) \union {n}
  BY <1>6
<1> QED BY <1>1, <1>2, <1>4, <1>5, <1>7

\* A record's write keeps the journal's lines, whatever becomes of it.
LEMMA LinesStep ==
  ASSUME JournalsTypeOK, LinesKept(entries, tries, ackd), NEW r \in Records, NEW outcome \in Outcomes,
         Tried(r.n, outcome), entries' = Appended(r, outcome), gone' = gone
  PROVE  /\ entries' \in Seq(LineOf) /\ \A i \in DOMAIN entries' : entries'[i].recs # <<>>
         /\ LinesKept(entries', tries', ackd')
<1>1. r.n = tries + 1 /\ tries' = tries + 1 /\ ackd' = ackd \union {k \in {r.n} : outcome = "written"}
  BY TriedNext
<1>2. PICK es : es = Appended(r, outcome)
  OBVIOUS
<1>3. PICK A : A = ackd \union {k \in {r.n} : outcome = "written"}
  OBVIOUS
<1>4. /\ es \in Seq(LineOf) /\ \A i \in DOMAIN es : es[i].recs # <<>>
      /\ LinesKept(es, tries + 1, A)
  BY <1>1, <1>2, <1>3, LinesAppended
<1>5. entries' = es /\ ackd' = A
  BY <1>1, <1>2, <1>3
<1> QED BY <1>1, <1>4, <1>5

LEMMA AppendObservationInv ==
  ASSUME JournalsInv, NEW r \in Records, NEW outcome \in Outcomes, AppendObservation(r, outcome)
  PROVE  JournalsInv'
<1>1. JournalsTypeOK /\ journal \in {"analytics", "network"} /\ journal' = journal
  BY DEF JournalsInv, AppendObservation
<1>2. Tried(r.n, outcome) /\ gone' = gone /\ entries' = Appended(r, outcome)
  BY DEF AppendObservation, Tried
<1>3. LinesKept(entries, tries, ackd)
  BY <1>1 DEF JournalsInv, JournalStores
<1>4. /\ entries' \in Seq(LineOf) /\ \A i \in DOMAIN entries' : entries'[i].recs # <<>>
      /\ LinesKept(entries', tries', ackd')
  BY <1>1, <1>2, <1>3, LinesStep
<1>5. tries' \in 0..MaxRecords /\ ackd' \subseteq 1..tries' /\ gone' \subseteq 1..tries'
  BY <1>1, <1>2, TriedNext
<1>6. JournalsTypeOK'
  BY <1>1, <1>4, <1>5 DEF JournalsTypeOK, NumbersOnly, JournalStores, DocumentStores
<1> QED BY <1>1, <1>4, <1>6 DEF JournalsInv

\* The newest of the snapshots, with the one that was added.
LEMMA SnapshotsOf ==
  ASSUME NEW records, records \subseteq Records, Unique(records), NEW k \in Nat,
         Numbers(records) \subseteq 1..k, NEW r \in Records, r.n = k + 1
  PROVE  /\ records \union {r} \subseteq Records /\ Unique(records \union {r})
         /\ Numbers(records \union {r}) = Numbers(records) \union {k + 1}
<1>1. ASSUME NEW q \in records PROVE q.n # k + 1
  <2>1. q.n \in 1..k
    BY DEF Numbers
  <2> QED BY <2>1
<1>2. Unique(records \union {r})
  BY <1>1 DEF Unique
<1>3. Numbers(records \union {r}) = Numbers(records) \union {k + 1}
  BY DEF Numbers
<1> QED BY <1>2, <1>3
LEMMA LatestUnique ==
  ASSUME NEW records, records \subseteq Records, Unique(records), NEW limit
  PROVE  LatestRecords(records, limit) \subseteq Records /\ Unique(LatestRecords(records, limit))
<1>1. LatestRecords(records, limit) \subseteq records
  BY DEF LatestRecords
<1> QED BY <1>1 DEF Unique

LEMMA AddSnapshotInv ==
  ASSUME JournalsInv, NEW r \in Records, NEW outcome \in Outcomes, AddSnapshot(r, outcome)
  PROVE  JournalsInv'
<1>1. JournalsTypeOK /\ journal = "timeline" /\ journal' = journal
  BY DEF JournalsInv, AddSnapshot
<1>2. Tried(r.n, outcome) /\ gone' = gone /\ entries' = Appended(r, outcome)
  BY DEF AddSnapshot, Tried
<1>3. /\ LinesKept(entries, tries, ackd)
      /\ Unique(remembered) /\ KeptOf(Numbers(remembered), Fresh(ackd))
  BY <1>1 DEF JournalsInv, JournalStores
<1>4. /\ entries' \in Seq(LineOf) /\ \A i \in DOMAIN entries' : entries'[i].recs # <<>>
      /\ LinesKept(entries', tries', ackd')
  BY <1>1, <1>2, <1>3, LinesStep
<1>5. /\ r.n = tries + 1 /\ tries' = tries + 1 /\ tries \in Nat
      /\ tries' \in 0..MaxRecords /\ ackd' \subseteq 1..tries' /\ gone' \subseteq 1..tries'
      /\ Fresh(ackd') \subseteq Fresh(ackd) \union {tries + 1}
  BY <1>1, <1>2, TriedNext
<1> DEFINE both == remembered \union {r}
           numbers == Numbers(remembered)
<1>6. remembered \subseteq Records /\ numbers \in SUBSET (1..tries) /\ Fresh(ackd) \in SUBSET (1..tries)
  BY <1>1 DEF JournalsTypeOK, Fresh
<1>7. both \subseteq Records /\ Unique(both) /\ Numbers(both) = numbers \union {tries + 1}
  BY <1>3, <1>5, <1>6, SnapshotsOf
<1>8. KeptOf(Latest(numbers \union {tries + 1}, JournalMax), Fresh(ackd) \union {tries + 1})
  BY <1>3, <1>5, <1>6, KeptNewest, JournalsAssumption
<1>9. remembered' = LatestRecords(both, JournalMax)
  BY DEF AddSnapshot
<1> HIDE DEF both, numbers
<1>10. remembered' \subseteq Records /\ Unique(remembered')
  BY <1>7, <1>9, LatestUnique
<1>11. Numbers(remembered') = Latest(numbers \union {tries + 1}, JournalMax)
  BY <1>7, <1>9, LatestNumbers
<1>12. KeptOf(Numbers(remembered'), Fresh(ackd'))
  BY <1>5, <1>8, <1>11, KeptOfFewer
<1>13. Numbers(remembered') \subseteq 1..tries'
  <2>1. Numbers(remembered') \subseteq numbers \union {tries + 1}
    BY <1>11 DEF Latest
  <2>2. 1..tries \subseteq 1..tries' /\ tries + 1 \in 1..tries'
    BY <1>5
  <2> QED BY <2>1, <2>2, <1>6
<1>14. JournalsTypeOK'
  BY <1>1, <1>4, <1>5, <1>10, <1>13 DEF JournalsTypeOK, NumbersOnly, JournalStores, DocumentStores
<1> QED BY <1>1, <1>4, <1>10, <1>12, <1>14 DEF JournalsInv

\* Of a document store, the file is what memory is now, or what it was.
LEMMA AddRuleInv ==
  ASSUME JournalsInv, NEW n \in 1..MaxRecords, NEW outcome \in SaveOutcomes, AddRule(n, outcome)
  PROVE  JournalsInv'
<1>1. JournalsTypeOK /\ journal = "tuning" /\ journal' = journal /\ RulesKept
  BY DEF JournalsInv, AddRule
<1>2. Tried(n, outcome) /\ gone' = gone /\ deletions' = deletions /\ entries' = entries
  BY DEF AddRule, Tried
<1>3. /\ n = tries + 1 /\ tries' = n /\ tries \in Nat
      /\ ackd' = ackd \union {k \in {n} : outcome = "written"} /\ 1..tries \subseteq 1..tries'
      /\ tries' \in 0..MaxRecords /\ ackd' \subseteq 1..tries' /\ gone' \subseteq 1..tries'
  BY <1>1, <1>2, TriedNext
<1>4. /\ remembered' = remembered \union {n}
      /\ document' = (IF outcome = "written" THEN remembered' ELSE document)
  BY DEF AddRule, Save
<1>5. remembered \subseteq 1..tries /\ document \subseteq 1..tries /\ gone \subseteq 1..tries
  BY <1>1 DEF JournalsTypeOK, NumbersOnly, DocumentStores
<1>6. n \notin gone /\ n \in 1..tries'
  BY <1>3, <1>5
<1>7. RulesKept'
  BY <1>1, <1>2, <1>3, <1>4, <1>6 DEF RulesKept
<1>8. remembered' \subseteq 1..tries' /\ document' \subseteq 1..tries'
  BY <1>3, <1>4, <1>5, <1>6
<1>9. JournalsTypeOK'
  BY <1>1, <1>2, <1>3, <1>8 DEF JournalsTypeOK, NumbersOnly, JournalStores, DocumentStores
<1> QED BY <1>1, <1>7, <1>9 DEF JournalsInv, JournalStores

LEMMA DeleteRuleInv ==
  ASSUME JournalsInv, NEW n \in 1..MaxRecords, NEW outcome \in SaveOutcomes, DeleteRule(n, outcome)
  PROVE  JournalsInv'
<1>1. JournalsTypeOK /\ journal = "tuning" /\ journal' = journal /\ RulesKept /\ n \in remembered
  BY DEF JournalsInv, DeleteRule
<1>2. entries' = entries /\ tries' = tries /\ ackd' = ackd
  BY DEF DeleteRule
<1>3. /\ remembered' = remembered \ {n} /\ deletions' = deletions \union {n}
      /\ document' = (IF outcome = "written" THEN remembered' ELSE document)
      /\ gone' = gone \union {k \in {n} : outcome = "written"}
  BY DEF DeleteRule, Save
<1>4. remembered \subseteq 1..tries /\ document \subseteq 1..tries /\ gone \subseteq 1..tries
  BY <1>1 DEF JournalsTypeOK, NumbersOnly, DocumentStores
<1>5. RulesKept'
  BY <1>1, <1>2, <1>3 DEF RulesKept
<1>6. remembered' \subseteq 1..tries' /\ document' \subseteq 1..tries' /\ gone' \subseteq 1..tries'
  BY <1>1, <1>2, <1>3, <1>4
<1>7. JournalsTypeOK'
  BY <1>1, <1>2, <1>6 DEF JournalsTypeOK, NumbersOnly, JournalStores, DocumentStores
<1> QED BY <1>1, <1>5, <1>7 DEF JournalsInv, JournalStores

LEMMA RecordRunInv ==
  ASSUME JournalsInv, NEW n \in 1..MaxRecords, NEW outcome \in SaveOutcomes, RecordRun(n, outcome)
  PROVE  JournalsInv'
<1>1. JournalsTypeOK /\ journal = "quality" /\ journal' = journal
  BY DEF JournalsInv, RecordRun
<1>2. Tried(n, outcome) /\ gone' = gone /\ entries' = entries
  BY DEF RecordRun, Tried
<1>3. /\ n = tries + 1 /\ tries' = n /\ tries \in Nat
      /\ ackd' = ackd \union {k \in {n} : outcome = "written"} /\ 1..tries \subseteq 1..tries'
      /\ tries' \in 0..MaxRecords /\ ackd' \subseteq 1..tries' /\ gone' \subseteq 1..tries'
  BY <1>1, <1>2, TriedNext
<1>4. /\ remembered' = Latest(remembered \union {n}, JournalMax)
      /\ document' = (IF outcome = "written" THEN remembered' ELSE document)
  BY DEF RecordRun, Save
<1>5. /\ remembered \in SUBSET (1..tries) /\ document \subseteq 1..tries /\ ackd \in SUBSET (1..tries)
      /\ KeptOf(remembered, ackd) /\ KeptOf(document, ackd)
  BY <1>1 DEF JournalsInv, JournalsTypeOK, NumbersOnly, DocumentStores
<1>6. KeptOf(remembered', ackd \union {n})
  BY <1>3, <1>4, <1>5, KeptNewest, JournalsAssumption
<1>7. KeptOf(remembered', ackd')
  BY <1>3, <1>6, KeptOfFewer
<1>8. KeptOf(document', ackd')
  BY <1>3, <1>4, <1>5, <1>7
<1>9. remembered' \subseteq remembered \union {n} /\ n \in 1..tries'
  BY <1>3, <1>4 DEF Latest
<1>10. remembered' \subseteq 1..tries' /\ document' \subseteq 1..tries'
  BY <1>3, <1>4, <1>5, <1>9
<1>11. JournalsTypeOK'
  BY <1>1, <1>2, <1>3, <1>10 DEF JournalsTypeOK, NumbersOnly, JournalStores, DocumentStores
<1> QED BY <1>1, <1>7, <1>8, <1>11 DEF JournalsInv, JournalStores

\* The files are read again.
LEMMA ReloadInv ==
  ASSUME JournalsInv, Reload
  PROVE  JournalsInv'
<1>1. JournalsTypeOK /\ remembered' = Reread
  BY DEF JournalsInv, Reload
<1>2. /\ journal' = journal /\ entries' = entries /\ document' = document /\ tries' = tries
      /\ ackd' = ackd /\ gone' = gone /\ deletions' = deletions
  BY DEF Reload
<1>3. CASE journal = "timeline"
  <2>1. LinesKept(entries, tries, ackd)
    BY <1>3 DEF JournalsInv, JournalStores
  <2>2. ScanWhole
    BY <1>1, <2>1, ScanFacts
  <2>3. remembered' = LatestRecords(Scan, JournalMax)
    BY <1>1, <1>3 DEF Reread, DocumentStores
  <2>4. remembered' \subseteq Records /\ Unique(remembered')
    BY <2>2, <2>3, LatestUnique DEF ScanWhole
  <2>5. Numbers(remembered') = Latest(Numbers(Scan), JournalMax)
    BY <2>3, LatestNumbers
  <2>6. /\ Numbers(Scan) \in SUBSET (1..tries) /\ Fresh(ackd) \in SUBSET (1..tries) /\ tries \in Nat
        /\ KeptOf(Numbers(Scan), Fresh(ackd))
    BY <1>1, <2>2 DEF ScanWhole, JournalsTypeOK, Fresh, KeptOf
  <2>7. KeptOf(Numbers(remembered'), Fresh(ackd'))
    BY <1>2, <2>5, <2>6, KeptNewest, JournalsAssumption
  <2>8. Numbers(remembered') \subseteq 1..tries
    BY <2>5, <2>6 DEF Latest
  <2>9. JournalsTypeOK'
    BY <1>1, <1>2, <1>3, <2>4, <2>8 DEF JournalsTypeOK, NumbersOnly, DocumentStores
  <2> QED BY <1>2, <1>3, <2>1, <2>4, <2>7, <2>9 DEF JournalsInv
<1>4. CASE journal \in DocumentStores
  <2>1. remembered' = document
    BY <1>1, <1>4 DEF Reread, DocumentStores
  <2>2. JournalsTypeOK'
    BY <1>1, <1>2, <1>4, <2>1 DEF JournalsTypeOK, NumbersOnly, DocumentStores
  <2>3. CASE journal = "quality"
    <3>1. KeptOf(document, ackd)
      BY <2>3 DEF JournalsInv
    <3> QED BY <1>2, <2>1, <2>2, <2>3, <3>1 DEF JournalsInv, JournalStores
  <2>4. CASE journal = "tuning"
    <3>1. RulesKept
      BY <2>4 DEF JournalsInv
    <3>2. RulesKept'
      BY <1>2, <2>1, <3>1 DEF RulesKept
    <3> QED BY <1>2, <2>2, <2>4, <3>2 DEF JournalsInv, JournalStores
  <2> QED BY <1>4, <2>3, <2>4 DEF DocumentStores
<1>5. CASE journal \in {"analytics", "network"}
  <2>1. JournalsTypeOK'
    BY <1>1, <1>2, <1>5 DEF JournalsTypeOK, NumbersOnly, DocumentStores
  <2> QED BY <1>2, <1>5, <2>1 DEF JournalsInv, JournalStores
<1> QED BY <1>1, <1>3, <1>4, <1>5 DEF JournalsTypeOK, JournalStores

LEMMA JournalsStill == JournalsInv /\ UNCHANGED journalVars => JournalsInv'
<1> SUFFICES ASSUME JournalsInv, UNCHANGED journalVars PROVE JournalsInv'
  OBVIOUS
<1>1. /\ journal' = journal /\ entries' = entries /\ remembered' = remembered /\ document' = document
      /\ tries' = tries /\ ackd' = ackd /\ gone' = gone /\ deletions' = deletions
  BY DEF journalVars
<1>2. JournalsTypeOK'
  BY <1>1 DEF JournalsInv, JournalsTypeOK, NumbersOnly
<1> QED BY <1>1, <1>2 DEF JournalsInv, RulesKept

\* What was acknowledged can be read back, and a suppression is in force until someone
\* deletes it (AddSnapshot, Reload, DeleteRule), for any limit of the bounded stores,
\* any windows, and any records, faults and restarts.
THEOREM StoresKeepTheirWordCorrect == JournalsSpec => []StoresKeepTheirWord
<1>1. JournalsInv /\ [JournalsNext]_journalVars => JournalsInv'
  BY AppendObservationInv, AddSnapshotInv, AddRuleInv, DeleteRuleInv, RecordRunInv, ReloadInv, JournalsStill
     DEF JournalsNext
<1>2. JournalsInv => StoresKeepTheirWord
  BY JournalsSound
<1> QED BY <1>1, <1>2, JournalsStart, PTL DEF JournalsSpec
=============================================================================
