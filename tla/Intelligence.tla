----------------------------- MODULE Intelligence -----------------------------
(***************************************************************************)
(* What the program knows from others: indicators of compromise, read from *)
(* a STIX file and a TAXII collection (internal/threatintel/hub.go), and   *)
(* the catalog of exploited vulnerabilities it holds against the installed *)
(* packages (internal/vulnintel/hub.go).  Both are refreshed on a ticker,  *)
(* from sources that change and fail meanwhile, while packets are matched. *)
(*                                                                         *)
(* A page of the collection holds one object.  A record is not valid any   *)
(* more from the day "until" on; 0 is a record that does not expire.       *)
(***************************************************************************)
EXTENDS Naturals, Sequences, FiniteSets

CONSTANTS Values,        \* addresses and names an indicator may be about
          Untils,        \* the days records may expire on
          PageLimit,     \* 100: pages one refresh follows
          Vulnerabilities, Packages,
          Overlaps,      \* <<package, vulnerability>>: their names overlap
          HasURL,        \* is a KEV URL configured, and not only a file
          MaxFeed,       \* bound on the objects of the collection
          LastDay,       \* bound on the clock
          MaxRefreshes, MaxChanges, MaxFeedFaults   \* bounds

ASSUME IntelligenceAssumption ==
  /\ Untils \subseteq Nat /\ PageLimit \in Nat \ {0}
  /\ Overlaps \subseteq Packages \X Vulnerabilities /\ HasURL \in BOOLEAN
  /\ {MaxFeed, LastDay, MaxRefreshes, MaxChanges, MaxFeedFaults} \subseteq Nat

VARIABLES collection,    \* objects of the TAXII collection, in its order
          stixFile,      \* objects of the STIX file
          indicators,    \* h.indicators: at most one record of a value
          page,          \* the page the refresh asks for next, 0 if none is under way
          failed,        \* has the last refresh recorded an error
          imported,      \* values that were ever added (history)
          kevFile, kevFeed, installed,   \* what the sources of the other hub hold
          kev, packages, exposures,      \* h.kev, h.packages, h.exposures
          kevStep,       \* what its refresh does next: "idle", "packages", "file", "url"
          kevFailed,     \* did a step of the last refresh fail (nothing records it)
          moved,         \* did a source change since its refresh began, if one did (history)
          day, refreshes, changes, feedFaults
hubVars == <<collection, stixFile, indicators, page, failed, imported>>
kevVars == <<kevFile, kevFeed, installed, kev, packages, exposures, kevStep, kevFailed>>
intelligenceVars == <<hubVars, kevVars, moved, day, refreshes, changes, feedFaults>>

Objects == [value : Values, until : Untils]
IntelligenceInit ==
  /\ collection = <<>> /\ stixFile \in {{}} \cup {{o} : o \in Objects}
  /\ indicators = {} /\ page = 0 /\ failed = FALSE /\ imported = {}
  /\ kevFile \in SUBSET Vulnerabilities /\ kevFeed = {} /\ installed \in SUBSET Packages
  /\ kev = {} /\ packages = {} /\ exposures = {}
  /\ kevStep = "idle" /\ kevFailed = FALSE
  /\ moved = [taxii |-> TRUE, kev |-> TRUE]
  /\ day = 1 /\ refreshes = 0 /\ changes = 0 /\ feedFaults = 0

\* ImportSTIXBytes: Add replaces whatever is known of the value.
Import(known, objects) ==
  {k \in known : \A o \in objects : o.value # k.value} \cup objects

Asked(hub) ==
  /\ refreshes < MaxRefreshes /\ refreshes' = refreshes + 1
  /\ moved' = [moved EXCEPT ![hub] = FALSE]
  /\ UNCHANGED <<day, changes>>
Faulty == feedFaults < MaxFeedFaults /\ feedFaults' = feedFaults + 1

\* Mutant: a refresh begins by forgetting what the last one learnt.
RefreshAnew ==
  /\ page = 0 /\ Asked("taxii")
  /\ page' = 1 /\ failed' = FALSE
  /\ indicators' = stixFile /\ imported' = imported \cup {o.value : o \in stixFile}
  /\ UNCHANGED <<collection, stixFile, kevVars, feedFaults>>

\* Run's load: the files first; one that cannot be read is an error.
Refresh ==
  /\ page = 0 /\ Asked("taxii")
  /\ page' = 1
  /\ \/ /\ indicators' = Import(indicators, stixFile) /\ failed' = FALSE
        /\ imported' = imported \cup {o.value : o \in stixFile}
        /\ UNCHANGED feedFaults
     \/ Faulty /\ failed' = TRUE /\ UNCHANGED <<indicators, imported>>
  /\ UNCHANGED <<collection, stixFile, kevVars>>

\* FetchTAXII, one page: its objects are known even if a later page fails.
PageObjects == IF page <= Len(collection) THEN {collection[page]} ELSE {}
More == page < Len(collection)
FetchPage ==
  /\ page > 0
  /\ indicators' = Import(indicators, PageObjects)
  /\ imported' = imported \cup {o.value : o \in PageObjects}
  /\ \/ ~More /\ page' = 0 /\ UNCHANGED <<failed, feedFaults>>
     \/ More /\ page < PageLimit /\ page' = page + 1 /\ UNCHANGED <<failed, feedFaults>>
     \/ More /\ page = PageLimit /\ page' = 0 /\ failed' = TRUE /\ UNCHANGED feedFaults
     \/ More /\ page' = 0 /\ failed' = TRUE /\ Faulty      \* no usable token
  /\ UNCHANGED <<collection, stixFile, kevVars, moved, day, refreshes, changes>>

\* A page that does not arrive, or is no JSON, ends the refresh.
PageFails ==
  /\ page > 0 /\ Faulty
  /\ page' = 0 /\ failed' = TRUE
  /\ UNCHANGED <<collection, stixFile, indicators, imported, kevVars, moved, day, refreshes, changes>>

-----------------------------------------------------------------------------
\* recomputeLocked.
ExposuresOf(p, k) == Overlaps \cap (p \X k)

SetPackages(p) == packages' = p /\ exposures' = ExposuresOf(p, kev) /\ UNCHANGED kev
LoadKEV(k) == kev' = k /\ exposures' = ExposuresOf(packages, k) /\ UNCHANGED packages

KevGoes(next) ==
  /\ kevStep' = next
  /\ UNCHANGED <<hubVars, kevFile, kevFeed, installed, day, changes>>
NoKevFault == UNCHANGED <<feedFaults, kevFailed>>
KevFault == Faulty /\ kevFailed' = TRUE /\ UNCHANGED <<kev, packages, exposures>>

\* startVulnerability's refresh: the packages, the file, the URL.
RefreshKEV ==
  /\ kevStep = "idle" /\ Asked("kev") /\ kevStep' = "packages" /\ kevFailed' = FALSE
  /\ UNCHANGED <<hubVars, kevFile, kevFeed, installed, kev, packages, exposures, feedFaults>>
DiscoverPackages ==
  /\ kevStep = "packages" /\ KevGoes("file")
  /\ (SetPackages(installed) /\ NoKevFault) \/ KevFault
  /\ UNCHANGED <<moved, refreshes>>
LoadKEVFile ==
  /\ kevStep = "file" /\ KevGoes(IF HasURL THEN "url" ELSE "idle")
  /\ (LoadKEV(kevFile) /\ NoKevFault) \/ KevFault
  /\ UNCHANGED <<moved, refreshes>>
FetchKEV ==
  /\ kevStep = "url" /\ KevGoes("idle")
  /\ (LoadKEV(kevFeed) /\ NoKevFault) \/ KevFault
  /\ UNCHANGED <<moved, refreshes>>

-----------------------------------------------------------------------------
\* The world: objects are published and amended, files are edited.
Changed(hub) ==
  /\ changes < MaxChanges /\ changes' = changes + 1
  /\ moved' = [moved EXCEPT ![hub] = TRUE]
  /\ UNCHANGED <<indicators, page, failed, imported, kev, packages, exposures, kevStep, kevFailed,
                 day, refreshes, feedFaults>>
Publish ==
  /\ Changed("taxii")
  /\ \E o \in Objects :
       \/ Len(collection) < MaxFeed /\ collection' = Append(collection, o) /\ UNCHANGED stixFile
       \/ \E i \in DOMAIN collection : collection' = [collection EXCEPT ![i] = o] /\ UNCHANGED stixFile
       \/ stixFile' = {o} /\ UNCHANGED collection
  /\ UNCHANGED <<kevFile, kevFeed, installed>>
PublishKEV ==
  /\ Changed("kev")
  /\ \/ \E k \in SUBSET Vulnerabilities : kevFeed' = k /\ UNCHANGED <<kevFile, installed>>
     \/ \E k \in SUBSET Vulnerabilities : kevFile' = k /\ UNCHANGED <<kevFeed, installed>>
     \/ \E p \in SUBSET Packages : installed' = p /\ UNCHANGED <<kevFile, kevFeed>>
  /\ UNCHANGED <<collection, stixFile>>
NextDay ==
  /\ day < LastDay /\ day' = day + 1
  /\ UNCHANGED <<hubVars, kevVars, moved, refreshes, changes, feedFaults>>

IndicatorsNext == Refresh \/ FetchPage \/ PageFails \/ Publish \/ NextDay
CatalogNext == RefreshKEV \/ DiscoverPackages \/ LoadKEVFile \/ FetchKEV \/ PublishKEV

IntelligenceSpec ==
  IntelligenceInit /\ [][IndicatorsNext \/ CatalogNext]_intelligenceVars

-----------------------------------------------------------------------------
\* MatchFlow: the record a value that was seen matches.
Valid(o) == o.until = 0 \/ o.until > day
MatchFlow(v) == {k \in indicators : k.value = v /\ Valid(k)}

\* What the sources say of a value: the file is masked by the collection, the
\* last object of which counts.
PagesAbout(v) == {i \in DOMAIN collection : collection[i].value = v}
Said(v) ==
  IF PagesAbout(v) = {} THEN {o \in stixFile : o.value = v}
  ELSE {collection[i] : i \in {i \in PagesAbout(v) : \A j \in PagesAbout(v) : j <= i}}

\* Between a refresh without an error and the next, what the sources publish
\* and has not expired is what flows are matched against.
RefreshTold ==
  page = 0 /\ ~failed /\ ~moved.taxii =>
    \A v \in Values : Said(v) # {} => MatchFlow(v) = {o \in Said(v) : Valid(o)}
\* No failure loses an indicator, and a value has one record.
NothingForgotten == \A v \in imported : Cardinality({k \in indicators : k.value = v}) = 1
\* The exposures are those of the packages and the catalog of the moment.
ExposuresCurrent ==
  /\ exposures = ExposuresOf(packages, kev)
  /\ kevStep = "idle" /\ ~kevFailed /\ ~moved.kev =>
       packages = installed /\ kev = IF HasURL THEN kevFeed ELSE kevFile
\* What others published is known as they published it: see above.
KnowledgeTruthful == RefreshTold /\ NothingForgotten /\ ExposuresCurrent
=============================================================================
