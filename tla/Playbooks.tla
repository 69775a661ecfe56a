------------------------------- MODULE Playbooks -------------------------------
(***************************************************************************)
(* Response playbooks: the store and the conditions (internal/playbook/    *)
(* engine.go), the evaluation of a finding (Engine.onFinding) and the      *)
(* goroutines it starts: executeAutomaticPlaybook (internal/pipeline/      *)
(* pipeline.go) and the PlaybookApproval callback (internal/server/        *)
(* server.go).  What an action of a goroutine does is left to the module   *)
(* that composes this one with the response manager.                       *)
(*                                                                         *)
(* A goroutine works on the copy Evaluate made, whatever becomes of the    *)
(* playbook.  A finding is reported once; its severity and confidence are  *)
(* numbers, its verdict, category and tags are model values.               *)
(***************************************************************************)
EXTENDS Naturals, Sequences, FiniteSets

CONSTANTS Ids,              \* playbook identifiers
          Drafts,           \* the playbooks an administrator may store
          Findings,         \* the findings reported, as records
          MaxLostSaves      \* bound on failed writes of the playbook file

VARIABLES playbooks,   \* Store.items
          file,        \* the content of the playbook file
          reported,    \* the findings reported so far
          runs,        \* the goroutines: what each has still to do
          matched,     \* the matches found: playbook (a copy), its id, finding
          tried,       \* what the executing goroutines did: the match, the
                       \* number of the action, the outcome (history)
          lostSaves

playbookVars == <<playbooks, file, reported, runs, matched, tried, lostSaves>>
storeVars == <<playbooks, file, lostSaves>>

Absent == [mode |-> "absent"]

PlaybooksInit ==
  /\ playbooks = [i \in Ids |-> Absent] /\ file = playbooks
  /\ reported = {} /\ runs = {} /\ matched = {}
  /\ tried = {}
  /\ lostSaves = 0

-----------------------------------------------------------------------------
\* evidenceBool: a key that is absent, false or the empty string does not
\* count; any other string, "false" too, and any other value does.
Holds(value) == value \notin {"absent", "no", "emptyText"}

\* evaluate: an unset condition is 0, FALSE or the empty set.
Matches(p, f) ==
  /\ p.minSeverity # 0 => f.severity >= p.minSeverity
  /\ p.minConfidence > 0 => f.confidence >= p.minConfidence
  /\ p.verdicts # {} => f.verdict \in p.verdicts
  /\ p.categories # {} => f.category \in p.categories
  /\ p.tags \subseteq f.tags
  /\ p.requireYARA => Holds(f.yara)
  /\ p.requireKEV => Holds(f.kev)

\* Store.Evaluate: the copies of the enabled playbooks that match.
Evaluate(f) ==
  {[id |-> i, playbook |-> playbooks[i], finding |-> f] :
     i \in {j \in Ids : /\ playbooks[j] # Absent
                        /\ playbooks[j].enabled /\ Matches(playbooks[j], f)}}

\* Upsert and Delete change the memory first; a failed save is reported to the
\* caller and the change stays.
Saved ==
  \/ file' = playbooks' /\ UNCHANGED lostSaves
  \/ lostSaves < MaxLostSaves /\ lostSaves' = lostSaves + 1 /\ UNCHANGED file

Upsert(i, p) ==
  /\ playbooks' = [playbooks EXCEPT ![i] = p]
  /\ Saved
  /\ UNCHANGED <<reported, runs, matched, tried>>

Delete(i) ==
  /\ playbooks[i] # Absent
  /\ playbooks' = [playbooks EXCEPT ![i] = Absent]
  /\ Saved
  /\ UNCHANGED <<reported, runs, matched, tried>>

\* What a match starts: dry_run nothing but the playbook_match event.
Kind(mode) == CASE mode = "approval_required" -> "request"
                [] mode = "automatic" -> "execute"
                [] OTHER -> "none"
Goroutines(m) ==
  {[kind |-> k, match |-> m, todo |-> m.playbook.actions] :
     k \in {Kind(m.playbook.mode)} \ {"none"}}

\* onFinding.
Report(f) ==
  /\ f \notin reported /\ reported' = reported \cup {f}
  /\ matched' = matched \cup Evaluate(f)
  /\ runs' = runs \cup UNION {Goroutines(m) : m \in Evaluate(f)}
  /\ UNCHANGED <<storeVars, tried>>

Current(g) == Len(g.match.playbook.actions) - Len(g.todo) + 1

\* Mutant: the goroutine returns at the first error.
AdvanceUntilError(g, outcome) ==
  /\ runs' = (runs \ {g}) \cup
       {[g EXCEPT !.todo = IF outcome = "error" THEN <<>> ELSE Tail(@)]}
  /\ tried' = tried \cup {<<g.match, Current(g), outcome>>}
  /\ UNCHANGED <<storeVars, reported, matched>>

\* The goroutine ends its current action; the loop goes on after an error.
Advance(g, outcome) ==
  /\ runs' = (runs \ {g}) \cup {[g EXCEPT !.todo = Tail(@)]}
  /\ tried' = tried \cup {<<g.match, Current(g), outcome>>}
  /\ UNCHANGED <<storeVars, reported, matched>>

Return(g) ==
  /\ g.todo = <<>>
  /\ runs' = runs \ {g}
  /\ UNCHANGED <<storeVars, reported, matched, tried>>

\* Restart of the daemon: Open reads the file, the goroutines are gone.
Reopen ==
  /\ playbooks' = file
  /\ runs' = {}
  /\ UNCHANGED <<file, reported, matched, tried, lostSaves>>
=============================================================================
