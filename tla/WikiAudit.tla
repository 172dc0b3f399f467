------------------------------ MODULE WikiAudit ------------------------------
(***************************************************************************)
(* `docs-cli wiki audit` and its --changed-only                            *)
(* (internal/docs/wiki/audit/audit.go, internal/docs/ingest/wiki.go and    *)
(* git.go).  The changed files are asked for with three git commands, one  *)
(* after the other, and audited after that, while the user edits, stages   *)
(* and commits.                                                            *)
(*                                                                         *)
(* Of a text the set of its flaws is kept; Absent is no file.  Git prints  *)
(* the names of the files of Odd in a way the code does not undo: names    *)
(* that are not ASCII are quoted, and at a blank a name is cut in two.     *)
(***************************************************************************)
EXTENDS FiniteSets

CONSTANTS
  Files,     \* the markdown files of the wiki
  Summaries, \* those that are called summary.md,
  Failures,  \* and those auditMalformedURLLines looks at besides
  Odd,       \* those with a name that git does not print as it is
  Ignored,   \* those that .gitignore matches
  Texts      \* what the user may write

Absent == {"absent"}
Flaws  == {"malformed", "lowQuality", "heading", "field"}

WikiAuditAssumption ==
  /\ Summaries \cup Failures \cup Odd \cup Ignored \subseteq Files
  /\ Summaries \cap Failures = {}
  /\ Texts \subseteq SUBSET Flaws

VARIABLES
  head, index, tree,  \* each file in the last commit, in the index and on disk
  pc,        \* "idle", "cached", "diff", "others" or "audit"
  mode,      \* "all", "changed" or "paths"
  unseen,    \* the files the walk has not come to
  left,      \* the files that wait for their audit
  issues,    \* what was found, as pairs of a file and a flaw
  outcome,   \* "none", "ok", "issues" or "error"
  still      \* history: the files nobody has touched since the audit began

git  == <<head, index, tree>>
run  == <<pc, mode, unseen, left, issues, outcome>>
vars == <<git, run, still>>

Init ==
  /\ head = [f \in Files |-> Absent]
  /\ index = head /\ tree = head
  /\ pc = "idle" /\ mode = "all"
  /\ unseen = {} /\ left = {} /\ issues = {}
  /\ outcome = "none"
  /\ still = {}

-----------------------------------------------------------------------------
(* The user, or a digest, writes or removes a file. *)
Write(f) ==
  /\ \E text \in Texts \cup {Absent} : tree' = [tree EXCEPT ![f] = text]
  /\ still' = still \ {f}
  /\ UNCHANGED <<head, index, run>>

(* git add *)
Stage(f) ==
  /\ index[f] # tree[f]
  /\ index' = [index EXCEPT ![f] = tree[f]]
  /\ still' = still \ {f}
  /\ UNCHANGED <<head, tree, run>>

(* git commit *)
Commit ==
  /\ head # index
  /\ head' = index
  /\ still' = {f \in still : head[f] = index[f]}
  /\ UNCHANGED <<index, tree, run>>

-----------------------------------------------------------------------------
\* The summary of an audit: warnings do not count.
Serious == {"malformed", "lowQuality", "gone"}

End(how) == pc' = "idle" /\ outcome' = how

(* RunAudit, up to the list of its files; with paths those are the files. *)
Begin(m) ==
  /\ pc = "idle"
  /\ mode' = m
  /\ pc' = IF m = "changed" THEN "cached" ELSE "audit"
  /\ unseen' = IF m = "all" THEN Files ELSE {}
  /\ left' \in IF m = "paths" THEN {{f} : f \in Files} ELSE {{}}
  /\ issues' = {}
  /\ outcome' = "none"
  /\ still' = Files
  /\ UNCHANGED git

\* appendChangedMarkdownPaths: what is not there any more is left out.
Named(printed) == {f \in printed \ Odd : tree[f] # Absent}

\* One of the three commands; it may fail.
List(here, printed, next) ==
  /\ pc = here
  /\ \/ End("error") /\ UNCHANGED left
     \/ left' = left \cup Named(printed) /\ pc' = next /\ UNCHANGED outcome
  /\ UNCHANGED <<git, mode, unseen, issues, still>>

\* Mutant of Staged: only new files count.
StagedNew == {f \in Files : head[f] = Absent /\ index[f] # Absent}

\* git diff --cached, git diff, git ls-files --others --exclude-standard
Staged    == {f \in Files : head[f] # index[f]}
Unstaged  == {f \in Files : index[f] # Absent /\ index[f] # tree[f]}
Untracked == {f \in Files \ Ignored : index[f] = Absent /\ tree[f] # Absent}

(* changedMarkdownPathsFromGit *)
ListStaged    == List("cached", Staged, "diff")
ListUnstaged  == List("diff", Unstaged, "others")
ListUntracked == List("others", Untracked, "audit")

(* AuditWiki: the walk comes to the directory of f. *)
Walk(f) ==
  /\ pc = "audit" /\ f \in unseen
  /\ unseen' = unseen \ {f}
  /\ left' = IF tree[f] = Absent THEN left ELSE left \cup {f}
  /\ UNCHANGED <<git, pc, mode, issues, outcome, still>>

\* auditMalformedURLLines
MalformedURLs(text) == text \cap {"malformed"}

\* auditSummaryFile: besides, pages that were not fetched well, and warnings.
SummaryFlaws(text) == MalformedURLs(text) \cup (text \cap {"lowQuality", "heading", "field"})

\* auditMarkdownFile
Found(f) ==
  CASE tree[f] = Absent -> {"gone"}
    [] f \in Summaries  -> SummaryFlaws(tree[f])
    [] f \in Failures   -> MalformedURLs(tree[f])
    [] OTHER            -> {}

(* auditWikiPath, and the visit of the walk; a read may fail. *)
Audit(f) ==
  /\ pc = "audit" /\ f \in left
  /\ left' = left \ {f}
  /\ \E found \in {Found(f), {"gone"}} : issues' = issues \cup {<<f, flaw>> : flaw \in found}
  /\ UNCHANGED <<git, pc, mode, unseen, outcome, still>>

(* resolveAuditPath: a name given by hand, or a link, leads out of the wiki. *)
Refuse ==
  /\ pc = "audit" /\ mode # "all" /\ left # {}
  /\ End("error")
  /\ UNCHANGED <<git, mode, unseen, left, issues, still>>

(* RunAudit returns; AuditResult.OK *)
Finish ==
  /\ pc = "audit" /\ left = {} /\ unseen = {}
  /\ End(IF \E i \in issues : i[2] \in Serious THEN "issues" ELSE "ok")
  /\ UNCHANGED <<git, mode, unseen, left, issues, still>>

Next ==
  \/ \E f \in Files : Write(f) \/ Stage(f) \/ Walk(f) \/ Audit(f)
  \/ \E m \in {"all", "changed", "paths"} : Begin(m)
  \/ Commit \/ ListStaged \/ ListUnstaged \/ ListUntracked \/ Refuse \/ Finish

Spec == Init /\ [][Next]_vars

-----------------------------------------------------------------------------
\* The listings do not show f: by its name, or as a file that git ignores
\* and that is in neither the index nor the last commit.
Hidden(f) == f \in Odd \/ (f \in Ignored /\ head[f] = Absent /\ index[f] = Absent)

(* An audit that says "ok" has overlooked no flaw: a summary nobody        *)
(* touched meanwhile is clean, or has no change against the last commit    *)
(* and only changes were asked for, or is hidden from the latter.          *)
OkMeansClean ==
  outcome = "ok" /\ mode # "paths" =>
    \A f \in still \cap Summaries :
      tree[f] \cap Serious # {} =>
        mode = "changed" /\ (Hidden(f) \/ (head[f] = index[f] /\ index[f] = tree[f]))
=============================================================================
