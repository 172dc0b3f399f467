----------------------------- MODULE IssueReview -----------------------------
(***************************************************************************)
(* `linear2nl review`: when a GitHub issue is closed, a workflow has the   *)
(* AI review it and posts the answer as a comment                          *)
(* (cmd/linear2nl/cmd/review.go and internal/github.go, with               *)
(* GetIssueByIdentifier of internal/linear and ChatContext of pkg/ai).     *)
(*                                                                         *)
(* The comments are listed page by page while people comment and delete.   *)
(* What looks like the name of a Linear issue ("ENG-123", but "UTF-8"      *)
(* too) has the texts of that issue replace those of GitHub.  A run that   *)
(* failed may be repeated, also when only the answer to its post was lost. *)
(***************************************************************************)
EXTENDS Naturals, Sequences, SequencesExt

CONSTANTS
  Bodies,       \* the names a comment may hold: "none", "issue" or "other"
  LinearTexts,  \* how many comments the Linear issue may have
  PerPage,      \* comments of a page
  MaxComments   \* bound: comments ever made

IssueReviewAssumption ==
  /\ Bodies \subseteq {"none", "issue", "other"}
  /\ LinearTexts \subseteq Nat
  /\ PerPage \in Nat \ {0}
  /\ MaxComments \in Nat

\* A comment of the reviewer itself.
Review == "review"

VARIABLES
  body,      \* the name in the body of the issue
  comments,  \* the comments on GitHub, oldest first
  made,      \* how many there have been
  pc,        \* "idle", "list", "linear", "ask", "post" or "over"
  page,      \* the next page
  prompt,    \* the comments collected for the prompt, and where from
  outcome,   \* of the last run: "none", "error", "killed", "dry" or "posted"
  start,     \* history: the comments when the run began, and are still there
  shifted    \* history: a comment has gone since

github == <<body, comments, made>>
hist   == <<start, shifted>>
vars   == <<github, pc, page, prompt, outcome, hist>>

Nothing == [from |-> "github", texts |-> {}]

Init ==
  /\ body \in Bodies
  /\ comments = <<>> /\ made = 0
  /\ pc = "idle" /\ page = 1
  /\ prompt = Nothing
  /\ outcome = "none"
  /\ start = {} /\ shifted = FALSE

-----------------------------------------------------------------------------
(* Somebody comments. *)
Comment ==
  /\ made < MaxComments
  /\ made' = made + 1
  /\ \E name \in Bodies : comments' = Append(comments, [id |-> made + 1, holds |-> name])
  /\ UNCHANGED <<body, pc, page, prompt, outcome, hist>>

(* A comment is deleted. *)
Delete ==
  /\ \E i \in DOMAIN comments :
       /\ comments' = RemoveAt(comments, i)
       /\ start' = start \ {comments[i]}
  /\ shifted' = TRUE
  /\ UNCHANGED <<body, made, pc, page, prompt, outcome>>

Go(place) == pc' = place /\ UNCHANGED outcome
End(how)  == pc' = "over" /\ outcome' = how

(* The issue is closed, once more perhaps, or the job is repeated by hand; *)
(* GetIssueDetail up to its comments.                                      *)
Begin ==
  /\ pc \in {"idle", "over"}
  /\ Go("list")
  /\ page' = 1
  /\ prompt' = Nothing
  /\ start' = ToSet(comments) /\ shifted' = FALSE
  /\ UNCHANGED github

Page(n) ==
  LET last == n * PerPage
  IN  ToSet(SubSeq(comments, (n - 1) * PerPage + 1,
                   IF last < Len(comments) THEN last ELSE Len(comments)))

(* Mutant of ListPage: the first page is all there is. *)
ListPageOnce ==
  /\ pc = "list"
  /\ \/ End("error") /\ UNCHANGED <<page, prompt>>
     \/ /\ prompt' = [prompt EXCEPT !.texts = @ \cup Page(page)]
        /\ Go("linear") /\ UNCHANGED page
  /\ UNCHANGED <<github, hist>>

(* A turn of listAllComments: GitHub names the next page as long as there  *)
(* are comments after this one.                                            *)
ListPage ==
  /\ pc = "list"
  /\ \/ End("error") /\ UNCHANGED <<page, prompt>>
     \/ /\ prompt' = [prompt EXCEPT !.texts = @ \cup Page(page)]
        /\ IF page * PerPage < Len(comments)
           THEN page' = page + 1 /\ Go("list")
           ELSE Go("linear") /\ UNCHANGED page
  /\ UNCHANGED <<github, hist>>

\* The first name, of the body or else of the comments in their order.
Reference ==
  LET named == {c \in prompt.texts : c.holds \notin {"none", Review}}
  IN  IF body # "none" THEN body
      ELSE IF named = {} THEN "none"
      ELSE (CHOOSE c \in named : \A d \in named : c.id <= d.id).holds

NotFound == [found |-> FALSE, texts |-> 0]

\* GetIssueByIdentifier: an error, no such issue, or an issue and its comments.
LinearAnswers(name) ==
  {NotFound} \cup {[found |-> TRUE, texts |-> n] : n \in IF name = "issue" THEN LinearTexts ELSE {}}

\* mergeLinearData: an issue without comments leaves those of GitHub.
Merged(answer) ==
  IF answer.texts = 0 THEN prompt ELSE [from |-> "linear", texts |-> {}]

(* enrichFromLinear: only the first name is looked up, and whatever goes   *)
(* wrong leaves the texts of GitHub.                                       *)
Enrich ==
  /\ pc = "linear"
  /\ Go("ask")
  /\ \E answer \in LinearAnswers(Reference) : prompt' = Merged(answer)
  /\ UNCHANGED <<github, page, hist>>

\* ChatContext: an error, nothing at all, no JSON, a JSON without or with a review.
Replies == {"error", "empty", "prose", "none", "review"}

\* parseReviewJSON
HasReview(reply) == reply = "review"

(* The rest of runReview up to its output. *)
Ask ==
  /\ pc = "ask"
  /\ \E reply \in Replies : IF HasReview(reply) THEN Go("post") ELSE End("error")
  /\ UNCHANGED <<github, page, prompt, hist>>

(* PostReviewComment, or the output of a dry run.  The answer may be lost. *)
Post ==
  /\ pc = "post"
  /\ \/ End("dry") /\ UNCHANGED github
     \/ /\ made < MaxComments
        /\ comments' = Append(comments, [id |-> made + 1, holds |-> Review])
        /\ made' = made + 1
        /\ End("posted") \/ End("error")
        /\ UNCHANGED body
     \/ End("error") /\ UNCHANGED github
  /\ UNCHANGED <<page, prompt, hist>>

(* The job is cancelled. *)
Kill ==
  /\ pc \notin {"idle", "over"}
  /\ End("killed")
  /\ UNCHANGED <<github, page, prompt, hist>>

Next == Comment \/ Delete \/ Begin \/ ListPage \/ Enrich \/ Ask \/ Post \/ Kill

Spec == Init /\ [][Next]_vars

-----------------------------------------------------------------------------
(* The review is of the whole discussion: unless Linear has replaced it,   *)
(* the prompt has every comment that was there when the run began, however *)
(* many pages there are and whatever is said meanwhile.  Only a comment    *)
(* that is deleted meanwhile pushes another one over the edge of a page.   *)
WholeDiscussion ==
  pc \in {"ask", "post"} /\ prompt.from = "github" /\ ~shifted => start \subseteq prompt.texts
=============================================================================
