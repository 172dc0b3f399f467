----------------------------- MODULE WikiDigest -----------------------------
(***************************************************************************)
(* `docs-cli wiki digest` (RunDigest, internal/docs/ingest/wiki.go): parse *)
(* wiki/inbox.md, prepare every URL concurrently, write what was prepared  *)
(* one URL at a time, and flush the handled URLs out of the inbox.         *)
(*                                                                         *)
(* A digest runs for minutes.  Meanwhile its user may add URLs to the      *)
(* inbox, another digest may run, and the process may be killed.  The      *)
(* inbox is read twice, once to parse and once to flush, and what was      *)
(* handled is known to the second reading by line number and URL.          *)
(*                                                                         *)
(* The record of a URL is an entry on a Markdown page (a summary.md, or    *)
(* uncat.md) or a line of a failure log.  A log is appended to.  A page is *)
(* read, extended in memory and replaced as a whole, and what keeps two    *)
(* such writes apart is a lock of the process (PathLock): another process  *)
(* can put its entry on a page in between, and a page that cannot be read  *)
(* counts as empty.  Either takes records away again.                      *)
(*                                                                         *)
(* A line of the inbox is the set of what is on it: URLs and, for any      *)
(* other text, Note.  Line numbers start at 1 here, at 0 in the code.      *)
(***************************************************************************)
EXTENDS Naturals, Sequences, FiniteSets

CONSTANTS
  Urls,         \* the URLs, after normalisation
  Note,         \* text of a line that is not a URL
  Digests,      \* the digest commands that may run, each a process
  Adds,         \* the processes of `docs-cli wiki add` and
                \* `wiki digest-local`, for URLs that are not in the inbox
  Pages,        \* the Markdown pages: summary.md of each topic, and uncat.md
  NoPage,       \* no page is open
  Inbox0,       \* the inbox at the start
  Concurrency,  \* wiki.concurrency
  DryRun,       \* the digests that run with --dry-run
  Failures,     \* what may fail: see WikiDigestAssumption
  MaxRuns       \* how many times a digest is started, over all Digests

Line == SUBSET (Urls \cup {Note})

Commands == Digests \cup Adds

ASSUME WikiDigestAssumption ==
  /\ IsFiniteSet(Urls) /\ Note \notin Urls
  /\ Inbox0 \in Seq(Line)
  /\ Concurrency \in Nat \ {0}
  /\ DryRun \subseteq Digests
  /\ Digests \cap Adds = {}
  /\ NoPage \notin Pages
  /\ Failures \subseteq
       {"write", "report", "misread", "read", "replace", "crash"}
  /\ MaxRuns \in Nat

VARIABLES
  inbox,     \* inbox.md: its lines
  pages,     \* page -> the URLs that have an entry on it
  logged,    \* the URLs that have a line in a failure log
  pc,        \* where each digest is
  entries,   \* what ParseInbox returned: <<line, URL>> pairs
  prep,      \* the goroutine of each entry: none yet, running or ready
  next,      \* the entry to write next
  page,      \* the page each command has read and not yet replaced
  draft,     \* what it read of that page
  handled,   \* handledURLsByLine: the entries that are handled
  copy,      \* the inbox as FlushInbox read it
  runs,      \* how many digests were started
  count,     \* history: URL -> how many records were written of it
  wanted,    \* history: the URLs ever written into the inbox
  exposed,   \* history: those of them added between a flush's read and write
  contested, \* history: those of them put on a page between another command's
             \* read and write of it, or on a page that was then misread
  disturbed  \* history: something happened that makes a rerun legitimate

wiki  == <<pages, logged>>
open  == <<page, draft>>
local == <<entries, prep, next, open, handled, copy>>
hist  == <<count, wanted, exposed, contested>>
vars  == <<inbox, wiki, pc, local, runs, hist, disturbed>>

UrlsOf(text) == (UNION {text[i] : i \in DOMAIN text}) \ {Note}

Init ==
  /\ inbox = Inbox0
  /\ pages = [p \in Pages |-> {}]
  /\ logged = {}
  /\ pc = [d \in Digests |-> "idle"]
  /\ entries = [d \in Digests |-> <<>>]
  /\ prep = [d \in Digests |-> <<>>]
  /\ next = [d \in Digests |-> 1]
  /\ page = [c \in Commands |-> NoPage]
  /\ draft = [c \in Commands |-> {}]
  /\ handled = [d \in Digests |-> {}]
  /\ copy = [d \in Digests |-> <<>>]
  /\ runs = 0
  /\ count = [u \in Urls |-> 0]
  /\ wanted = UrlsOf(Inbox0)
  /\ exposed = {}
  /\ contested = {}
  /\ disturbed = FALSE

Running == {d \in Digests : pc[d] # "idle"}

Goto(d, where) == pc' = [pc EXCEPT ![d] = where]

\* The digest d is over, and its memory is gone.
Forget(d) ==
  /\ Goto(d, "idle")
  /\ entries' = [entries EXCEPT ![d] = <<>>]
  /\ prep' = [prep EXCEPT ![d] = <<>>]
  /\ next' = [next EXCEPT ![d] = 1]
  /\ page' = [page EXCEPT ![d] = NoPage]
  /\ draft' = [draft EXCEPT ![d] = {}]
  /\ handled' = [handled EXCEPT ![d] = {}]
  /\ copy' = [copy EXCEPT ![d] = <<>>]

-----------------------------------------------------------------------------
(* Mutant of FirstRefs: lines numbered from 0, as the code's slices are. *)
FirstRefsFromZero(text) ==
  {<<ref[1] - 1, ref[2]>> :
     ref \in {r \in (DOMAIN text) \X UrlsOf(text) : r[2] \in text[r[1]]}}

\* <<line, URL>>: the line a URL is first on (`seen` drops the others).
FirstRefs(text) ==
  {ref \in (DOMAIN text) \X UrlsOf(text) :
     /\ ref[2] \in text[ref[1]]
     /\ \A j \in 1 .. ref[1] - 1 : ref[2] \notin text[j]}

\* What ParseInbox may return: every URL once, the earlier lines first.
Parsed(text) ==
  LET n == Cardinality(FirstRefs(text))
  IN {es \in [1 .. n -> FirstRefs(text)] :
        \A i, j \in 1 .. n : i < j => es[i] # es[j] /\ es[i][1] <= es[j][1]}

(* RunDigest up to ParseInbox.  An inbox without URLs ends the run. *)
Begin(d) ==
  /\ pc[d] = "idle"
  /\ runs < MaxRuns
  /\ runs' = runs + 1
  /\ disturbed' = (disturbed \/ Running # {})
  /\ IF UrlsOf(inbox) = {}
     THEN UNCHANGED <<pc, entries, prep>>
     ELSE \E es \in Parsed(inbox) :
            /\ entries' = [entries EXCEPT ![d] = es]
            /\ prep' = [prep EXCEPT ![d] = [i \in DOMAIN es |-> "none"]]
            /\ Goto(d, "prepare")
  /\ UNCHANGED <<inbox, wiki, next, open, handled, copy, hist>>

InState(d, s) == {i \in DOMAIN prep[d] : prep[d][i] = s}

(* Mutant of Launch: a goroutine that has ended does not free its slot. *)
LaunchSlotKept(d) ==
  /\ pc[d] = "prepare"
  /\ Cardinality(InState(d, "running") \cup InState(d, "ready")) < Concurrency
  /\ \E i \in InState(d, "none") :
       /\ \A j \in 1 .. i - 1 : prep[d][j] # "none"
       /\ prep' = [prep EXCEPT ![d][i] = "running"]
  /\ UNCHANGED <<inbox, wiki, pc, entries, next, open, handled, copy, runs,
                 hist, disturbed>>

(* g.Go for the next entry, as soon as the group's limit lets it. *)
Launch(d) ==
  /\ pc[d] = "prepare"
  /\ Cardinality(InState(d, "running")) < Concurrency
  /\ \E i \in InState(d, "none") :
       /\ \A j \in 1 .. i - 1 : prep[d][j] # "none"
       /\ prep' = [prep EXCEPT ![d][i] = "running"]
  /\ UNCHANGED <<inbox, wiki, pc, entries, next, open, handled, copy, runs,
                 hist, disturbed>>

(* prepareInboxEntry: fetch and classify under the URL's timeout.  Every   *)
(* outcome, a timeout too, is a pending write of some kind.                *)
Prepared(d, i) ==
  /\ pc[d] = "prepare"
  /\ i \in InState(d, "running")
  /\ prep' = [prep EXCEPT ![d][i] = "ready"]
  /\ UNCHANGED <<inbox, wiki, pc, entries, next, open, handled, copy, runs,
                 hist, disturbed>>

(* g.Wait *)
AllPrepared(d) ==
  /\ pc[d] = "prepare"
  /\ InState(d, "ready") = DOMAIN prep[d]
  /\ Goto(d, "write")
  /\ UNCHANGED <<inbox, wiki, local, runs, hist, disturbed>>

(* Mutant of Outcomes: a write that failed counts as handled. *)
OutcomesErrorIgnored ==
  {[record |-> TRUE, handled |-> TRUE]}
  \cup (IF "write" \in Failures THEN {[record |-> FALSE, handled |-> TRUE]} ELSE {})
  \cup (IF "report" \in Failures THEN {[record |-> TRUE, handled |-> TRUE]} ELSE {})

\* What a write did: whether it made a record, and whether the digest counts
\* the URL as handled.  It may fail, also when the record is in the log (the
\* newline failed).
Outcomes ==
  {[record |-> TRUE, handled |-> TRUE]}
  \cup (IF "write" \in Failures THEN {[record |-> FALSE, handled |-> FALSE]} ELSE {})
  \cup (IF "report" \in Failures THEN {[record |-> TRUE, handled |-> FALSE]} ELSE {})

\* The digest d is at an entry that it has not written yet.
Writing(d) == pc[d] = "write" /\ next[d] \in DOMAIN entries[d]

NextUrl(d) == entries[d][next[d]][2]

(* The next entry is written, with outcome o. *)
Written(d, o) ==
  /\ count' = IF o.record THEN [count EXCEPT ![NextUrl(d)] = @ + 1] ELSE count
  /\ handled' = IF o.handled
                THEN [handled EXCEPT ![d] = @ \cup {entries[d][next[d]]}]
                ELSE handled
  /\ disturbed' = (disturbed \/ (o.record /\ ~o.handled))
  /\ next' = [next EXCEPT ![d] = @ + 1]
  /\ UNCHANGED <<inbox, pc, entries, prep, copy, runs, wanted, exposed>>

(* writePendingURL of a dry run: the URL is handled, nothing is written. *)
DryWrite(d) ==
  /\ Writing(d) /\ d \in DryRun
  /\ Written(d, [record |-> FALSE, handled |-> TRUE])
  /\ UNCHANGED <<wiki, open, contested>>

(* writePendingURL of a URL that was not fetched, read or classified: a    *)
(* line of a failure log, which is opened to append.                       *)
LogWrite(d) ==
  /\ Writing(d) /\ d \notin DryRun /\ page[d] = NoPage
  /\ \E o \in Outcomes :
       /\ Written(d, o)
       /\ logged' = IF o.record THEN logged \cup {NextUrl(d)} ELSE logged
  /\ UNCHANGED <<pages, open, contested>>

(* WriteSummary or WriteManualReviewEntry reads the page that an entry     *)
(* goes on.  A page that cannot be read counts as empty.                   *)
OpenPage(c) ==
  /\ page[c] = NoPage
  /\ \E p \in Pages :
       /\ page' = [page EXCEPT ![c] = p]
       /\ \/ draft' = [draft EXCEPT ![c] = pages[p]] /\ UNCHANGED contested
          \/ /\ "misread" \in Failures
             /\ draft' = [draft EXCEPT ![c] = {}]
             /\ contested' = contested \cup pages[p]
  /\ UNCHANGED <<inbox, wiki, pc, entries, prep, next, handled, copy, runs,
                 count, wanted, exposed, disturbed>>

ClosePage(c) ==
  /\ page' = [page EXCEPT ![c] = NoPage]
  /\ draft' = [draft EXCEPT ![c] = {}]

(* The page for the next entry of a digest is read. *)
PageRead(d) == Writing(d) /\ d \notin DryRun /\ OpenPage(d)

(* Mutant of Extended: the new entry takes the place of what was read. *)
ExtendedByNothing(d) == {NextUrl(d)}

\* The page as d read it, with the new entry in its date section.
Extended(d) == draft[d] \cup {NextUrl(d)}

\* Another command is between its read and its write of the page p.
OpenElsewhere(d, p) == \E c \in Commands \ {d} : page[c] = p

(* AtomicWriteFile puts the new page in the place of the old one, whatever *)
(* that is by now.  The success log that follows is not a record, and an   *)
(* error of it is ignored.                                                 *)
PageReplace(d) ==
  /\ Writing(d) /\ page[d] \in Pages
  /\ \E o \in {o \in Outcomes : o.record = o.handled} :
       /\ Written(d, o)
       /\ pages' = IF o.record
                   THEN [pages EXCEPT ![page[d]] = Extended(d)] ELSE pages
       /\ contested' = IF o.record /\ OpenElsewhere(d, page[d])
                       THEN contested \cup {NextUrl(d)} ELSE contested
  /\ ClosePage(d)
  /\ UNCHANGED logged

(* `wiki add` (RunAddURLs) writes pages in the same way, for URLs that are *)
(* not in the inbox: it reads a page, and replaces it or fails to.         *)
AddRead(a) == OpenPage(a)

AddReplace(a) ==
  /\ page[a] \in Pages
  /\ pages' \in {pages, [pages EXCEPT ![page[a]] = draft[a]]}
  /\ ClosePage(a)
  /\ UNCHANGED <<inbox, logged, pc, entries, prep, next, handled, copy, runs,
                 hist, disturbed>>

(* The digest has written its last entry: it ends here when nothing was    *)
(* handled or the run is dry, and goes on to flush otherwise.              *)
Report(d) ==
  /\ pc[d] = "write"
  /\ next[d] \notin DOMAIN entries[d]
  /\ IF handled[d] = {} \/ d \in DryRun
     THEN Forget(d)
     ELSE Goto(d, "flush") /\ UNCHANGED local
  /\ UNCHANGED <<inbox, wiki, runs, hist, disturbed>>

-----------------------------------------------------------------------------
(* Mutant of HandledAt: the set of the line below. *)
HandledAtNextLine(d, i) == {u \in Urls : <<i + 1, u>> \in handled[d]}

\* normalizedURLSet(handledURLsByLine[i])
HandledAt(d, i) == {u \in Urls : <<i, u>> \in handled[d]}

\* flushInboxLine: without its handled URLs, and gone with the last of them.
FlushedLine(line, hs) ==
  IF line \cap hs = {} THEN line
  ELSE IF line \ {Note} \subseteq hs THEN {} ELSE line \ hs

FlushedLines(d) ==
  [i \in DOMAIN copy[d] |-> FlushedLine(copy[d][i], HandledAt(d, i))]

\* The numbers of the lines that stay: all but the lines flushed blank and
\* the blank lines at the top.
KeptLines(d) ==
  LET new == FlushedLines(d)
      remaining == {i \in DOMAIN new : HandledAt(d, i) = {} \/ new[i] # {}}
  IN {i \in remaining : \E j \in remaining : j <= i /\ new[j] # {}}

\* The ways to number S in increasing order: there is one.
Numberings(S) ==
  LET n == Cardinality(S)
  IN {f \in [1 .. n -> S] : /\ \A i, j \in 1 .. n : i < j => f[i] < f[j]
                            /\ \A s \in S : \E i \in 1 .. n : f[i] = s}

\* The inbox made of the lines that stay, which f numbers.
FlushedInbox(d, f) == [i \in DOMAIN f |-> FlushedLines(d)[f[i]]]

(* FlushInbox reads the inbox, which may have changed since it was parsed. *)
FlushRead(d) ==
  /\ pc[d] = "flush"
  /\ \/ /\ copy' = [copy EXCEPT ![d] = inbox]
        /\ Goto(d, "replace")
        /\ UNCHANGED <<entries, prep, next, open, handled, disturbed>>
     \/ /\ "read" \in Failures
        /\ Forget(d)
        /\ disturbed' = TRUE
  /\ UNCHANGED <<inbox, wiki, runs, hist>>

(* FlushInbox replaces the inbox by what it read without the URLs handled. *)
FlushWrite(d) ==
  /\ pc[d] = "replace"
  /\ \/ /\ \E f \in Numberings(KeptLines(d)) : inbox' = FlushedInbox(d, f)
        /\ UNCHANGED disturbed
     \/ /\ "replace" \in Failures
        /\ disturbed' = TRUE
        /\ UNCHANGED inbox
  /\ Forget(d)
  /\ UNCHANGED <<wiki, runs, hist>>

(* The process is killed: what is in the files stays. *)
Crash(d) ==
  /\ "crash" \in Failures
  /\ pc[d] # "idle"
  /\ disturbed' = (disturbed \/ handled[d] # {})
  /\ Forget(d)
  /\ UNCHANGED <<inbox, wiki, runs, hist>>

WithLine(text, u, k) ==
  SubSeq(text, 1, k) \o <<{u}>> \o SubSeq(text, k + 1, Len(text))

(* The user puts a line with one more URL somewhere into the inbox. *)
UserAdds(u, k) ==
  /\ u \notin wanted
  /\ inbox' = WithLine(inbox, u, k)
  /\ wanted' = wanted \cup {u}
  /\ exposed' = IF \E d \in Digests : pc[d] = "replace"
                THEN exposed \cup {u} ELSE exposed
  /\ disturbed' = (disturbed \/ Running # {})
  /\ UNCHANGED <<wiki, pc, local, runs, count, contested>>

Step(d) ==
  \/ Launch(d) \/ AllPrepared(d) \/ Report(d)
  \/ DryWrite(d) \/ LogWrite(d) \/ PageRead(d) \/ PageReplace(d)
  \/ FlushRead(d) \/ FlushWrite(d)
  \/ \E i \in DOMAIN prep[d] : Prepared(d, i)

(* The last digest is over. *)
Finished == Running = {} /\ runs = MaxRuns /\ UNCHANGED vars

Next ==
  \/ \E d \in Digests : Begin(d) \/ Step(d) \/ Crash(d)
  \/ \E a \in Adds : AddRead(a) \/ AddReplace(a)
  \/ \E u \in Urls, k \in 0 .. Len(inbox) : UserAdds(u, k)
  \/ Finished

Spec == Init /\ [][Next]_vars

(* A digest that can go on does: the goroutines are scheduled, and the     *)
(* URL's timeout ends every fetch and every AI call.                       *)
FairSpec == Spec /\ \A d \in Digests : WF_vars(Step(d))

-----------------------------------------------------------------------------
Refs == (Nat \ {0}) \X Urls

(* Type invariant of the inbox and of the digests' memory. *)
TypeOK ==
  /\ inbox \in Seq(Line)
  /\ pages \in [Pages -> SUBSET Urls]
  /\ logged \subseteq Urls
  /\ pc \in [Digests -> {"idle", "prepare", "write", "flush", "replace"}]
  /\ entries \in [Digests -> Seq(Refs)]
  /\ prep \in [Digests -> Seq({"none", "running", "ready"})]
  /\ next \in [Digests -> Nat \ {0}]
  /\ page \in [Commands -> Pages \cup {NoPage}]
  /\ draft \in [Commands -> SUBSET Urls]
  /\ handled \in [Digests -> SUBSET Refs]
  /\ copy \in [Digests -> Seq(Line)]
  /\ runs \in 0 .. MaxRuns
  /\ count \in [Urls -> Nat]
  /\ wanted \subseteq Urls
  /\ exposed \subseteq wanted
  /\ contested \subseteq Urls
  /\ disturbed \in BOOLEAN

\* The URLs that the wiki has a record of, now.
Recorded == logged \cup UNION {pages[p] : p \in Pages}

(* A URL that was ever in the inbox is in the inbox or has a record now,   *)
(* under every interleaving of digests, edits, failures and crashes, with  *)
(* two exceptions.  One is a URL that the user adds between a flush's read *)
(* of the inbox and its write (write.go:580-612).  The other is a URL with *)
(* an entry on a page that another digest or a `wiki add` had read before  *)
(* and replaces afterwards (write.go:147-159, 415-430), or could not read  *)
(* and replaced (write.go:227, 417): the entry may be gone.  A digest that *)
(* runs alone and reads its pages loses nothing but what is exposed.       *)
NoUrlLost == wanted \subseteq UrlsOf(inbox) \cup Recorded \cup exposed \cup contested

(* A second record of a URL is written only if something went wrong        *)
(* between its first and its flush, if an edit or another digest shifted   *)
(* the lines meanwhile, or if it is on two lines (wiki.go:114-131).        *)
Twins == {u \in Urls : \E i, j \in DOMAIN Inbox0 :
                         i # j /\ u \in Inbox0[i] /\ u \in Inbox0[j]}

OnceUnlessDisturbed == ~disturbed => \A u \in Urls \ Twins : count[u] <= 1

(* Every digest comes to an end: the limit on the goroutines never starves *)
(* an entry of its slot (pipeline.go:45-58).                               *)
DigestsEnd == \A d \in Digests : (pc[d] # "idle") ~> (pc[d] = "idle")

(* write.go:577, "FlushInbox removes handled URLs from inbox.md": after an *)
(* undisturbed flush no URL it was given is in the inbox.                  *)
HandledUrlsLeave ==
  [][\A d \in Digests :
       pc[d] = "replace" /\ pc'[d] = "idle" /\ ~disturbed' =>
         \A h \in handled[d] : h[2] \notin UrlsOf(inbox')]_vars

(* The digests deliver what the inbox holds at least once, unless a page   *)
(* that was contested lost it again (wiki.go:84-135, write.go:147-159).    *)
Delivery == INSTANCE InboxDelivery
              WITH pending <- UrlsOf(inbox), recorded <- Recorded

DeliversAtLeastOnce == Delivery!Spec
=============================================================================
