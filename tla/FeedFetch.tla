----------------------------- MODULE FeedFetch -----------------------------
(***************************************************************************)
(* Fetching the RSS feeds of a newsletter (ProcessAllFeeds of              *)
(* cmd/rss2nl/cmd/send.go; internal/rss/feed: feed.go, host_policy.go).    *)
(*                                                                         *)
(* The feeds of a category are fetched by a group of goroutines of bounded *)
(* size; the categories are fetched at the same time.  Each category has a *)
(* hostFetchController: per host a semaphore, a minimal interval after the *)
(* last fetch, and a circuit which, once open, makes the host's remaining  *)
(* feeds fail without a request.  A goroutine keeps its permit over all    *)
(* its attempts.  Five minutes after the start every wait is cut short.    *)
(*                                                                         *)
(* A feed is <<c, i>>, the i-th of category c; all that matters of its URL *)
(* is the host.                                                            *)
(***************************************************************************)
EXTENDS Naturals, Sequences, FiniteSets

CONSTANTS
  Categories,       \* the categories of the configuration
  Hosts,            \* the hosts of the feeds
  Nil,              \* the host of a URL without one, and a closed circuit
  HostOf,           \* HostOf[c]: the hosts of the feeds of category c, in order
  Concurrency,      \* feed.concurrency
  HostConcurrency,  \* HostConcurrency[h]: how many fetches of h at a time
  MinInterval,      \* MinInterval[h], in ticks
  CircuitOn5xx,     \* the hosts with a rule and circuitOn5xx
  MaxTries          \* feed.maxTries

Feeds == UNION {{c} \X (DOMAIN HostOf[c]) : c \in Categories}
Slots == Categories \X Hosts

ASSUME FeedFetchAssumption ==
  /\ IsFiniteSet(Feeds)
  /\ Nil \notin Hosts /\ Nil \notin Feeds
  /\ HostOf \in [Categories -> Seq(Hosts \cup {Nil})]
  /\ Concurrency \in Nat \ {0}
  /\ HostConcurrency \in [Hosts -> Nat \ {0}]
  /\ MinInterval \in [Hosts -> Nat]
  /\ CircuitOn5xx \subseteq Hosts
  /\ MaxTries \in Nat \ {0}

VARIABLES
  pc,       \* where the goroutine of each feed is
  taken,    \* <<category, host>> -> the permits of its semaphore in use
  since,    \* <<category, host>> -> the time since lastDone, up to MinInterval
  circuit,  \* <<category, host>> -> the feed whose error opened it
  timer,    \* what is left of a goroutine's wait for the interval
  tries,    \* how many attempts of a feed have failed
  outcome,  \* what became of a feed
  expired,  \* the five minutes are over
  late      \* history: <<category, host>> -> requests sent to an open circuit

vars == <<pc, taken, since, circuit, timer, tries, outcome, expired, late>>

Host(f)    == HostOf[f[1]][f[2]]
Slot(f)    == <<f[1], Host(f)>>
HasHost(f) == Host(f) # Nil

Init ==
  /\ pc = [f \in Feeds |-> "queued"]
  /\ taken = [s \in Slots |-> 0]
  /\ since = [s \in Slots |-> MinInterval[s[2]]]
  /\ circuit = [s \in Slots |-> Nil]
  /\ timer = [f \in Feeds |-> 0]
  /\ tries = [f \in Feeds |-> 0]
  /\ outcome = [f \in Feeds |-> "none"]
  /\ expired = FALSE
  /\ late = [s \in Slots |-> 0]

Goto(f, where) == pc' = [pc EXCEPT ![f] = where]

Open(f) == HasHost(f) /\ circuit[Slot(f)] # Nil

-----------------------------------------------------------------------------
(* g.Go for the next feed of the category, when the group has a free slot. *)
Launch(f) ==
  LET c == f[1]
  IN /\ pc[f] = "queued"
     /\ \A i \in 1 .. f[2] - 1 : pc[<<c, i>>] # "queued"
     /\ Cardinality({i \in DOMAIN HostOf[c] : pc[<<c, i>>] \notin {"queued", "done"}})
          < Concurrency
     /\ Goto(f, "acquire")
     /\ UNCHANGED <<taken, since, circuit, timer, tries, outcome, expired, late>>

(* Mutant of Acquire: only a host whose last fetch ended just now waits. *)
AcquireShortRest(f) ==
  /\ pc[f] = "acquire"
  /\ HasHost(f) => taken[Slot(f)] < HostConcurrency[Host(f)]
  /\ IF HasHost(f)
     THEN LET wait == IF since[Slot(f)] = 0 THEN MinInterval[Host(f)] ELSE 0
          IN /\ taken' = [taken EXCEPT ![Slot(f)] = @ + 1]
             /\ timer' = [timer EXCEPT ![f] = wait]
             /\ Goto(f, IF wait = 0 THEN "enter" ELSE "spacing")
     ELSE Goto(f, "enter") /\ UNCHANGED <<taken, timer>>
  /\ UNCHANGED <<since, circuit, tries, outcome, expired, late>>

(* acquire: a permit of the host's semaphore, then what is left of the     *)
(* interval since the last fetch of the host ended.                        *)
Acquire(f) ==
  /\ pc[f] = "acquire"
  /\ HasHost(f) => taken[Slot(f)] < HostConcurrency[Host(f)]
  /\ IF HasHost(f)
     THEN LET wait == MinInterval[Host(f)] - since[Slot(f)]
          IN /\ taken' = [taken EXCEPT ![Slot(f)] = @ + 1]
             /\ timer' = [timer EXCEPT ![f] = wait]
             /\ Goto(f, IF wait = 0 THEN "enter" ELSE "spacing")
     ELSE Goto(f, "enter") /\ UNCHANGED <<taken, timer>>
  /\ UNCHANGED <<since, circuit, tries, outcome, expired, late>>

(* The timer of the interval fires. *)
SpacingOver(f) ==
  /\ pc[f] = "spacing"
  /\ timer[f] = 0
  /\ Goto(f, "enter")
  /\ UNCHANGED <<taken, since, circuit, timer, tries, outcome, expired, late>>

(* acquire fails because the context is done: in the queue of the          *)
(* semaphore, or in the wait for the interval, which returns the permit.   *)
GiveUp(f) ==
  /\ expired
  /\ \/ pc[f] = "acquire" /\ HasHost(f) /\ UNCHANGED taken
     \/ pc[f] = "spacing" /\ taken' = [taken EXCEPT ![Slot(f)] = @ - 1]
  /\ Goto(f, "done")
  /\ outcome' = [outcome EXCEPT ![f] = "cancelled"]
  /\ timer' = [timer EXCEPT ![f] = 0]
  /\ UNCHANGED <<since, circuit, tries, expired, late>>

(* Mutant of Finish: the permit is not returned. *)
FinishPermitKept(f, what) ==
  /\ pc' = [pc EXCEPT ![f] = "done"]
  /\ outcome' = [outcome EXCEPT ![f] = what]
  /\ UNCHANGED <<taken, since>>

\* fetchURLWithRetry returns; the deferred release dates the host and
\* returns the permit.
Finish(f, what) ==
  /\ pc' = [pc EXCEPT ![f] = "done"]
  /\ outcome' = [outcome EXCEPT ![f] = what]
  /\ IF HasHost(f)
     THEN /\ taken' = [taken EXCEPT ![Slot(f)] = @ - 1]
          /\ since' = [since EXCEPT ![Slot(f)] = 0]
     ELSE UNCHANGED <<taken, since>>

(* The start of fetchURLWithRetry and of retry.Do: an open circuit skips   *)
(* the feed, a context that is done fails it.                              *)
Enter(f) ==
  /\ pc[f] = "enter"
  /\ IF Open(f) THEN Finish(f, "skipped")
     ELSE IF expired THEN Finish(f, "failed")
     ELSE Goto(f, "attempt") /\ UNCHANGED <<taken, since, outcome>>
  /\ UNCHANGED <<circuit, timer, tries, expired, late>>

(* Mutant of Attempt: only the first attempt looks at the circuit. *)
AttemptUnchecked(f) ==
  /\ pc[f] = "attempt"
  /\ IF expired THEN Finish(f, "failed")
     ELSE Goto(f, "send") /\ UNCHANGED <<taken, since, outcome>>
  /\ UNCHANGED <<circuit, timer, tries, expired, late>>

(* fetchOnce up to the request: the context and the circuit, every time. *)
Attempt(f) ==
  /\ pc[f] = "attempt"
  /\ IF expired THEN Finish(f, "failed")
     ELSE IF Open(f) THEN Finish(f, "skipped")
     ELSE Goto(f, "send") /\ UNCHANGED <<taken, since, outcome>>
  /\ UNCHANGED <<circuit, timer, tries, expired, late>>

(* The request leaves, however long ago the circuit was looked at. *)
Send(f) ==
  /\ pc[f] = "send"
  /\ Goto(f, "request")
  /\ late' = IF Open(f) THEN [late EXCEPT ![Slot(f)] = @ + 1] ELSE late
  /\ UNCHANGED <<taken, since, circuit, timer, tries, outcome, expired>>

(* ParseURLWithContext returns the feed. *)
Fetched(f) ==
  /\ pc[f] = "request"
  /\ Finish(f, "feed")
  /\ UNCHANGED <<circuit, timer, tries, expired, late>>

\* shouldTripHostCircuit
Trips(f, error) == error = "risk" \/ (error = "5xx" /\ Host(f) \in CircuitOn5xx)

(* ParseURLWithContext returns an error: of the host's risk control, a     *)
(* 5xx, another worth a retry (a timeout, the network, 429), or a final    *)
(* one.  handleParseError and retry.Do decide what follows.                *)
Refused(f, error) ==
  /\ pc[f] = "request"
  /\ tries' = [tries EXCEPT ![f] = @ + 1]
  /\ circuit' = IF Trips(f, error) /\ HasHost(f) /\ ~Open(f)
                THEN [circuit EXCEPT ![Slot(f)] = f] ELSE circuit
  /\ IF Trips(f, error) \/ error \in {"risk", "final"} \/ tries[f] + 1 = MaxTries
     THEN Finish(f, "failed")
     ELSE Goto(f, "backoff") /\ UNCHANGED <<taken, since, outcome>>
  /\ UNCHANGED <<timer, expired, late>>

(* retry.Do's delay is over, or the context is done. *)
BackoffOver(f) ==
  /\ pc[f] = "backoff"
  /\ \/ Goto(f, "attempt") /\ UNCHANGED <<taken, since, outcome>>
     \/ expired /\ Finish(f, "failed")
  /\ UNCHANGED <<circuit, timer, tries, expired, late>>

Errors == {"risk", "5xx", "again", "final"}

Step(f) ==
  \/ Launch(f) \/ Acquire(f) \/ SpacingOver(f) \/ GiveUp(f)
  \/ Enter(f) \/ Attempt(f) \/ Send(f) \/ Fetched(f) \/ BackoffOver(f)
  \/ \E error \in Errors : Refused(f, error)

(* One unit of time passes. *)
Tick ==
  /\ \/ \E f \in Feeds : timer[f] > 0
     \/ \E s \in Slots : since[s] < MinInterval[s[2]]
  /\ timer' = [f \in Feeds |-> IF timer[f] > 0 THEN timer[f] - 1 ELSE 0]
  /\ since' = [s \in Slots |->
                 IF since[s] < MinInterval[s[2]] THEN since[s] + 1 ELSE since[s]]
  /\ UNCHANGED <<pc, taken, circuit, tries, outcome, expired, late>>

(* The deadline of ProcessAllFeeds' context. *)
Timeout ==
  /\ ~expired
  /\ expired' = TRUE
  /\ UNCHANGED <<pc, taken, since, circuit, timer, tries, outcome, late>>

AllDone == \A f \in Feeds : pc[f] = "done"

Finished == AllDone /\ UNCHANGED vars

Next == Tick \/ Timeout \/ Finished \/ \E f \in Feeds : Step(f)

Spec == Init /\ [][Next]_vars

(* Goroutines are scheduled, timers fire, and the HTTP client's timeout    *)
(* ends every request.  The deadline is not needed.                        *)
FairSpec == Spec /\ WF_vars(Tick) /\ \A f \in Feeds : WF_vars(Step(f))

-----------------------------------------------------------------------------
PCs == {"queued", "acquire", "spacing", "enter", "attempt", "send", "request",
        "backoff", "done"}

(* Type invariant of the controllers and the goroutines. *)
TypeOK ==
  /\ pc \in [Feeds -> PCs]
  /\ taken \in [Slots -> Nat]
  /\ since \in [Slots -> Nat]
  /\ circuit \in [Slots -> Feeds \cup {Nil}]
  /\ timer \in [Feeds -> Nat]
  /\ tries \in [Feeds -> 0 .. MaxTries]
  /\ outcome \in [Feeds -> {"none", "feed", "failed", "skipped", "cancelled"}]
  /\ expired \in BOOLEAN
  /\ late \in [Slots -> Nat]

\* The goroutines between the semaphore's Acquire and its Release.
Holders(s) ==
  {f \in Feeds : Slot(f) = s /\ pc[f] \notin {"queued", "acquire", "done"}}

(* Every path out of a fetch, also the cancelled ones, returns the permit  *)
(* it took and no other, and a host never serves more fetches of a         *)
(* category than its rule allows (host_policy.go:186-228, feed.go:246-255).*)
PermitsAccounted ==
  \A s \in Slots :
    taken[s] = Cardinality(Holders(s)) /\ taken[s] <= HostConcurrency[s[2]]

(* Once a host's circuit is open, only the other holders of its permits    *)
(* can still send a request, and each of them one: a host fetched serially *)
(* gets none (feed.go:57, 114; host_policy.go:124-167).                    *)
FewLateRequests == \A s \in Slots : late[s] < HostConcurrency[s[2]]

(* A host that is fetched serially has its interval of rest before the     *)
(* next feed, whoever waited when (host_policy.go:193-217).                *)
RestBetweenFeeds ==
  [][\A f \in Feeds :
       /\ HasHost(f) /\ HostConcurrency[Host(f)] = 1
       /\ pc[f] \in {"acquire", "spacing"} /\ pc'[f] = "enter"
       => since[Slot(f)] = MinInterval[Host(f)]]_vars

(* Every feed gets its outcome, without the deadline: no permit and no     *)
(* place in the group is ever lost (feed.go:220-236).                      *)
EveryFeedEnds == <>AllDone
=============================================================================
