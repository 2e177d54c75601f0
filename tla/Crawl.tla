------------------------------- MODULE Crawl -------------------------------
(* The crawler of crawl_shard/mod.rs. One worker per page (fetch_resolve)    *)
(* fetches over HTTP and, where that is not enough, renders in a browser     *)
(* under a bounded number of render slots. Two managers drive the workers:   *)
(*                                                                           *)
(*   "shard"  run_crawl_shard: a batch sent by a coordinator, answered with  *)
(*            one task_result and, on the way, coalesced progress frames;    *)
(*   "local"  run_crawl: a crawl of this machine with its own frontier, its  *)
(*            row in crawl_jobs (crawl_jobs.rs) and a cancel flag it polls.  *)
(*                                                                           *)
(* A behaviour is one crawl under either manager. Host pacing, what a page   *)
(* holds, and the text of rows and links are left out.                       *)
EXTENDS Naturals, Sequences, FiniteSets, SequencesExt

CONSTANTS
    Urls,          \* the pages of the site that are in scope
    Batch,         \* the pages of a shard, each once, in the coordinator's order
    Seeds,         \* the seed and the sitemap's pages, in order
    Links,         \* the links of each page, in document order
    Site,          \* what the host may answer to a fetch and to a render
    Disallowed,    \* the pages the URL guard or robots.txt refuses
    MaxDepth,      \* cfg.max_depth
    Budget,        \* cfg.page_budget
    VisitedCap,    \* VISITED_HARD_CAP
    Window,        \* max_concurrent / SHARD_CONCURRENCY
    RenderSlots,   \* BROWSER_LANE_CONCURRENCY
    BlockAbort,    \* CONSEC_BLOCK_ABORT
    PollEvery,     \* loops between two reads of the cancel flag
    FlushBatch,    \* FLUSH_BATCH, one row per page
    Faults,        \* the faults a behaviour may meet
    MaxFaults      \* how many of them

ASSUME CrawlConstants ==
    /\ IsFiniteSet(Urls)
    /\ Batch \in Seq(Urls) /\ IsInjective(Batch) /\ Seeds \in Seq(Urls)
    /\ Links \in [Urls -> Seq(Urls)]
    /\ Site \in [Urls -> [http : SUBSET {"dead", "refused", "doc", "page",
                                        "thin", "wall", "unparsable"},
                          browser : SUBSET {"page", "wall", "unparsable",
                                            "nothing"}]]
    /\ Disallowed \subseteq Urls
    /\ {MaxDepth, MaxFaults} \subseteq Nat
    /\ {Budget, VisitedCap, Window, RenderSlots, BlockAbort, PollEvery,
        FlushBatch} \subseteq Nat \ {0}
    /\ Faults \subseteq {"panic", "db", "crash"}

VARIABLES
    mode,       \* which manager drives the crawl
    render,     \* render_mode; "http" stands also for a machine with no browser
    mgr,        \* where the manager is
    front,      \* queue, visited, discovered, skipped, and the links that are
                \* still to be offered to admit
    work,       \* the worker of each page
    tally,      \* pages, failed, blocked, consec, aborted
    progress,   \* the forwarder: chan, latest, framed
    poll,       \* cancel_poll (modulo PollEvery) and stopping
    store,      \* buffer, saved pages, pages of a batch that was not written
    row,        \* the crawl_jobs row: status, cancel_requested, and whether
                \* a cancel was accepted or the final write was lost
    fired,      \* crawl_completed was fired
    late,       \* workers started since the cancel was accepted
    faults      \* faults met so far

vars == <<mode, render, mgr, front, work, tally, progress, poll, store, row,
          fired, late, faults>>
localVars == <<poll, store, row, fired, late>>

Terminal == {"completed", "failed", "cancelled"}
InFlight == {"fetch", "wait", "render", "Extracted", "Blocked", "Failed",
             "panicked"}
Over == {"Extracted", "Blocked", "Failed", "panicked"}
NoTally == [done |-> 0, failed |-> 0]

MayBrowser == render # "http"
Idle(at) == \A u \in Urls : at[u].at \notin InFlight

----------------------------------------------------------------------------
(* Admission: depth and budget, then dedupe, then the guards.                *)

Admit_Again(f, item) ==
    IF item.depth > MaxDepth \/ f.discovered >= Budget
    THEN f
    ELSE [f EXCEPT !.visited = @ \union {item.url}, !.discovered = @ + 1,
                   !.queue = Append(@, item)]

Admit(f, item) ==
    IF \/ item.depth > MaxDepth
       \/ f.discovered >= Budget
       \/ item.url \in f.visited
       \/ Cardinality(f.visited) >= VisitedCap
    THEN f
    ELSE IF item.url \in Disallowed
    THEN [f EXCEPT !.visited = @ \union {item.url}, !.skipped = @ + 1]
    ELSE [f EXCEPT !.visited = @ \union {item.url}, !.discovered = @ + 1,
                   !.queue = Append(@, item)]

Offers(urls, depth) ==
    [i \in DOMAIN urls |-> [url |-> urls[i], depth |-> depth]]

(* The window is refilled from the front of the queue.                       *)
Started(queue, at) ==
    LET busy == Cardinality({u \in Urls : at[u].at \in InFlight})
        n == IF Len(queue) + busy < Window THEN Len(queue) ELSE Window - busy IN
    [queue |-> SubSeq(queue, n + 1, Len(queue)),
     count |-> n,
     work  |-> [u \in Urls |->
        IF \E i \in 1 .. n : queue[i].url = u
        THEN [at |-> "fetch", held |-> "nothing",
              depth |-> queue[CHOOSE i \in 1 .. n : queue[i].url = u].depth]
        ELSE at[u]]]

----------------------------------------------------------------------------
(* One worker: fetch_and_extract, then resolve_outcome under a render slot.  *)

At(where, held) == [at |-> where, held |-> held]

(* What the HTTP lane makes of an answer. A wall is a captcha served with    *)
(* 200: with a browser it is not looked for, so one with little text goes on *)
(* to a render and one with enough text passes for a page. A document is     *)
(* never rendered and brings no links.                                       *)
HttpLane(a) ==
    CASE a = "doc" -> {At("Extracted", "doc")}
      [] a = "dead" -> IF MayBrowser THEN {At("wait", "nothing")}
                                     ELSE {At("Failed", "nothing")}
      [] a = "refused" -> IF MayBrowser THEN {At("wait", "refused")}
                                        ELSE {At("Blocked", "nothing")}
      [] OTHER ->
         CASE render = "browser" -> {At("wait", "thin")}
           [] a = "unparsable" -> {At("Failed", "nothing")}
           [] a = "page" -> {At("Extracted", "nothing")}
           [] render = "http" ->
              {At(IF a = "wall" THEN "Blocked" ELSE "Extracted", "nothing")}
           [] a = "thin" -> {At("wait", "thin")}
           [] OTHER -> {At("wait", "thin"), At("Extracted", "nothing")}

(* What is left of a page the browser did not open: the refusal it came      *)
(* with, else the HTTP body, else nothing.                                   *)
Unrendered(held) ==
    CASE held = "refused" -> {"Blocked"}
      [] held = "thin" -> {"Extracted", "Failed"}
      [] OTHER -> {"Failed"}

Resolved(held, r) ==
    CASE r = "page" -> {"Extracted"}
      [] r = "wall" -> {"Blocked"}
      [] r = "unparsable" -> {"Failed"}
      [] OTHER -> Unrendered(held)

Running == mgr \notin {"dead", "ended"}

Fetch(u) ==
    /\ Running /\ work[u].at = "fetch"
    /\ \E a \in Site[u].http : \E w \in HttpLane(a) :
          work' = [work EXCEPT ![u].at = w.at, ![u].held = w.held]
    /\ UNCHANGED <<mode, render, mgr, front, tally, progress, faults>>
    /\ UNCHANGED localVars

Rendering_Leaked == {u \in Urls : work[u].at \in {"render", "panicked", "lost"}}

(* The workers that hold a render slot.                                      *)
Rendering == {u \in Urls : work[u].at = "render"}

Acquire(u) ==
    /\ Running /\ work[u].at = "wait"
    /\ Cardinality(Rendering) < RenderSlots
    /\ Cardinality(Rendering) < Window
    /\ work' = [work EXCEPT ![u].at = "render"]
    /\ UNCHANGED <<mode, render, mgr, front, tally, progress, faults>>
    /\ UNCHANGED localVars

Render(u) ==
    /\ Running /\ work[u].at = "render"
    /\ \E r \in Site[u].browser : \E w \in Resolved(work[u].held, r) :
          work' = [work EXCEPT ![u].at = w]
    /\ UNCHANGED <<mode, render, mgr, front, tally, progress, faults>>
    /\ UNCHANGED localVars

Meet(f) ==
    /\ f \in Faults /\ faults < MaxFaults
    /\ faults' = faults + 1

Panic(u) ==
    /\ Running /\ work[u].at \in {"fetch", "render"}
    /\ Meet("panic")
    /\ work' = [work EXCEPT ![u].at = "panicked"]
    /\ UNCHANGED <<mode, render, mgr, front, tally, progress>>
    /\ UNCHANGED localVars

----------------------------------------------------------------------------
(* The shard manager. Between two awaits it books one outcome, hands the     *)
(* queue back once the host has refused it too often, refills the window and *)
(* returns when nothing is left.                                             *)

Booked(t, u, o) ==
    CASE o = "Extracted" -> [t EXCEPT !.pages = @ \union {u}, !.consec = 0]
      [] o = "Blocked" ->
         [t EXCEPT !.blocked = @ \union {u}, !.failed = @ \union {u},
                   !.consec = @ + 1,
                   !.aborted = @ \/ t.consec + 1 >= BlockAbort]
      [] o = "Failed" -> [t EXCEPT !.failed = @ \union {u}, !.consec = 0]
      [] OTHER -> t

HandedBack_Dropped(t, queue) == t

(* The early abort: what was not fetched goes back as blocked.               *)
HandedBack(t, queue) ==
    [t EXCEPT !.blocked = @ \union {queue[i].url : i \in DOMAIN queue}]

Remaining(t) == IF t.aborted THEN <<>> ELSE front.queue

Turn(t, at) ==
    LET s == Started(Remaining(t), at) IN
    /\ tally' = IF t.aborted THEN HandedBack(t, front.queue) ELSE t
    /\ work' = s.work
    /\ front' = [front EXCEPT !.queue = s.queue]
    /\ mgr' = IF Idle(s.work) THEN "returned" ELSE "join"

ShardBegin ==
    /\ mode = "shard" /\ mgr = "start"
    /\ Turn(tally, work)
    /\ UNCHANGED <<mode, render, progress, faults>>
    /\ UNCHANGED localVars

Taken(u) ==
    [work EXCEPT ![u] = [at |-> IF @.at = "panicked" THEN "lost" ELSE "taken",
                         held |-> "nothing", depth |-> 0]]

Count(t) == [done |-> Cardinality(t.pages), failed |-> Cardinality(t.failed)]

(* A panicked worker cannot be attributed: no list gets its page and no      *)
(* progress is sent.                                                         *)
ShardCollect(u) ==
    /\ mode = "shard" /\ mgr = "join" /\ work[u].at \in Over
    /\ Turn(Booked(tally, u, work[u].at), Taken(u))
    /\ progress' = IF work[u].at = "panicked" THEN progress
                   ELSE [progress EXCEPT !.chan =
                            Append(@, Count(Booked(tally, u, work[u].at)))]
    /\ UNCHANGED <<mode, render, faults>>
    /\ UNCHANGED localVars

(* The result goes out after the sink was dropped, beside the forwarder.     *)
Settle ==
    /\ mode = "shard" /\ mgr = "returned"
    /\ mgr' = "settled"
    /\ UNCHANGED <<mode, render, front, work, tally, progress, faults>>
    /\ UNCHANGED localVars

(* The forwarder keeps the latest tally, puts it on the wire at each tick,   *)
(* and once the sink is dropped and drained flushes what it still holds.     *)
Receive ==
    /\ progress.chan # <<>>
    /\ progress' = [progress EXCEPT !.chan = Tail(@),
                                    !.latest = Head(progress.chan)]
    /\ UNCHANGED <<mode, render, mgr, front, work, tally, faults>>
    /\ UNCHANGED localVars

Emit(p) == IF p.latest = NoTally THEN p
           ELSE [p EXCEPT !.latest = NoTally, !.framed = p.latest]

Tick ==
    /\ progress.open /\ progress.latest # NoTally
    /\ progress' = Emit(progress)
    /\ UNCHANGED <<mode, render, mgr, front, work, tally, faults>>
    /\ UNCHANGED localVars

Closed_NoFlush(p) == [p EXCEPT !.open = FALSE]

Closed(p) == [Emit(p) EXCEPT !.open = FALSE]

Close ==
    /\ progress.open /\ progress.chan = <<>>
    /\ mode = "shard" /\ mgr \in {"returned", "settled"}
    /\ progress' = Closed(progress)
    /\ UNCHANGED <<mode, render, mgr, front, work, tally, faults>>
    /\ UNCHANGED localVars

----------------------------------------------------------------------------
(* The local manager and its row.                                            *)

(* finalize is guarded: a settled row stays as it is.                        *)
Finalized(r, status) ==
    IF r.status \in Terminal THEN r
    ELSE [r EXCEPT !.status = status, !.cancel = FALSE]

(* The row is read, the persona signs in, and the crawl is set to mapping,   *)
(* whatever a cancel has written meanwhile.                                  *)
Begin ==
    /\ mode = "local" /\ mgr = "start"
    /\ \/ /\ row' = Finalized(row, "failed")
          /\ mgr' = "ended"
          /\ UNCHANGED front
       \/ /\ row' = [row EXCEPT !.status = "mapping"]
          /\ mgr' = "mapping"
          /\ front' = [front EXCEPT !.todo = Offers(Seeds, 0)]
    /\ UNCHANGED <<mode, render, work, tally, progress, poll, store, fired,
                   late, faults>>

(* admit resolves the host and reads robots.txt: the workers go on while the *)
(* manager is in it. What is left is dropped once the budget is spent.       *)
AdmitNext ==
    /\ mode = "local" /\ mgr \in {"mapping", "admit"} /\ front.todo # <<>>
    /\ front' = [Admit(front, Head(front.todo)) EXCEPT !.todo =
                    IF front.discovered >= Budget THEN <<>> ELSE Tail(@)]
    /\ UNCHANGED <<mode, render, mgr, work, tally, progress, faults>>
    /\ UNCHANGED localVars

Map ==
    /\ mode = "local" /\ mgr = "mapping" /\ front.todo = <<>>
    /\ row' = [row EXCEPT !.status = "crawling"]
    /\ mgr' = "loop"
    /\ UNCHANGED <<mode, render, front, work, tally, progress, poll, store,
                   fired, late, faults>>

(* A status that cannot be written ends the crawl as failed.                 *)
StatusNotWritten ==
    /\ mode = "local" /\ mgr \in {"start", "mapping"} /\ front.todo = <<>>
    /\ Meet("db")
    /\ row' = Finalized(row, "failed")
    /\ mgr' = "ended"
    /\ UNCHANGED <<mode, render, front, work, tally, progress, poll, store,
                   fired, late>>

(* Whether this loop sees the cancel: the flag is read every PollEvery loops *)
(* and reads as not set when it cannot be read.                              *)
Heard(readable) == /\ poll.count + 1 = PollEvery
                   /\ row.cancel /\ readable

Wave ==
    /\ mode = "local" /\ mgr = "loop"
    /\ \E readable \in BOOLEAN :
          /\ IF readable THEN UNCHANGED faults ELSE Meet("db")
          /\ LET stop == poll.stopping \/ Heard(readable)
                 s == Started(IF stop THEN <<>> ELSE front.queue, work) IN
             /\ poll' = [count |-> IF poll.stopping THEN poll.count
                                   ELSE (poll.count + 1) % PollEvery,
                         stopping |-> stop]
             /\ front' = [front EXCEPT !.queue = s.queue]
             /\ work' = s.work
             /\ late' = IF row.asked THEN late + s.count ELSE late
             /\ mgr' = IF Idle(s.work) THEN "flush" ELSE "join"
    /\ UNCHANGED <<mode, render, tally, progress, store, row, fired>>

Counted(t, u, o) ==
    IF o = "Extracted" THEN [t EXCEPT !.pages = @ \union {u}]
    ELSE [t EXCEPT !.failed = @ \union {u}]

(* One row of `runs` per batch; a batch that is not written is gone.         *)
Flushed(st, ok) ==
    IF ok THEN [st EXCEPT !.buffer = {}, !.saved = @ \union st.buffer]
    ELSE [st EXCEPT !.buffer = {}, !.lost = @ \union st.buffer]

Flushes(st) ==
    \E ok \in BOOLEAN :
       /\ IF ok THEN UNCHANGED faults ELSE st.buffer # {} /\ Meet("db")
       /\ store' = Flushed(st, ok)

LocalCollect(u) ==
    LET o == work[u].at
        links == IF work[u].held = "doc" THEN <<>> ELSE Links[u] IN
    /\ mode = "local" /\ mgr = "join" /\ o \in Over
    /\ tally' = Counted(tally, u, o)
    /\ store' = IF o = "Extracted" THEN [store EXCEPT !.buffer = @ \union {u}]
                ELSE store
    /\ front' = IF o = "Extracted" /\ ~poll.stopping
                THEN [front EXCEPT !.todo = Offers(links, work[u].depth + 1)]
                ELSE front
    /\ work' = Taken(u)
    /\ mgr' = IF o = "Extracted" THEN "admit" ELSE "loop"
    /\ UNCHANGED <<mode, render, progress, poll, row, fired, late, faults>>

(* The links are admitted: a full buffer is written before the next wave.    *)
Admitted ==
    /\ mode = "local" /\ mgr = "admit" /\ front.todo = <<>>
    /\ IF Cardinality(store.buffer) >= FlushBatch THEN Flushes(store)
       ELSE UNCHANGED <<store, faults>>
    /\ mgr' = "loop"
    /\ UNCHANGED <<mode, render, front, work, tally, progress, poll, row,
                   fired, late>>

FinalFlush_None ==
    /\ mode = "local" /\ mgr = "flush"
    /\ mgr' = "finalize"
    /\ UNCHANGED <<mode, render, front, work, tally, progress, poll, store,
                   row, fired, late, faults>>

FinalFlush ==
    /\ mode = "local" /\ mgr = "flush"
    /\ Flushes(store)
    /\ mgr' = "finalize"
    /\ UNCHANGED <<mode, render, front, work, tally, progress, poll, row,
                   fired, late>>

(* The outcome of the final write is ignored: the event is fired either way. *)
Finalize ==
    /\ mode = "local" /\ mgr = "finalize"
    /\ \/ /\ row' = Finalized(row, IF poll.stopping THEN "cancelled"
                                   ELSE "completed")
          /\ UNCHANGED faults
       \/ row' = [row EXCEPT !.unwritten = TRUE] /\ Meet("db")
    /\ mgr' = IF poll.stopping THEN "ended" ELSE "fire"
    /\ UNCHANGED <<mode, render, front, work, tally, progress, poll, store,
                   fired, late>>

Fire ==
    /\ mode = "local" /\ mgr = "fire"
    /\ fired' = TRUE
    /\ mgr' = "ended"
    /\ UNCHANGED <<mode, render, front, work, tally, progress, poll, store,
                   row, late, faults>>

(* POST /v1/crawl/:id/cancel.                                                *)
Cancel ==
    /\ mode = "local" /\ mgr # "dead"
    /\ row.status \notin Terminal \union {"stopping"}
    /\ row' = [row EXCEPT !.cancel = TRUE, !.asked = TRUE,
                          !.status = "stopping"]
    /\ UNCHANGED <<mode, render, mgr, front, work, tally, progress, poll,
                   store, fired, late, faults>>

(* The process dies: the frontier and the workers lived in memory.           *)
NoWork == [u \in Urls |-> [at |-> "none", held |-> "nothing", depth |-> 0]]
NoFront(queue) == [queue |-> queue, visited |-> {}, discovered |-> 0,
                   skipped |-> 0, todo |-> <<>>]
NoTallies == [pages |-> {}, failed |-> {}, blocked |-> {}, consec |-> 0,
              aborted |-> FALSE]
NoPoll == [count |-> 0, stopping |-> FALSE]

Crash ==
    /\ mode = "local" /\ mgr # "dead" /\ row.status \notin Terminal
    /\ Meet("crash")
    /\ mgr' = "dead"
    /\ front' = NoFront(<<>>) /\ work' = NoWork /\ tally' = NoTallies
    /\ poll' = NoPoll /\ store' = [store EXCEPT !.buffer = {}]
    /\ late' = 0
    /\ UNCHANGED <<mode, render, progress, row, fired>>

(* The next start sweeps what no loop is behind any more.                    *)
Swept_Queued(r) == IF r.status = "stopping" THEN r ELSE Finalized(r, "failed")

Swept(r) == Finalized(r, "failed")

Boot ==
    /\ mgr = "dead"
    /\ row' = Swept(row)
    /\ mgr' = "ended"
    /\ UNCHANGED <<mode, render, front, work, tally, progress, poll, store,
                   fired, late, faults>>

----------------------------------------------------------------------------
Init ==
    /\ mode \in {"shard", "local"}
    /\ render \in {"http", "auto", "browser"}
    /\ mgr = "start"
    /\ front = NoFront(IF mode = "shard"
                       THEN [i \in DOMAIN Batch |->
                                [url |-> Batch[i], depth |-> 0]]
                       ELSE <<>>)
    /\ work = NoWork /\ tally = NoTallies
    /\ progress = [chan |-> <<>>, latest |-> NoTally, framed |-> NoTally,
                   open |-> mode = "shard"]
    /\ poll = NoPoll
    /\ store = [buffer |-> {}, saved |-> {}, lost |-> {}]
    /\ row = [status |-> "queued", cancel |-> FALSE, asked |-> FALSE,
              unwritten |-> FALSE]
    /\ fired = FALSE /\ late = 0 /\ faults = 0

Worker(u) == Fetch(u) \/ Acquire(u) \/ Render(u)
Shard == ShardBegin \/ Settle \/ \E u \in Urls : ShardCollect(u)
Forwarder == Receive \/ Close
Local == AdmitNext \/ Map \/ Wave \/ Admitted \/ FinalFlush \/ Finalize \/ Fire
         \/ \E u \in Urls : LocalCollect(u)

Next ==
    \/ \E u \in Urls : Worker(u) \/ Panic(u)
    \/ Shard \/ Forwarder \/ Tick
    \/ Begin \/ Local \/ StatusNotWritten
    \/ Cancel \/ Crash \/ Boot

Spec == Init /\ [][Next]_vars

(* A fetch ends: the HTTP client, the document service and the upload have   *)
(* timeouts. A freed render slot is taken by a waiter (the semaphore is      *)
(* first come first served), the managers and the forwarder are scheduled,   *)
(* and a daemon that died is started again. Nothing makes a render end, for  *)
(* it awaits the browser's answers without a timeout (fetch_via_browser), or *)
(* the sign-in before a crawl, which is a run of the engine (Begin).         *)
FairSpec ==
    /\ Spec
    /\ \A u \in Urls : WF_vars(Fetch(u)) /\ SF_vars(Acquire(u))
    /\ WF_vars(Shard) /\ WF_vars(Forwarder) /\ WF_vars(Local)
    /\ WF_vars(Boot)

----------------------------------------------------------------------------
Item == [url : Urls, depth : Nat]
Tally == [done : Nat, failed : Nat]
WorkerState == [at : InFlight \union {"none", "taken", "lost"},
                held : {"nothing", "thin", "refused", "doc"}, depth : Nat]

TypeOK ==
    /\ mode \in {"shard", "local"}
    /\ render \in {"http", "auto", "browser"}
    /\ mgr \in {"start", "join", "returned", "settled", "mapping", "admit",
                "loop", "flush", "finalize", "fire", "ended", "dead"}
    /\ front \in [queue : Seq(Item), visited : SUBSET Urls,
                  discovered : 0 .. Budget, skipped : Nat, todo : Seq(Item)]
    /\ work \in [Urls -> WorkerState]
    /\ tally \in [pages : SUBSET Urls, failed : SUBSET Urls,
                  blocked : SUBSET Urls, consec : Nat, aborted : BOOLEAN]
    /\ progress \in [chan : Seq(Tally), latest : Tally, framed : Tally,
                     open : BOOLEAN]
    /\ poll \in [count : 0 .. PollEvery - 1, stopping : BOOLEAN]
    /\ store \in [buffer : SUBSET Urls, saved : SUBSET Urls,
                  lost : SUBSET Urls]
    /\ row \in [status : Terminal \union {"queued", "mapping", "crawling",
                                          "stopping"},
                cancel : BOOLEAN, asked : BOOLEAN, unwritten : BOOLEAN]
    /\ fired \in BOOLEAN /\ late \in Nat /\ faults \in 0 .. MaxFaults

(* A shard that returns has accounted for its batch: each page is a page or  *)
(* a failure or handed back as blocked, never a page and one of the others,  *)
(* and only a panicked worker's page is missing (run_crawl_shard). A page    *)
(* the host refuses to HTTP and to the browser alike is handed back for      *)
(* another agent, whatever route it took through the lanes.                  *)
BatchAccounted ==
    mode = "shard" /\ mgr \in {"returned", "settled"} =>
        /\ \A i \in DOMAIN Batch :
              LET u == Batch[i] IN
              \/ work[u].at = "lost"
              \/ /\ u \in UNION {tally.pages, tally.failed, tally.blocked}
                 /\ Site[u].http = {"refused"}
                    /\ Site[u].browser \subseteq {"wall", "nothing"}
                    => u \in tally.blocked
        /\ tally.pages \intersect (tally.failed \union tally.blocked) = {}

(* Until a cancel is seen, what the local crawl has discovered is exactly    *)
(* what is queued, in flight, done or failed; the window and the page budget *)
(* hold (admit and the refill).                                              *)
FrontierSound ==
    mode = "local" /\ mgr # "dead" =>
        LET flight == {u \in Urls : work[u].at \in InFlight} IN
        /\ Cardinality(flight) <= Window
        /\ front.discovered <= Budget
        /\ ~poll.stopping =>
              front.discovered = Len(front.queue) + Cardinality(flight)
                  + Cardinality(tally.pages) + Cardinality(tally.failed)

(* A crawl settled as completed has left nothing behind: every page admitted *)
(* was done or failed, and every page done is stored, unless the write of    *)
(* its batch failed.                                                         *)
ResultComplete ==
    row.status = "completed" =>
        /\ front.visited \ Disallowed = tally.pages \union tally.failed
        /\ store.saved \union store.lost = tally.pages

(* No render goes on for ever.                                               *)
RendersEnd == \A u \in Urls : []<>(work[u].at # "render")

(* Every shard is answered, panicked workers and contended render slots      *)
(* included, unless a render never ends (run_crawl_shard, fetch_resolve).    *)
ShardAnswers == RendersEnd => (mode = "shard" ~> mgr = "settled")

(* The coordinator is eventually shown the shard's final tally.              *)
TallyFramed ==
    mode = "shard" /\ mgr = "settled" ~> progress.framed = Count(tally)

(* Every local crawl that was set up settles, over a crash by the sweep of   *)
(* the next start, unless a render never ends or the one write that settles  *)
(* it failed (run_crawl, interrupt_orphaned).                                *)
RowSettles ==
    RendersEnd => (mode = "local" /\ mgr # "start"
                      ~> row.status \in Terminal \/ row.unwritten)

(* A cancel accepted while pages were still to be fetched ends the crawl as  *)
(* cancelled, and no crawl_completed is fired for it (cancel_crawl: "the     *)
(* running loop observes the flag between waves, ... finalizes as            *)
(* cancelled").                                                              *)
CancelHonoured == late > 0 => row.status # "completed" /\ ~fired
=============================================================================
