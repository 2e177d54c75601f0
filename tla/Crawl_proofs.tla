---------------------------- MODULE Crawl_proofs ----------------------------
(***************************************************************************)
(* Proofs about Crawl, for any site, batch, window, budget and caps.       *)
(***************************************************************************)
EXTENDS Crawl, FiniteSetTheorems, SequenceTheorems, TLAPS

UrlsOf(queue) == {queue[i].url : i \in DOMAIN queue}
FlightOf(at) == {u \in Urls : at[u].at \in InFlight}
GoneOf(at) == {u \in Urls : at[u].at \in {"taken", "lost"}}
Distinct(queue) ==
    \A i, j \in DOMAIN queue : queue[i].url = queue[j].url => i = j

\* What is queued has no worker yet and is queued once, and the window holds.
Orderly(queue, at) ==
    /\ Distinct(queue)
    /\ \A u \in UrlsOf(queue) : at[u].at = "none"
    /\ Cardinality(FlightOf(at)) <= Window

\* Between two waves, and only there, pages are in flight or queued by a
\* manager that may still return.
Phases ==
    /\ mode = "shard" => mgr \in {"start", "join", "returned", "settled"}
    /\ mode = "local" => mgr \notin {"returned", "settled"}
    /\ mgr \notin {"join", "loop", "admit"} => FlightOf(work) = {}
    /\ mgr \in {"returned", "settled", "flush", "finalize", "fire"} =>
          front.queue = <<>>
    /\ mgr = "start" => ~poll.stopping

\* The pages that were admitted are those that are queued, in flight or gone,
\* and they were counted; a cancelled crawl has dropped what it had queued.
Admissions ==
    /\ front.discovered = Cardinality(front.visited \ Disallowed)
    /\ mode = "local" =>
          /\ UrlsOf(front.queue) \union FlightOf(work) \union GoneOf(work)
                \subseteq front.visited \ Disallowed
          /\ ~poll.stopping =>
                front.visited \ Disallowed \subseteq
                   UrlsOf(front.queue) \union FlightOf(work) \union GoneOf(work)
          /\ GoneOf(work) = tally.pages \union tally.failed
          /\ tally.pages \intersect tally.failed = {}
          /\ poll.stopping => front.queue = <<>>
          /\ front.todo # <<>> => ~poll.stopping /\ mgr \in {"mapping", "admit"}

\* The pages that are done are in the buffer or were written or lost with it,
\* and a crawl settled as completed is one that came to its end.
Storage ==
    /\ mode = "local" /\ (Running \/ row.status = "completed") =>
          tally.pages = store.buffer \union store.saved \union store.lost
    /\ mgr \in {"finalize", "fire"} => store.buffer = {}
    /\ row.status = "completed" =>
          /\ mode = "local" /\ mgr \in {"fire", "ended"} /\ ~poll.stopping
          /\ front.queue = <<>> /\ store.buffer = {}

\* A page the host refuses to HTTP and to the browser alike.
Walled(u) ==
    /\ Site[u].http = {"refused"}
    /\ Site[u].browser \subseteq {"wall", "nothing"}

Listed(t) == t.pages \union t.failed \union t.blocked

\* Every page of a shard is queued, in flight, lost with its worker or in one
\* of the lists; none is in flight or queued and listed; and the refusal of a
\* walled page stays with it through the lanes.
BatchOf(t, queue, at) ==
    /\ \A u \in UrlsOf(queue) \union FlightOf(at) : u \notin Listed(t)
    /\ t.pages \intersect (t.failed \union t.blocked) = {}
    /\ \A i \in DOMAIN Batch :
          \/ Batch[i] \in UrlsOf(queue) \union FlightOf(at) \union Listed(t)
          \/ at[Batch[i]].at = "lost"
    /\ \A u \in Urls : Walled(u) =>
          /\ at[u].at \notin {"Extracted", "Failed"}
          /\ at[u].at \in {"wait", "render"} => at[u].held = "refused"
          /\ u \in Listed(t) => u \in t.blocked

Shards == mode = "shard" => BatchOf(tally, front.queue, work)

IInv == /\ TypeOK /\ Orderly(front.queue, work) /\ Phases /\ Admissions
        /\ Storage /\ Shards

-----------------------------------------------------------------------------
(* The queue and the window.                                               *)

\* A sequence without its first n elements.
LEMMA DropFirst ==
    ASSUME NEW S, NEW s \in Seq(S), NEW n \in 0..Len(s)
    PROVE  /\ SubSeq(s, n + 1, Len(s)) \in Seq(S)
           /\ DOMAIN SubSeq(s, n + 1, Len(s)) = 1..(Len(s) - n)
           /\ \A i \in 1..(Len(s) - n) : SubSeq(s, n + 1, Len(s))[i] = s[n + i]
<1> DEFINE k == SubSeq(s, n + 1, Len(s))
<1>0. Len(s) \in Nat /\ n \in Nat /\ n <= Len(s) /\ DOMAIN s = 1..Len(s)
  BY LenProperties
<1>1. \A i \in (n+1)..Len(s) : s[i] \in S
  BY <1>0, ElementOfSeq
<1>2. n + 1 \in Int /\ Len(s) \in Int
  BY <1>0
<1>3. /\ k \in Seq(S)
      /\ Len(k) = IF n + 1 <= Len(s) THEN Len(s) - (n + 1) + 1 ELSE 0
      /\ \A i \in 1..(Len(s) - (n + 1) + 1) : k[i] = s[n + 1 + i - 1]
  BY <1>1, <1>2, SubSeqProperties
<1> HIDE DEF k
<1>4. Len(k) = Len(s) - n
  <2>1. CASE n + 1 <= Len(s)
    BY <1>0, <1>3, <2>1
  <2>2. CASE ~(n + 1 <= Len(s))
    <3>1. \A p, q \in Int : p <= q /\ ~(p + 1 <= q) => q - p = 0
      OBVIOUS
    <3>2. n \in Int /\ n <= Len(s)
      BY <1>0
    <3>3. Len(s) - n = 0
      BY <3>1, <3>2, <1>2, <2>2, Zenon
    <3> QED BY <1>3, <2>2, <3>3
  <2> QED BY <2>1, <2>2
<1>5. ASSUME NEW i \in 1..(Len(s) - n) PROVE k[i] = s[n + i]
  <2>1. i \in 1..(Len(s) - (n + 1) + 1) /\ n + 1 + i - 1 = n + i
    BY <1>0
  <2> QED BY <1>3, <2>1
<1>6. DOMAIN k = 1..(Len(s) - n)
  BY <1>3, <1>4, LenProperties
<1> QED BY <1>3, <1>5, <1>6 DEF k

\* What a queue holds are pages, and a queue that holds none is empty.
LEMMA QueueUrls ==
    ASSUME NEW queue \in Seq(Item)
    PROVE  UrlsOf(queue) \subseteq Urls /\ (UrlsOf(queue) = {} <=> queue = <<>>)
<1>1. Len(queue) \in Nat /\ DOMAIN queue = 1..Len(queue)
  BY LenProperties
<1>2. \A i \in DOMAIN queue : queue[i].url \in Urls
  <2>1. \A i \in DOMAIN queue : queue[i] \in Item
    BY <1>1, ElementOfSeq
  <2> QED BY <2>1 DEF Item
<1>3. UrlsOf(queue) \subseteq Urls
  BY <1>2 DEF UrlsOf
<1>4. queue = <<>> => UrlsOf(queue) = {}
  <2>1. queue = <<>> => DOMAIN queue = {}
    BY <1>1, EmptySeq
  <2> QED BY <2>1 DEF UrlsOf
<1>5. queue # <<>> => UrlsOf(queue) # {}
  <2>1. queue # <<>> => 1 \in DOMAIN queue
    BY <1>1, EmptySeq
  <2> QED BY <2>1 DEF UrlsOf
<1> QED BY <1>3, <1>4, <1>5

\* The empty queue.
LEMMA EmptyQueue == <<>> \in Seq(Item) /\ UrlsOf(<<>>) = {} /\ Distinct(<<>>)
<1>1. <<>> \in Seq(Item)
  BY EmptySeq
<1>2. UrlsOf(<<>>) = {}
  BY <1>1, QueueUrls
<1>3. DOMAIN (<<>>) = {}
  OBVIOUS
<1>4. Distinct(<<>>)
  BY <1>3 DEF Distinct
<1> QED BY <1>1, <1>2, <1>4

\* A queue without its first n items holds all its pages but theirs.
LEMMA DropItems ==
    ASSUME NEW queue \in Seq(Item), Distinct(queue), NEW n \in 0..Len(queue),
           NEW rest, rest = SubSeq(queue, n + 1, Len(queue))
    PROVE  /\ rest \in Seq(Item) /\ Distinct(rest)
           /\ UrlsOf(rest) \subseteq UrlsOf(queue)
           /\ UrlsOf(queue) \ UrlsOf(rest) = {queue[i].url : i \in 1..n}
<1>0. Len(queue) \in Nat /\ n \in Nat /\ n <= Len(queue) /\ DOMAIN queue = 1..Len(queue)
  BY LenProperties
<1>1. /\ rest \in Seq(Item) /\ DOMAIN rest = 1..(Len(queue) - n)
      /\ \A i \in 1..(Len(queue) - n) : rest[i] = queue[n + i]
  BY DropFirst
<1>2. Distinct(rest)
  <2> SUFFICES ASSUME NEW i \in 1..(Len(queue) - n), NEW j \in 1..(Len(queue) - n),
                      rest[i].url = rest[j].url
               PROVE  i = j
      BY <1>1 DEF Distinct
  <2>1. n + i \in DOMAIN queue /\ n + j \in DOMAIN queue
    BY <1>0
  <2>2. queue[n + i].url = queue[n + j].url
    BY <1>1
  <2>3. n + i = n + j
    BY <2>1, <2>2 DEF Distinct
  <2> QED BY <1>0, <2>3
<1>3. ASSUME NEW u \in UrlsOf(rest)
      PROVE  u \in UrlsOf(queue) /\ u \notin {queue[i].url : i \in 1..n}
  <2>1. PICK i \in 1..(Len(queue) - n) : u = queue[n + i].url
    BY <1>1 DEF UrlsOf
  <2>2. n + i \in DOMAIN queue /\ \A j \in 1..n : j \in DOMAIN queue /\ j # n + i
    BY <1>0
  <2> QED BY <2>1, <2>2 DEF UrlsOf, Distinct
<1>4. ASSUME NEW u \in UrlsOf(queue), u \notin UrlsOf(rest)
      PROVE  u \in {queue[i].url : i \in 1..n}
  <2>1. PICK i \in DOMAIN queue : u = queue[i].url
    BY DEF UrlsOf
  <2>2. CASE i \in 1..n
    BY <2>1, <2>2
  <2>3. CASE i \notin 1..n
    <3>1. i - n \in 1..(Len(queue) - n) /\ n + (i - n) = i
      BY <1>0, <2>3
    <3>2. rest[i - n] = queue[i]
      BY <1>1, <3>1
    <3> QED BY <1>1, <1>4, <2>1, <3>1, <3>2 DEF UrlsOf
  <2> QED BY <2>2, <2>3
<1>5. \A i \in 1..n : queue[i].url \in UrlsOf(queue)
  BY <1>0 DEF UrlsOf
<1> QED BY <1>1, <1>2, <1>3, <1>4, <1>5

\* A page appended to a queue that does not hold it.
LEMMA AppendItem ==
    ASSUME NEW queue \in Seq(Item), Distinct(queue), NEW x \in Item, x.url \notin UrlsOf(queue)
    PROVE  /\ Append(queue, x) \in Seq(Item) /\ Distinct(Append(queue, x))
           /\ UrlsOf(Append(queue, x)) = UrlsOf(queue) \union {x.url}
<1> DEFINE k == Append(queue, x)
           n == Len(queue)
<1>0. n \in Nat /\ DOMAIN queue = 1..n
  BY LenProperties
<1>1. /\ k \in Seq(Item) /\ Len(k) = n + 1
      /\ \A i \in 1..n : k[i] = queue[i]
      /\ k[n + 1] = x
  BY AppendProperties
<1> HIDE DEF k
<1>2. DOMAIN k = 1..(n + 1)
  BY <1>1, LenProperties
<1> HIDE DEF n
<1>3. \A i \in 1..(n + 1) : i \in 1..n \/ i = n + 1
  BY <1>0
<1>4. \A i \in 1..n : i \in 1..(n + 1)
  BY <1>0
<1>5. n + 1 \in 1..(n + 1)
  BY <1>0
<1>6. \A i \in 1..n : queue[i].url # x.url
  BY <1>0 DEF UrlsOf
<1>7. Distinct(k)
  BY <1>0, <1>1, <1>2, <1>3, <1>6 DEF Distinct
<1>8. UrlsOf(k) = UrlsOf(queue) \union {x.url}
  BY <1>0, <1>1, <1>2, <1>3, <1>4, <1>5 DEF UrlsOf
<1> QED BY <1>1, <1>7, <1>8 DEF k

\* How the refill of the window changes the queue and the workers.
Refilled(queue, at, rest, next) ==
    /\ rest \in Seq(Item) /\ next \in [Urls -> WorkerState]
    /\ Orderly(rest, next)
    /\ UrlsOf(rest) \subseteq UrlsOf(queue)
    /\ \A u \in Urls : IF u \in UrlsOf(queue) \ UrlsOf(rest)
                       THEN next[u].at = "fetch" ELSE next[u] = at[u]
    /\ FlightOf(next) = {} => queue = <<>> /\ rest = <<>>

\* The set of the pages in flight is finite and has a size.
LEMMA FlightFinite ==
    ASSUME NEW at PROVE IsFiniteSet(FlightOf(at)) /\ Cardinality(FlightOf(at)) \in Nat
<1>1. FlightOf(at) \in SUBSET Urls
  BY DEF FlightOf
<1> QED BY <1>1, CrawlConstants, FS_Subset, FS_CardinalityType

\* The refill starts the first pages of the queue, never more than the window
\* has room for, and leaves nothing queued beside an idle window.
LEMMA StartedEffect ==
    ASSUME NEW queue \in Seq(Item), NEW at \in [Urls -> WorkerState], Orderly(queue, at)
    PROVE  /\ Refilled(queue, at, Started(queue, at).queue, Started(queue, at).work)
           /\ Started(queue, at).count \in Nat
<1> DEFINE busy == Cardinality(FlightOf(at))
           n == IF Len(queue) + busy < Window THEN Len(queue) ELSE Window - busy
           rest == SubSeq(queue, n + 1, Len(queue))
           first == {queue[i].url : i \in 1..n}
           next == [u \in Urls |->
                      IF \E i \in 1..n : queue[i].url = u
                      THEN [at |-> "fetch", held |-> "nothing",
                            depth |-> queue[CHOOSE i \in 1..n : queue[i].url = u].depth]
                      ELSE at[u]]
<1>0. Len(queue) \in Nat /\ DOMAIN queue = 1..Len(queue) /\ Window \in Nat \ {0}
  BY LenProperties, CrawlConstants
<1>1. busy \in Nat /\ busy <= Window
  BY FlightFinite DEF Orderly
<1>2. /\ Started(queue, at).queue = rest
      /\ Started(queue, at).count = n
      /\ Started(queue, at).work = next
  BY DEF Started, FlightOf
<1> HIDE DEF busy
<1>3. n \in 0..Len(queue) /\ n \in Nat /\ n + busy <= Window /\ n <= Len(queue)
  BY <1>0, <1>1
<1>4. busy = 0 /\ n = 0 => Len(queue) = 0
  BY <1>0
<1> HIDE DEF n
<1>5. /\ rest \in Seq(Item) /\ Distinct(rest) /\ UrlsOf(rest) \subseteq UrlsOf(queue)
      /\ UrlsOf(queue) \ UrlsOf(rest) = first
  BY <1>3, DropItems DEF Orderly
<1>6. \A i \in 1..n : queue[i] \in Item /\ i \in DOMAIN queue
  BY <1>0, <1>3, ElementOfSeq
<1>7. \A u \in Urls : (\E i \in 1..n : queue[i].url = u) <=> u \in first
  OBVIOUS
<1>8. ASSUME NEW u \in Urls, u \in first
      PROVE  next[u] \in WorkerState /\ next[u].at = "fetch"
  <2> DEFINE j == CHOOSE i \in 1..n : queue[i].url = u
  <2>1. j \in 1..n
    BY <1>8
  <2> HIDE DEF j
  <2>2. queue[j].depth \in Nat
    BY <1>6, <2>1 DEF Item
  <2>3. next[u] = [at |-> "fetch", held |-> "nothing", depth |-> queue[j].depth]
    BY <1>7, <1>8 DEF j
  <2> HIDE DEF next
  <2> QED BY <2>2, <2>3 DEF WorkerState, InFlight
<1>9. \A u \in Urls : u \notin first => next[u] = at[u]
  BY <1>7
<1>10. next \in [Urls -> WorkerState]
  <2>1. \A u \in Urls : next[u] \in WorkerState
    BY <1>8, <1>9
  <2> QED BY <2>1
<1> HIDE DEF next, rest, first
<1>11. FlightOf(next) = FlightOf(at) \union first
  <2>1. first \subseteq Urls
    BY <1>6 DEF first, Item
  <2> QED BY <1>8, <1>9, <2>1 DEF FlightOf, InFlight
<1>12. IsFiniteSet(first) /\ Cardinality(first) <= n
  <2> DEFINE f == [i \in 1..n |-> queue[i].url]
  <2>1. f \in Surjection(1..n, first)
    BY DEF Surjection, first
  <2>2. IsFiniteSet(1..n) /\ Cardinality(1..n) = n
    <3>1. 1 \in Int /\ n \in Int /\ (1 > n => n = 0) /\ n - 1 + 1 = n
      BY <1>3
    <3> QED BY <3>1, FS_Interval
  <2> QED BY <2>1, <2>2, FS_Surjection
<1>13. Cardinality(FlightOf(next)) <= Window
  <2>1. /\ IsFiniteSet(FlightOf(at)) /\ IsFiniteSet(FlightOf(at) \intersect first)
    <3>1. FlightOf(at) \intersect first \in SUBSET first
      OBVIOUS
    <3> QED BY <3>1, <1>12, FlightFinite, FS_Subset
  <2>2. Cardinality(FlightOf(at) \union first)
           = busy + Cardinality(first) - Cardinality(FlightOf(at) \intersect first)
    BY <1>12, <2>1, FS_Union DEF busy
  <2>3. Cardinality(first) \in Nat /\ Cardinality(FlightOf(at) \intersect first) \in Nat
    BY <1>12, <2>1, FS_CardinalityType
  <2> QED BY <1>0, <1>1, <1>3, <1>11, <1>12, <2>2, <2>3
<1>14. \A u \in UrlsOf(rest) : next[u].at = "none"
  <2>1. \A u \in UrlsOf(queue) : u \in Urls
    BY QueueUrls
  <2> QED BY <1>5, <1>9, <2>1 DEF Orderly
<1>15. FlightOf(next) = {} => queue = <<>> /\ rest = <<>>
  <2> SUFFICES ASSUME FlightOf(next) = {} PROVE queue = <<>> /\ rest = <<>>
      OBVIOUS
  <2>1. FlightOf(at) = {} /\ first = {}
    BY <1>11
  <2>2. busy = 0
    BY <2>1, FS_EmptySet DEF busy
  <2>3. n = 0
    <3> SUFFICES ASSUME n # 0 PROVE FALSE
        OBVIOUS
    <3>1. 1 \in 1..n
      BY <1>3
    <3> QED BY <2>1, <3>1 DEF first
  <2>4. queue = <<>>
    BY <1>4, <2>2, <2>3, EmptySeq
  <2>5. UrlsOf(rest) = {}
    BY <1>5, <2>4, QueueUrls
  <2>6. rest = <<>>
    BY <1>5, <2>5, QueueUrls
  <2> QED BY <2>4, <2>6
<1> QED BY <1>2, <1>3, <1>5, <1>8, <1>9, <1>10, <1>13, <1>14, <1>15 DEF Refilled, Orderly

-----------------------------------------------------------------------------
(* The workers.                                                            *)

\* What the HTTP lane leaves is a worker that is still in flight, and a
\* refusal either waits for the browser with its refusal or is a block.
LEMMA HttpLaneEffect ==
    ASSUME render \in {"http", "auto", "browser"},
           NEW a \in {"dead", "refused", "doc", "page", "thin", "wall", "unparsable"},
           NEW w \in HttpLane(a)
    PROVE  /\ w.at \in InFlight /\ w.held \in {"nothing", "thin", "refused", "doc"}
           /\ a = "refused" => w.at \notin {"Extracted", "Failed"}
           /\ a = "refused" /\ w.at \in {"wait", "render"} => w.held = "refused"
<1> USE DEF HttpLane, At, InFlight, MayBrowser
<1>1. CASE a = "doc"
  BY <1>1
<1>2. CASE a = "dead"
  BY <1>2
<1>3. CASE a = "refused"
  BY <1>3
<1>4. CASE a = "page"
  BY <1>4
<1>5. CASE a = "thin"
  BY <1>5
<1>6. CASE a = "wall"
  BY <1>6
<1>7. CASE a = "unparsable"
  BY <1>7
<1> QED BY <1>1, <1>2, <1>3, <1>4, <1>5, <1>6, <1>7

\* A render ends as one of the three outcomes, and a page that came refused and
\* is walled or not opened ends as a block.
LEMMA ResolvedEffect ==
    ASSUME NEW h \in {"nothing", "thin", "refused", "doc"},
           NEW r \in {"page", "wall", "unparsable", "nothing"}, NEW w \in Resolved(h, r)
    PROVE  /\ w \in {"Extracted", "Blocked", "Failed"}
           /\ h = "refused" /\ r \in {"wall", "nothing"} => w = "Blocked"
BY DEF Resolved, Unrendered

\* A worker that moves on within its flight changes neither the frontier nor
\* the books.
LEMMA WorkStep ==
    ASSUME IInv, NEW u \in Urls, work[u].at \in InFlight,
           NEW x \in WorkerState, x.at \in InFlight, work' = [work EXCEPT ![u] = x],
           faults' \in 0..MaxFaults,
           UNCHANGED <<mode, render, mgr, front, tally, progress>>, UNCHANGED localVars,
           mode = "shard" /\ Walled(u) =>
              /\ x.at \notin {"Extracted", "Failed"}
              /\ x.at \in {"wait", "render"} => x.held = "refused"
    PROVE  IInv'
<1>1. work \in [Urls -> WorkerState]
  BY DEF IInv, TypeOK
<1>2. work' \in [Urls -> WorkerState] /\ work'[u] = x /\ \A v \in Urls : v # u => work'[v] = work[v]
  BY <1>1
<1>3. UNCHANGED <<mode, render, mgr, front, tally, progress, poll, store, row, fired, late>>
  BY DEF localVars
<1>4. TypeOK'
  BY <1>2, <1>3 DEF IInv, TypeOK
<1>5. \A v \in Urls : /\ work'[v].at \in InFlight <=> work[v].at \in InFlight
                      /\ v # u => work'[v].at = work[v].at
  BY <1>2
<1>6. FlightOf(work') = FlightOf(work)
  BY <1>5 DEF FlightOf
<1>7. work'[u].at \notin {"none", "taken", "lost"} /\ work[u].at \notin {"none", "taken", "lost"}
  BY <1>2 DEF InFlight
<1>8. GoneOf(work') = GoneOf(work)
  BY <1>5, <1>7 DEF GoneOf
<1>9. UrlsOf(front.queue) \subseteq Urls
  BY QueueUrls DEF IInv, TypeOK
<1>10. Orderly(front.queue, work)'
  BY <1>3, <1>5, <1>6, <1>7, <1>9 DEF IInv, Orderly
<1>11. Phases'
  BY <1>3, <1>6 DEF IInv, Phases
<1>12. Admissions'
  BY <1>3, <1>6, <1>8 DEF IInv, Admissions
<1>13. Storage'
  BY <1>3 DEF IInv, Storage, Running
<1>14. Shards'
  <2> SUFFICES ASSUME mode = "shard" PROVE BatchOf(tally, front.queue, work')
      BY <1>3 DEF Shards
  <2>1. BatchOf(tally, front.queue, work)
    BY DEF IInv, Shards
  <2>2. ASSUME NEW i \in DOMAIN Batch
        PROVE  \/ Batch[i] \in UrlsOf(front.queue) \union FlightOf(work') \union Listed(tally)
               \/ work'[Batch[i]].at = "lost"
    <3>1. Batch[i] \in Urls
      BY CrawlConstants, LenProperties, ElementOfSeq
    <3> QED BY <2>1, <3>1, <1>5, <1>6, <1>7 DEF BatchOf
  <2>3. ASSUME NEW v \in Urls, Walled(v)
        PROVE  /\ work'[v].at \notin {"Extracted", "Failed"}
               /\ work'[v].at \in {"wait", "render"} => work'[v].held = "refused"
               /\ v \in Listed(tally) => v \in tally.blocked
    BY <1>2, <2>1, <2>3 DEF BatchOf
  <2> QED BY <2>1, <2>2, <2>3, <1>6 DEF BatchOf
<1> QED BY <1>4, <1>10, <1>11, <1>12, <1>13, <1>14 DEF IInv

\* A fetch.
LEMMA FetchStep == ASSUME IInv, NEW u \in Urls, Fetch(u) PROVE IInv'
<1>1. PICK a \in Site[u].http : \E w \in HttpLane(a) :
         work' = [work EXCEPT ![u].at = w.at, ![u].held = w.held]
  BY DEF Fetch
<1>2. PICK w \in HttpLane(a) : work' = [work EXCEPT ![u].at = w.at, ![u].held = w.held]
  BY <1>1
<1>3. /\ work \in [Urls -> WorkerState] /\ render \in {"http", "auto", "browser"}
      /\ faults \in 0..MaxFaults
  BY DEF IInv, TypeOK
<1>4. a \in {"dead", "refused", "doc", "page", "thin", "wall", "unparsable"}
  BY CrawlConstants
<1>5. /\ w.at \in InFlight /\ w.held \in {"nothing", "thin", "refused", "doc"}
      /\ a = "refused" => w.at \notin {"Extracted", "Failed"}
      /\ a = "refused" /\ w.at \in {"wait", "render"} => w.held = "refused"
  BY <1>3, <1>4, HttpLaneEffect
<1> DEFINE x == [work[u] EXCEPT !.at = w.at, !.held = w.held]
<1>6. work' = [work EXCEPT ![u] = x]
  BY <1>2, <1>3
<1>7. x \in WorkerState /\ x.at = w.at /\ x.held = w.held
  BY <1>3, <1>5 DEF WorkerState
<1>8. work[u].at \in InFlight
  BY DEF Fetch, InFlight
<1>9. Walled(u) => a = "refused"
  BY DEF Walled
<1>10. UNCHANGED <<mode, render, mgr, front, tally, progress, faults>> /\ UNCHANGED localVars
  BY DEF Fetch
<1> HIDE DEF x
<1> QED BY <1>3, <1>5, <1>6, <1>7, <1>8, <1>9, <1>10, WorkStep

\* A worker gets a render slot.
LEMMA AcquireStep == ASSUME IInv, NEW u \in Urls, Acquire(u) PROVE IInv'
<1>1. work \in [Urls -> WorkerState] /\ faults \in 0..MaxFaults
  BY DEF IInv, TypeOK
<1> DEFINE x == [work[u] EXCEPT !.at = "render"]
<1>2. work' = [work EXCEPT ![u] = x]
  BY <1>1 DEF Acquire
<1>3. x \in WorkerState /\ x.at = "render" /\ x.held = work[u].held
  BY <1>1 DEF WorkerState, InFlight
<1>4. work[u].at = "wait" /\ "wait" \in InFlight /\ "render" \in InFlight
  BY DEF Acquire, InFlight
<1>5. UNCHANGED <<mode, render, mgr, front, tally, progress, faults>> /\ UNCHANGED localVars
  BY DEF Acquire
<1> HIDE DEF x
<1>6. mode = "shard" /\ Walled(u) => x.held = "refused"
  BY <1>3, <1>4 DEF IInv, Shards, BatchOf
<1> QED BY <1>1, <1>2, <1>3, <1>4, <1>5, <1>6, WorkStep

\* A render.
LEMMA RenderStep == ASSUME IInv, NEW u \in Urls, Render(u) PROVE IInv'
<1>1. work \in [Urls -> WorkerState] /\ faults \in 0..MaxFaults
  BY DEF IInv, TypeOK
<1>2. PICK r \in Site[u].browser : \E w \in Resolved(work[u].held, r) :
         work' = [work EXCEPT ![u].at = w]
  BY DEF Render
<1>3. PICK w \in Resolved(work[u].held, r) : work' = [work EXCEPT ![u].at = w]
  BY <1>2
<1>4. r \in {"page", "wall", "unparsable", "nothing"}
  BY CrawlConstants
<1>5. work[u].held \in {"nothing", "thin", "refused", "doc"} /\ work[u].depth \in Nat
  BY <1>1 DEF WorkerState
<1>6. /\ w \in {"Extracted", "Blocked", "Failed"}
      /\ work[u].held = "refused" /\ r \in {"wall", "nothing"} => w = "Blocked"
  BY <1>4, <1>5, ResolvedEffect
<1> DEFINE x == [work[u] EXCEPT !.at = w]
<1>7. work' = [work EXCEPT ![u] = x]
  BY <1>1, <1>3
<1>8. x \in WorkerState /\ x.at = w /\ w \in InFlight
  BY <1>1, <1>5, <1>6 DEF WorkerState, InFlight
<1>9. work[u].at = "render" /\ "render" \in InFlight
  BY DEF Render, InFlight
<1>10. UNCHANGED <<mode, render, mgr, front, tally, progress, faults>> /\ UNCHANGED localVars
  BY DEF Render
<1>11. mode = "shard" /\ Walled(u) => w = "Blocked"
  <2> SUFFICES ASSUME mode = "shard", Walled(u) PROVE w = "Blocked"
      OBVIOUS
  <2>1. work[u].held = "refused"
    BY <1>9 DEF IInv, Shards, BatchOf
  <2>2. r \in {"wall", "nothing"}
    BY DEF Walled
  <2> QED BY <1>6, <2>1, <2>2
<1> HIDE DEF x
<1> QED BY <1>1, <1>6, <1>7, <1>8, <1>9, <1>10, <1>11, WorkStep

\* A worker panics.
LEMMA PanicStep == ASSUME IInv, NEW u \in Urls, Panic(u) PROVE IInv'
<1>1. work \in [Urls -> WorkerState] /\ faults \in 0..MaxFaults
  BY DEF IInv, TypeOK
<1>2. faults' \in 0..MaxFaults
  BY <1>1, CrawlConstants DEF Panic, Meet
<1> DEFINE x == [work[u] EXCEPT !.at = "panicked"]
<1>3. work' = [work EXCEPT ![u] = x]
  BY <1>1 DEF Panic
<1>4. x \in WorkerState /\ x.at = "panicked"
  BY <1>1 DEF WorkerState, InFlight
<1>5. work[u].at \in InFlight /\ "panicked" \in InFlight
  BY DEF Panic, InFlight
<1>6. UNCHANGED <<mode, render, mgr, front, tally, progress>> /\ UNCHANGED localVars
  BY DEF Panic
<1> HIDE DEF x
<1> QED BY <1>2, <1>3, <1>4, <1>5, <1>6, WorkStep

-----------------------------------------------------------------------------
(* The forwarder.                                                          *)

\* The channel and the frames are beside everything else.
LEMMA ForwardStep ==
    ASSUME IInv, UNCHANGED <<mode, render, mgr, front, work, tally, faults>>, UNCHANGED localVars,
           progress' \in [chan : Seq(Tally), latest : Tally, framed : Tally, open : BOOLEAN]
    PROVE  IInv'
<1>1. UNCHANGED <<mode, render, mgr, front, work, tally, faults, poll, store, row, fired, late>>
  BY DEF localVars
<1>2. TypeOK'
  BY <1>1 DEF IInv, TypeOK
<1>3. Orderly(front.queue, work)' /\ Phases' /\ Admissions' /\ Storage' /\ Shards'
  BY <1>1 DEF IInv, Orderly, Phases, Admissions, Storage, Running, Shards, BatchOf
<1> QED BY <1>2, <1>3 DEF IInv

\* Receiving, the tick and the final flush keep the forwarder's types.
LEMMA ForwarderStep == ASSUME IInv, Receive \/ Tick \/ Close PROVE IInv'
<1> DEFINE P == [chan : Seq(Tally), latest : Tally, framed : Tally, open : BOOLEAN]
<1>1. progress \in P
  BY DEF IInv, TypeOK
<1>2. NoTally \in Tally
  BY DEF NoTally, Tally
<1>3. CASE Receive
  <2>1. Head(progress.chan) \in Tally /\ Tail(progress.chan) \in Seq(Tally)
    BY <1>1, <1>3, HeadTailProperties DEF Receive
  <2>2. progress' \in P
    BY <1>1, <1>3, <2>1 DEF Receive
  <2> QED BY <1>3, <2>2, ForwardStep DEF Receive
<1>4. Emit(progress) \in P
  BY <1>1, <1>2 DEF Emit
<1>5. CASE Tick
  <2>1. progress' \in P
    BY <1>4, <1>5 DEF Tick
  <2> QED BY <1>5, <2>1, ForwardStep DEF Tick
<1>6. CASE Close
  <2>1. Closed(progress) \in P
    <3> DEFINE e == Emit(progress)
    <3>1. e \in P
      BY <1>4
    <3> HIDE DEF e
    <3>2. [e EXCEPT !.open = FALSE] \in P
      BY <3>1
    <3> QED BY <3>2 DEF Closed, e
  <2>2. progress' \in P
    BY <1>6, <2>1 DEF Close
  <2> QED BY <1>6, <2>2, ForwardStep DEF Close
<1> QED BY <1>3, <1>5, <1>6

-----------------------------------------------------------------------------
(* The shard manager.                                                      *)

Book == [pages : SUBSET Urls, failed : SUBSET Urls, blocked : SUBSET Urls,
         consec : Nat, aborted : BOOLEAN]

\* The early abort moves the queue to the blocked pages and loses none of it.
LEMMA AbortEffect ==
    ASSUME NEW t \in Book, NEW at \in [Urls -> WorkerState], NEW queue \in Seq(Item),
           Orderly(queue, at), BatchOf(t, queue, at)
    PROVE  /\ HandedBack(t, queue) \in Book
           /\ Orderly(<<>>, at) /\ BatchOf(HandedBack(t, queue), <<>>, at)
<1> DEFINE b == HandedBack(t, queue)
<1>1. b = [t EXCEPT !.blocked = @ \union UrlsOf(queue)]
  BY DEF HandedBack, UrlsOf
<1>2. UrlsOf(queue) \subseteq Urls /\ UrlsOf(<<>>) = {}
  BY QueueUrls, EmptySeq
<1>3. /\ b \in Book /\ b.pages = t.pages /\ b.failed = t.failed
      /\ b.blocked = t.blocked \union UrlsOf(queue)
  BY <1>1, <1>2 DEF Book
<1> HIDE DEF b
<1>4. Listed(b) = Listed(t) \union UrlsOf(queue)
  BY <1>3 DEF Listed
<1>5. Orderly(<<>>, at)
  <2>1. Distinct(<<>>)
    BY DEF Distinct
  <2> QED BY <1>2, <2>1 DEF Orderly
<1>6. UrlsOf(queue) \intersect FlightOf(at) = {}
  BY DEF Orderly, FlightOf, InFlight
<1>7. \A u \in FlightOf(at) : u \notin Listed(b)
  BY <1>4, <1>6 DEF BatchOf
<1>8. b.pages \intersect (b.failed \union b.blocked) = {}
  BY <1>3 DEF BatchOf, Listed
<1>9. \A i \in DOMAIN Batch :
         \/ Batch[i] \in FlightOf(at) \union Listed(b)
         \/ at[Batch[i]].at = "lost"
  BY <1>4 DEF BatchOf
<1>10. \A u \in Urls : Walled(u) =>
          /\ at[u].at \notin {"Extracted", "Failed"}
          /\ at[u].at \in {"wait", "render"} => at[u].held = "refused"
          /\ u \in Listed(b) => u \in b.blocked
  BY <1>3, <1>4 DEF BatchOf
<1>11. BatchOf(b, <<>>, at)
  BY <1>2, <1>7, <1>8, <1>9, <1>10 DEF BatchOf
<1> QED BY <1>3, <1>5, <1>11 DEF b

\* The refill moves pages from the queue to their workers.
LEMMA RefillEffect ==
    ASSUME NEW t \in Book, NEW at \in [Urls -> WorkerState], NEW queue \in Seq(Item),
           Orderly(queue, at), BatchOf(t, queue, at), NEW rest, NEW next,
           Refilled(queue, at, rest, next)
    PROVE  BatchOf(t, rest, next)
<1>1. UrlsOf(queue) \subseteq Urls
  BY QueueUrls
<1>2. \A u \in Urls : \/ u \in UrlsOf(queue) \ UrlsOf(rest) /\ next[u].at = "fetch"
                      \/ u \notin UrlsOf(queue) \ UrlsOf(rest) /\ next[u] = at[u]
  BY DEF Refilled
<1>3. \A u \in UrlsOf(queue) : at[u].at = "none"
  BY DEF Orderly
<1>4. FlightOf(next) = FlightOf(at) \union (UrlsOf(queue) \ UrlsOf(rest))
  BY <1>1, <1>2, <1>3 DEF FlightOf, InFlight
<1>5. UrlsOf(rest) \union FlightOf(next) = UrlsOf(queue) \union FlightOf(at)
  BY <1>4 DEF Refilled
<1>6. \A u \in Urls : at[u].at = "lost" => next[u].at = "lost"
  BY <1>2, <1>3
<1>7. \A i \in DOMAIN Batch : Batch[i] \in Urls
  BY CrawlConstants, LenProperties, ElementOfSeq
<1>8. \A i \in DOMAIN Batch :
          \/ Batch[i] \in UrlsOf(rest) \union FlightOf(next) \union Listed(t)
          \/ next[Batch[i]].at = "lost"
  BY <1>5, <1>6, <1>7 DEF BatchOf
<1>9. \A u \in Urls : Walled(u) =>
          /\ next[u].at \notin {"Extracted", "Failed"}
          /\ next[u].at \in {"wait", "render"} => next[u].held = "refused"
          /\ u \in Listed(t) => u \in t.blocked
  BY <1>2 DEF BatchOf
<1> QED BY <1>5, <1>8, <1>9 DEF BatchOf

\* A turn of the shard's loop, once the outcome is booked and the worker is gone.
LEMMA TurnStep ==
    ASSUME IInv, mode = "shard", NEW t \in Book, NEW at \in [Urls -> WorkerState],
           Orderly(front.queue, at), BatchOf(t, front.queue, at), Turn(t, at),
           UNCHANGED <<mode, render, faults>>, UNCHANGED localVars,
           progress' \in [chan : Seq(Tally), latest : Tally, framed : Tally, open : BOOLEAN]
    PROVE  IInv'
<1> DEFINE queue == Remaining(t)
           b == IF t.aborted THEN HandedBack(t, front.queue) ELSE t
           rest == Started(queue, at).queue
           next == Started(queue, at).work
<1>1. /\ tally' = b /\ work' = next /\ front' = [front EXCEPT !.queue = rest]
      /\ mgr' = IF Idle(next) THEN "returned" ELSE "join"
  BY DEF Turn
<1>2. front \in [queue : Seq(Item), visited : SUBSET Urls,
                 discovered : 0 .. Budget, skipped : Nat, todo : Seq(Item)]
  BY DEF IInv, TypeOK
<1>3. queue \in Seq(Item) /\ b \in Book /\ Orderly(queue, at) /\ BatchOf(b, queue, at)
  <2>1. CASE t.aborted
    <3>1. queue = <<>> /\ b = HandedBack(t, front.queue)
      BY <2>1 DEF Remaining
    <3> HIDE DEF queue, b
    <3> QED BY <1>2, <3>1, AbortEffect, EmptySeq
  <2>2. CASE ~t.aborted
    <3>1. queue = front.queue /\ b = t
      BY <2>2 DEF Remaining
    <3> HIDE DEF queue, b
    <3> QED BY <1>2, <3>1
  <2> QED BY <2>1, <2>2
<1> HIDE DEF queue, b
<1>4. Refilled(queue, at, rest, next)
  BY <1>3, StartedEffect
<1> HIDE DEF rest, next
<1>5. BatchOf(b, rest, next)
  BY <1>3, <1>4, RefillEffect
<1>6. rest \in Seq(Item) /\ next \in [Urls -> WorkerState] /\ Orderly(rest, next)
  BY <1>4 DEF Refilled
<1>7. front'.queue = rest /\ front' = [front EXCEPT !.queue = rest]
  BY <1>1, <1>2
<1>8. Idle(next) <=> FlightOf(next) = {}
  BY DEF Idle, FlightOf
<1>9. UNCHANGED <<mode, render, faults, poll, store, row, fired, late>>
  BY DEF localVars
<1>10. mgr' \in {"returned", "join"} /\ (mgr' = "returned" => FlightOf(next) = {} /\ rest = <<>>)
  BY <1>1, <1>4, <1>8 DEF Refilled
<1>11. TypeOK'
  <2>1. front' \in [queue : Seq(Item), visited : SUBSET Urls,
                    discovered : 0 .. Budget, skipped : Nat, todo : Seq(Item)]
    BY <1>2, <1>6, <1>7
  <2>2. tally' \in Book /\ work' \in [Urls -> WorkerState]
    BY <1>1, <1>3, <1>6
  <2>3. mgr' \in {"returned", "join"}
    BY <1>10
  <2> QED BY <1>9, <2>1, <2>2, <2>3 DEF IInv, TypeOK, Book
<1>12. Orderly(front.queue, work)'
  BY <1>1, <1>6, <1>7
<1>13. Phases'
  BY <1>1, <1>7, <1>9, <1>10 DEF Phases
<1>14. front'.visited = front.visited /\ front'.discovered = front.discovered
  BY <1>2, <1>7
<1>15. Admissions'
  BY <1>9, <1>14 DEF IInv, Admissions
<1>16. Storage'
  BY <1>9, <1>10 DEF IInv, Storage
<1>17. Shards'
  BY <1>1, <1>5, <1>7 DEF Shards
<1> QED BY <1>11, <1>12, <1>13, <1>15, <1>16, <1>17 DEF IInv

\* The first turn.
LEMMA ShardBeginStep == ASSUME IInv, ShardBegin PROVE IInv'
<1>1. /\ mode = "shard" /\ Turn(tally, work) /\ UNCHANGED <<mode, render, faults>>
      /\ UNCHANGED localVars /\ progress' = progress
  BY DEF ShardBegin
<1>2. /\ tally \in Book /\ work \in [Urls -> WorkerState]
      /\ Orderly(front.queue, work) /\ BatchOf(tally, front.queue, work)
      /\ progress \in [chan : Seq(Tally), latest : Tally, framed : Tally, open : BOOLEAN]
  BY <1>1 DEF IInv, TypeOK, Shards, Book
<1> QED BY <1>1, <1>2, TurnStep

\* A worker that is joined: nothing else moves.
LEMMA TakenEffect ==
    ASSUME NEW u \in Urls, work \in [Urls -> WorkerState], work[u].at \in Over,
           Orderly(front.queue, work), UrlsOf(front.queue) \subseteq Urls
    PROVE  /\ Taken(u) \in [Urls -> WorkerState]
           /\ \A v \in Urls : v # u => Taken(u)[v] = work[v]
           /\ Taken(u)[u].at = IF work[u].at = "panicked" THEN "lost" ELSE "taken"
           /\ FlightOf(Taken(u)) = FlightOf(work) \ {u}
           /\ GoneOf(Taken(u)) = GoneOf(work) \union {u}
           /\ Orderly(front.queue, Taken(u))
           /\ u \in FlightOf(work) /\ u \notin UrlsOf(front.queue)
<1> DEFINE x == [at |-> IF work[u].at = "panicked" THEN "lost" ELSE "taken",
                 held |-> "nothing", depth |-> 0]
<1>1. Taken(u) = [work EXCEPT ![u] = x]
  BY DEF Taken
<1>2. x \in WorkerState /\ x.at = IF work[u].at = "panicked" THEN "lost" ELSE "taken"
  BY DEF WorkerState
<1> HIDE DEF x
<1> DEFINE at == Taken(u)
<1>3. at \in [Urls -> WorkerState] /\ at[u] = x /\ \A v \in Urls : v # u => at[v] = work[v]
  BY <1>1, <1>2
<1> HIDE DEF at
<1>4. FlightOf(at) = FlightOf(work) \ {u}
  BY <1>2, <1>3 DEF FlightOf, InFlight
<1>5. GoneOf(at) = GoneOf(work) \union {u}
  BY <1>2, <1>3 DEF GoneOf
<1>6. u \in FlightOf(work) /\ u \notin UrlsOf(front.queue)
  BY DEF FlightOf, InFlight, Over, Orderly
<1>7. Cardinality(FlightOf(at)) <= Window
  <2>1. FlightOf(at) \in SUBSET FlightOf(work)
    BY <1>4
  <2>2. Cardinality(FlightOf(at)) <= Cardinality(FlightOf(work))
    BY <2>1, FlightFinite, FS_Subset
  <2>3. Window \in Nat /\ Cardinality(FlightOf(at)) \in Nat /\ Cardinality(FlightOf(work)) \in Nat
    BY FlightFinite, CrawlConstants
  <2> QED BY <2>2, <2>3 DEF Orderly
<1>8. Orderly(front.queue, at)
  BY <1>3, <1>6, <1>7 DEF Orderly
<1> QED BY <1>2, <1>3, <1>4, <1>5, <1>6, <1>8 DEF at

\* The tally of a booked outcome.
LEMMA BookedEffect ==
    ASSUME NEW t \in Book, NEW u \in Urls, NEW o \in Over
    PROVE  LET b == Booked(t, u, o) IN
           /\ b \in Book
           /\ o = "Extracted" => /\ b.pages = t.pages \union {u} /\ b.failed = t.failed
                                 /\ b.blocked = t.blocked
           /\ o = "Blocked" => /\ b.pages = t.pages /\ b.failed = t.failed \union {u}
                               /\ b.blocked = t.blocked \union {u}
           /\ o = "Failed" => /\ b.pages = t.pages /\ b.failed = t.failed \union {u}
                              /\ b.blocked = t.blocked
           /\ o = "panicked" => b = t
<1>1. CASE o = "Extracted"
  BY <1>1 DEF Booked, Book
<1>2. CASE o = "Blocked"
  <2> DEFINE n == t.consec + 1
             a == t.aborted \/ t.consec + 1 >= BlockAbort
  <2>1. n \in Nat /\ a \in BOOLEAN
    BY DEF Book
  <2>2. Booked(t, u, o) = [t EXCEPT !.blocked = @ \union {u}, !.failed = @ \union {u},
                                    !.consec = n, !.aborted = a]
    BY <1>2 DEF Booked
  <2> HIDE DEF n, a
  <2> DEFINE c == [t EXCEPT !.blocked = @ \union {u}, !.failed = @ \union {u}, !.consec = n]
  <2>3. /\ c \in Book /\ c.pages = t.pages /\ c.failed = t.failed \union {u}
        /\ c.blocked = t.blocked \union {u}
    BY <2>1 DEF Book
  <2>4. Booked(t, u, o) = [c EXCEPT !.aborted = a]
    BY <2>2
  <2> HIDE DEF c
  <2> DEFINE b == [c EXCEPT !.aborted = a]
  <2>5. b \in Book
    BY <2>1, <2>3 DEF Book
  <2>6. b.pages = c.pages /\ b.failed = c.failed /\ b.blocked = c.blocked
    BY <2>3 DEF Book
  <2> HIDE DEF b
  <2> QED BY <1>2, <2>3, <2>4, <2>5, <2>6 DEF b
<1>3. CASE o = "Failed"
  BY <1>3 DEF Booked, Book
<1>4. CASE o = "panicked"
  BY <1>4 DEF Booked
<1> QED BY <1>1, <1>2, <1>3, <1>4 DEF Over

\* A tally on its way to the coordinator.
LEMMA CountType == ASSUME NEW t \in Book PROVE Count(t) \in Tally
<1>1. t.pages \in SUBSET Urls /\ t.failed \in SUBSET Urls
  BY DEF Book
<1>2. Cardinality(t.pages) \in Nat /\ Cardinality(t.failed) \in Nat
  BY <1>1, CrawlConstants, FS_Subset, FS_CardinalityType
<1> QED BY <1>2 DEF Count, Tally

\* One outcome is booked, and the loop takes its next turn.
LEMMA ShardCollectStep == ASSUME IInv, NEW u \in Urls, ShardCollect(u) PROVE IInv'
<1> DEFINE o == work[u].at
           t == Booked(tally, u, o)
           at == Taken(u)
           P == [chan : Seq(Tally), latest : Tally, framed : Tally, open : BOOLEAN]
<1>1. /\ mode = "shard" /\ o \in Over /\ Turn(t, at)
      /\ UNCHANGED <<mode, render, faults>> /\ UNCHANGED localVars
      /\ progress' = IF o = "panicked" THEN progress
                     ELSE [progress EXCEPT !.chan = Append(@, Count(t))]
  BY DEF ShardCollect
<1>2. /\ tally \in Book /\ work \in [Urls -> WorkerState] /\ progress \in P
      /\ front.queue \in Seq(Item)
      /\ Orderly(front.queue, work) /\ BatchOf(tally, front.queue, work)
  BY <1>1 DEF IInv, TypeOK, Shards, Book
<1>3. UrlsOf(front.queue) \subseteq Urls
  BY <1>2, QueueUrls
<1>4. /\ at \in [Urls -> WorkerState] /\ \A v \in Urls : v # u => at[v] = work[v]
      /\ at[u].at = IF work[u].at = "panicked" THEN "lost" ELSE "taken"
      /\ FlightOf(at) = FlightOf(work) \ {u} /\ Orderly(front.queue, at)
      /\ u \in FlightOf(work) /\ u \notin UrlsOf(front.queue)
  BY <1>1, <1>2, <1>3, TakenEffect
<1>5. /\ t \in Book
      /\ o = "Extracted" => /\ t.pages = tally.pages \union {u} /\ t.failed = tally.failed
                            /\ t.blocked = tally.blocked
      /\ o = "Blocked" => /\ t.pages = tally.pages /\ t.failed = tally.failed \union {u}
                          /\ t.blocked = tally.blocked \union {u}
      /\ o = "Failed" => /\ t.pages = tally.pages /\ t.failed = tally.failed \union {u}
                         /\ t.blocked = tally.blocked
      /\ o = "panicked" => t = tally
  BY <1>1, <1>2, BookedEffect
<1>6. Count(t) \in Tally
  BY <1>5, CountType
<1> HIDE DEF t, at
<1>7. progress' \in P
  <2>1. CASE o = "panicked"
    BY <1>1, <1>2, <2>1
  <2>2. CASE o # "panicked"
    <3>1. Append(progress.chan, Count(t)) \in Seq(Tally)
      BY <1>2, <1>6, AppendProperties
    <3> QED BY <1>1, <1>2, <2>2, <3>1
  <2> QED BY <2>1, <2>2
<1>8. o \in {"Extracted", "Blocked", "Failed", "panicked"}
  BY <1>1 DEF Over
<1>9. u \notin Listed(tally)
  BY <1>2, <1>4 DEF BatchOf
<1>10. Listed(t) = IF o = "panicked" THEN Listed(tally) ELSE Listed(tally) \union {u}
  BY <1>5, <1>8 DEF Listed
<1>11. \A v \in UrlsOf(front.queue) \union FlightOf(at) : v \notin Listed(t)
  BY <1>2, <1>4, <1>10 DEF BatchOf
<1>12. t.pages \intersect (t.failed \union t.blocked) = {}
  <2>1. tally.pages \intersect (tally.failed \union tally.blocked) = {}
    BY <1>2 DEF BatchOf
  <2>2. u \notin tally.pages /\ u \notin tally.failed /\ u \notin tally.blocked
    BY <1>9 DEF Listed
  <2> QED BY <2>1, <2>2, <1>5, <1>8
<1>13. ASSUME NEW i \in DOMAIN Batch
       PROVE  \/ Batch[i] \in UrlsOf(front.queue) \union FlightOf(at) \union Listed(t)
              \/ at[Batch[i]].at = "lost"
  <2>1. Batch[i] \in Urls
    BY CrawlConstants, LenProperties, ElementOfSeq
  <2>2. \/ Batch[i] \in UrlsOf(front.queue) \union FlightOf(work) \union Listed(tally)
        \/ work[Batch[i]].at = "lost"
    BY <1>2 DEF BatchOf
  <2>3. work[u].at # "lost"
    BY <1>8
  <2>4. CASE Batch[i] = u
    BY <1>4, <1>10, <2>4
  <2>5. CASE Batch[i] # u
    BY <1>4, <1>10, <2>1, <2>2, <2>5
  <2> QED BY <2>4, <2>5
<1>14. ASSUME NEW v \in Urls, Walled(v)
       PROVE  /\ at[v].at \notin {"Extracted", "Failed"}
              /\ at[v].at \in {"wait", "render"} => at[v].held = "refused"
              /\ v \in Listed(t) => v \in t.blocked
  <2>1. /\ work[v].at \notin {"Extracted", "Failed"}
        /\ work[v].at \in {"wait", "render"} => work[v].held = "refused"
        /\ v \in Listed(tally) => v \in tally.blocked
    BY <1>2, <1>14 DEF BatchOf
  <2>2. CASE v = u
    BY <1>4, <1>5, <1>8, <1>9, <1>10, <2>1, <2>2
  <2>3. CASE v # u
    BY <1>4, <1>5, <1>8, <1>10, <2>1, <2>3
  <2> QED BY <2>2, <2>3
<1>15. BatchOf(t, front.queue, at)
  BY <1>11, <1>12, <1>13, <1>14 DEF BatchOf
<1> QED BY <1>1, <1>4, <1>5, <1>7, <1>15, TurnStep

\* The result goes out.
LEMMA SettleStep == ASSUME IInv, Settle PROVE IInv'
<1>1. /\ mode = "shard" /\ mgr = "returned" /\ mgr' = "settled"
      /\ UNCHANGED <<mode, render, front, work, tally, progress, faults, poll, store, row,
                     fired, late>>
  BY DEF Settle, localVars
<1>2. TypeOK'
  BY <1>1 DEF IInv, TypeOK
<1>3. Orderly(front.queue, work)' /\ Shards'
  BY <1>1 DEF IInv, Orderly, Shards, BatchOf
<1>4. Phases' /\ Admissions' /\ Storage'
  BY <1>1 DEF IInv, Phases, Admissions, Storage
<1> QED BY <1>2, <1>3, <1>4 DEF IInv

-----------------------------------------------------------------------------
(* The local manager.                                                      *)

FrontState == [queue : Seq(Item), visited : SUBSET Urls, discovered : 0 .. Budget,
               skipped : Nat, todo : Seq(Item)]
StoreState == [buffer : SUBSET Urls, saved : SUBSET Urls, lost : SUBSET Urls]
RowState == [status : Terminal \union {"queued", "mapping", "crawling", "stopping"},
             cancel : BOOLEAN, asked : BOOLEAN, unwritten : BOOLEAN]
PollState == [count : 0 .. PollEvery - 1, stopping : BOOLEAN]
LocalPhase == {"start", "join", "mapping", "admit", "loop", "flush", "finalize", "fire",
               "ended", "dead"}

\* The state of a local crawl by its types.
LEMMA LocalTypes ==
    ASSUME IInv, mode = "local"
    PROVE  /\ render \in {"http", "auto", "browser"} /\ mgr \in LocalPhase
           /\ front \in FrontState /\ work \in [Urls -> WorkerState] /\ tally \in Book
           /\ poll \in PollState /\ store \in StoreState /\ row \in RowState
           /\ fired \in BOOLEAN /\ late \in Nat /\ faults \in 0..MaxFaults
BY DEF IInv, TypeOK, Phases, LocalPhase, FrontState, Book, PollState, StoreState, RowState

\* What a step of a local crawl has to show.
LEMMA LocalStep ==
    ASSUME IInv, mode = "local", UNCHANGED <<mode, render, progress>>,
           mgr' \in LocalPhase, front' \in FrontState, work' \in [Urls -> WorkerState],
           tally' \in Book, poll' \in PollState, store' \in StoreState, row' \in RowState,
           fired' \in BOOLEAN, late' \in Nat, faults' \in 0..MaxFaults,
           Orderly(front.queue, work)', Phases', Admissions', Storage'
    PROVE  IInv'
<1>1. TypeOK'
  BY DEF IInv, TypeOK, LocalPhase, FrontState, Book, PollState, StoreState, RowState
<1>2. Shards'
  BY DEF Shards
<1> QED BY <1>1, <1>2 DEF IInv

\* Faults stay within their bound.
LEMMA MeetType == ASSUME faults \in 0..MaxFaults, NEW f, Meet(f) PROVE faults' \in 0..MaxFaults
BY CrawlConstants DEF Meet

\* A step of the manager that leaves the crawl alone and writes the row.
LEMMA ManagerStep ==
    ASSUME IInv, mode = "local",
           UNCHANGED <<mode, render, front, work, tally, progress, poll, store, late>>,
           row' \in RowState, fired' \in BOOLEAN, faults' \in 0..MaxFaults, mgr' \in LocalPhase,
           mgr' \notin {"join", "loop", "admit"} => FlightOf(work) = {},
           mgr' \in {"flush", "finalize", "fire"} => front.queue = <<>>,
           front.todo # <<>> => mgr' \in {"mapping", "admit"},
           mgr' = "start" => mgr = "start", Storage'
    PROVE  IInv'
<1>1. /\ front \in FrontState /\ work \in [Urls -> WorkerState] /\ tally \in Book
      /\ poll \in PollState /\ store \in StoreState /\ late \in Nat
  BY LocalTypes
<1>2. Orderly(front.queue, work)'
  BY DEF IInv, Orderly
<1>3. Phases'
  BY DEF IInv, Phases, LocalPhase
<1>4. Admissions'
  BY DEF IInv, Admissions
<1> QED BY <1>1, <1>2, <1>3, <1>4, LocalStep

\* finalize leaves a settled row alone.
LEMMA FinalizedEffect ==
    ASSUME NEW r \in RowState, NEW s \in Terminal
    PROVE  /\ Finalized(r, s) \in RowState
           /\ Finalized(r, s).status = IF r.status \in Terminal THEN r.status ELSE s
<1>1. CASE r.status \in Terminal
  BY <1>1 DEF Finalized
<1>2. CASE r.status \notin Terminal
  <2> DEFINE no == FALSE
  <2>1. no \in BOOLEAN
    OBVIOUS
  <2>2. Finalized(r, s) = [r EXCEPT !.status = s, !.cancel = no]
    BY <1>2 DEF Finalized
  <2> HIDE DEF no
  <2> QED BY <1>2, <2>1, <2>2 DEF RowState
<1> QED BY <1>1, <1>2

\* A status written, or another field of the row.
LEMMA RowEffect ==
    ASSUME NEW r \in RowState, NEW s \in {"mapping", "crawling", "stopping"}
    PROVE  /\ [r EXCEPT !.status = s] \in RowState /\ [r EXCEPT !.status = s].status = s
           /\ [r EXCEPT !.unwritten = TRUE] \in RowState
           /\ [r EXCEPT !.unwritten = TRUE].status = r.status
           /\ [r EXCEPT !.cancel = TRUE, !.asked = TRUE, !.status = s] \in RowState
           /\ [r EXCEPT !.cancel = TRUE, !.asked = TRUE, !.status = s].status = s
<1> DEFINE yes == TRUE
<1>1. yes \in BOOLEAN
  OBVIOUS
<1> HIDE DEF yes
<1>2. [r EXCEPT !.status = s] \in RowState /\ [r EXCEPT !.status = s].status = s
  BY DEF RowState
<1>3. [r EXCEPT !.unwritten = yes] \in RowState /\ [r EXCEPT !.unwritten = yes].status = r.status
  BY <1>1 DEF RowState
<1>4. /\ [r EXCEPT !.cancel = yes, !.asked = yes, !.status = s] \in RowState
      /\ [r EXCEPT !.cancel = yes, !.asked = yes, !.status = s].status = s
  BY <1>1 DEF RowState
<1> QED BY <1>2, <1>3, <1>4 DEF yes

\* The crawl goes from mapping to its loop.
LEMMA MapStep == ASSUME IInv, Map PROVE IInv'
<1>1. /\ mode = "local" /\ mgr = "mapping" /\ front.todo = <<>> /\ mgr' = "loop"
      /\ row' = [row EXCEPT !.status = "crawling"]
      /\ UNCHANGED <<mode, render, front, work, tally, progress, poll, store, fired, late, faults>>
  BY DEF Map
<1>2. row \in RowState /\ fired \in BOOLEAN /\ faults \in 0..MaxFaults
  BY <1>1, LocalTypes
<1>3. row' \in RowState /\ row'.status = "crawling"
  BY <1>1, <1>2, RowEffect
<1>4. Storage'
  BY <1>1, <1>3 DEF IInv, Storage, Running
<1> QED BY <1>1, <1>2, <1>3, <1>4, ManagerStep DEF LocalPhase

\* The crawl ends because a status was not written.
LEMMA StatusNotWrittenStep == ASSUME IInv, StatusNotWritten PROVE IInv'
<1>1. /\ mode = "local" /\ mgr \in {"start", "mapping"} /\ front.todo = <<>> /\ mgr' = "ended"
      /\ row' = Finalized(row, "failed") /\ Meet("db")
      /\ UNCHANGED <<mode, render, front, work, tally, progress, poll, store, fired, late>>
  BY DEF StatusNotWritten
<1>2. row \in RowState /\ fired \in BOOLEAN /\ faults \in 0..MaxFaults
  BY <1>1, LocalTypes
<1>3. row.status # "completed"
  BY <1>1 DEF IInv, Storage
<1>4. row' \in RowState /\ row'.status # "completed"
  BY <1>1, <1>2, <1>3, FinalizedEffect DEF Terminal
<1>5. Storage'
  BY <1>1, <1>4 DEF Storage, Running
<1>6. FlightOf(work) = {}
  BY <1>1 DEF IInv, Phases
<1> QED BY <1>1, <1>2, <1>4, <1>5, <1>6, MeetType, ManagerStep DEF LocalPhase

\* The final write.
LEMMA FinalizeStep == ASSUME IInv, Finalize PROVE IInv'
<1>1. /\ mode = "local" /\ mgr = "finalize"
      /\ mgr' = IF poll.stopping THEN "ended" ELSE "fire"
      /\ UNCHANGED <<mode, render, front, work, tally, progress, poll, store, fired, late>>
      /\ \/ /\ row' = Finalized(row, IF poll.stopping THEN "cancelled" ELSE "completed")
            /\ UNCHANGED faults
         \/ row' = [row EXCEPT !.unwritten = TRUE] /\ Meet("db")
  BY DEF Finalize
<1>2. row \in RowState /\ fired \in BOOLEAN /\ faults \in 0..MaxFaults
  BY <1>1, LocalTypes
<1>3. /\ row.status # "completed" /\ store.buffer = {} /\ front.queue = <<>>
      /\ FlightOf(work) = {} /\ front.todo = <<>>
      /\ tally.pages = store.buffer \union store.saved \union store.lost
  BY <1>1 DEF IInv, Storage, Phases, Admissions, Running
<1>4. /\ row' \in RowState /\ faults' \in 0..MaxFaults
      /\ row'.status = "completed" => ~poll.stopping
  <2> DEFINE s == IF poll.stopping THEN "cancelled" ELSE "completed"
  <2>1. s \in Terminal /\ (s = "completed" => ~poll.stopping)
    BY DEF Terminal
  <2>2. CASE row' = Finalized(row, s) /\ UNCHANGED faults
    <3> HIDE DEF s
    <3> QED BY <1>2, <1>3, <2>1, <2>2, FinalizedEffect
  <2>3. CASE row' = [row EXCEPT !.unwritten = TRUE] /\ Meet("db")
    BY <1>2, <1>3, <2>3, RowEffect, MeetType
  <2> QED BY <1>1, <2>2, <2>3
<1>5. mgr' \in {"ended", "fire"}
  BY <1>1
<1>6. Storage'
  BY <1>1, <1>3, <1>4, <1>5 DEF Storage
<1> QED BY <1>1, <1>2, <1>3, <1>4, <1>5, <1>6, ManagerStep DEF LocalPhase

\* crawl_completed is fired.
LEMMA FireStep == ASSUME IInv, Fire PROVE IInv'
<1>1. /\ mode = "local" /\ mgr = "fire" /\ mgr' = "ended" /\ fired' = TRUE
      /\ UNCHANGED <<mode, render, front, work, tally, progress, poll, store, row, late, faults>>
  BY DEF Fire
<1>2. row \in RowState /\ faults \in 0..MaxFaults /\ fired' \in BOOLEAN
  BY <1>1, LocalTypes
<1>3. FlightOf(work) = {} /\ front.todo = <<>>
  BY <1>1 DEF IInv, Phases, Admissions
<1>4. Storage'
  BY <1>1 DEF IInv, Storage, Running
<1> QED BY <1>1, <1>2, <1>3, <1>4, ManagerStep DEF LocalPhase

\* A cancel is accepted.
LEMMA CancelStep == ASSUME IInv, Cancel PROVE IInv'
<1>1. /\ mode = "local"
      /\ row' = [row EXCEPT !.cancel = TRUE, !.asked = TRUE, !.status = "stopping"]
      /\ UNCHANGED <<mode, render, mgr, front, work, tally, progress, poll, store, fired, late,
                     faults>>
  BY DEF Cancel
<1>2. row \in RowState /\ faults \in 0..MaxFaults /\ fired \in BOOLEAN /\ mgr \in LocalPhase
  BY <1>1, LocalTypes
<1>3. row' \in RowState /\ row'.status = "stopping"
  BY <1>1, <1>2, RowEffect
<1>4. Storage'
  BY <1>1, <1>3 DEF IInv, Storage, Running
<1>5. /\ mgr \notin {"join", "loop", "admit"} => FlightOf(work) = {}
      /\ mgr \in {"flush", "finalize", "fire"} => front.queue = <<>>
      /\ front.todo # <<>> => mgr \in {"mapping", "admit"}
  BY <1>1 DEF IInv, Phases, Admissions
<1> QED BY <1>1, <1>2, <1>3, <1>4, <1>5, ManagerStep

\* The next start sweeps the row.
LEMMA BootStep == ASSUME IInv, Boot PROVE IInv'
<1>1. /\ mgr = "dead" /\ mgr' = "ended" /\ row' = Finalized(row, "failed")
      /\ UNCHANGED <<mode, render, front, work, tally, progress, poll, store, fired, late, faults>>
  BY DEF Boot, Swept
<1>2. mode = "local"
  BY <1>1 DEF IInv, TypeOK, Phases
<1>3. row \in RowState /\ faults \in 0..MaxFaults /\ fired \in BOOLEAN
  BY <1>2, LocalTypes
<1>4. row.status # "completed" /\ FlightOf(work) = {} /\ front.todo = <<>>
  BY <1>1, <1>2 DEF IInv, Storage, Phases, Admissions
<1>5. row' \in RowState /\ row'.status # "completed"
  BY <1>1, <1>3, <1>4, FinalizedEffect DEF Terminal
<1>6. Storage'
  BY <1>1, <1>5 DEF Storage, Running
<1> QED BY <1>1, <1>2, <1>3, <1>4, <1>5, <1>6, ManagerStep DEF LocalPhase

\* A flush moves the buffer to what was saved or to what was lost.
LEMMA FlushEffect ==
    ASSUME store \in StoreState, faults \in 0..MaxFaults, Flushes(store)
    PROVE  /\ store' \in StoreState /\ faults' \in 0..MaxFaults /\ store'.buffer = {}
           /\ store'.buffer \union store'.saved \union store'.lost
                 = store.buffer \union store.saved \union store.lost
<1>1. PICK ok \in BOOLEAN :
         /\ IF ok THEN UNCHANGED faults ELSE store.buffer # {} /\ Meet("db")
         /\ store' = Flushed(store, ok)
  BY DEF Flushes
<1>2. faults' \in 0..MaxFaults
  BY <1>1, MeetType
<1>3. CASE ok
  BY <1>1, <1>2, <1>3 DEF Flushed, StoreState
<1>4. CASE ~ok
  BY <1>1, <1>2, <1>4 DEF Flushed, StoreState
<1> QED BY <1>3, <1>4

\* A step that flushes, and no more than moves the manager on.
LEMMA FlushStep ==
    ASSUME IInv, mode = "local", mgr \in {"admit", "flush"}, front.todo = <<>>,
           UNCHANGED <<mode, render, front, work, tally, progress, poll, row, fired, late>>,
           \/ mgr = "admit" /\ mgr' = "loop" /\ (Flushes(store) \/ UNCHANGED <<store, faults>>)
           \/ mgr = "flush" /\ mgr' = "finalize" /\ Flushes(store)
    PROVE  IInv'
<1>1. /\ front \in FrontState /\ work \in [Urls -> WorkerState] /\ tally \in Book
      /\ poll \in PollState /\ store \in StoreState /\ row \in RowState
      /\ fired \in BOOLEAN /\ late \in Nat /\ faults \in 0..MaxFaults
  BY LocalTypes
<1>2. /\ store' \in StoreState /\ faults' \in 0..MaxFaults
      /\ mgr = "flush" => store'.buffer = {}
      /\ store'.buffer \union store'.saved \union store'.lost
            = store.buffer \union store.saved \union store.lost
  <2>1. CASE Flushes(store)
    BY <1>1, <2>1, FlushEffect
  <2>2. CASE UNCHANGED <<store, faults>> /\ mgr = "admit"
    BY <1>1, <2>2
  <2> QED BY <2>1, <2>2
<1>3. row.status # "completed"
  BY DEF IInv, Storage
<1>4. Storage'
  BY <1>2, <1>3 DEF IInv, Storage, Running
<1>5. Orderly(front.queue, work)'
  BY DEF IInv, Orderly
<1>6. Phases'
  BY DEF IInv, Phases
<1>7. Admissions'
  BY DEF IInv, Admissions
<1>8. mgr' \in LocalPhase
  BY DEF LocalPhase
<1> QED BY <1>1, <1>2, <1>4, <1>5, <1>6, <1>7, <1>8, LocalStep

\* A full buffer is written between two waves, and the last one before the end.
LEMMA FlushSteps == ASSUME IInv, Admitted \/ FinalFlush PROVE IInv'
<1>1. CASE Admitted
  BY <1>1, FlushStep DEF Admitted
<1>2. CASE FinalFlush
  <2>1. front.todo = <<>>
    BY <1>2 DEF FinalFlush, IInv, Admissions
  <2> QED BY <1>2, <2>1, FlushStep DEF FinalFlush
<1> QED BY <1>1, <1>2

\* Links are offered as items of the queue.
LEMMA OffersType ==
    ASSUME NEW urls \in Seq(Urls), NEW d \in Nat PROVE Offers(urls, d) \in Seq(Item)
<1>1. Len(urls) \in Nat /\ DOMAIN urls = 1..Len(urls) /\ \A i \in 1..Len(urls) : urls[i] \in Urls
  BY LenProperties, ElementOfSeq
<1>2. Offers(urls, d) \in [1..Len(urls) -> Item]
  BY <1>1 DEF Offers, Item
<1> QED BY <1>1, <1>2, SeqDef

\* The crawl is refused, or set to mapping with its seeds to be admitted.
LEMMA BeginStep == ASSUME IInv, Begin PROVE IInv'
<1>1. /\ mode = "local" /\ mgr = "start"
      /\ UNCHANGED <<mode, render, work, tally, progress, poll, store, fired, late, faults>>
  BY DEF Begin
<1>2. /\ front \in FrontState /\ work \in [Urls -> WorkerState] /\ tally \in Book
      /\ poll \in PollState /\ store \in StoreState /\ row \in RowState
      /\ fired \in BOOLEAN /\ late \in Nat /\ faults \in 0..MaxFaults
  BY <1>1, LocalTypes
<1>3. row.status # "completed" /\ FlightOf(work) = {} /\ front.todo = <<>>
  BY <1>1 DEF IInv, Storage, Phases, Admissions
<1>4. CASE row' = Finalized(row, "failed") /\ mgr' = "ended" /\ UNCHANGED front
  <2>1. row' \in RowState /\ row'.status # "completed"
    BY <1>2, <1>3, <1>4, FinalizedEffect DEF Terminal
  <2>2. Storage'
    BY <1>4, <2>1 DEF Storage, Running
  <2> QED BY <1>1, <1>2, <1>3, <1>4, <2>1, <2>2, ManagerStep DEF LocalPhase
<1>5. CASE /\ row' = [row EXCEPT !.status = "mapping"] /\ mgr' = "mapping"
           /\ front' = [front EXCEPT !.todo = Offers(Seeds, 0)]
  <2>1. row' \in RowState /\ row'.status = "mapping"
    BY <1>2, <1>5, RowEffect
  <2>2. Offers(Seeds, 0) \in Seq(Item)
    BY CrawlConstants, OffersType
  <2>3. /\ front' \in FrontState /\ front'.queue = front.queue /\ front'.visited = front.visited
        /\ front'.discovered = front.discovered
    BY <1>2, <1>5, <2>2 DEF FrontState
  <2>4. ~poll.stopping
    BY <1>1 DEF IInv, Phases
  <2>5. Orderly(front.queue, work)'
    BY <1>1, <2>3 DEF IInv, Orderly
  <2>6. Phases'
    BY <1>1, <1>3, <1>5 DEF Phases
  <2>7. Admissions'
    BY <1>1, <1>5, <2>3, <2>4 DEF IInv, Admissions
  <2>8. Storage'
    BY <1>1, <1>5, <2>1 DEF IInv, Storage, Running
  <2> QED BY <1>1, <1>2, <1>5, <2>1, <2>3, <2>5, <2>6, <2>7, <2>8, LocalStep DEF LocalPhase
<1> QED BY <1>4, <1>5 DEF Begin

\* What admit does to the frontier: a page that was already seen, is out of
\* reach or is disallowed changes neither queue nor count, any other one is
\* queued and counted.
Offered(f, g, url) ==
    /\ g \in FrontState /\ Distinct(g.queue) /\ g.todo = f.todo
    /\ g.discovered = Cardinality(g.visited \ Disallowed)
    /\ \/ g.visited \ Disallowed = f.visited \ Disallowed /\ g.queue = f.queue
       \/ /\ url \notin f.visited \ Disallowed
          /\ g.visited \ Disallowed = (f.visited \ Disallowed) \union {url}
          /\ UrlsOf(g.queue) = UrlsOf(f.queue) \union {url}

\* admit.
LEMMA AdmitEffect ==
    ASSUME NEW f \in FrontState, NEW x \in Item, Distinct(f.queue),
           f.discovered = Cardinality(f.visited \ Disallowed),
           UrlsOf(f.queue) \subseteq f.visited \ Disallowed
    PROVE  Offered(f, Admit(f, x), x.url)
<1>1. x.url \in Urls /\ Budget \in Nat /\ f.queue \in Seq(Item)
  BY CrawlConstants DEF Item, FrontState
<1>2. CASE Admit(f, x) = f
  BY <1>2 DEF Offered
<1>3. CASE /\ x.url \in Disallowed
           /\ Admit(f, x) = [f EXCEPT !.visited = @ \union {x.url}, !.skipped = @ + 1]
  <2> DEFINE g == Admit(f, x)
  <2>0. f.skipped + 1 \in Nat
    BY DEF FrontState
  <2>1. /\ g \in FrontState /\ g.queue = f.queue /\ g.todo = f.todo
        /\ g.discovered = f.discovered /\ g.visited = f.visited \union {x.url}
    BY <1>1, <1>3, <2>0 DEF FrontState
  <2> HIDE DEF g
  <2>2. g.visited \ Disallowed = f.visited \ Disallowed
    BY <1>3, <2>1
  <2>3. Offered(f, g, x.url)
    BY <2>1, <2>2 DEF Offered
  <2> QED BY <2>3 DEF g
<1>4. CASE /\ x.url \notin f.visited /\ x.url \notin Disallowed /\ ~(f.discovered >= Budget)
           /\ Admit(f, x) = [f EXCEPT !.visited = @ \union {x.url}, !.discovered = @ + 1,
                                      !.queue = Append(@, x)]
  <2> DEFINE g == Admit(f, x)
             q == Append(f.queue, x)
  <2>1. q \in Seq(Item) /\ Distinct(q) /\ UrlsOf(q) = UrlsOf(f.queue) \union {x.url}
    <3>1. x.url \notin UrlsOf(f.queue)
      BY <1>4
    <3> QED BY <1>1, <3>1, AppendItem
  <2>2. f.discovered + 1 \in 0..Budget
    BY <1>1, <1>4 DEF FrontState
  <2>3. g = [f EXCEPT !.visited = @ \union {x.url}, !.discovered = @ + 1, !.queue = q]
    BY <1>4
  <2> HIDE DEF q
  <2>4. /\ g \in FrontState /\ g.queue = q /\ g.todo = f.todo
        /\ g.discovered = f.discovered + 1 /\ g.visited = f.visited \union {x.url}
    BY <1>1, <2>1, <2>2, <2>3 DEF FrontState
  <2> HIDE DEF g
  <2>5. /\ g.visited \ Disallowed = (f.visited \ Disallowed) \union {x.url}
        /\ x.url \notin f.visited \ Disallowed
    BY <1>4, <2>4
  <2>6. g.discovered = Cardinality(g.visited \ Disallowed)
    <3>1. f.visited \ Disallowed \in SUBSET Urls
      BY DEF FrontState
    <3>2. IsFiniteSet(f.visited \ Disallowed)
      BY <3>1, CrawlConstants, FS_Subset
    <3>3. Cardinality((f.visited \ Disallowed) \union {x.url})
             = Cardinality(f.visited \ Disallowed) + 1
      BY <2>5, <3>2, FS_AddElement
    <3> QED BY <2>4, <2>5, <3>3
  <2>7. Offered(f, g, x.url)
    BY <2>1, <2>4, <2>5, <2>6 DEF Offered
  <2> QED BY <2>7 DEF g
<1> QED BY <1>2, <1>3, <1>4 DEF Admit

\* The next link is offered to admit.
LEMMA AdmitNextStep == ASSUME IInv, AdmitNext PROVE IInv'
<1> DEFINE x == Head(front.todo)
           g == Admit(front, x)
           left == IF front.discovered >= Budget THEN <<>> ELSE Tail(front.todo)
<1>1. /\ mode = "local" /\ mgr \in {"mapping", "admit"} /\ front.todo # <<>>
      /\ UNCHANGED <<mode, render, mgr, work, tally, progress, faults, poll, store, row, fired, late>>
  BY DEF AdmitNext, localVars
<1>2. /\ front \in FrontState /\ work \in [Urls -> WorkerState] /\ tally \in Book
      /\ poll \in PollState /\ store \in StoreState /\ row \in RowState /\ mgr \in LocalPhase
      /\ fired \in BOOLEAN /\ late \in Nat /\ faults \in 0..MaxFaults
  BY <1>1, LocalTypes
<1>3. x \in Item /\ left \in Seq(Item)
  <2>1. front.todo \in Seq(Item)
    BY <1>2 DEF FrontState
  <2> QED BY <1>1, <2>1, HeadTailProperties, EmptySeq
<1>4. /\ Distinct(front.queue) /\ front.discovered = Cardinality(front.visited \ Disallowed)
      /\ UrlsOf(front.queue) \subseteq front.visited \ Disallowed /\ ~poll.stopping
      /\ FlightOf(work) \union GoneOf(work) \subseteq front.visited \ Disallowed
  BY <1>1 DEF IInv, Orderly, Admissions
<1>5. Offered(front, g, x.url)
  BY <1>2, <1>3, <1>4, AdmitEffect
<1>6. front' = [g EXCEPT !.todo = left]
  <2>1. g.todo = front.todo
    BY <1>5 DEF Offered
  <2> QED BY <2>1 DEF AdmitNext
<1> HIDE DEF g, left
<1>7. /\ front' \in FrontState /\ front'.queue = g.queue /\ front'.visited = g.visited
      /\ front'.discovered = g.discovered
  BY <1>3, <1>5, <1>6 DEF FrontState, Offered
<1>8. Orderly(front.queue, work)'
  <2>1. Distinct(g.queue)
    BY <1>5 DEF Offered
  <2>2. x.url \in Urls
    BY <1>3 DEF Item
  <2>3. x.url \notin front.visited \ Disallowed => work[x.url].at = "none"
    BY <1>2, <1>4, <2>2 DEF FlightOf, GoneOf, WorkerState
  <2>4. \A u \in UrlsOf(g.queue) : work[u].at = "none"
    BY <1>5, <2>3 DEF IInv, Orderly, Offered
  <2> QED BY <1>1, <1>7, <2>1, <2>4 DEF IInv, Orderly
<1>9. Phases'
  BY <1>1 DEF IInv, Phases
<1>10. Admissions'
  <2>1. front'.discovered = Cardinality(front'.visited \ Disallowed)
    BY <1>5, <1>7 DEF Offered
  <2>2. front'.visited \ Disallowed
          = UrlsOf(front'.queue) \union FlightOf(work) \union GoneOf(work)
    <3>1. front.visited \ Disallowed
            = UrlsOf(front.queue) \union FlightOf(work) \union GoneOf(work)
      BY <1>1, <1>4 DEF IInv, Admissions
    <3> QED BY <1>5, <1>7, <3>1 DEF Offered
  <2>3. GoneOf(work) = tally.pages \union tally.failed /\ tally.pages \intersect tally.failed = {}
    BY <1>1 DEF IInv, Admissions
  <2> QED BY <1>1, <1>4, <2>1, <2>2, <2>3 DEF Admissions
<1>11. Storage'
  BY <1>1 DEF IInv, Storage, Running
<1> QED BY <1>1, <1>2, <1>7, <1>8, <1>9, <1>10, <1>11, LocalStep

\* One worker of a wave is joined: its page is counted, buffered, and its links
\* are to be admitted.
LEMMA LocalCollectStep == ASSUME IInv, NEW u \in Urls, LocalCollect(u) PROVE IInv'
<1> DEFINE o == work[u].at
           at == Taken(u)
           found == IF work[u].held = "doc" THEN <<>> ELSE Links[u]
           links == Offers(found, work[u].depth + 1)
<1>1. /\ mode = "local" /\ mgr = "join" /\ o \in Over /\ work' = at
      /\ tally' = Counted(tally, u, o)
      /\ store' = IF o = "Extracted" THEN [store EXCEPT !.buffer = @ \union {u}] ELSE store
      /\ front' = IF o = "Extracted" /\ ~poll.stopping THEN [front EXCEPT !.todo = links]
                  ELSE front
      /\ mgr' = IF o = "Extracted" THEN "admit" ELSE "loop"
      /\ UNCHANGED <<mode, render, progress, poll, row, fired, late, faults>>
  BY DEF LocalCollect
<1>2. /\ front \in FrontState /\ work \in [Urls -> WorkerState] /\ tally \in Book
      /\ poll \in PollState /\ store \in StoreState /\ row \in RowState
      /\ fired \in BOOLEAN /\ late \in Nat /\ faults \in 0..MaxFaults
  BY <1>1, LocalTypes
<1>3. front.queue \in Seq(Item) /\ UrlsOf(front.queue) \subseteq Urls
  BY <1>2, QueueUrls DEF FrontState
<1>4. /\ at \in [Urls -> WorkerState] /\ FlightOf(at) = FlightOf(work) \ {u}
      /\ GoneOf(at) = GoneOf(work) \union {u} /\ Orderly(front.queue, at)
      /\ u \in FlightOf(work)
  BY <1>1, <1>2, <1>3, TakenEffect DEF IInv
<1>5. links \in Seq(Item)
  <2>1. found \in Seq(Urls) /\ work[u].depth + 1 \in Nat
    BY <1>2, CrawlConstants DEF WorkerState
  <2> HIDE DEF found
  <2> QED BY <2>1, OffersType
<1> HIDE DEF at, links
<1>6. /\ front' \in FrontState /\ front'.queue = front.queue /\ front'.visited = front.visited
      /\ front'.discovered = front.discovered
      /\ front'.todo # front.todo => o = "Extracted" /\ ~poll.stopping
  <2>1. CASE o = "Extracted" /\ ~poll.stopping
    BY <1>1, <1>2, <1>5, <2>1 DEF FrontState
  <2>2. CASE ~(o = "Extracted" /\ ~poll.stopping)
    BY <1>1, <1>2, <2>2
  <2> QED BY <2>1, <2>2
<1>7. /\ tally' \in Book
      /\ o = "Extracted" => tally'.pages = tally.pages \union {u} /\ tally'.failed = tally.failed
      /\ o # "Extracted" => tally'.pages = tally.pages /\ tally'.failed = tally.failed \union {u}
  BY <1>1, <1>2 DEF Counted, Book
<1>8. /\ store' \in StoreState /\ store'.saved = store.saved /\ store'.lost = store.lost
      /\ o = "Extracted" => store'.buffer = store.buffer \union {u}
      /\ o # "Extracted" => store'.buffer = store.buffer
  BY <1>1, <1>2 DEF StoreState
<1>9. mgr' \in {"admit", "loop"} /\ (o = "Extracted" => mgr' = "admit")
  BY <1>1
<1>10. Orderly(front.queue, work)'
  BY <1>1, <1>4, <1>6
<1>11. Phases'
  BY <1>1, <1>9 DEF Phases
<1>12. Admissions'
  <2>1. /\ front.discovered = Cardinality(front.visited \ Disallowed)
        /\ UrlsOf(front.queue) \union FlightOf(work) \union GoneOf(work)
              \subseteq front.visited \ Disallowed
        /\ ~poll.stopping => front.visited \ Disallowed \subseteq
              UrlsOf(front.queue) \union FlightOf(work) \union GoneOf(work)
        /\ GoneOf(work) = tally.pages \union tally.failed
        /\ tally.pages \intersect tally.failed = {}
        /\ poll.stopping => front.queue = <<>>
        /\ front.todo = <<>>
    BY <1>1 DEF IInv, Admissions
  <2>2. UrlsOf(front.queue) \union FlightOf(at) \union GoneOf(at)
          = UrlsOf(front.queue) \union FlightOf(work) \union GoneOf(work)
    BY <1>4
  <2>3. u \notin GoneOf(work)
    BY <1>4 DEF FlightOf, GoneOf, InFlight
  <2>4. GoneOf(at) = tally'.pages \union tally'.failed /\ tally'.pages \intersect tally'.failed = {}
    BY <1>4, <1>7, <2>1, <2>3
  <2>5. front'.todo # <<>> => ~poll.stopping /\ mgr' = "admit"
    BY <1>6, <1>9, <2>1
  <2> QED BY <1>1, <1>6, <2>1, <2>2, <2>4, <2>5 DEF Admissions
<1>13. Storage'
  <2>1. tally.pages = store.buffer \union store.saved \union store.lost /\ row.status # "completed"
    BY <1>1 DEF IInv, Storage, Running
  <2>2. tally'.pages = store'.buffer \union store'.saved \union store'.lost
    BY <1>7, <1>8, <2>1
  <2> QED BY <1>1, <1>9, <2>1, <2>2 DEF Storage
<1> QED BY <1>1, <1>2, <1>4, <1>6, <1>7, <1>8, <1>9, <1>10, <1>11, <1>12, <1>13, LocalStep
        DEF LocalPhase

\* A refill keeps the pages that are queued, in flight or gone together.
LEMMA RefillSets ==
    ASSUME NEW queue \in Seq(Item), NEW at \in [Urls -> WorkerState], Orderly(queue, at),
           NEW rest, NEW next, Refilled(queue, at, rest, next)
    PROVE  /\ UrlsOf(rest) \union FlightOf(next) = UrlsOf(queue) \union FlightOf(at)
           /\ GoneOf(next) = GoneOf(at)
<1>1. UrlsOf(queue) \subseteq Urls
  BY QueueUrls
<1>2. \A u \in Urls : \/ u \in UrlsOf(queue) \ UrlsOf(rest) /\ next[u].at = "fetch"
                      \/ u \notin UrlsOf(queue) \ UrlsOf(rest) /\ next[u] = at[u]
  BY DEF Refilled
<1>3. \A u \in UrlsOf(queue) : at[u].at = "none"
  BY DEF Orderly
<1>4. FlightOf(next) = FlightOf(at) \union (UrlsOf(queue) \ UrlsOf(rest))
  BY <1>1, <1>2, <1>3 DEF FlightOf, InFlight
<1>5. GoneOf(next) = GoneOf(at)
  BY <1>2, <1>3 DEF GoneOf
<1> QED BY <1>4, <1>5 DEF Refilled

\* One turn of the local loop: the cancel flag, the refill, and the end.
LEMMA WaveStep == ASSUME IInv, Wave PROVE IInv'
<1>1. PICK readable \in BOOLEAN :
         /\ IF readable THEN UNCHANGED faults ELSE Meet("db")
         /\ LET stop == poll.stopping \/ Heard(readable)
                s == Started(IF stop THEN <<>> ELSE front.queue, work) IN
            /\ poll' = [count |-> IF poll.stopping THEN poll.count
                                  ELSE (poll.count + 1) % PollEvery,
                        stopping |-> stop]
            /\ front' = [front EXCEPT !.queue = s.queue]
            /\ work' = s.work
            /\ late' = IF row.asked THEN late + s.count ELSE late
            /\ mgr' = IF Idle(s.work) THEN "flush" ELSE "join"
  BY DEF Wave
<1> DEFINE stop == poll.stopping \/ Heard(readable)
           queue == IF stop THEN <<>> ELSE front.queue
           rest == Started(queue, work).queue
           next == Started(queue, work).work
           tick == IF poll.stopping THEN poll.count ELSE (poll.count + 1) % PollEvery
<1>2. /\ mode = "local" /\ mgr = "loop"
      /\ UNCHANGED <<mode, render, tally, progress, store, row, fired>>
  BY DEF Wave
<1>3. /\ front \in FrontState /\ work \in [Urls -> WorkerState] /\ tally \in Book
      /\ poll \in PollState /\ store \in StoreState /\ row \in RowState
      /\ fired \in BOOLEAN /\ late \in Nat /\ faults \in 0..MaxFaults
  BY <1>2, LocalTypes
<1>4. front.queue \in Seq(Item) /\ Orderly(front.queue, work)
  BY <1>3 DEF FrontState, IInv
<1>5. stop \in BOOLEAN /\ (poll.stopping => stop)
  OBVIOUS
<1>6. tick \in 0..(PollEvery - 1)
  <2>1. poll.count \in 0..(PollEvery - 1) /\ PollEvery \in Nat \ {0}
    BY <1>3, CrawlConstants DEF PollState
  <2>2. (poll.count + 1) % PollEvery \in 0..(PollEvery - 1)
    BY <2>1
  <2> QED BY <2>1, <2>2
<1>7. /\ poll' = [count |-> tick, stopping |-> stop]
      /\ front' = [front EXCEPT !.queue = rest] /\ work' = next
      /\ mgr' = IF Idle(next) THEN "flush" ELSE "join"
      /\ late' = IF row.asked THEN late + Started(queue, work).count ELSE late
  BY <1>1
<1> HIDE DEF stop, tick
<1>8. poll' \in PollState /\ poll'.stopping = stop
  BY <1>5, <1>6, <1>7 DEF PollState
<1>9. /\ queue \in Seq(Item) /\ Orderly(queue, work)
      /\ stop => queue = <<>>
      /\ ~stop => queue = front.queue
  <2>1. Orderly(<<>>, work)
    <3>1. UrlsOf(<<>>) = {} /\ Distinct(<<>>)
      BY EmptyQueue
    <3> QED BY <1>4, <3>1 DEF Orderly
  <2> QED BY <1>4, <2>1, EmptySeq
<1> HIDE DEF queue
<1>10. Refilled(queue, work, rest, next) /\ Started(queue, work).count \in Nat
  BY <1>3, <1>9, StartedEffect
<1>11. late' \in Nat
  BY <1>3, <1>7, <1>10
<1> HIDE DEF rest, next
<1>12. /\ rest \in Seq(Item) /\ next \in [Urls -> WorkerState] /\ Orderly(rest, next)
       /\ UrlsOf(rest) \subseteq UrlsOf(queue)
       /\ FlightOf(next) = {} => rest = <<>>
  BY <1>10 DEF Refilled
<1>13. /\ UrlsOf(rest) \union FlightOf(next) = UrlsOf(queue) \union FlightOf(work)
       /\ GoneOf(next) = GoneOf(work)
  BY <1>3, <1>9, <1>10, RefillSets
<1>14. /\ front' \in FrontState /\ front'.queue = rest /\ front'.visited = front.visited
       /\ front'.discovered = front.discovered /\ front'.todo = front.todo
  BY <1>3, <1>7, <1>12 DEF FrontState
<1>15. stop => rest = <<>>
  <2>1. stop => UrlsOf(rest) = {}
    BY <1>9, <1>12, QueueUrls
  <2> QED BY <1>12, <2>1, QueueUrls
<1>16. mgr' \in {"flush", "join"} /\ (mgr' = "flush" => FlightOf(next) = {})
  BY <1>7 DEF Idle, FlightOf
<1>17. faults' \in 0..MaxFaults
  BY <1>1, <1>3, MeetType
<1>18. Orderly(front.queue, work)'
  BY <1>7, <1>12, <1>14
<1>19. Phases'
  BY <1>2, <1>7, <1>12, <1>14, <1>16 DEF Phases
<1>20. Admissions'
  <2>1. /\ front.discovered = Cardinality(front.visited \ Disallowed)
        /\ UrlsOf(front.queue) \union FlightOf(work) \union GoneOf(work)
              \subseteq front.visited \ Disallowed
        /\ ~poll.stopping => front.visited \ Disallowed \subseteq
              UrlsOf(front.queue) \union FlightOf(work) \union GoneOf(work)
        /\ GoneOf(work) = tally.pages \union tally.failed
        /\ tally.pages \intersect tally.failed = {}
        /\ front.todo = <<>>
    BY <1>2 DEF IInv, Admissions
  <2>2. UrlsOf(queue) \subseteq UrlsOf(front.queue)
    BY <1>9, QueueUrls, EmptySeq
  <2>3. UrlsOf(rest) \union FlightOf(next) \union GoneOf(next) \subseteq front.visited \ Disallowed
    BY <1>13, <2>1, <2>2
  <2>4. ~stop => front.visited \ Disallowed \subseteq
                    UrlsOf(rest) \union FlightOf(next) \union GoneOf(next)
    BY <1>5, <1>9, <1>13, <2>1
  <2> QED BY <1>2, <1>7, <1>8, <1>13, <1>14, <1>15, <2>1, <2>3, <2>4 DEF Admissions
<1>21. Storage'
  <2>1. tally.pages = store.buffer \union store.saved \union store.lost /\ row.status # "completed"
    BY <1>2 DEF IInv, Storage, Running
  <2> QED BY <1>2, <1>16, <2>1 DEF Storage
<1>22. mgr' \in LocalPhase /\ work' \in [Urls -> WorkerState]
  BY <1>7, <1>12, <1>16 DEF LocalPhase
<1> QED BY <1>2, <1>3, <1>8, <1>11, <1>14, <1>17, <1>18, <1>19, <1>20, <1>21, <1>22, LocalStep

\* Nothing is queued, in flight or counted in a process that has just started.
LEMMA Nothing ==
    ASSUME NEW queue \in Seq(Item)
    PROVE  /\ NoFront(queue) \in FrontState /\ NoFront(queue).queue = queue
           /\ NoFront(queue).visited = {} /\ NoFront(queue).discovered = 0
           /\ NoFront(queue).todo = <<>>
           /\ Cardinality({} \ Disallowed) = 0
           /\ NoWork \in [Urls -> WorkerState] /\ \A u \in Urls : NoWork[u].at = "none"
           /\ FlightOf(NoWork) = {} /\ GoneOf(NoWork) = {} /\ Cardinality(FlightOf(NoWork)) <= Window
           /\ NoTallies \in Book /\ NoTallies.pages = {} /\ NoTallies.failed = {}
           /\ NoTallies.blocked = {}
           /\ NoPoll \in PollState /\ NoPoll.stopping = FALSE
<1>1. Budget \in Nat /\ PollEvery \in Nat \ {0} /\ Window \in Nat
  BY CrawlConstants
<1>2. /\ NoFront(queue) \in FrontState /\ NoFront(queue).queue = queue
      /\ NoFront(queue).visited = {} /\ NoFront(queue).discovered = 0
      /\ NoFront(queue).todo = <<>>
  BY <1>1, EmptySeq DEF NoFront, FrontState
<1>3. NoWork \in [Urls -> WorkerState] /\ \A u \in Urls : NoWork[u].at = "none"
  BY DEF NoWork, WorkerState
<1>4. FlightOf(NoWork) = {} /\ GoneOf(NoWork) = {}
  BY <1>3 DEF FlightOf, GoneOf, InFlight
<1>5. Cardinality({} \ Disallowed) = 0 /\ Cardinality(FlightOf(NoWork)) = 0
  <2>1. {} \ Disallowed = {}
    OBVIOUS
  <2> QED BY <1>4, <2>1, FS_EmptySet
<1>6. NoTallies \in Book /\ NoTallies.pages = {} /\ NoTallies.failed = {} /\ NoTallies.blocked = {}
  BY DEF NoTallies, Book
<1>7. NoPoll \in PollState /\ NoPoll.stopping = FALSE
  BY <1>1 DEF NoPoll, PollState
<1> QED BY <1>1, <1>2, <1>3, <1>4, <1>5, <1>6, <1>7

\* The process dies.
LEMMA CrashStep == ASSUME IInv, Crash PROVE IInv'
<1>1. /\ mode = "local" /\ row.status \notin Terminal /\ Meet("crash") /\ mgr' = "dead"
      /\ front' = NoFront(<<>>) /\ work' = NoWork /\ tally' = NoTallies /\ poll' = NoPoll
      /\ store' = [store EXCEPT !.buffer = {}] /\ late' = 0
      /\ UNCHANGED <<mode, render, progress, row, fired>>
  BY DEF Crash
<1>2. store \in StoreState /\ row \in RowState /\ fired \in BOOLEAN /\ faults \in 0..MaxFaults
  BY <1>1, LocalTypes
<1>3. <<>> \in Seq(Item) /\ UrlsOf(<<>>) = {} /\ Distinct(<<>>)
  BY EmptyQueue
<1>4. store' \in StoreState
  BY <1>1, <1>2 DEF StoreState
<1>5. Orderly(front.queue, work)'
  BY <1>1, <1>3, Nothing DEF Orderly
<1>6. Phases'
  BY <1>1, <1>3, Nothing DEF Phases
<1>7. Admissions'
  <2>1. /\ front'.queue = <<>> /\ front'.visited = {} /\ front'.discovered = 0
        /\ front'.todo = <<>> /\ FlightOf(work') = {} /\ GoneOf(work') = {}
        /\ tally'.pages = {} /\ tally'.failed = {} /\ Cardinality({} \ Disallowed) = 0
        /\ ~poll'.stopping
    BY <1>1, <1>3, Nothing
  <2> QED BY <1>3, <2>1 DEF Admissions
<1>8. Storage'
  BY <1>1 DEF Storage, Running, Terminal
<1>9. faults' \in 0..MaxFaults /\ late' \in Nat /\ mgr' \in LocalPhase
  BY <1>1, <1>2, MeetType DEF LocalPhase
<1>10. front' \in FrontState /\ work' \in [Urls -> WorkerState] /\ tally' \in Book /\ poll' \in PollState
  BY <1>1, <1>3, Nothing
<1> QED BY <1>1, <1>2, <1>4, <1>5, <1>6, <1>7, <1>8, <1>9, <1>10, LocalStep

-----------------------------------------------------------------------------
(* The theorems.                                                           *)

\* The inductive invariant holds at the start: the batch is queued, or nothing.
LEMMA InitIInv == Init => IInv
<1> SUFFICES ASSUME Init PROVE IInv
    OBVIOUS
<1> DEFINE batch == [i \in DOMAIN Batch |-> [url |-> Batch[i], depth |-> 0]]
           queue == IF mode = "shard" THEN batch ELSE <<>>
<1>1. Len(Batch) \in Nat /\ DOMAIN Batch = 1..Len(Batch) /\ \A i \in 1..Len(Batch) : Batch[i] \in Urls
  BY CrawlConstants, LenProperties, ElementOfSeq
<1>2. batch \in Seq(Item)
  <2>1. batch \in [1..Len(Batch) -> Item]
    BY <1>1 DEF Item
  <2> HIDE DEF batch
  <2> QED BY <1>1, <2>1, SeqDef
<1>3. Distinct(batch)
  BY CrawlConstants DEF Distinct, IsInjective
<1>4. \A i \in DOMAIN Batch : Batch[i] \in UrlsOf(batch)
  BY DEF UrlsOf
<1>5. queue \in Seq(Item) /\ Distinct(queue) /\ (mode = "shard" => queue = batch)
      /\ (mode # "shard" => queue = <<>>)
  <2>1. <<>> \in Seq(Item) /\ Distinct(<<>>)
    BY EmptySeq DEF Distinct
  <2> HIDE DEF batch
  <2> QED BY <1>2, <1>3, <2>1
<1>6. front = NoFront(queue)
  BY DEF Init
<1> HIDE DEF batch, queue
<1>7. /\ front \in FrontState /\ front.queue = queue /\ front.visited = {}
      /\ front.discovered = 0 /\ front.todo = <<>>
      /\ work \in [Urls -> WorkerState] /\ (\A u \in Urls : work[u].at = "none")
      /\ FlightOf(work) = {} /\ GoneOf(work) = {} /\ Cardinality(FlightOf(work)) <= Window
      /\ tally \in Book /\ tally.pages = {} /\ tally.failed = {} /\ tally.blocked = {}
      /\ poll \in PollState /\ ~poll.stopping /\ Cardinality({} \ Disallowed) = 0
  BY <1>5, <1>6, Nothing DEF Init
<1>8. UrlsOf(queue) \subseteq Urls /\ UrlsOf(<<>>) = {}
  BY <1>5, QueueUrls, EmptySeq
<1>9. TypeOK
  <2>1. progress \in [chan : Seq(Tally), latest : Tally, framed : Tally, open : BOOLEAN]
    <3> DEFINE open == mode = "shard"
    <3>1. open \in BOOLEAN /\ NoTally \in Tally /\ <<>> \in Seq(Tally)
      BY EmptySeq DEF NoTally, Tally
    <3>2. progress = [chan |-> <<>>, latest |-> NoTally, framed |-> NoTally, open |-> open]
      BY DEF Init
    <3> HIDE DEF open
    <3> QED BY <3>1, <3>2
  <2>2. store \in StoreState
    BY DEF Init, StoreState
  <2>3. row \in RowState
    BY DEF Init, RowState
  <2>4. /\ mode \in {"shard", "local"} /\ render \in {"http", "auto", "browser"} /\ mgr = "start"
        /\ late \in Nat /\ faults \in 0..MaxFaults
    BY CrawlConstants DEF Init
  <2>5. fired \in BOOLEAN
    BY DEF Init
  <2> QED BY <1>7, <2>1, <2>2, <2>3, <2>4, <2>5
          DEF TypeOK, FrontState, Book, PollState, StoreState, RowState
<1>10. Orderly(front.queue, work)
  BY <1>5, <1>7, <1>8 DEF Orderly
<1>11. Phases
  BY <1>7 DEF Phases, Init
<1>12. Admissions
  BY <1>5, <1>7, <1>8 DEF Admissions, Init
<1>13. Storage
  <2>1. /\ row.status = "queued" /\ store.buffer = {} /\ store.saved = {} /\ store.lost = {}
        /\ mgr = "start"
    BY DEF Init
  <2> QED BY <1>7, <2>1 DEF Storage
<1>14. Shards
  <2> SUFFICES ASSUME mode = "shard" PROVE BatchOf(tally, front.queue, work)
      BY DEF Shards
  <2>1. Listed(tally) = {}
    BY <1>7 DEF Listed
  <2> QED BY <1>4, <1>5, <1>7, <2>1 DEF BatchOf
<1> QED BY <1>9, <1>10, <1>11, <1>12, <1>13, <1>14 DEF IInv

\* Every step keeps it.
LEMMA NextIInv == IInv /\ [Next]_vars => IInv'
<1> SUFFICES ASSUME IInv, [Next]_vars PROVE IInv'
    OBVIOUS
<1>1. CASE UNCHANGED vars
  <2>1. UNCHANGED <<mode, render, mgr, front, work, tally, progress, faults>> /\ UNCHANGED localVars
    BY <1>1 DEF vars, localVars
  <2>2. progress \in [chan : Seq(Tally), latest : Tally, framed : Tally, open : BOOLEAN]
    BY DEF IInv, TypeOK
  <2> QED BY <2>1, <2>2, ForwardStep
<1>2. ASSUME NEW u \in Urls, Worker(u) \/ Panic(u) PROVE IInv'
  BY <1>2, FetchStep, AcquireStep, RenderStep, PanicStep DEF Worker
<1>3. CASE Shard
  BY <1>3, ShardBeginStep, SettleStep, ShardCollectStep DEF Shard
<1>4. CASE Forwarder \/ Tick
  BY <1>4, ForwarderStep DEF Forwarder
<1>5. CASE Begin \/ Local
  BY <1>5, BeginStep, AdmitNextStep, MapStep, WaveStep, FlushSteps, FinalizeStep, FireStep,
     LocalCollectStep DEF Local
<1>6. CASE StatusNotWritten \/ Cancel \/ Crash \/ Boot
  BY <1>6, StatusNotWrittenStep, CancelStep, CrashStep, BootStep
<1> QED BY <1>1, <1>2, <1>3, <1>4, <1>5, <1>6 DEF Next

\* It holds throughout.
LEMMA Inductive == Spec => []IInv
BY InitIInv, NextIInv, PTL DEF Spec

\* Every variable has its type: no count passes its budget and no page outside
\* the crawl's scope is queued, in flight or stored.
THEOREM TypeCorrect == Spec => []TypeOK
<1>1. IInv => TypeOK
  BY DEF IInv
<1> QED BY <1>1, Inductive, PTL

\* A shard that returns has accounted for its batch, for any batch, window and
\* abort threshold, under any render mode and any answers of the host: each page
\* is in a list or went with a panicked worker, no page is both done and not
\* done, and a page that is refused both ways is handed back as blocked.
THEOREM BatchIsAccounted == Spec => []BatchAccounted
<1>1. IInv => BatchAccounted
  <2> SUFFICES ASSUME IInv, mode = "shard", mgr \in {"returned", "settled"}
               PROVE  /\ \A i \in DOMAIN Batch :
                            \/ work[Batch[i]].at = "lost"
                            \/ /\ Batch[i] \in UNION {tally.pages, tally.failed, tally.blocked}
                               /\ Site[Batch[i]].http = {"refused"}
                                  /\ Site[Batch[i]].browser \subseteq {"wall", "nothing"}
                                  => Batch[i] \in tally.blocked
                      /\ tally.pages \intersect (tally.failed \union tally.blocked) = {}
      BY DEF BatchAccounted
  <2>1. BatchOf(tally, front.queue, work)
    BY DEF IInv, Shards
  <2>2. FlightOf(work) = {} /\ UrlsOf(front.queue) = {}
    BY QueueUrls DEF IInv, TypeOK, Phases
  <2>3. ASSUME NEW i \in DOMAIN Batch, work[Batch[i]].at # "lost"
        PROVE  /\ Batch[i] \in UNION {tally.pages, tally.failed, tally.blocked}
               /\ Walled(Batch[i]) => Batch[i] \in tally.blocked
    <3>1. Batch[i] \in Urls
      BY CrawlConstants, LenProperties, ElementOfSeq
    <3>2. Batch[i] \in Listed(tally)
      BY <2>1, <2>2, <2>3 DEF BatchOf
    <3>3. Walled(Batch[i]) => Batch[i] \in tally.blocked
      BY <2>1, <3>1, <3>2 DEF BatchOf
    <3> QED BY <3>2, <3>3 DEF Listed
  <2>4. tally.pages \intersect (tally.failed \union tally.blocked) = {}
    BY <2>1 DEF BatchOf
  <2> QED BY <2>3, <2>4 DEF Walled
<1> QED BY <1>1, Inductive, PTL

\* The pages of a queue are as many as its items.
LEMMA QueueLength ==
    ASSUME NEW queue \in Seq(Item), Distinct(queue)
    PROVE  IsFiniteSet(UrlsOf(queue)) /\ Cardinality(UrlsOf(queue)) = Len(queue)
<1> DEFINE n == Len(queue)
           f == [i \in 1..n |-> queue[i].url]
<1>1. n \in Nat /\ DOMAIN queue = 1..n
  BY LenProperties
<1> HIDE DEF n
<1>2. f \in Surjection(1..n, UrlsOf(queue)) /\ f \in Injection(1..n, UrlsOf(queue))
  <2>1. UrlsOf(queue) = {f[i] : i \in 1..n}
    BY <1>1 DEF UrlsOf
  <2>2. f \in [1..n -> UrlsOf(queue)] /\ \A u \in UrlsOf(queue) : \E i \in 1..n : f[i] = u
    BY <2>1
  <2>3. \A i, j \in 1..n : f[i] = f[j] => i = j
    BY <1>1 DEF Distinct
  <2> HIDE DEF f
  <2> QED BY <2>2, <2>3 DEF Surjection, Injection, IsInjective
<1>3. IsFiniteSet(1..n) /\ Cardinality(1..n) = n
  <2>1. 1 \in Int /\ n \in Int /\ (1 > n => n = 0) /\ n - 1 + 1 = n
    BY <1>1
  <2> QED BY <2>1, FS_Interval
<1>4. IsFiniteSet(UrlsOf(queue)) /\ Cardinality(UrlsOf(queue)) = Cardinality(1..n)
  BY <1>2, <1>3, FS_Surjection
<1> QED BY <1>3, <1>4 DEF n

\* Two sets of pages that have none in common.
LEMMA SumOfTwo ==
    ASSUME NEW A \in SUBSET Urls, NEW B \in SUBSET Urls, A \intersect B = {}
    PROVE  Cardinality(A \union B) = Cardinality(A) + Cardinality(B)
<1>1. IsFiniteSet(A) /\ IsFiniteSet(B)
  BY CrawlConstants, FS_Subset
<1>2. Cardinality(A) \in Nat /\ Cardinality(B) \in Nat
  BY <1>1, FS_CardinalityType
<1>3. Cardinality(A \union B) = Cardinality(A) + Cardinality(B) - Cardinality({})
  BY <1>1, FS_Union
<1> QED BY <1>2, <1>3, FS_EmptySet

\* What the local crawl has discovered is what it has queued, in flight, done
\* and failed, one by one, and the window and the page budget hold, for any site
\* and any links, with panics, failed writes and a crash at any point.
THEOREM FrontierIsSound == Spec => []FrontierSound
<1>1. IInv => FrontierSound
  <2> SUFFICES ASSUME IInv, mode = "local"
               PROVE  /\ Cardinality(FlightOf(work)) <= Window
                      /\ front.discovered <= Budget
                      /\ ~poll.stopping =>
                            front.discovered = Len(front.queue) + Cardinality(FlightOf(work))
                               + Cardinality(tally.pages) + Cardinality(tally.failed)
      BY DEF FrontierSound, FlightOf
  <2> DEFINE Q == UrlsOf(front.queue)
             F == FlightOf(work)
             A == tally.pages
             B == tally.failed
  <2>1. front \in FrontState /\ tally \in Book /\ work \in [Urls -> WorkerState]
    BY LocalTypes
  <2>2. front.queue \in Seq(Item) /\ front.discovered \in 0..Budget /\ Budget \in Nat
    BY <2>1, CrawlConstants DEF FrontState
  <2>3. Orderly(front.queue, work)
    BY DEF IInv
  <2>4. Cardinality(F) <= Window /\ front.discovered <= Budget
    BY <2>2, <2>3 DEF Orderly
  <2>5. ASSUME ~poll.stopping
        PROVE  front.discovered = Len(front.queue) + Cardinality(F) + Cardinality(A) + Cardinality(B)
    <3>1. /\ front.discovered = Cardinality(front.visited \ Disallowed)
          /\ front.visited \ Disallowed = Q \union F \union GoneOf(work)
          /\ GoneOf(work) = A \union B /\ A \intersect B = {}
      BY <2>5 DEF IInv, Admissions
    <3>2. Q \in SUBSET Urls /\ F \in SUBSET Urls /\ A \in SUBSET Urls /\ B \in SUBSET Urls
      BY <2>1, <2>2, QueueUrls DEF FlightOf, Book
    <3>3. /\ Q \intersect F = {} /\ (Q \union F) \intersect GoneOf(work) = {}
      BY <2>3 DEF Orderly, FlightOf, GoneOf, InFlight
    <3>4. Cardinality(Q) = Len(front.queue)
      BY <2>2, <2>3, QueueLength DEF Orderly
    <3> HIDE DEF Q, F, A, B
    <3>5. Cardinality(Q \union F) = Cardinality(Q) + Cardinality(F)
      BY <3>2, <3>3, SumOfTwo
    <3>6. Cardinality(A \union B) = Cardinality(A) + Cardinality(B)
      BY <3>1, <3>2, SumOfTwo
    <3>7. Cardinality((Q \union F) \union (A \union B))
             = Cardinality(Q \union F) + Cardinality(A \union B)
      <4>1. Q \union F \in SUBSET Urls /\ A \union B \in SUBSET Urls
        BY <3>2
      <4> QED BY <3>1, <3>3, <4>1, SumOfTwo
    <3>8. /\ Cardinality(Q) \in Nat /\ Cardinality(F) \in Nat
          /\ Cardinality(A) \in Nat /\ Cardinality(B) \in Nat
      BY <3>2, CrawlConstants, FS_Subset, FS_CardinalityType
    <3>9. front.discovered = (Cardinality(Q) + Cardinality(F)) + (Cardinality(A) + Cardinality(B))
      BY <3>1, <3>5, <3>6, <3>7
    <3> QED BY <3>4, <3>8, <3>9
  <2> QED BY <2>4, <2>5
<1> QED BY <1>1, Inductive, PTL

\* A crawl settled as completed has left nothing behind, for any site, budget
\* and batch size: every page admitted was done or failed, and every page done
\* was stored or lost with the batch whose write failed.
THEOREM CompletedIsComplete == Spec => []ResultComplete
<1>1. IInv => ResultComplete
  <2> SUFFICES ASSUME IInv, row.status = "completed"
               PROVE  /\ front.visited \ Disallowed = tally.pages \union tally.failed
                      /\ store.saved \union store.lost = tally.pages
      BY DEF ResultComplete
  <2>1. /\ mode = "local" /\ mgr \in {"fire", "ended"} /\ ~poll.stopping
        /\ front.queue = <<>> /\ store.buffer = {}
        /\ tally.pages = store.buffer \union store.saved \union store.lost
    BY DEF IInv, Storage
  <2>2. FlightOf(work) = {} /\ UrlsOf(front.queue) = {}
    BY <2>1, QueueUrls DEF IInv, TypeOK, Phases
  <2>3. front.visited \ Disallowed = GoneOf(work) /\ GoneOf(work) = tally.pages \union tally.failed
    BY <2>1, <2>2 DEF IInv, Admissions
  <2> QED BY <2>1, <2>3
<1> QED BY <1>1, Inductive, PTL
=============================================================================
