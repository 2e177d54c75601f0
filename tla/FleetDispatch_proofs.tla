------------------------ MODULE FleetDispatch_proofs ------------------------
(***************************************************************************)
(* Proofs about FleetDispatch, for any tasks, any ledger size and any      *)
(* number of faults.                                                       *)
(***************************************************************************)
EXTENDS FleetDispatch, FiniteSetTheorems, SequenceTheorems, TLAPS

\* The steps of the read loop and of time that concern one task, and the steps
\* of one handler, its dispatch and its death included.
TaskStep(t) ==
    \/ AnswerDuplicate(t) \/ RefuseWire(t) \/ CancelTask(t)
    \/ ResultExpires(t) \/ RunningExpires(t)
ServeStep(t, h) ==
    DispatchById(t, h) \/ DispatchWire(t, h) \/ HandlerStep(t, h) \/ HandlerDies(t, h)

\* The ledger entry of a task, its handlers and its executions agree.
AgreeOn(t) ==
    /\ \A g, h \in Handlers : pc[t][g] \in Working /\ pc[t][h] \in Working => g = h
    /\ slot[t] = "running" <=> \E h \in Handlers : pc[t][h] \in Working
    /\ \A h \in Handlers : pc[t][h] = "dropping" => slot[t] \in Results
    /\ slot[t] = "none" => ran[t] = 0
    /\ \A h \in Handlers : pc[t][h] \in {"gate", "admitted"} => ran[t] = 0
    /\ ran[t] <= 1

Agree == \A t \in Tasks \ early : AgreeOn(t)

-----------------------------------------------------------------------------
(* Sequences without duplicates.                                           *)

\* Dropping the n oldest entries forgets exactly those.
LEMMA DropOldest ==
    ASSUME NEW S, NEW s \in Seq(S), IsInjective(s), NEW n \in 0..Len(s)
    PROVE  LET k == SubSeq(s, n + 1, Len(s)) IN
           /\ k \in Seq(S) /\ IsInjective(k)
           /\ ToSet(k) = ToSet(s) \ {s[i] : i \in 1..n}
<1> DEFINE k == SubSeq(s, n + 1, Len(s))
<1>0. Len(s) \in Nat /\ n \in Nat /\ n <= Len(s) /\ DOMAIN s = 1..Len(s)
  BY LenProperties
<1>1. k \in Seq(S) /\ Len(k) = Len(s) - n /\ \A i \in 1..(Len(s) - n) : k[i] = s[n + i]
  <2>1. \A i \in (n+1)..Len(s) : s[i] \in S
    BY <1>0, ElementOfSeq
  <2>2. n + 1 \in Int /\ Len(s) \in Int
    BY <1>0
  <2>3. /\ k \in Seq(S)
        /\ Len(k) = IF n + 1 <= Len(s) THEN Len(s) - (n + 1) + 1 ELSE 0
        /\ \A i \in 1..(Len(s) - (n + 1) + 1) : k[i] = s[n + 1 + i - 1]
    BY <2>1, <2>2, SubSeqProperties
  <2> HIDE DEF k
  <2>4. Len(k) = Len(s) - n
    <3>1. CASE n + 1 <= Len(s)
      BY <1>0, <2>3, <3>1
    <3>2. CASE ~(n + 1 <= Len(s))
      <4>0. \A p, q \in Int : p <= q /\ ~(p + 1 <= q) => q - p = 0
        OBVIOUS
      <4>1. Len(s) - n = 0
        <5>1. n \in Int /\ n <= Len(s)
          BY <1>0
        <5> QED BY <4>0, <5>1, <2>2, <3>2, Zenon
      <4> QED BY <2>3, <3>2, <4>1
    <3> QED BY <3>1, <3>2
  <2>5. ASSUME NEW i \in 1..(Len(s) - n) PROVE k[i] = s[n + i]
    <3>1. i \in 1..(Len(s) - (n + 1) + 1) /\ n + 1 + i - 1 = n + i
      BY <1>0
    <3> QED BY <2>3, <3>1
  <2> QED BY <2>3, <2>4, <2>5
<1> HIDE DEF k
<1>2. DOMAIN k = 1..(Len(s) - n)
  BY <1>0, <1>1
<1>3. IsInjective(k)
  <2> SUFFICES ASSUME NEW i \in 1..(Len(s) - n), NEW j \in 1..(Len(s) - n), k[i] = k[j] PROVE i = j
      BY <1>2 DEF IsInjective
  <2>1. s[n + i] = s[n + j] /\ n + i \in 1..Len(s) /\ n + j \in 1..Len(s)
    BY <1>0, <1>1
  <2>2. n + i = n + j
    BY <1>0, <2>1 DEF IsInjective
  <2> QED BY <1>0, <2>2
<1>4. ASSUME NEW x \in ToSet(k) PROVE x \in ToSet(s) \ {s[i] : i \in 1..n}
  <2>1. PICK i \in 1..(Len(s) - n) : x = s[n + i]
    BY <1>1, <1>2, <1>4 DEF ToSet
  <2>2. n + i \in DOMAIN s /\ \A j \in 1..n : j \in DOMAIN s /\ j # n + i
    BY <1>0, <2>1
  <2> QED BY <2>1, <2>2 DEF ToSet, IsInjective
<1>5. ASSUME NEW x \in ToSet(s) \ {s[i] : i \in 1..n} PROVE x \in ToSet(k)
  <2>1. PICK i \in DOMAIN s : x = s[i]
    BY <1>5 DEF ToSet
  <2>2. i \notin 1..n
    BY <1>5, <2>1
  <2>3. i - n \in 1..(Len(s) - n) /\ n + (i - n) = i
    BY <1>0, <2>2
  <2>4. k[i - n] = x
    BY <1>1, <2>1, <2>3
  <2> QED BY <1>2, <2>3, <2>4 DEF ToSet
<1> QED BY <1>1, <1>3, <1>4, <1>5 DEF k

\* Removing one position forgets exactly that entry.
LEMMA DropOne ==
    ASSUME NEW S, NEW s \in Seq(S), IsInjective(s), NEW n \in 1..Len(s)
    PROVE  /\ RemoveAt(s, n) \in Seq(S) /\ IsInjective(RemoveAt(s, n))
           /\ ToSet(RemoveAt(s, n)) = ToSet(s) \ {s[n]}
<1> DEFINE a == SubSeq(s, 1, n - 1)
           b == SubSeq(s, n + 1, Len(s))
           k == RemoveAt(s, n)
<1>0. Len(s) \in Nat /\ n \in Int /\ n >= 1 /\ n <= Len(s) /\ DOMAIN s = 1..Len(s)
  BY LenProperties
<1>1. a \in Seq(S) /\ Len(a) = n - 1 /\ \A i \in 1..(n - 1) : a[i] = s[i]
  <2>1. \A i \in 1..(n-1) : s[i] \in S
    BY <1>0, ElementOfSeq
  <2> QED BY <1>0, <2>1, SubSeqProperties
<1>2. b \in Seq(S) /\ Len(b) = Len(s) - n /\ \A i \in 1..(Len(s) - n) : b[i] = s[n + i]
  <2>1. \A i \in (n+1)..Len(s) : s[i] \in S
    BY <1>0, ElementOfSeq
  <2> QED BY <1>0, <2>1, SubSeqProperties
<1>3. k = a \o b
  BY DEF RemoveAt
<1> HIDE DEF a, b, k
<1>4. /\ a \o b \in Seq(S) /\ Len(a \o b) = Len(a) + Len(b)
      /\ \A i \in 1..(Len(a) + Len(b)) : (a \o b)[i] = IF i <= Len(a) THEN a[i] ELSE b[i - Len(a)]
  <2>1. a \in Seq(S) /\ b \in Seq(S)
    BY <1>1, <1>2
  <2> QED BY <2>1, ConcatProperties, Zenon
<1>5. k \in Seq(S) /\ Len(k) = Len(s) - 1 /\ DOMAIN k = 1..(Len(s) - 1)
  <2>1. k \in Seq(S) /\ Len(k) = Len(s) - 1
    BY <1>0, <1>1, <1>2, <1>3, <1>4
  <2> QED BY <2>1, LenProperties
<1>6. \A i \in 1..(Len(s) - 1) : k[i] = IF i < n THEN s[i] ELSE s[i + 1]
  <2> SUFFICES ASSUME NEW i \in 1..(Len(s) - 1) PROVE k[i] = IF i < n THEN s[i] ELSE s[i + 1]
      OBVIOUS
  <2>0. k[i] = IF i <= n - 1 THEN a[i] ELSE b[i - (n - 1)]
    BY <1>0, <1>1, <1>2, <1>3, <1>4
  <2>1. CASE i < n
    <3>1. i <= n - 1 /\ i \in 1..(n - 1)
      BY <1>0, <2>1
    <3> QED BY <2>0, <2>1, <3>1, <1>1
  <2>2. CASE ~(i < n)
    <3>1. ~(i <= n - 1) /\ i - (n - 1) \in 1..(Len(s) - n) /\ n + (i - (n - 1)) = i + 1
      BY <1>0, <2>2
    <3>2. b[i - (n - 1)] = s[n + (i - (n - 1))]
      BY <1>2, <3>1
    <3> QED BY <2>0, <2>2, <3>1, <3>2
  <2> QED BY <2>1, <2>2
<1>7. IsInjective(k)
  <2> SUFFICES ASSUME NEW i \in 1..(Len(s) - 1), NEW j \in 1..(Len(s) - 1), k[i] = k[j] PROVE i = j
      BY <1>5 DEF IsInjective
  <2> QED BY <1>0, <1>6 DEF IsInjective
<1>8. ASSUME NEW x \in ToSet(k) PROVE x \in ToSet(s) \ {s[n]}
  <2>1. PICK i \in 1..(Len(s) - 1) : x = k[i]
    BY <1>5, <1>8 DEF ToSet
  <2>2. PICK j \in DOMAIN s : x = s[j] /\ j # n
    BY <1>0, <1>6, <2>1
  <2> QED BY <1>0, <2>2 DEF ToSet, IsInjective
<1>9. ASSUME NEW x \in ToSet(s) \ {s[n]} PROVE x \in ToSet(k)
  <2>1. PICK i \in DOMAIN s : x = s[i] /\ i # n
    BY <1>9 DEF ToSet
  <2>2. CASE i < n
    <3>1. i \in 1..(Len(s) - 1) /\ k[i] = x
      BY <1>0, <1>6, <2>1, <2>2
    <3> QED BY <1>5, <3>1 DEF ToSet
  <2>3. CASE ~(i < n)
    <3>1. i - 1 \in 1..(Len(s) - 1) /\ ~(i - 1 < n) /\ (i - 1) + 1 = i
      BY <1>0, <2>1, <2>3
    <3>2. k[i - 1] = x
      BY <1>6, <2>1, <3>1
    <3> QED BY <1>5, <3>1, <3>2 DEF ToSet
  <2> QED BY <2>2, <2>3
<1> QED BY <1>5, <1>7, <1>8, <1>9 DEF k

\* A new entry goes to the young end.
LEMMA AddYoungest ==
    ASSUME NEW S, NEW s \in Seq(S), IsInjective(s), NEW x \in S, x \notin ToSet(s)
    PROVE  /\ Append(s, x) \in Seq(S) /\ IsInjective(Append(s, x))
           /\ ToSet(Append(s, x)) = ToSet(s) \cup {x}
<1>0. /\ Len(s) \in Nat /\ DOMAIN s = 1..Len(s)
      /\ Append(s, x) \in Seq(S) /\ DOMAIN Append(s, x) = 1..(Len(s) + 1)
      /\ \A i \in 1..Len(s) : Append(s, x)[i] = s[i]
      /\ Append(s, x)[Len(s) + 1] = x
  BY LenProperties, AppendProperties
<1> DEFINE k == Append(s, x)
<1> HIDE DEF k
<1>1. IsInjective(k)
  BY <1>0 DEF IsInjective, ToSet, k
<1>2. ToSet(k) = ToSet(s) \cup {x}
  BY <1>0 DEF ToSet, k
<1> QED BY <1>0, <1>1, <1>2 DEF k

-----------------------------------------------------------------------------
(* The ledger's operators.                                                 *)

\* What the cap forgets is a number of the oldest results.
LEMMA OverBound == TypeOK => Over \in 0..Len(done)
<1> SUFFICES ASSUME TypeOK PROVE Over \in 0..Len(done)
    OBVIOUS
<1> DEFINE Known == {t \in Tasks : slot[t] # "none"}
<1>1. IsFiniteSet(Tasks)
  BY FleetDispatchAssumption, FS_Union DEF Tasks
<1>2. Known \in SUBSET Tasks
  OBVIOUS
<1>3. Cardinality(Known) \in Nat
  BY <1>1, <1>2, FS_Subset, FS_CardinalityType
<1>4. Size \in Nat
  BY <1>3 DEF Size
<1>5. Len(done) \in Nat
  BY LenProperties DEF TypeOK
<1> QED BY <1>4, <1>5, FleetDispatchAssumption DEF Over

\* evict forgets terminal results only, never a claim, and keeps the rest.
LEMMA EvictedResults ==
    ASSUME TypeOK
    PROVE  /\ \A t \in Evicted : t \in Tasks /\ slot[t] \in Results
           /\ Kept \in Seq(Tasks) /\ IsInjective(Kept)
           /\ ToSet(Kept) = ToSet(done) \ Evicted
<1>1. Over \in 0..Len(done) /\ Len(done) \in Nat /\ DOMAIN done = 1..Len(done)
  BY OverBound, LenProperties DEF TypeOK
<1>2. Evicted \subseteq ToSet(done)
  BY <1>1 DEF Evicted, ToSet
<1>3. done \in Seq(Tasks) /\ IsInjective(done)
  BY DEF TypeOK
<1>4. /\ Kept \in Seq(Tasks) /\ IsInjective(Kept)
      /\ ToSet(Kept) = ToSet(done) \ Evicted
  BY <1>1, <1>3, DropOldest DEF Evicted, Kept
<1>5. \A t \in Evicted : t \in Tasks /\ slot[t] \in Results
  BY <1>2 DEF TypeOK
<1> QED BY <1>4, <1>5

\* Forgetting the result of one task leaves the others in order.
LEMMA WithoutOne ==
    ASSUME TypeOK, NEW t \in Tasks
    PROVE  /\ Without(t) \in Seq(Tasks) /\ IsInjective(Without(t))
           /\ ToSet(Without(t)) = ToSet(done) \ {t}
<1>1. done \in Seq(Tasks) /\ IsInjective(done) /\ DOMAIN done = 1..Len(done)
  BY LenProperties DEF TypeOK
<1>2. CASE t \in ToSet(done)
  <2> DEFINE i == CHOOSE i \in DOMAIN done : done[i] = t
  <2>1. i \in 1..Len(done) /\ done[i] = t
    BY <1>1, <1>2 DEF ToSet
  <2>2. Without(t) = RemoveAt(done, i)
    BY <1>2 DEF Without
  <2> QED BY <1>1, <2>1, <2>2, DropOne
<1>3. CASE t \notin ToSet(done)
  BY <1>1, <1>3 DEF Without
<1> QED BY <1>2, <1>3

\* TaskLedger::complete leaves the cached results and their order in step.
LEMMA CompleteOrder ==
    ASSUME TypeOK, NEW t \in Tasks, NEW res \in Results, Complete(t, res)
    PROVE  /\ slot' \in [Tasks -> Results \cup {"none", "running"}]
           /\ done' \in Seq(Tasks) /\ IsInjective(done')
           /\ ToSet(done') = {u \in Tasks : slot'[u] \in Results}
<1>1. /\ Without(t) \in Seq(Tasks) /\ IsInjective(Without(t))
      /\ ToSet(Without(t)) = ToSet(done) \ {t}
  BY WithoutOne
<1>2. /\ Append(Without(t), t) \in Seq(Tasks) /\ IsInjective(Append(Without(t), t))
      /\ ToSet(Append(Without(t), t)) = ToSet(done) \cup {t}
  BY <1>1, AddYoungest
<1>3. slot' = [slot EXCEPT ![t] = res] /\ slot' \in [Tasks -> Results \cup {"none", "running"}]
  BY DEF Complete, TypeOK
<1> QED BY <1>2, <1>3 DEF Complete, TypeOK

\* So does evict, before the claim of a new dispatch is entered.
LEMMA EvictOrder ==
    ASSUME TypeOK
    PROVE  /\ Forget(Evicted) \in [Tasks -> Results \cup {"none", "running"}]
           /\ Unvouched(Evicted) \in [Tasks -> 0..2]
           /\ ToSet(Kept) = {u \in Tasks : Forget(Evicted)[u] \in Results}
           /\ Overtaken(Evicted) \subseteq Tasks
<1>1. "none" \notin Results
  BY DEF Results
<1> QED BY <1>1, EvictedResults DEF TypeOK, Forget, Unvouched, Overtaken

-----------------------------------------------------------------------------
(* Types.                                                                  *)

\* The steps by kind.
LEMMA StepKinds ==
    ASSUME [Next]_vars
    PROVE  \/ \E t \in Tasks : TaskStep(t)
           \/ \E t \in Tasks, h \in Handlers : ServeStep(t, h)
           \/ Transmit \/ LinkDrops \/ Restart \/ UNCHANGED vars
BY DEF Next, Dispatch, TaskStep, ServeStep

\* Nothing is known, claimed or queued at the start.
LEMMA InitAll == Init => TypeOK /\ CancelReachesOwnRun /\ Agree
<1> SUFFICES ASSUME Init PROVE TypeOK /\ CancelReachesOwnRun /\ Agree
    OBVIOUS
<1>1. IsInjective(<<>>) /\ ToSet(<<>>) = {}
  BY DEF IsInjective, ToSet
<1>2. TypeOK
  <2>1. {t \in Tasks : slot[t] \in Results} = {}
    BY DEF Init, Results
  <2>2. done \in Seq(Tasks) /\ out \in Seq(Tasks \X (Results \cup {"ack"})) /\ Len(out) = 0
    BY EmptySeq DEF Init
  <2> QED BY <1>1, <2>1, <2>2, FleetDispatchAssumption DEF Init, TypeOK, PC
<1>3. CancelReachesOwnRun
  BY DEF Init, CancelReachesOwnRun
<1>4. Agree
  BY DEF Init, Agree, AgreeOn, Working, Results
<1> QED BY <1>2, <1>3, <1>4

\* A frame sent or transmitted leaves a well-typed, bounded channel.
LEMMA SendType ==
    ASSUME TypeOK, CanSend, NEW t \in Tasks, NEW what \in Results \cup {"ack"}, Send(t, what)
    PROVE  out' \in Seq(Tasks \X (Results \cup {"ack"})) /\ Len(out') <= MaxQueue
<1> DEFINE F == Tasks \X (Results \cup {"ack"})
<1>1. out \in Seq(F) /\ <<t, what>> \in F
  BY DEF TypeOK
<1>2. Append(out, <<t, what>>) \in Seq(F) /\ Len(Append(out, <<t, what>>)) = Len(out) + 1
  BY <1>1, AppendProperties
<1>3. Len(out) \in Nat
  BY <1>1, LenProperties
<1> QED BY <1>2, <1>3, FleetDispatchAssumption DEF Send, CanSend

\* The channel without its oldest frame is a channel still.
LEMMA PopType ==
    ASSUME TypeOK, out # <<>>
    PROVE  /\ Tail(out) \in Seq(Tasks \X (Results \cup {"ack"})) /\ Len(Tail(out)) <= MaxQueue
           /\ Head(out) \in Tasks \X (Results \cup {"ack"})
<1> DEFINE F == Tasks \X (Results \cup {"ack"})
<1>1. out \in Seq(F) /\ Len(out) \in Nat
  BY LenProperties DEF TypeOK
<1>2. Head(out) \in F /\ Tail(out) \in Seq(F) /\ Len(Tail(out)) = Len(out) - 1
  BY <1>1, HeadTailProperties
<1> QED BY <1>1, <1>2, FleetDispatchAssumption DEF TypeOK

\* A result settled by a handler keeps the ledger, the channel and the
\* handlers well typed.
LEMMA SettleType ==
    ASSUME TypeOK, NEW t \in Tasks, NEW h \in Handlers, NEW res \in Results, Settle(t, h, res)
    PROVE  /\ slot' \in [Tasks -> Results \cup {"none", "running"}]
           /\ done' \in Seq(Tasks) /\ IsInjective(done')
           /\ ToSet(done') = {u \in Tasks : slot'[u] \in Results}
           /\ pc' \in [Tasks -> [Handlers -> PC]]
           /\ out' \in Seq(Tasks \X (Results \cup {"ack"})) /\ Len(out') <= MaxQueue
<1>1. CanSend /\ Complete(t, res) /\ Send(t, res)
  BY DEF Settle
<1>2. pc' \in [Tasks -> [Handlers -> PC]]
  BY DEF Settle, Move, TypeOK, PC
<1>3. res \in Results \cup {"ack"}
  OBVIOUS
<1>4. out' \in Seq(Tasks \X (Results \cup {"ack"})) /\ Len(out') <= MaxQueue
  BY <1>1, <1>3, SendType
<1> QED BY <1>1, <1>2, <1>4, CompleteOrder

\* A claim keeps them well typed too, whatever evict forgot before it.
LEMMA ClaimType ==
    ASSUME TypeOK, NEW t \in Tasks, NEW h \in Handlers, NEW next \in PC, Claim(t, h, next)
    PROVE  /\ slot' \in [Tasks -> Results \cup {"none", "running"}]
           /\ done' \in Seq(Tasks) /\ IsInjective(done')
           /\ ToSet(done') = {u \in Tasks : slot'[u] \in Results}
           /\ pc' \in [Tasks -> [Handlers -> PC]]
           /\ ran' \in [Tasks -> 0..2]
           /\ early' \subseteq Tasks
<1> DEFINE S == Forget(Evicted)
           U == Unvouched(Evicted)
<1>1. /\ S \in [Tasks -> Results \cup {"none", "running"}]
      /\ U \in [Tasks -> 0..2]
      /\ ToSet(Kept) = {u \in Tasks : S[u] \in Results}
      /\ Kept \in Seq(Tasks) /\ IsInjective(Kept)
  BY EvictOrder, EvictedResults
<1> HIDE DEF S, U
<1>2. /\ S[t] = "none" /\ slot' = [S EXCEPT ![t] = "running"] /\ done' = Kept
      /\ ran' = [U EXCEPT ![t] = IF next = "run" THEN Again(@) ELSE @]
  BY DEF Claim, S, U
<1>3. pc' \in [Tasks -> [Handlers -> PC]]
  BY DEF Claim, Move, TypeOK
<1>4. ran' \in [Tasks -> 0..2]
  BY <1>1, <1>2 DEF Again
<1>5. slot' \in [Tasks -> Results \cup {"none", "running"}]
  BY <1>1, <1>2
<1>6. ToSet(done') = {u \in Tasks : slot'[u] \in Results}
  BY <1>1, <1>2 DEF Results
<1>7. early' \subseteq Tasks
  BY EvictOrder DEF Claim
<1> QED BY <1>1, <1>2, <1>3, <1>4, <1>5, <1>6, <1>7

\* Every step keeps the types; in particular the eviction order lists exactly
\* the cached results, each once.
LEMMA StepTypeOK == TypeOK /\ [Next]_vars => TypeOK'
<1> SUFFICES ASSUME TypeOK, [Next]_vars PROVE TypeOK'
    OBVIOUS
<1> USE FleetDispatchAssumption
<1>1. ASSUME NEW t \in Tasks, TaskStep(t) PROVE TypeOK'
  <2>1. CASE AnswerDuplicate(t)
    <3>1. /\ slot' = Forget(Evicted) /\ done' = Kept /\ ran' = Unvouched(Evicted)
          /\ early' = Overtaken(Evicted)
      BY <2>1 DEF AnswerDuplicate
    <3>2. (IF slot[t] = "running" THEN "ack" ELSE slot[t]) \in Results \cup {"ack"}
      BY <2>1, EvictedResults DEF AnswerDuplicate, TypeOK, Forget, Results
    <3>3. CanSend /\ Send(t, (IF slot[t] = "running" THEN "ack" ELSE slot[t]))
      BY <2>1 DEF AnswerDuplicate
    <3>4. out' \in Seq(Tasks \X (Results \cup {"ack"})) /\ Len(out') <= MaxQueue
      BY <3>2, <3>3, SendType
    <3>5. /\ slot' \in [Tasks -> Results \cup {"none", "running"}] /\ ran' \in [Tasks -> 0..2]
          /\ done' \in Seq(Tasks) /\ IsInjective(done')
          /\ ToSet(done') = {u \in Tasks : slot'[u] \in Results}
          /\ early' \subseteq Tasks
      BY <3>1, EvictOrder, EvictedResults
    <3> QED BY <2>1, <3>4, <3>5 DEF AnswerDuplicate, TypeOK
  <2>2. CASE RefuseWire(t)
    <3>1. /\ slot' = Forget(Evicted) /\ done' = Kept /\ ran' = Unvouched(Evicted)
          /\ early' = Overtaken(Evicted)
      BY <2>2 DEF RefuseWire
    <3>2. "busy" \in Results \cup {"ack"}
      BY <2>2, EvictedResults DEF RefuseWire, TypeOK, Forget, Results
    <3>3. CanSend /\ Send(t, "busy")
      BY <2>2 DEF RefuseWire
    <3>4. out' \in Seq(Tasks \X (Results \cup {"ack"})) /\ Len(out') <= MaxQueue
      BY <3>2, <3>3, SendType
    <3>5. /\ slot' \in [Tasks -> Results \cup {"none", "running"}] /\ ran' \in [Tasks -> 0..2]
          /\ done' \in Seq(Tasks) /\ IsInjective(done')
          /\ ToSet(done') = {u \in Tasks : slot'[u] \in Results}
          /\ early' \subseteq Tasks
      BY <3>1, EvictOrder, EvictedResults
    <3> QED BY <2>2, <3>4, <3>5 DEF RefuseWire, TypeOK
  <2>3. CASE CancelTask(t)
    BY <2>3 DEF CancelTask, TypeOK
  <2>4. CASE ResultExpires(t)
    <3>1. /\ done' \in Seq(Tasks) /\ IsInjective(done')
          /\ ToSet(done') = ToSet(done) \ {t}
      BY <2>4, WithoutOne DEF ResultExpires
    <3>2. slot' = [u \in Tasks |-> IF u = t THEN "none" ELSE slot[u]]
      BY <2>4 DEF ResultExpires, Forget
    <3>3. slot' \in [Tasks -> Results \cup {"none", "running"}]
      BY <3>2 DEF TypeOK
    <3>4. ToSet(done') = {u \in Tasks : slot'[u] \in Results}
      BY <3>1, <3>2 DEF TypeOK, Results
    <3>5. ran' \in [Tasks -> 0..2]
      BY <2>4 DEF ResultExpires, Unvouched, TypeOK
    <3> QED BY <2>4, <3>1, <3>3, <3>4, <3>5 DEF ResultExpires, TypeOK
  <2>5. CASE RunningExpires(t)
    <3>1. slot' = [u \in Tasks |-> IF u = t THEN "none" ELSE slot[u]] /\ slot[t] = "running"
      BY <2>5 DEF RunningExpires, Forget
    <3>2. slot' \in [Tasks -> Results \cup {"none", "running"}]
      BY <3>1 DEF TypeOK
    <3>3. ToSet(done') = {u \in Tasks : slot'[u] \in Results}
      BY <2>5, <3>1 DEF RunningExpires, TypeOK, Results
    <3>4. ran' \in [Tasks -> 0..2] /\ early' \subseteq Tasks
      BY <2>5 DEF RunningExpires, Unvouched, TypeOK
    <3> QED BY <2>5, <3>2, <3>3, <3>4 DEF RunningExpires, TypeOK
  <2> QED BY <1>1, <2>1, <2>2, <2>3, <2>4, <2>5 DEF TaskStep
<1>2. ASSUME NEW t \in Tasks, NEW h \in Handlers, ServeStep(t, h) PROVE TypeOK'
  <2>1. CASE DispatchById(t, h)
    <3>1. Claim(t, h, "gate") /\ "gate" \in PC
      BY <2>1 DEF DispatchById, PC
    <3>2. /\ slot' \in [Tasks -> Results \cup {"none", "running"}]
          /\ done' \in Seq(Tasks) /\ IsInjective(done')
          /\ ToSet(done') = {u \in Tasks : slot'[u] \in Results}
          /\ pc' \in [Tasks -> [Handlers -> PC]]
          /\ ran' \in [Tasks -> 0..2] /\ early' \subseteq Tasks
      BY <3>1, ClaimType
    <3> QED BY <2>1, <3>2 DEF DispatchById, TypeOK
  <2>2. CASE DispatchWire(t, h)
    <3>1. Claim(t, h, "run") /\ "run" \in PC
      BY <2>2 DEF DispatchWire, PC
    <3>2. /\ slot' \in [Tasks -> Results \cup {"none", "running"}]
          /\ done' \in Seq(Tasks) /\ IsInjective(done')
          /\ ToSet(done') = {u \in Tasks : slot'[u] \in Results}
          /\ pc' \in [Tasks -> [Handlers -> PC]]
          /\ ran' \in [Tasks -> 0..2] /\ early' \subseteq Tasks
      BY <3>1, ClaimType
    <3> QED BY <2>2, <3>2 DEF DispatchWire, TypeOK
  <2>3. CASE RejectById(t, h)
    <3>1. PICK res \in Results : Settle(t, h, res)
      BY <2>3 DEF RejectById, Results
    <3>2. /\ slot' \in [Tasks -> Results \cup {"none", "running"}]
          /\ done' \in Seq(Tasks) /\ IsInjective(done')
          /\ ToSet(done') = {u \in Tasks : slot'[u] \in Results}
          /\ pc' \in [Tasks -> [Handlers -> PC]]
          /\ out' \in Seq(Tasks \X (Results \cup {"ack"})) /\ Len(out') <= MaxQueue
      BY <3>1, SettleType
    <3> QED BY <2>3, <3>2 DEF RejectById, TypeOK
  <2>4. CASE EngineRefuses(t, h)
    <3>1. PICK res \in Results : Settle(t, h, res)
      BY <2>4 DEF EngineRefuses, Results
    <3>2. /\ slot' \in [Tasks -> Results \cup {"none", "running"}]
          /\ done' \in Seq(Tasks) /\ IsInjective(done')
          /\ ToSet(done') = {u \in Tasks : slot'[u] \in Results}
          /\ pc' \in [Tasks -> [Handlers -> PC]]
          /\ out' \in Seq(Tasks \X (Results \cup {"ack"})) /\ Len(out') <= MaxQueue
      BY <3>1, SettleType
    <3> QED BY <2>4, <3>2 DEF EngineRefuses, TypeOK
  <2>5. CASE AdmitById(t, h)
    BY <2>5 DEF AdmitById, Move, TypeOK, PC
  <2>6. CASE StartById(t, h)
    BY <2>6 DEF StartById, Move, TypeOK, PC, Again
  <2>7. CASE Return(t, h)
    BY <2>7 DEF Return, Move, TypeOK, PC
  <2>8. CASE SettleRun(t, h)
    <3>1. PICK res \in Results : Settle(t, h, res)
      BY <2>8 DEF SettleRun, Results
    <3>2. /\ slot' \in [Tasks -> Results \cup {"none", "running"}]
          /\ done' \in Seq(Tasks) /\ IsInjective(done')
          /\ ToSet(done') = {u \in Tasks : slot'[u] \in Results}
          /\ pc' \in [Tasks -> [Handlers -> PC]]
          /\ out' \in Seq(Tasks \X (Results \cup {"ack"})) /\ Len(out') <= MaxQueue
      BY <3>1, SettleType
    <3> QED BY <2>8, <3>2 DEF SettleRun, TypeOK
  <2>9. CASE DropClaim(t, h)
    <3>1. /\ slot' \in [Tasks -> Results \cup {"none", "running"}]
          /\ \A u \in Tasks : slot'[u] \in Results <=> slot[u] \in Results
      BY <2>9 DEF DropClaim, AbandonRunning, TypeOK, Results
    <3>2. ToSet(done') = {u \in Tasks : slot'[u] \in Results} /\ done' = done
      BY <2>9, <3>1 DEF DropClaim, TypeOK
    <3>3. pc' \in [Tasks -> [Handlers -> PC]]
      BY <2>9 DEF DropClaim, Move, TypeOK, PC
    <3> QED BY <2>9, <3>1, <3>2, <3>3 DEF DropClaim, TypeOK
  <2>10. CASE HandlerDies(t, h)
    <3>1. /\ slot' \in [Tasks -> Results \cup {"none", "running"}]
          /\ \A u \in Tasks : slot'[u] \in Results <=> slot[u] \in Results
      BY <2>10 DEF HandlerDies, AbandonRunning, TypeOK, Results
    <3>2. ToSet(done') = {u \in Tasks : slot'[u] \in Results} /\ done' = done
      BY <2>10, <3>1 DEF HandlerDies, TypeOK
    <3>3. pc' \in [Tasks -> [Handlers -> PC]]
      BY <2>10 DEF HandlerDies, Move, TypeOK, PC
    <3>4. ran' \in [Tasks -> 0..2] /\ runs' \in [Tasks -> Handlers \cup {0}] /\ faults' \in 0..MaxFaults
      BY <2>10 DEF HandlerDies, TypeOK
    <3> QED BY <2>10, <3>1, <3>2, <3>3, <3>4 DEF HandlerDies, TypeOK
  <2> QED
    BY <1>2, <2>1, <2>2, <2>3, <2>4, <2>5, <2>6, <2>7, <2>8, <2>9, <2>10 DEF
       ServeStep, HandlerStep
<1>3. CASE Transmit
  <2>1. out # <<>> /\ out' = Tail(out)
    BY <1>3 DEF Transmit
  <2>2. told' \subseteq Tasks
    BY <1>3, <2>1, PopType DEF Transmit, TypeOK
  <2> QED BY <1>3, <2>1, <2>2, PopType DEF Transmit, TypeOK
<1>4. CASE LinkDrops
  BY <1>4, PopType DEF LinkDrops, TypeOK
<1>5. CASE Restart
  <2>1. IsInjective(<<>>) /\ ToSet(<<>>) = {}
    BY DEF IsInjective, ToSet
  <2>2. {t \in Tasks : slot'[t] \in Results} = {}
    BY <1>5 DEF Restart, Results
  <2>3. done' \in Seq(Tasks) /\ out' \in Seq(Tasks \X (Results \cup {"ack"})) /\ Len(out') = 0
    BY <1>5, EmptySeq DEF Restart
  <2>4. ran' \in [Tasks -> 0..2] /\ crashes' \in 0..MaxCrashes /\ pc' \in [Tasks -> [Handlers -> PC]]
    BY <1>5 DEF Restart, Unvouched, TypeOK, PC
  <2> QED BY <1>5, <2>1, <2>2, <2>3, <2>4 DEF Restart, TypeOK
<1>6. CASE UNCHANGED vars
  BY <1>6 DEF vars, TypeOK
<1> QED BY <1>1, <1>2, <1>3, <1>4, <1>5, <1>6, StepKinds

-----------------------------------------------------------------------------
(* Cancels.                                                                *)

\* A run leaves the cancel map and loses its token in the step that ends it,
\* however many handlers the task has.
LEMMA StepCancel == TypeOK /\ CancelReachesOwnRun /\ [Next]_vars => CancelReachesOwnRun'
<1> SUFFICES ASSUME TypeOK, CancelReachesOwnRun, [Next]_vars PROVE CancelReachesOwnRun'
    OBVIOUS
<1> USE DEF TypeOK, CancelReachesOwnRun, Handlers
<1>1. ASSUME NEW t \in Tasks, TaskStep(t) PROVE CancelReachesOwnRun'
  <2>1. CASE AnswerDuplicate(t)
    BY <2>1 DEF AnswerDuplicate
  <2>2. CASE RefuseWire(t)
    BY <2>2 DEF RefuseWire
  <2>3. CASE CancelTask(t)
    BY <2>3 DEF CancelTask
  <2>4. CASE ResultExpires(t)
    BY <2>4 DEF ResultExpires
  <2>5. CASE RunningExpires(t)
    BY <2>5 DEF RunningExpires
  <2> QED BY <1>1, <2>1, <2>2, <2>3, <2>4, <2>5 DEF TaskStep
<1>2. ASSUME NEW t \in Tasks, NEW h \in Handlers, ServeStep(t, h) PROVE CancelReachesOwnRun'
  <2>1. CASE DispatchById(t, h)
    BY <2>1 DEF DispatchById, Claim, Move
  <2>2. CASE DispatchWire(t, h)
    BY <2>2 DEF DispatchWire, Claim, Move
  <2>3. CASE RejectById(t, h)
    BY <2>3 DEF RejectById, Settle, Complete, Move
  <2>4. CASE EngineRefuses(t, h)
    <3>1. CASE pc[t][h] = "gate" /\ Settle(t, h, "busy")
      BY <2>4, <3>1 DEF EngineRefuses, Settle, Complete, Move
    <3>2. CASE pc[t][h] = "admitted" /\ Settle(t, h, "final")
      BY <2>4, <3>2 DEF EngineRefuses, Settle, Complete, Move
    <3> QED BY <2>4, <3>1, <3>2 DEF EngineRefuses
  <2>5. CASE AdmitById(t, h)
    BY <2>5 DEF AdmitById, Move
  <2>6. CASE StartById(t, h)
    BY <2>6 DEF StartById, Move
  <2>7. CASE Return(t, h)
    BY <2>7 DEF Return, Move
  <2>8. CASE SettleRun(t, h)
    BY <2>8 DEF SettleRun, Settle, Complete, Move
  <2>9. CASE DropClaim(t, h)
    BY <2>9 DEF DropClaim, AbandonRunning, Move
  <2>10. CASE HandlerDies(t, h)
    BY <2>10 DEF HandlerDies, AbandonRunning, Move
  <2> QED
    BY <1>2, <2>1, <2>2, <2>3, <2>4, <2>5, <2>6, <2>7, <2>8, <2>9, <2>10 DEF
       ServeStep, HandlerStep
<1>3. CASE Transmit
  BY <1>3 DEF Transmit
<1>4. CASE LinkDrops
  BY <1>4 DEF LinkDrops
<1>5. CASE Restart
  BY <1>5 DEF Restart, Unvouched
<1>6. CASE UNCHANGED vars
  BY <1>6 DEF vars
<1> QED BY <1>1, <1>2, <1>3, <1>4, <1>5, <1>6, StepKinds

-----------------------------------------------------------------------------
(* Claims.                                                                 *)

\* Every step keeps the ledger, the handlers and the executions of a task in
\* agreement, but for the step that evicts its entry too early.
LEMMA StepAgree == TypeOK /\ Agree /\ [Next]_vars => Agree'
<1> SUFFICES ASSUME TypeOK, Agree, [Next]_vars, NEW u \in Tasks, u \notin early'
             PROVE  AgreeOn(u)'
    BY DEF Agree
<1> DEFINE Late == u \notin early /\ (u \in Evicted => \A h \in Handlers : pc[u][h] # "dropping")
<1>0. ASSUME u \notin early PROVE AgreeOn(u)
  BY <1>0 DEF Agree
<1>a. /\ u \in Evicted => slot[u] \in Results
      /\ Forget(Evicted)[u] = IF u \in Evicted THEN "none" ELSE slot[u]
      /\ Unvouched(Evicted)[u] = IF u \in Evicted THEN 0 ELSE ran[u]
  BY EvictedResults DEF Forget, Unvouched
<1>b. early' = Overtaken(Evicted) => Late
  BY DEF Overtaken
<1> USE DEF TypeOK, AgreeOn, Working, Results
<1>1. ASSUME NEW t \in Tasks, TaskStep(t) PROVE AgreeOn(u)'
  <2>1. CASE AnswerDuplicate(t)
    BY <1>0, <1>a, <1>b, <2>1 DEF AnswerDuplicate
  <2>2. CASE RefuseWire(t)
    BY <1>0, <1>a, <1>b, <2>2 DEF RefuseWire
  <2>3. CASE CancelTask(t)
    BY <1>0, <2>3 DEF CancelTask
  <2>4. CASE ResultExpires(t)
    BY <1>0, <2>4 DEF ResultExpires, Forget, Unvouched
  <2>5. CASE RunningExpires(t)
    BY <1>0, <2>5 DEF RunningExpires, Forget, Unvouched
  <2> QED BY <1>1, <2>1, <2>2, <2>3, <2>4, <2>5 DEF TaskStep
<1>2. ASSUME NEW t \in Tasks, NEW h \in Handlers, ServeStep(t, h) PROVE AgreeOn(u)'
  <2>1. CASE DispatchById(t, h)
    BY <1>0, <1>a, <1>b, <2>1 DEF DispatchById, Claim, Move, Forget, Unvouched, Again
  <2>2. CASE DispatchWire(t, h)
    BY <1>0, <1>a, <1>b, <2>2 DEF DispatchWire, Claim, Move, Forget, Unvouched, Again
  <2>3. CASE RejectById(t, h)
    BY <1>0, <2>3 DEF RejectById, Settle, Complete, Move
  <2>4. CASE EngineRefuses(t, h)
    <3>1. CASE pc[t][h] = "gate" /\ Settle(t, h, "busy")
      BY <1>0, <2>4, <3>1 DEF EngineRefuses, Settle, Complete, Move
    <3>2. CASE pc[t][h] = "admitted" /\ Settle(t, h, "final")
      BY <1>0, <2>4, <3>2 DEF EngineRefuses, Settle, Complete, Move
    <3> QED BY <2>4, <3>1, <3>2 DEF EngineRefuses
  <2>5. CASE AdmitById(t, h)
    BY <1>0, <2>5 DEF AdmitById, Move
  <2>6. CASE StartById(t, h)
    BY <1>0, <2>6 DEF StartById, Move, Again
  <2>7. CASE Return(t, h)
    BY <1>0, <2>7 DEF Return, Move
  <2>8. CASE SettleRun(t, h)
    BY <1>0, <2>8 DEF SettleRun, Settle, Complete, Move
  <2>9. CASE DropClaim(t, h)
    BY <1>0, <2>9 DEF DropClaim, AbandonRunning, Move
  <2>10. CASE HandlerDies(t, h)
    BY <1>0, <2>10 DEF HandlerDies, AbandonRunning, Move
  <2> QED
    BY <1>2, <2>1, <2>2, <2>3, <2>4, <2>5, <2>6, <2>7, <2>8, <2>9, <2>10 DEF
       ServeStep, HandlerStep
<1>3. CASE Transmit
  BY <1>0, <1>3 DEF Transmit
<1>4. CASE LinkDrops
  BY <1>0, <1>4 DEF LinkDrops
<1>5. CASE Restart
  BY <1>5 DEF Restart, Unvouched
<1>6. CASE UNCHANGED vars
  BY <1>0, <1>6 DEF vars
<1> QED BY <1>1, <1>2, <1>3, <1>4, <1>5, <1>6, StepKinds

\* At most one handler satisfies what no two do.
LEMMA AtMostOne ==
    ASSUME NEW S \in SUBSET Handlers, \A g, h \in S : g = h
    PROVE  Cardinality(S) <= 1
<1>1. CASE S = {}
  BY <1>1, FS_EmptySet
<1>2. CASE S # {}
  <2>1. PICK h : S = {h}
    BY <1>2
  <2>2. Cardinality({h}) = 1
    BY FS_Singleton
  <2> QED BY <2>1, <2>2
<1> QED BY <1>1, <1>2

\* The agreement is what the run checks.
LEMMA AgreeClaims == Agree => ClaimMatchesHandler
<1> SUFFICES ASSUME Agree, NEW t \in Tasks \ early
             PROVE  /\ Cardinality({h \in Handlers : pc[t][h] \in Working}) <= 1
                    /\ slot[t] = "running" <=> \E h \in Handlers : pc[t][h] \in Working
    BY DEF ClaimMatchesHandler
<1> DEFINE W == {h \in Handlers : pc[t][h] \in Working}
<1>1. W \in SUBSET Handlers /\ \A g, h \in W : g = h
  BY DEF Agree, AgreeOn
<1>2. Cardinality(W) <= 1
  BY <1>1, AtMostOne
<1> QED BY <1>2 DEF Agree, AgreeOn

-----------------------------------------------------------------------------
(* Theorems.                                                               *)

\* Types, for any tasks and bounds: in particular done lists the cached results
\* of the ledger in order of age, each exactly once.
THEOREM TypeCorrect == Spec => []TypeOK
<1>1. Init => TypeOK
  BY InitAll
<1> QED BY <1>1, StepTypeOK, PTL DEF Spec

\* The cancel map and the cancel tokens name only runs that are under way, so
\* a recycled task id never cancels an unrelated run; this needs nothing of
\* the ledger, and holds even where two handlers serve the same task.
THEOREM CancelsTheirOwn == Spec => []CancelReachesOwnRun
<1>1. Init => CancelReachesOwnRun
  BY InitAll
<1> QED BY <1>1, TypeCorrect, StepCancel, PTL DEF Spec

\* The agreement of ledger, handlers and executions is inductive.
LEMMA AgreeAlways == Spec => []Agree
<1>1. Init => Agree
  BY InitAll
<1> QED BY <1>1, TypeCorrect, StepAgree, PTL DEF Spec

\* A task is claimed exactly while one handler works on it: duplicate
\* dispatches, panics, evictions and expiries never make two handlers work on
\* the same task, but for one whose entry was evicted while a handler still had
\* to do with it.
THEOREM ClaimsExclusive == Spec => []ClaimMatchesHandler
BY AgreeAlways, AgreeClaims, PTL

\* A duplicate dispatch is answered and not executed again while the ledger
\* vouches for the first execution, with the same exceptions.
THEOREM NoReexecution == Spec => []ExecutedOnce
<1>1. Agree => ExecutedOnce
  BY DEF Agree, AgreeOn, ExecutedOnce
<1> QED BY AgreeAlways, <1>1, PTL
=============================================================================
