--------------------------- MODULE Governor_proofs ---------------------------
(***************************************************************************)
(* Proofs about Governor, for any number of callers and any ceilings.      *)
(***************************************************************************)
EXTENDS Governor, FiniteSetTheorems, SequenceTheorems, TLAPS

\* A compare-exchange that can still succeed was loaded below the sub-ceiling.
CasBelowCeiling == \A b \in Background : pc[b] = "cas" => cur[b] < BackgroundCeiling

\* The inductive invariant.
IInv ==
    /\ TypeOK
    /\ GaugeExact
    /\ gauge <= BackgroundCeiling
    /\ SlotsConserved
    /\ CasBelowCeiling

\* Both sanitized ceilings are positive and the background one is the smaller
\* (GovernorConfig::sanitized).
LEMMA Ceilings ==
    /\ GlobalCeiling \in Nat \ {0}
    /\ BackgroundCeiling \in Nat \ {0}
    /\ BackgroundCeiling <= GlobalCeiling
BY GovernorAssumption DEF GlobalCeiling, BackgroundCeiling

\* The sets the invariant counts are finite.
LEMMA CallersFinite ==
    /\ IsFiniteSet(Callers)
    /\ IsFiniteSet(HasSlot) /\ Cardinality(HasSlot) \in Nat
    /\ IsFiniteSet(Counted) /\ Cardinality(Counted) \in Nat
<1>1. IsFiniteSet(Callers)
  BY GovernorAssumption, FS_Union DEF Callers
<1>2. HasSlot \in SUBSET Callers
  BY DEF HasSlot
<1>3. Counted \in SUBSET Background
  BY DEF Counted
<1> QED
  BY <1>1, <1>2, <1>3, FS_Subset, FS_CardinalityType, GovernorAssumption

\* Removing one position of a queue shifts what is behind it, and nothing else.
LEMMA RemoveAtProperties ==
    ASSUME NEW S, NEW s \in Seq(S), NEW n \in 1..Len(s)
    PROVE  LET t == RemoveAt(s, n) IN
           /\ t \in Seq(S)
           /\ Len(t) = Len(s) - 1
           /\ \A k \in 1..Len(t) : t[k] = IF k < n THEN s[k] ELSE s[k + 1]
<1> DEFINE a == SubSeq(s, 1, n - 1)
           b == SubSeq(s, n + 1, Len(s))
<1>0. Len(s) \in Nat /\ n \in Int /\ n >= 1 /\ n <= Len(s)
  BY LenProperties
<1>1. a \in Seq(S) /\ Len(a) = n - 1 /\ \A k \in 1..(n - 1) : a[k] = s[k]
  <2>1. \A k \in 1..(n-1) : s[k] \in S
    BY <1>0, ElementOfSeq
  <2> QED BY <1>0, <2>1, SubSeqProperties
<1>2. b \in Seq(S) /\ Len(b) = Len(s) - n /\ \A k \in 1..(Len(s) - n) : b[k] = s[n + k]
  <2>1. \A k \in (n+1)..Len(s) : s[k] \in S
    BY <1>0, ElementOfSeq
  <2> QED BY <1>0, <2>1, SubSeqProperties
<1> HIDE DEF a, b
<1>3. /\ a \o b \in Seq(S)
      /\ Len(a \o b) = Len(s) - 1
      /\ \A k \in 1..Len(a \o b) : (a \o b)[k] = IF k < n THEN s[k] ELSE s[k + 1]
  <2>1. /\ a \o b \in Seq(S)
        /\ Len(a \o b) = Len(a) + Len(b)
        /\ \A k \in 1..(Len(a) + Len(b)) : (a \o b)[k] = IF k <= Len(a) THEN a[k] ELSE b[k - Len(a)]
    <3>1. a \in Seq(S) /\ b \in Seq(S)
      BY <1>1, <1>2
    <3> QED BY <3>1, ConcatProperties, Zenon
  <2>2. Len(a \o b) = Len(s) - 1
    BY <2>1, <1>0, <1>1, <1>2
  <2>3. ASSUME NEW k \in 1..Len(a \o b)
        PROVE  (a \o b)[k] = IF k < n THEN s[k] ELSE s[k + 1]
    <3>1. (a \o b)[k] = IF k <= Len(a) THEN a[k] ELSE b[k - Len(a)]
      BY <2>1
    <3>2. CASE k < n
      BY <3>1, <3>2, <1>0, <1>1
    <3>3. CASE ~(k < n)
      <4>1. k - (n - 1) \in 1..(Len(s) - n) /\ n + (k - (n - 1)) = k + 1
        BY <3>3, <2>2, <1>0
      <4>2. b[k - (n - 1)] = s[n + (k - (n - 1))]
        BY <4>1, <1>2
      <4> QED BY <3>1, <3>3, <4>1, <4>2, <1>0, <1>1
    <3> QED BY <3>2, <3>3
  <2> QED BY <2>1, <2>2, <2>3
<1> QED BY <1>3 DEF RemoveAt, a, b

\* What giving a slot back does: the slot becomes free or goes to the oldest
\* waiter, and nobody else is affected (the semaphore's release).
LEMMA ReleaseSlotEffect ==
    ASSUME TypeOK, SlotsConserved,
           NEW c \in HasSlot, NEW next \in {"idle", "unload"},
           c \in Interactive => next = "idle",
           ReleaseSlot(c, next)
    PROVE  /\ pc' \in [Callers -> InteractivePC \cup BackgroundPC]
           /\ \A i \in Interactive : pc'[i] \in InteractivePC
           /\ free' \in 0..GlobalCeiling
           /\ waiters' \in Seq(Interactive)
           /\ pc'[c] = next
           /\ \A b \in Background \ {c} : pc'[b] = pc[b]
           /\ SlotsConserved'
<1> USE GovernorAssumption DEF TypeOK, Callers, InteractivePC, BackgroundPC
<1>0. /\ GlobalCeiling \in Nat
      /\ IsFiniteSet(HasSlot) /\ Cardinality(HasSlot) \in Nat
      /\ c \in Callers /\ pc[c] \in {"load", "cas", "running"}
  BY Ceilings, CallersFinite DEF HasSlot
<1>1. CASE waiters = <<>>
  <2>1. pc' = [pc EXCEPT ![c] = next] /\ free' = free + 1 /\ waiters' = waiters
    BY <1>1 DEF ReleaseSlot
  <2>2. HasSlot' = HasSlot \ {c}
    BY <2>1, <1>0 DEF HasSlot
  <2>3. Cardinality(HasSlot') = Cardinality(HasSlot) - 1
    BY <2>2, <1>0, FS_RemoveElement
  <2>4. free' + Cardinality(HasSlot') = GlobalCeiling /\ free' \in 0..GlobalCeiling
    <3>1. Cardinality(HasSlot') \in Nat
      BY <2>2, <1>0, FS_RemoveElement, FS_CardinalityType
    <3> QED BY <2>1, <2>3, <1>0, <3>1 DEF SlotsConserved
  <2>5. Len(waiters) = 0 /\ \A i \in Interactive : pc'[i] # "waiting"
    BY <2>1, <1>0, <1>1 DEF SlotsConserved
  <2>6. SlotsConserved'
    BY <2>1, <2>4, <2>5, <1>1 DEF SlotsConserved
  <2> QED BY <2>1, <2>4, <2>6, <1>0
<1>2. CASE waiters # <<>>
  <2> DEFINE h == Head(waiters)
  <2>1. /\ pc' = [pc EXCEPT ![c] = next, ![h] = "running"]
        /\ free' = free
        /\ waiters' = Tail(waiters)
    BY <1>2 DEF ReleaseSlot
  <2>2. /\ h \in Interactive /\ h = waiters[1]
        /\ Tail(waiters) \in Seq(Interactive)
        /\ Len(Tail(waiters)) = Len(waiters) - 1
        /\ \A k \in 1..Len(Tail(waiters)) : Tail(waiters)[k] = waiters[k + 1]
        /\ Len(waiters) \in Nat \ {0}
    BY <1>2, HeadTailProperties
  <2>3. pc[h] = "waiting" /\ h # c /\ h \notin HasSlot
    BY <2>2, <1>0 DEF SlotsConserved, HasSlot
  <2> HIDE DEF h
  <2>4. HasSlot' = (HasSlot \ {c}) \cup {h}
    BY <2>1, <2>2, <2>3, <1>0 DEF HasSlot
  <2>5. Cardinality(HasSlot') = Cardinality(HasSlot)
    <3>1. /\ IsFiniteSet(HasSlot \ {c})
          /\ Cardinality(HasSlot \ {c}) = Cardinality(HasSlot) - 1
      BY <1>0, FS_RemoveElement
    <3>2. Cardinality((HasSlot \ {c}) \cup {h}) = Cardinality(HasSlot \ {c}) + 1
      BY <3>1, <2>3, FS_AddElement
    <3> QED BY <2>4, <3>1, <3>2, <1>0
  <2>6. \A n \in 1..Len(waiters') : n + 1 \in 1..Len(waiters) /\ waiters'[n] = waiters[n + 1]
    BY <2>1, <2>2
  <2>7. \A n \in 1..Len(waiters') : waiters'[n] # h /\ pc'[waiters'[n]] = "waiting"
    <3> TAKE n \in 1..Len(waiters')
    <3>1. waiters'[n] = waiters[n + 1] /\ n + 1 # 1 /\ n + 1 \in 1..Len(waiters) /\ 1 \in 1..Len(waiters)
      BY <2>6, <2>2
    <3>2. waiters[n + 1] # h
      BY <3>1, <2>2 DEF SlotsConserved
    <3>3. pc[waiters[n + 1]] = "waiting" /\ waiters[n + 1] \in Interactive
      BY <3>1, ElementOfSeq DEF SlotsConserved
    <3>4. waiters[n + 1] # c
      BY <3>3, <1>0
    <3> QED BY <2>1, <3>1, <3>2, <3>3, <3>4
  <2>8. \A i \in Interactive : pc'[i] = "waiting" => \E n \in 1..Len(waiters') : waiters'[n] = i
    <3> SUFFICES ASSUME NEW i \in Interactive, pc'[i] = "waiting"
                 PROVE  \E n \in 1..Len(waiters') : waiters'[n] = i
      OBVIOUS
    <3>1. pc[i] = "waiting" /\ i # h
      BY <2>1, <2>2, <1>0
    <3>2. PICK k \in 1..Len(waiters) : waiters[k] = i
      BY <3>1 DEF SlotsConserved
    <3>3. k # 1 /\ k - 1 \in 1..Len(waiters')
      BY <3>1, <3>2, <2>1, <2>2
    <3>4. waiters'[k - 1] = waiters[(k - 1) + 1] /\ (k - 1) + 1 = k
      BY <3>3, <2>6, <2>2
    <3> QED BY <3>2, <3>3, <3>4
  <2>9. \A m, n \in 1..Len(waiters') : waiters'[m] = waiters'[n] => m = n
    <3> SUFFICES ASSUME NEW m \in 1..Len(waiters'), NEW n \in 1..Len(waiters'), waiters'[m] = waiters'[n]
                 PROVE  m = n
      OBVIOUS
    <3>1. m + 1 = n + 1
      BY <2>6 DEF SlotsConserved
    <3> QED BY <3>1, <2>1, <2>2
  <2>10. free' + Cardinality(HasSlot') = GlobalCeiling /\ (waiters' # <<>> => free' = 0)
    BY <2>1, <2>5, <1>2 DEF SlotsConserved
  <2>11. SlotsConserved'
    BY <2>7, <2>8, <2>9, <2>10 DEF SlotsConserved
  <2> QED BY <2>1, <2>2, <2>3, <2>11, <1>0
<1> QED BY <1>1, <1>2

\* The inductive invariant holds at start and every step keeps it.
LEMMA IInvInit == Init => IInv
<1> SUFFICES ASSUME Init PROVE IInv
  OBVIOUS
<1>1. TypeOK
  <2>1. free \in 0..GlobalCeiling /\ waiters \in Seq(Interactive) /\ gauge \in Nat
    BY Ceilings, EmptySeq DEF Init
  <2>2. cur \in [Background -> Nat] /\ pc \in [Callers -> InteractivePC \cup BackgroundPC]
    BY DEF Init, InteractivePC
  <2> QED BY <2>1, <2>2 DEF Init, TypeOK, Callers, InteractivePC, BackgroundPC
<1>2. HasSlot = {} /\ Counted = {}
  BY DEF Init, HasSlot, Counted, Callers
<1>3. Cardinality(HasSlot) = 0 /\ Cardinality(Counted) = 0
  BY <1>2, FS_EmptySet
<1>4. GaugeExact /\ gauge <= BackgroundCeiling
  BY <1>3, Ceilings DEF Init, GaugeExact
<1>5. SlotsConserved
  BY <1>3, Ceilings DEF Init, SlotsConserved, Callers
<1>6. CasBelowCeiling
  BY DEF Init, CasBelowCeiling, Callers
<1> QED BY <1>1, <1>4, <1>5, <1>6 DEF IInv

LEMMA IInvStep == IInv /\ [Next]_vars => IInv'
<1> SUFFICES ASSUME IInv, [Next]_vars PROVE IInv'
  OBVIOUS
<1> USE GovernorAssumption DEF Callers, InteractivePC, BackgroundPC
<1>0. /\ TypeOK /\ GaugeExact /\ SlotsConserved /\ CasBelowCeiling
      /\ gauge <= BackgroundCeiling
      /\ GlobalCeiling \in Nat \ {0} /\ BackgroundCeiling \in Nat \ {0}
      /\ IsFiniteSet(HasSlot) /\ Cardinality(HasSlot) \in Nat
      /\ IsFiniteSet(Counted) /\ Cardinality(Counted) \in Nat
      /\ Len(waiters) \in Nat
  BY Ceilings, CallersFinite, LenProperties DEF IInv, TypeOK
\* A step that leaves the semaphore alone and moves b between program points
\* of the same slot class keeps SlotsConserved.
<1>A. ASSUME NEW b \in Background, NEW l \in BackgroundPC,
             pc' = [pc EXCEPT ![b] = l], free' = free, waiters' = waiters,
             l \in {"load", "cas", "running"} <=> pc[b] \in {"load", "cas", "running"}
      PROVE  SlotsConserved'
  <2>1. HasSlot' = HasSlot
    BY <1>A, <1>0 DEF HasSlot, TypeOK
  <2>2. \A i \in Interactive : pc'[i] = pc[i]
    BY <1>A, <1>0 DEF TypeOK
  <2>3. \A n \in 1..Len(waiters) : waiters[n] \in Interactive
    BY <1>0, ElementOfSeq DEF TypeOK
  <2> QED BY <1>0, <1>A, <2>1, <2>2, <2>3 DEF SlotsConserved
\* ... and if it also keeps b counted or uncounted, GaugeExact with the gauge.
<1>B. ASSUME NEW b \in Callers,
             \A a \in Background \ {b} : pc'[a] = pc[a],
             b \in Background => (b \in Counted' <=> b \in Counted),
             gauge' = gauge
      PROVE  GaugeExact'
  <2>1. Counted' = Counted
    BY <1>B DEF Counted
  <2> QED BY <1>0, <1>B, <2>1 DEF GaugeExact
<1>1. ASSUME NEW i \in Interactive, AdmitInteractive(i) PROVE IInv'
  <2>1. CASE free > 0
    <3>1. /\ pc[i] = "idle" /\ pc' = [pc EXCEPT ![i] = "running"] /\ free' = free - 1
          /\ UNCHANGED <<waiters, gauge, cur, overLimit, sample>>
      BY <1>1, <2>1 DEF AdmitInteractive
    <3>2. waiters = <<>>
      BY <1>0, <2>1 DEF SlotsConserved, TypeOK
    <3>3. HasSlot' = HasSlot \cup {i} /\ i \notin HasSlot
      BY <3>1, <1>0 DEF HasSlot, TypeOK
    <3>4. Cardinality(HasSlot') = Cardinality(HasSlot) + 1
      BY <3>3, <1>0, FS_AddElement
    <3>5. TypeOK'
      BY <3>1, <1>0, <2>1 DEF TypeOK
    <3>6. SlotsConserved'
      <4>1. free' + Cardinality(HasSlot') = GlobalCeiling
        BY <3>1, <3>4, <1>0 DEF SlotsConserved, TypeOK
      <4>2. \A j \in Interactive : pc'[j] # "waiting"
        BY <3>1, <3>2, <1>0 DEF SlotsConserved, TypeOK
      <4> QED BY <4>1, <4>2, <3>1, <3>2 DEF SlotsConserved
    <3>7. GaugeExact'
      BY <1>B, <3>1, <1>0 DEF TypeOK
    <3>8. CasBelowCeiling'
      BY <3>1, <1>0 DEF CasBelowCeiling, TypeOK
    <3> QED BY <3>1, <3>5, <3>6, <3>7, <3>8, <1>0 DEF IInv
  <2>2. CASE ~(free > 0)
    <3>1. /\ pc[i] = "idle" /\ free = 0 /\ pc' = [pc EXCEPT ![i] = "waiting"]
          /\ waiters' = Append(waiters, i)
          /\ UNCHANGED <<free, gauge, cur, overLimit, sample>>
      BY <1>1, <2>2, <1>0 DEF AdmitInteractive, TypeOK
    <3>2. /\ waiters' \in Seq(Interactive) /\ Len(waiters') = Len(waiters) + 1
          /\ \A n \in 1..Len(waiters) : waiters'[n] = waiters[n] /\ waiters[n] \in Interactive
          /\ waiters'[Len(waiters) + 1] = i
      BY <3>1, <1>0, AppendProperties, ElementOfSeq DEF TypeOK
    <3>3. HasSlot' = HasSlot
      BY <3>1, <1>0 DEF HasSlot, TypeOK
    <3>4. TypeOK'
      BY <3>1, <3>2, <1>0 DEF TypeOK
    <3>5. SlotsConserved'
      <4>1. \A n \in 1..Len(waiters) : waiters[n] # i
        BY <3>1, <1>0 DEF SlotsConserved
      <4>2. \A n \in 1..Len(waiters') : n \in 1..Len(waiters) \/ n = Len(waiters) + 1
        BY <3>2, <1>0
      <4>3. \A n \in 1..Len(waiters') : pc'[waiters'[n]] = "waiting"
        BY <4>1, <4>2, <3>1, <3>2, <1>0 DEF SlotsConserved, TypeOK
      <4>4. \A m, n \in 1..Len(waiters') : waiters'[m] = waiters'[n] => m = n
        BY <4>1, <4>2, <3>2, <1>0 DEF SlotsConserved
      <4>5. \A j \in Interactive : pc'[j] = "waiting" => \E n \in 1..Len(waiters') : waiters'[n] = j
        <5> SUFFICES ASSUME NEW j \in Interactive, pc'[j] = "waiting"
                     PROVE  \E n \in 1..Len(waiters') : waiters'[n] = j
          OBVIOUS
        <5>1. CASE j = i
          <6>1. Len(waiters) + 1 \in 1..Len(waiters')
            BY <3>2, <1>0
          <6> QED BY <6>1, <3>2, <5>1
        <5>2. CASE j # i
          <6>1. PICK n \in 1..Len(waiters) : waiters[n] = j
            BY <3>1, <1>0, <5>2 DEF SlotsConserved, TypeOK
          <6>2. n \in 1..Len(waiters')
            BY <3>2, <1>0
          <6> QED BY <6>1, <6>2, <3>2
        <5> QED BY <5>1, <5>2
      <4> QED BY <4>3, <4>4, <4>5, <3>1, <3>3, <1>0 DEF SlotsConserved
    <3>6. GaugeExact'
      BY <1>B, <3>1, <1>0 DEF TypeOK
    <3>7. CasBelowCeiling'
      BY <3>1, <1>0 DEF CasBelowCeiling, TypeOK
    <3> QED BY <3>1, <3>4, <3>5, <3>6, <3>7, <1>0 DEF IInv
  <2> QED BY <2>1, <2>2
<1>2. ASSUME NEW i \in Interactive, AbandonWait(i) PROVE IInv'
  <2>1. PICK n \in 1..Len(waiters) :
          /\ pc[i] = "waiting" /\ waiters[n] = i
          /\ pc' = [pc EXCEPT ![i] = "idle"] /\ waiters' = RemoveAt(waiters, n)
          /\ UNCHANGED <<free, gauge, cur, overLimit, sample>>
    BY <1>2 DEF AbandonWait
  <2>2. /\ waiters' \in Seq(Interactive) /\ Len(waiters') = Len(waiters) - 1
        /\ \A k \in 1..Len(waiters') : waiters'[k] = IF k < n THEN waiters[k] ELSE waiters[k + 1]
    BY <2>1, <1>0, RemoveAtProperties DEF TypeOK
  <2>3. \A k \in 1..Len(waiters') :
          /\ k < n => k \in 1..Len(waiters)
          /\ ~(k < n) => k + 1 \in 1..Len(waiters) /\ k + 1 # n
          /\ waiters'[k] # i /\ waiters'[k] \in Interactive
          /\ pc[waiters'[k]] = "waiting"
    <3> TAKE k \in 1..Len(waiters')
    <3>1. CASE k < n
      <4>1. k \in 1..Len(waiters) /\ waiters'[k] = waiters[k] /\ k # n
        BY <3>1, <2>2, <1>0
      <4> QED BY <4>1, <3>1, <2>1, <1>0, ElementOfSeq DEF SlotsConserved, TypeOK
    <3>2. CASE ~(k < n)
      <4>1. k + 1 \in 1..Len(waiters) /\ waiters'[k] = waiters[k + 1] /\ k + 1 # n
        BY <3>2, <2>2, <1>0
      <4> QED BY <4>1, <3>2, <2>1, <1>0, ElementOfSeq DEF SlotsConserved, TypeOK
    <3> QED BY <3>1, <3>2
  <2>4. HasSlot' = HasSlot
    BY <2>1, <1>0 DEF HasSlot, TypeOK
  <2>5. TypeOK'
    BY <2>1, <2>2, <1>0 DEF TypeOK
  <2>6. SlotsConserved'
    <3>1. waiters' # <<>> => free' = 0
      BY <2>1, <1>0 DEF SlotsConserved, TypeOK
    <3>2. \A k \in 1..Len(waiters') : pc'[waiters'[k]] = "waiting"
      BY <2>1, <2>3, <1>0 DEF TypeOK
    <3>3. \A j, k \in 1..Len(waiters') : waiters'[j] = waiters'[k] => j = k
      <4> SUFFICES ASSUME NEW j \in 1..Len(waiters'), NEW k \in 1..Len(waiters'),
                          waiters'[j] = waiters'[k]
                   PROVE  j = k
        OBVIOUS
      <4> DEFINE p(x) == IF x < n THEN x ELSE x + 1
      <4>1. /\ p(j) \in 1..Len(waiters) /\ waiters'[j] = waiters[p(j)]
            /\ p(k) \in 1..Len(waiters) /\ waiters'[k] = waiters[p(k)]
        BY <2>2, <2>3
      <4>2. p(j) = p(k)
        BY <4>1, <1>0 DEF SlotsConserved
      <4> QED BY <4>2, <2>2, <1>0
    <3>4. \A j \in Interactive : pc'[j] = "waiting" => \E k \in 1..Len(waiters') : waiters'[k] = j
      <4> SUFFICES ASSUME NEW j \in Interactive, pc'[j] = "waiting"
                   PROVE  \E k \in 1..Len(waiters') : waiters'[k] = j
        OBVIOUS
      <4>1. j # i /\ pc[j] = "waiting"
        BY <2>1, <1>0 DEF TypeOK
      <4>2. PICK k \in 1..Len(waiters) : waiters[k] = j
        BY <4>1, <1>0 DEF SlotsConserved
      <4>3. CASE k < n
        <5>1. k \in 1..Len(waiters')
          BY <4>3, <2>2, <1>0
        <5> QED BY <5>1, <4>2, <4>3, <2>2
      <4>4. CASE ~(k < n)
        <5>1. k # n /\ k - 1 \in 1..Len(waiters') /\ ~(k - 1 < n) /\ (k - 1) + 1 = k
          BY <4>1, <4>2, <4>4, <2>1, <2>2, <1>0
        <5>2. waiters'[k - 1] = waiters[(k - 1) + 1]
          BY <5>1, <2>2
        <5> QED BY <5>1, <5>2, <4>2
      <4> QED BY <4>3, <4>4
    <3> QED BY <3>1, <3>2, <3>3, <3>4, <2>1, <2>4, <1>0 DEF SlotsConserved
  <2>7. GaugeExact'
    BY <1>B, <2>1, <1>0 DEF TypeOK
  <2>8. CasBelowCeiling'
    BY <2>1, <1>0 DEF CasBelowCeiling, TypeOK
  <2> QED BY <2>1, <2>5, <2>6, <2>7, <2>8, <1>0 DEF IInv
<1>3. ASSUME NEW i \in Interactive, DropInteractive(i) PROVE IInv'
  <2>1. i \in HasSlot /\ ReleaseSlot(i, "idle") /\ UNCHANGED <<gauge, cur, overLimit, sample>>
    BY <1>3, <1>0 DEF DropInteractive, HasSlot
  <2>2. /\ pc' \in [Callers -> InteractivePC \cup BackgroundPC]
        /\ \A j \in Interactive : pc'[j] \in InteractivePC
        /\ free' \in 0..GlobalCeiling /\ waiters' \in Seq(Interactive)
        /\ \A b \in Background : pc'[b] = pc[b]
        /\ SlotsConserved'
    BY <2>1, <1>0, ReleaseSlotEffect
  <2>3. TypeOK'
    BY <2>1, <2>2, <1>0 DEF TypeOK
  <2>4. GaugeExact'
    BY <1>B, <2>1, <2>2
  <2>5. CasBelowCeiling'
    BY <2>1, <2>2, <1>0 DEF CasBelowCeiling
  <2> QED BY <2>1, <2>2, <2>3, <2>4, <2>5, <1>0 DEF IInv
<1>4. ASSUME NEW b \in Background, ShedOrReserve(b) PROVE IInv'
  <2>1. PICK shed \in BOOLEAN :
          /\ ShouldShed(shed) /\ pc[b] = "idle"
          /\ pc' = [pc EXCEPT ![b] = IF shed THEN "idle" ELSE "reserve"]
          /\ UNCHANGED <<free, waiters, gauge, cur, overLimit>>
    BY <1>4 DEF ShedOrReserve
  <2>2. sample' \in {"none", "under", "over"}
    BY <2>1, <1>0 DEF ShouldShed, TypeOK
  <2>3. TypeOK'
    BY <2>1, <2>2, <1>0 DEF TypeOK
  <2>4. SlotsConserved'
    BY <1>A, <2>1
  <2>5. GaugeExact'
    BY <1>B, <2>1, <1>0 DEF TypeOK, Counted
  <2>6. CasBelowCeiling'
    BY <2>1, <1>0 DEF CasBelowCeiling, TypeOK
  <2> QED BY <2>1, <2>3, <2>4, <2>5, <2>6, <1>0 DEF IInv
<1>5. ASSUME NEW b \in Background, TryAcquire(b) PROVE IInv'
  <2>1. CASE free > 0
    <3>1. /\ pc[b] = "reserve" /\ pc' = [pc EXCEPT ![b] = "load"] /\ free' = free - 1
          /\ UNCHANGED <<waiters, gauge, cur, overLimit, sample>>
      BY <1>5, <2>1 DEF TryAcquire
    <3>2. HasSlot' = HasSlot \cup {b} /\ b \notin HasSlot
      BY <3>1, <1>0 DEF HasSlot, TypeOK
    <3>3. Cardinality(HasSlot') = Cardinality(HasSlot) + 1
      BY <3>2, <1>0, FS_AddElement
    <3>4. TypeOK'
      BY <3>1, <1>0, <2>1 DEF TypeOK
    <3>5. SlotsConserved'
      <4>1. free' + Cardinality(HasSlot') = GlobalCeiling
        BY <3>1, <3>3, <1>0 DEF SlotsConserved, TypeOK
      <4>2. waiters = <<>> /\ Len(waiters) = 0
        BY <1>0, <2>1 DEF SlotsConserved, TypeOK
      <4>3. \A i \in Interactive : pc'[i] = pc[i]
        BY <3>1, <1>0 DEF TypeOK
      <4> QED BY <4>1, <4>2, <4>3, <3>1, <1>0 DEF SlotsConserved
    <3>6. GaugeExact'
      BY <1>B, <3>1, <1>0 DEF TypeOK, Counted
    <3>7. CasBelowCeiling'
      BY <3>1, <1>0 DEF CasBelowCeiling, TypeOK
    <3> QED BY <3>1, <3>4, <3>5, <3>6, <3>7, <1>0 DEF IInv
  <2>2. CASE ~(free > 0)
    <3>1. /\ pc[b] = "reserve" /\ pc' = [pc EXCEPT ![b] = "idle"]
          /\ UNCHANGED <<free, waiters, gauge, cur, overLimit, sample>>
      BY <1>5, <2>2 DEF TryAcquire
    <3>2. TypeOK'
      BY <3>1, <1>0 DEF TypeOK
    <3>3. SlotsConserved'
      BY <1>A, <3>1
    <3>4. GaugeExact'
      BY <1>B, <3>1, <1>0 DEF TypeOK, Counted
    <3>5. CasBelowCeiling'
      BY <3>1, <1>0 DEF CasBelowCeiling, TypeOK
    <3> QED BY <3>1, <3>2, <3>3, <3>4, <3>5, <1>0 DEF IInv
  <2> QED BY <2>1, <2>2
<1>6. ASSUME NEW b \in Background, LoadGauge(b) PROVE IInv'
  <2>0. /\ pc[b] = "load" /\ cur' = [cur EXCEPT ![b] = gauge] /\ b \in HasSlot
        /\ UNCHANGED <<gauge, overLimit, sample>>
    BY <1>6 DEF LoadGauge, HasSlot
  <2>1. CASE gauge >= BackgroundCeiling
    <3>1. ReleaseSlot(b, "idle") /\ b \notin Interactive
      BY <1>6, <2>1 DEF LoadGauge
    <3>2. /\ pc' \in [Callers -> InteractivePC \cup BackgroundPC]
          /\ \A j \in Interactive : pc'[j] \in InteractivePC
          /\ free' \in 0..GlobalCeiling /\ waiters' \in Seq(Interactive)
          /\ pc'[b] = "idle"
          /\ \A a \in Background \ {b} : pc'[a] = pc[a]
          /\ SlotsConserved'
      BY <3>1, <2>0, <1>0, ReleaseSlotEffect
    <3>3. TypeOK'
      BY <2>0, <3>2, <1>0 DEF TypeOK
    <3>4. GaugeExact'
      BY <1>B, <3>2, <2>0 DEF Counted
    <3>5. CasBelowCeiling'
      BY <3>2, <2>0, <1>0 DEF CasBelowCeiling, TypeOK
    <3> QED BY <2>0, <3>2, <3>3, <3>4, <3>5, <1>0 DEF IInv
  <2>2. CASE ~(gauge >= BackgroundCeiling)
    <3>1. pc' = [pc EXCEPT ![b] = "cas"] /\ UNCHANGED <<free, waiters>>
      BY <1>6, <2>2 DEF LoadGauge
    <3>2. TypeOK'
      BY <2>0, <3>1, <1>0 DEF TypeOK
    <3>3. SlotsConserved'
      BY <1>A, <2>0, <3>1
    <3>4. GaugeExact'
      BY <1>B, <2>0, <3>1, <1>0 DEF TypeOK, Counted
    <3>5. CasBelowCeiling'
      BY <2>0, <2>2, <3>1, <1>0 DEF CasBelowCeiling, TypeOK
    <3> QED BY <2>0, <3>2, <3>3, <3>4, <3>5, <1>0 DEF IInv
  <2> QED BY <2>1, <2>2
<1>7. ASSUME NEW b \in Background, CompareExchange(b) PROVE IInv'
  <2>0. /\ pc[b] = "cas" /\ UNCHANGED <<free, waiters, cur, overLimit, sample>>
        /\ cur[b] \in Nat /\ cur[b] < BackgroundCeiling
    BY <1>7, <1>0 DEF CompareExchange, CasBelowCeiling, TypeOK
  <2>1. CASE gauge = cur[b]
    <3>1. gauge' = gauge + 1 /\ pc' = [pc EXCEPT ![b] = "running"]
      BY <1>7, <2>1 DEF CompareExchange
    <3>2. Counted' = Counted \cup {b} /\ b \notin Counted
      BY <3>1, <2>0, <1>0 DEF Counted, TypeOK
    <3>3. GaugeExact'
      BY <3>1, <3>2, <1>0, FS_AddElement DEF GaugeExact
    <3>4. TypeOK'
      BY <2>0, <3>1, <1>0 DEF TypeOK
    <3>5. SlotsConserved'
      BY <1>A, <2>0, <3>1
    <3>6. CasBelowCeiling' /\ gauge' <= BackgroundCeiling
      BY <2>0, <2>1, <3>1, <1>0 DEF CasBelowCeiling, TypeOK
    <3> QED BY <3>3, <3>4, <3>5, <3>6 DEF IInv
  <2>2. CASE gauge # cur[b]
    <3>1. gauge' = gauge /\ pc' = [pc EXCEPT ![b] = "load"]
      BY <1>7, <2>2 DEF CompareExchange
    <3>2. TypeOK'
      BY <2>0, <3>1, <1>0 DEF TypeOK
    <3>3. SlotsConserved'
      BY <1>A, <2>0, <3>1
    <3>4. GaugeExact'
      BY <1>B, <2>0, <3>1, <1>0 DEF TypeOK, Counted
    <3>5. CasBelowCeiling'
      BY <2>0, <3>1, <1>0 DEF CasBelowCeiling, TypeOK
    <3> QED BY <3>1, <3>2, <3>3, <3>4, <3>5, <1>0 DEF IInv
  <2> QED BY <2>1, <2>2
<1>8. ASSUME NEW b \in Background, DropGlobal(b) PROVE IInv'
  <2>1. /\ pc[b] = "running" /\ b \in HasSlot /\ b \notin Interactive
        /\ ReleaseSlot(b, "unload") /\ UNCHANGED <<gauge, cur, overLimit, sample>>
    BY <1>8 DEF DropGlobal, HasSlot
  <2>2. /\ pc' \in [Callers -> InteractivePC \cup BackgroundPC]
        /\ \A j \in Interactive : pc'[j] \in InteractivePC
        /\ free' \in 0..GlobalCeiling /\ waiters' \in Seq(Interactive)
        /\ pc'[b] = "unload"
        /\ \A a \in Background \ {b} : pc'[a] = pc[a]
        /\ SlotsConserved'
    BY <2>1, <1>0, ReleaseSlotEffect
  <2>3. TypeOK'
    BY <2>1, <2>2, <1>0 DEF TypeOK
  <2>4. GaugeExact'
    BY <1>B, <2>1, <2>2 DEF Counted
  <2>5. CasBelowCeiling'
    BY <2>1, <2>2, <1>0 DEF CasBelowCeiling
  <2> QED BY <2>1, <2>2, <2>3, <2>4, <2>5, <1>0 DEF IInv
<1>9. ASSUME NEW b \in Background, DropLoad(b) \/ DropSub(b) PROVE IInv'
  <2>0. b \in Counted /\ gauge > 0
    <3>1. b \in Counted
      BY <1>9 DEF DropLoad, DropSub, Counted
    <3>2. Cardinality(Counted) # 0
      BY <3>1, <1>0, FS_EmptySet
    <3> QED BY <3>1, <3>2, <1>0 DEF GaugeExact
  <2>1. CASE DropLoad(b)
    <3>1. /\ pc[b] = "unload" /\ pc' = [pc EXCEPT ![b] = "sub"]
          /\ UNCHANGED <<free, waiters, gauge, cur, overLimit, sample>>
      BY <2>0, <2>1 DEF DropLoad
    <3>2. TypeOK'
      BY <3>1, <1>0 DEF TypeOK
    <3>3. SlotsConserved'
      BY <1>A, <3>1
    <3>4. GaugeExact'
      BY <1>B, <3>1, <1>0 DEF TypeOK, Counted
    <3>5. CasBelowCeiling'
      BY <3>1, <1>0 DEF CasBelowCeiling, TypeOK
    <3> QED BY <3>1, <3>2, <3>3, <3>4, <3>5, <1>0 DEF IInv
  <2>2. CASE DropSub(b)
    <3>1. /\ pc[b] = "sub" /\ pc' = [pc EXCEPT ![b] = "idle"] /\ gauge' = gauge - 1
          /\ UNCHANGED <<free, waiters, cur, overLimit, sample>>
      BY <2>2 DEF DropSub
    <3>2. Counted' = Counted \ {b}
      BY <3>1, <1>0 DEF Counted, TypeOK
    <3>3. GaugeExact'
      BY <3>1, <3>2, <2>0, <1>0, FS_RemoveElement DEF GaugeExact
    <3>4. TypeOK'
      BY <3>1, <2>0, <1>0 DEF TypeOK
    <3>5. SlotsConserved'
      BY <1>A, <3>1
    <3>6. CasBelowCeiling' /\ gauge' <= BackgroundCeiling
      BY <3>1, <1>0 DEF CasBelowCeiling, TypeOK
    <3> QED BY <3>3, <3>4, <3>5, <3>6 DEF IInv
  <2> QED BY <1>9, <2>1, <2>2
<1>10. ASSUME pc' = pc, free' = free, waiters' = waiters, gauge' = gauge, cur' = cur,
              overLimit' \in BOOLEAN, sample' \in {"none", "under", "over"}
       PROVE IInv'
  <2>1. HasSlot' = HasSlot /\ Counted' = Counted
    BY <1>10 DEF HasSlot, Counted
  <2>2. TypeOK'
    BY <1>10, <1>0 DEF TypeOK
  <2>3. SlotsConserved' /\ GaugeExact' /\ CasBelowCeiling'
    BY <1>10, <2>1, <1>0 DEF SlotsConserved, GaugeExact, CasBelowCeiling
  <2> QED BY <2>2, <2>3, <1>10, <1>0 DEF IInv
<1>11. ASSUME SampleExpires \/ MemoryMoves \/ UNCHANGED vars PROVE IInv'
  BY <1>10, <1>11, <1>0 DEF SampleExpires, MemoryMoves, vars, TypeOK
<1> QED
  BY <1>1, <1>2, <1>3, <1>4, <1>5, <1>6, <1>7, <1>8, <1>9, <1>11 DEF Next, AdmissionStep

\* The invariant holds in every reachable state, for all callers and ceilings.
THEOREM Invariance == Spec => []IInv
BY IInvInit, IInvStep, PTL DEF Spec

\* Every reachable state is well typed.
THEOREM TypeCorrect == Spec => []TypeOK
BY Invariance, PTL DEF IInv

\* No gauge unit leaks, whatever the interleaving of admissions and drops.
THEOREM GaugeCorrect == Spec => []GaugeExact
BY Invariance, PTL DEF IInv

\* No slot leaks, and no caller waits while a slot is available.
THEOREM SlotsCorrect == Spec => []SlotsConserved
BY Invariance, PTL DEF IInv

-----------------------------------------------------------------------------
(* Refinement: the running set is an atomic pool of slots.                 *)

\* The pool's cardinality is the cardinality.
LEMMA SameCardinality == \A S : Pool!Cardinality(S) = Cardinality(S)
BY Zenon DEF Pool!Cardinality, Cardinality

\* In every state of the invariant the running callers are within both ceilings.
LEMMA RunningWithin == IInv => Pool!Within(Running)
<1> SUFFICES ASSUME IInv PROVE Pool!Within(Running)
  OBVIOUS
<1>1. Running \in SUBSET HasSlot /\ Running \cap Background \in SUBSET Counted
  BY DEF Running, HasSlot, Counted
<1>2. /\ Cardinality(Running) <= Cardinality(HasSlot)
      /\ Cardinality(Running \cap Background) <= Cardinality(Counted)
      /\ Cardinality(Running) \in Nat /\ Cardinality(Running \cap Background) \in Nat
      /\ Cardinality(HasSlot) \in Nat /\ Cardinality(Counted) \in Nat
  BY <1>1, CallersFinite, FS_Subset, FS_CardinalityType
<1>3. Cardinality(HasSlot) <= GlobalCeiling /\ Cardinality(Counted) <= BackgroundCeiling
  BY <1>2, Ceilings DEF IInv, TypeOK, SlotsConserved, GaugeExact
<1> QED BY <1>2, <1>3, Ceilings, SameCardinality DEF Pool!Within

LEMMA RunningWithinNext == IInv' => Pool!Within(Running)'
BY RunningWithin, PTL

\* Giving a slot back changes the running set by the releasing caller and at
\* most one interactive waiter.
LEMMA ReleaseRunning ==
    ASSUME TypeOK, SlotsConserved, NEW c \in Callers, NEW next \in {"idle", "unload"},
           pc[c] \in {"load", "running"}, ReleaseSlot(c, next)
    PROVE  \/ Running' = Running \ {c}
           \/ \E h \in Interactive \ Running : Running' = (Running \ {c}) \cup {h}
<1>1. CASE waiters = <<>>
  BY <1>1 DEF ReleaseSlot, Running, TypeOK
<1>2. CASE waiters # <<>>
  <2> DEFINE h == Head(waiters)
  <2>1. pc' = [pc EXCEPT ![c] = next, ![h] = "running"]
    BY <1>2 DEF ReleaseSlot
  <2>2. h \in Interactive /\ h = waiters[1] /\ 1 \in 1..Len(waiters)
    BY <1>2, HeadTailProperties, LenProperties DEF TypeOK
  <2>3. pc[h] = "waiting"
    BY <2>2 DEF SlotsConserved
  <2> HIDE DEF h
  <2>4. h # c /\ h \in Interactive \ Running /\ h \in Callers
    BY <2>2, <2>3 DEF Running, Callers
  <2>5. Running' = (Running \ {c}) \cup {h}
    BY <2>1, <2>4 DEF Running, TypeOK
  <2> QED BY <2>4, <2>5
<1> QED BY <1>1, <1>2

\* Every step of the governor is a step of the pool, or leaves it unchanged.
LEMMA PoolStep == IInv /\ IInv' /\ [Next]_vars => [Pool!PoolNext]_Running
<1> SUFFICES ASSUME IInv, IInv', [Next]_vars PROVE [Pool!PoolNext]_Running
  OBVIOUS
<1> USE DEF Callers
<1>0. TypeOK /\ SlotsConserved /\ Pool!Within(Running')
  BY RunningWithinNext DEF IInv
<1>1. ASSUME NEW c \in Callers, c \notin Running, Running' = Running \cup {c}
      PROVE  Pool!PoolNext
  BY <1>0, <1>1 DEF Pool!PoolNext, Pool!Grant, Pool!Within
<1>2. ASSUME NEW c \in Callers, pc[c] = "running",
             \/ Running' = Running \ {c}
             \/ \E h \in Interactive \ Running : Running' = (Running \ {c}) \cup {h}
      PROVE  Pool!PoolNext
  BY <1>2 DEF Pool!PoolNext, Pool!GiveBack, Pool!HandOver, Running
<1>3. ASSUME NEW i \in Interactive, AdmitInteractive(i)
      PROVE  [Pool!PoolNext]_Running
  <2>1. CASE pc' = [pc EXCEPT ![i] = "running"]
    <3>1. i \notin Running /\ Running' = Running \cup {i}
      BY <1>3, <2>1, <1>0 DEF AdmitInteractive, Running, TypeOK
    <3> QED BY <3>1, <1>1
  <2>2. CASE pc' = [pc EXCEPT ![i] = "waiting"]
    BY <1>3, <2>2, <1>0 DEF AdmitInteractive, Running, TypeOK
  <2> QED BY <1>3, <2>1, <2>2 DEF AdmitInteractive
<1>4. ASSUME NEW i \in Interactive, DropInteractive(i)
      PROVE  [Pool!PoolNext]_Running
  <2>1. pc[i] = "running" /\ ReleaseSlot(i, "idle")
    BY <1>4 DEF DropInteractive
  <2> QED BY <2>1, <1>0, <1>2, ReleaseRunning
<1>5. ASSUME NEW b \in Background, DropGlobal(b)
      PROVE  [Pool!PoolNext]_Running
  <2>1. pc[b] = "running" /\ ReleaseSlot(b, "unload")
    BY <1>5 DEF DropGlobal
  <2> QED BY <2>1, <1>0, <1>2, ReleaseRunning
<1>6. ASSUME NEW b \in Background, LoadGauge(b)
      PROVE  [Pool!PoolNext]_Running
  <2>1. CASE ReleaseSlot(b, "idle")
    <3>1. pc[b] = "load" /\ Running \ {b} = Running
      BY <1>6 DEF LoadGauge, Running
    <3>2. \/ Running' = Running
          \/ \E h \in Interactive \ Running : Running' = Running \cup {h}
      BY <3>1, <2>1, <1>0, ReleaseRunning
    <3> QED BY <3>2, <1>1
  <2>2. CASE pc' = [pc EXCEPT ![b] = "cas"]
    BY <1>6, <2>2, <1>0 DEF LoadGauge, Running, TypeOK
  <2> QED BY <1>6, <2>1, <2>2 DEF LoadGauge
<1>7. ASSUME NEW b \in Background, CompareExchange(b)
      PROVE  [Pool!PoolNext]_Running
  <2>1. CASE pc' = [pc EXCEPT ![b] = "running"]
    <3>1. b \notin Running /\ Running' = Running \cup {b}
      BY <1>7, <2>1, <1>0 DEF CompareExchange, Running, TypeOK
    <3> QED BY <3>1, <1>1
  <2>2. CASE pc' = [pc EXCEPT ![b] = "load"]
    BY <1>7, <2>2, <1>0 DEF CompareExchange, Running, TypeOK
  <2> QED BY <1>7, <2>1, <2>2 DEF CompareExchange
<1>8. ASSUME NEW c \in Callers,
             \/ c \in Interactive /\ AbandonWait(c)
             \/ c \in Background /\ (ShedOrReserve(c) \/ TryAcquire(c) \/ DropLoad(c) \/ DropSub(c))
      PROVE  Running' = Running
  BY <1>8, <1>0 DEF AbandonWait, ShedOrReserve, TryAcquire, DropLoad, DropSub, Running, TypeOK
<1>9. ASSUME SampleExpires \/ MemoryMoves \/ UNCHANGED vars
      PROVE  Running' = Running
  BY <1>9 DEF SampleExpires, MemoryMoves, vars, Running
<1> QED
  BY <1>3, <1>4, <1>5, <1>6, <1>7, <1>8, <1>9 DEF Next, AdmissionStep

\* The governor's interleaved admission implements the atomic pool of slots
\* (SlotPool): both ceilings hold for every number of callers.
THEOREM Refinement == Spec => ImplementsPool
<1>1. Init => Pool!PoolInit
  BY DEF Init, Pool!PoolInit, Running, Callers
<1> QED
  BY <1>1, Invariance, PoolStep, PTL DEF Spec, ImplementsPool, Pool!PoolSpec
=============================================================================
