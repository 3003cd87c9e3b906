------------------------- MODULE LoopExecutorProofs -------------------------
(***************************************************************************)
(* The safety of LoopExecutor for any list, body and settings. An item the *)
(* loop may still enter has not succeeded, no item is in two places of the *)
(* pool at once, and a step that succeeded stays in the journal until its  *)
(* item is recorded as SUCCEEDED: so nothing runs it again.                *)
(* Every item is decided in the end and counted once, its retries are      *)
(* bounded, and a pause is met again by its own resume.                    *)
(***************************************************************************)
EXTENDS LoopExecutor, FiniteSetTheorems, SequenceTheorems, WellFoundedInduction, TLAPS

-----------------------------------------------------------------------------
(* The least of a set of numbers *)

LEMMA MinIsLeast ==
  ASSUME NEW S \in SUBSET Nat, S # {}
  PROVE  Min(S) \in S /\ \A n \in S : Min(S) <= n
<1>1. \E n \in S : \A m \in S : ~(<<m, n>> \in OpToRel(<, Nat))
  BY NatLessThanWellFounded, WFMin
<1>2. \A n, m \in S : ~(<<m, n>> \in OpToRel(<, Nat)) => n <= m
  BY DEF OpToRel
<1>3. \E n \in S : \A m \in S : n <= m
  BY <1>1, <1>2
<1> QED BY <1>3 DEF Min

-----------------------------------------------------------------------------
(* The list of failures *)

Listed(list, i) == \E p \in DOMAIN list : list[p] = i
Ascending(list) == \A p, q \in DOMAIN list : p < q => list[p] < list[q]

\* What RemoveAt leaves: what is behind the position moves up by one.
LEMMA RemoveAtIs ==
  ASSUME NEW S, NEW list \in Seq(S), NEW at \in 1..Len(list)
  PROVE  /\ RemoveAt(list, at) \in Seq(S)
         /\ Len(RemoveAt(list, at)) = Len(list) - 1
         /\ \A p \in 1..(Len(list) - 1) :
              RemoveAt(list, at)[p] = IF p < at THEN list[p] ELSE list[p + 1]
<1> DEFINE front == SubSeq(list, 1, at - 1)
           back == SubSeq(list, at + 1, Len(list))
<1>1. Len(list) \in Nat /\ \A p \in 1..Len(list) : list[p] \in S
  BY LenProperties, ElementOfSeq
<1>2. /\ front \in Seq(S) /\ Len(front) = at - 1
      /\ \A p \in 1..(at - 1) : front[p] = list[p]
  BY <1>1, SubSeqProperties
<1>3. /\ back \in Seq(S) /\ Len(back) = Len(list) - at
      /\ \A p \in 1..(Len(list) - at) : back[p] = list[p + at]
  <2>1. at + 1 \in Int /\ \A p \in (at + 1)..Len(list) : list[p] \in S
    BY <1>1
  <2>2. /\ back \in Seq(S)
        /\ Len(back) = IF at + 1 <= Len(list) THEN Len(list) - (at + 1) + 1 ELSE 0
        /\ \A p \in 1..(Len(list) - (at + 1) + 1) : back[p] = list[(at + 1) + p - 1]
    BY <1>1, <2>1, SubSeqProperties
  <2> HIDE DEF back
  <2> QED BY <1>1, <2>2
<1> HIDE DEF front, back
<1>4. /\ front \o back \in Seq(S) /\ Len(front \o back) = Len(list) - 1
      /\ \A p \in 1..Len(front \o back) :
           (front \o back)[p] = IF p <= Len(front) THEN front[p] ELSE back[p - Len(front)]
  <2>1. /\ front \o back \in Seq(S) /\ Len(front \o back) = Len(front) + Len(back)
        /\ \A p \in 1..Len(front \o back) :
             (front \o back)[p] = IF p <= Len(front) THEN front[p] ELSE back[p - Len(front)]
    <3>1. front \in Seq(S) /\ back \in Seq(S)
      BY <1>2, <1>3
    <3> QED BY <3>1, ConcatProperties
  <2> QED BY <1>1, <1>2, <1>3, <2>1
<1>5. \A p \in 1..(Len(list) - 1) :
        (front \o back)[p] = IF p < at THEN list[p] ELSE list[p + 1]
  <2> SUFFICES ASSUME NEW p \in 1..(Len(list) - 1)
               PROVE  (front \o back)[p] = IF p < at THEN list[p] ELSE list[p + 1]
    OBVIOUS
  <2>1. CASE p < at
    BY <1>1, <1>2, <1>4, <2>1
  <2>2. CASE ~(p < at)
    <3>1. p - (at - 1) \in 1..(Len(list) - at) /\ (p - (at - 1)) + at = p + 1
      BY <1>1, <2>2
    <3>2. back[p - (at - 1)] = list[p + 1]
      BY <1>3, <3>1
    <3> QED BY <1>1, <1>2, <1>4, <2>2, <3>2
  <2> QED BY <2>1, <2>2
<1>6. RemoveAt(list, at) = front \o back
  BY DEF RemoveAt, front, back
<1> QED BY <1>4, <1>5, <1>6

\* What InsertAt makes: what is at the position and behind it moves down by one.
LEMMA InsertAtIs ==
  ASSUME NEW S, NEW list \in Seq(S), NEW at \in 1..(Len(list) + 1), NEW i \in S
  PROVE  /\ InsertAt(list, at, i) \in Seq(S)
         /\ Len(InsertAt(list, at, i)) = Len(list) + 1
         /\ \A p \in 1..(Len(list) + 1) :
              InsertAt(list, at, i)[p] =
                IF p < at THEN list[p] ELSE IF p = at THEN i ELSE list[p - 1]
<1> DEFINE front == SubSeq(list, 1, at - 1)
           head == front \o <<i>>
           back == SubSeq(list, at, Len(list))
<1>1. Len(list) \in Nat /\ \A p \in 1..Len(list) : list[p] \in S
  BY LenProperties, ElementOfSeq
<1>2. /\ front \in Seq(S) /\ Len(front) = at - 1
      /\ \A p \in 1..(at - 1) : front[p] = list[p]
  BY <1>1, SubSeqProperties
<1>3. <<i>> \in Seq(S) /\ Len(<<i>>) = 1 /\ <<i>>[1] = i
  OBVIOUS
<1>4. /\ back \in Seq(S) /\ Len(back) = Len(list) - at + 1
      /\ \A p \in 1..(Len(list) - at + 1) : back[p] = list[at + p - 1]
  <2>1. at \in Int /\ \A p \in at..Len(list) : list[p] \in S
    BY <1>1
  <2>2. /\ back \in Seq(S)
        /\ Len(back) = IF at <= Len(list) THEN Len(list) - at + 1 ELSE 0
        /\ \A p \in 1..(Len(list) - at + 1) : back[p] = list[at + p - 1]
    BY <1>1, <2>1, SubSeqProperties
  <2> HIDE DEF back
  <2> QED BY <1>1, <2>2
<1> HIDE DEF front, back
<1>5. /\ head \in Seq(S) /\ Len(head) = at
      /\ \A p \in 1..at : head[p] = IF p < at THEN list[p] ELSE i
  <2>1. /\ head \in Seq(S) /\ Len(head) = (at - 1) + 1
        /\ \A p \in 1..Len(head) :
             head[p] = IF p <= Len(front) THEN front[p] ELSE <<i>>[p - Len(front)]
    BY <1>1, <1>2, <1>3, ConcatProperties
  <2> HIDE DEF head
  <2>2. ASSUME NEW p \in 1..at
        PROVE  head[p] = IF p < at THEN list[p] ELSE i
    <3>1. CASE p < at
      BY <1>1, <1>2, <2>1, <3>1
    <3>2. CASE p = at
      BY <1>1, <1>2, <1>3, <2>1, <3>2
    <3> QED BY <1>1, <3>1, <3>2
  <2> QED BY <1>1, <2>1, <2>2
<1> HIDE DEF head
<1>6. /\ head \o back \in Seq(S) /\ Len(head \o back) = Len(list) + 1
      /\ \A p \in 1..Len(head \o back) :
           (head \o back)[p] = IF p <= Len(head) THEN head[p] ELSE back[p - Len(head)]
  <2>1. /\ head \o back \in Seq(S) /\ Len(head \o back) = Len(head) + Len(back)
        /\ \A p \in 1..Len(head \o back) :
             (head \o back)[p] = IF p <= Len(head) THEN head[p] ELSE back[p - Len(head)]
    <3>1. head \in Seq(S) /\ back \in Seq(S)
      BY <1>4, <1>5
    <3> QED BY <3>1, ConcatProperties
  <2> QED BY <1>1, <1>4, <1>5, <2>1
<1>7. ASSUME NEW p \in 1..(Len(list) + 1)
      PROVE  (head \o back)[p] =
               IF p < at THEN list[p] ELSE IF p = at THEN i ELSE list[p - 1]
  <2>1. CASE p <= at
    BY <1>1, <1>5, <1>6, <2>1
  <2>2. CASE p > at
    <3>1. p - at \in 1..(Len(list) - at + 1) /\ at + (p - at) - 1 = p - 1
      BY <1>1, <2>2
    <3>2. back[p - at] = list[p - 1]
      BY <1>4, <3>1
    <3> QED BY <1>1, <1>5, <1>6, <2>2, <3>2
  <2>3. p <= at \/ p > at
    BY <1>1
  <2> QED BY <2>1, <2>2, <2>3
<1>8. InsertAt(list, at, i) = head \o back
  BY DEF InsertAt, head, front, back
<1> QED BY <1>6, <1>7, <1>8

LEMMA UnlistedIs ==
  ASSUME NEW S \in SUBSET Nat, NEW list \in Seq(S), NEW i \in S
  PROVE  /\ Unlisted(list, i) \in Seq(S)
         /\ Ascending(list) =>
              /\ Ascending(Unlisted(list, i))
              /\ \A j \in S : Listed(Unlisted(list, i), j) <=> Listed(list, j) /\ j # i
<1> DEFINE at == {p \in DOMAIN list : list[p] = i}
           first == Min(at)
           rest == RemoveAt(list, first)
<1>1. /\ Len(list) \in Nat /\ DOMAIN list = 1..Len(list)
      /\ \A p \in 1..Len(list) : list[p] \in S
  BY LenProperties, ElementOfSeq
<1>2. CASE at = {}
  BY <1>2 DEF Unlisted, Listed
<1>3. CASE at # {}
  <2>1. first \in at
    <3>1. at \in SUBSET Nat
      BY <1>1
    <3> HIDE DEF at
    <3> QED BY <1>3, <3>1, MinIsLeast
  <2>2. Unlisted(list, i) = rest
    BY <1>3 DEF Unlisted
  <2>3. first \in 1..Len(list) /\ list[first] = i
    BY <1>1, <2>1
  <2> HIDE DEF first, at
  <2>4. /\ rest \in Seq(S) /\ Len(rest) = Len(list) - 1
        /\ \A p \in 1..(Len(list) - 1) : rest[p] = IF p < first THEN list[p] ELSE list[p + 1]
    BY <2>3, RemoveAtIs
  <2>5. DOMAIN rest = 1..(Len(list) - 1)
    BY <2>4, LenProperties
  <2> HIDE DEF rest
  <2>6. ASSUME Ascending(list)
        PROVE  Ascending(rest)
    <3> SUFFICES ASSUME NEW p \in DOMAIN rest, NEW q \in DOMAIN rest, p < q
                 PROVE  rest[p] < rest[q]
      BY DEF Ascending
    <3>1. PICK a \in {p, p + 1}, b \in {q, q + 1} :
            /\ rest[p] = list[a] /\ rest[q] = list[b] /\ a < b
            /\ a \in 1..Len(list) /\ b \in 1..Len(list)
      <4>1. CASE q < first
        BY <1>1, <2>3, <2>4, <2>5, <4>1
      <4>2. CASE p < first /\ ~(q < first)
        BY <1>1, <2>3, <2>4, <2>5, <4>2
      <4>3. CASE ~(p < first)
        BY <1>1, <2>3, <2>4, <2>5, <4>3
      <4> QED BY <1>1, <2>3, <2>5, <4>1, <4>2, <4>3
    <3> QED BY <1>1, <2>6, <3>1 DEF Ascending
  <2>7. ASSUME Ascending(list), NEW j \in S
        PROVE  Listed(rest, j) <=> Listed(list, j) /\ j # i
    <3>1. ASSUME NEW p \in DOMAIN rest, rest[p] = j
          PROVE  Listed(list, j) /\ j # i
      <4>1. PICK a \in DOMAIN list : (a < first \/ first < a) /\ rest[p] = list[a]
        <5>1. CASE p < first
          BY <1>1, <2>3, <2>4, <2>5, <5>1
        <5>2. CASE ~(p < first)
          <6>1. p + 1 \in DOMAIN list /\ first < p + 1
            BY <1>1, <2>3, <2>5, <5>2
          <6>2. rest[p] = list[p + 1]
            BY <2>4, <2>5, <5>2
          <6> QED BY <6>1, <6>2
        <5> QED BY <5>1, <5>2
      <4>2. list[a] < list[first] \/ list[first] < list[a]
        BY <1>1, <2>3, <2>7, <4>1 DEF Ascending
      <4>3. list[a] # i
        BY <1>1, <2>3, <4>1, <4>2
      <4> QED BY <3>1, <4>1, <4>3 DEF Listed
    <3>2. ASSUME NEW p \in DOMAIN list, list[p] = j, j # i
          PROVE  Listed(rest, j)
      <4>1. p # first
        BY <2>3, <3>2
      <4>2. CASE p < first
        <5>1. p \in DOMAIN rest /\ rest[p] = list[p]
          BY <1>1, <2>3, <2>4, <2>5, <4>2
        <5> QED BY <3>2, <5>1 DEF Listed
      <4>3. CASE first < p
        <5>1. p - 1 \in 1..(Len(list) - 1) /\ ~(p - 1 < first) /\ (p - 1) + 1 = p
          BY <1>1, <2>3, <4>3
        <5>2. p - 1 \in DOMAIN rest /\ rest[p - 1] = list[p]
          BY <2>4, <2>5, <5>1
        <5> QED BY <3>2, <5>2 DEF Listed
      <4> QED BY <1>1, <2>3, <4>1, <4>2, <4>3
    <3> QED BY <3>1, <3>2 DEF Listed
  <2> QED BY <2>2, <2>4, <2>6, <2>7
<1> QED BY <1>2, <1>3

\* The failures stay in the order of the items, and list exactly those that failed.
LEMMA RelistIs ==
  ASSUME NEW S \in SUBSET Nat, NEW list \in Seq(S), NEW i \in S, NEW failed \in BOOLEAN
  PROVE  /\ Relist(list, i, failed) \in Seq(S)
         /\ Ascending(list) =>
              /\ Ascending(Relist(list, i, failed))
              /\ \A j \in S : Listed(Relist(list, i, failed), j)
                                    <=> IF j = i THEN failed ELSE Listed(list, j)
<1> DEFINE rest == Unlisted(list, i)
           after == {p \in DOMAIN rest : rest[p] > i}
           at == SortedPosition(rest, i)
           new == InsertAt(rest, at, i)
<1>1. /\ rest \in Seq(S)
      /\ Ascending(list) =>
           /\ Ascending(rest)
           /\ \A j \in S : Listed(rest, j) <=> Listed(list, j) /\ j # i
  BY UnlistedIs
<1>2. Relist(list, i, failed) = IF failed THEN new ELSE rest
  BY DEF Relist
<1> HIDE DEF rest
<1>3. /\ Len(rest) \in Nat /\ DOMAIN rest = 1..Len(rest)
      /\ \A p \in 1..Len(rest) : rest[p] \in S /\ rest[p] \in Nat
      /\ i \in Nat
  BY <1>1, LenProperties, ElementOfSeq
<1>4. /\ at \in 1..(Len(rest) + 1)
      /\ \A p \in DOMAIN rest : p < at => rest[p] <= i
      /\ at \in DOMAIN rest => rest[at] > i
  <2>1. CASE after = {}
    <3>1. at = Len(rest) + 1
      BY <2>1 DEF SortedPosition
    <3>2. \A p \in DOMAIN rest : ~(rest[p] > i)
      BY <2>1
    <3> HIDE DEF at
    <3> QED BY <1>3, <3>1, <3>2
  <2>2. CASE after # {}
    <3>1. at = Min(after)
      BY <2>2 DEF SortedPosition
    <3>2. after \in SUBSET Nat
      BY <1>3
    <3>3. Min(after) \in after /\ \A p \in after : Min(after) <= p
      <4> HIDE DEF after
      <4> QED BY <2>2, <3>2, MinIsLeast
    <3>4. \A p \in DOMAIN rest : rest[p] > i => at <= p
      BY <3>1, <3>3
    <3>5. at \in DOMAIN rest /\ rest[at] > i
      BY <3>1, <3>3
    <3> HIDE DEF at
    <3> QED BY <1>3, <3>4, <3>5
  <2> QED BY <2>1, <2>2
<1> HIDE DEF at
<1>5. /\ new \in Seq(S) /\ Len(new) = Len(rest) + 1
      /\ \A p \in 1..(Len(rest) + 1) :
           new[p] = IF p < at THEN rest[p] ELSE IF p = at THEN i ELSE rest[p - 1]
  BY <1>1, <1>4, InsertAtIs
<1>6. DOMAIN new = 1..(Len(rest) + 1)
  BY <1>5, LenProperties
<1> HIDE DEF new
<1>7. ASSUME Ascending(list)
      PROVE  /\ Ascending(new)
             /\ \A j \in S : Listed(new, j) <=> j = i \/ Listed(list, j)
  <2>1. \A p \in DOMAIN rest : rest[p] # i
    BY <1>1, <1>3, <1>7 DEF Listed
  <2>2. \A p \in DOMAIN rest : p < at => rest[p] < i
    BY <1>3, <1>4, <2>1
  <2>3. \A p \in DOMAIN rest : at <= p => i < rest[p]
    <3> SUFFICES ASSUME NEW p \in DOMAIN rest, at <= p
                 PROVE  i < rest[p]
      OBVIOUS
    <3>1. at \in DOMAIN rest
      BY <1>3, <1>4
    <3>2. at = p \/ rest[at] < rest[p]
      BY <1>1, <1>3, <1>4, <1>7, <3>1 DEF Ascending
    <3> QED BY <1>3, <1>4, <3>1, <3>2
  <2>4. Ascending(new)
    <3> SUFFICES ASSUME NEW p \in DOMAIN new, NEW q \in DOMAIN new, p < q
                 PROVE  new[p] < new[q]
      BY DEF Ascending
    <3>1. CASE q < at
      <4>1. p \in DOMAIN rest /\ q \in DOMAIN rest /\ new[p] = rest[p] /\ new[q] = rest[q]
        BY <1>3, <1>4, <1>5, <1>6, <3>1
      <4> QED BY <1>1, <1>7, <4>1 DEF Ascending
    <3>2. CASE q = at
      <4>1. p \in DOMAIN rest /\ p < at /\ new[p] = rest[p] /\ new[q] = i
        BY <1>3, <1>4, <1>5, <1>6, <3>2
      <4> QED BY <2>2, <4>1
    <3>3. CASE p = at
      <4>1. q - 1 \in DOMAIN rest /\ at <= q - 1 /\ new[p] = i /\ new[q] = rest[q - 1]
        BY <1>3, <1>4, <1>5, <1>6, <3>3
      <4> QED BY <2>3, <4>1
    <3>4. CASE p < at /\ at < q
      <4>1. /\ p \in DOMAIN rest /\ new[p] = rest[p]
            /\ q - 1 \in DOMAIN rest /\ at <= q - 1 /\ new[q] = rest[q - 1]
        BY <1>3, <1>4, <1>5, <1>6, <3>4
      <4>2. rest[p] < i /\ i < rest[q - 1] /\ rest[p] \in Nat /\ rest[q - 1] \in Nat
        BY <1>3, <2>2, <2>3, <3>4, <4>1
      <4> QED BY <4>1, <4>2
    <3>5. CASE at < p
      <4>1. /\ p - 1 \in DOMAIN rest /\ q - 1 \in DOMAIN rest /\ p - 1 < q - 1
            /\ new[p] = rest[p - 1] /\ new[q] = rest[q - 1]
        BY <1>3, <1>4, <1>5, <1>6, <3>5
      <4> QED BY <1>1, <1>7, <4>1 DEF Ascending
    <3> QED BY <1>3, <1>4, <1>6, <3>1, <3>2, <3>3, <3>4, <3>5
  <2>5. ASSUME NEW j \in S
        PROVE  Listed(new, j) <=> j = i \/ Listed(list, j)
    <3>1. at \in DOMAIN new /\ new[at] = i
      BY <1>3, <1>4, <1>5, <1>6
    <3>2. ASSUME NEW p \in DOMAIN rest
          PROVE  \E q \in DOMAIN new : new[q] = rest[p]
      <4>1. CASE p < at
        <5>1. p \in DOMAIN new /\ new[p] = rest[p]
          BY <1>3, <1>4, <1>5, <1>6, <4>1
        <5> QED BY <5>1
      <4>2. CASE ~(p < at)
        <5>1. /\ p + 1 \in 1..(Len(rest) + 1) /\ ~(p + 1 < at) /\ p + 1 # at
              /\ (p + 1) - 1 = p
          <6>1. Len(rest) \in Nat /\ p \in 1..Len(rest) /\ at \in Int
            BY <1>3, <1>4
          <6> QED BY <4>2, <6>1
        <5>2. p + 1 \in DOMAIN new /\ new[p + 1] = rest[p]
          BY <1>5, <1>6, <5>1
        <5> QED BY <5>2
      <4> QED BY <4>1, <4>2
    <3>3. ASSUME NEW q \in DOMAIN new, q # at
          PROVE  \E p \in DOMAIN rest : new[q] = rest[p]
      <4>1. CASE q < at
        <5>1. q \in DOMAIN rest /\ new[q] = rest[q]
          BY <1>3, <1>4, <1>5, <1>6, <4>1
        <5> QED BY <5>1
      <4>2. CASE at < q
        <5>1. q - 1 \in DOMAIN rest /\ new[q] = rest[q - 1]
          BY <1>3, <1>4, <1>5, <1>6, <4>2
        <5> QED BY <5>1
      <4> QED BY <1>3, <1>4, <1>6, <3>3, <4>1, <4>2
    <3>4. Listed(new, j) <=> j = i \/ Listed(rest, j)
      BY <3>1, <3>2, <3>3 DEF Listed
    <3> QED BY <1>1, <1>7, <3>4
  <2> QED BY <2>4, <2>5
<1> QED BY <1>1, <1>2, <1>5, <1>7

-----------------------------------------------------------------------------
USE LoopAssumption DEF Items, Steps

-----------------------------------------------------------------------------
(* The inductive invariant *)

Back == {again[p] : p \in DOMAIN again}

\* An index is in one place: not started, sent back, or in flight.
OnePlace ==
  /\ \A p, q \in DOMAIN again : again[p] = again[q] => p = q
  /\ \A i \in Back : i \notin waiting /\ i \notin InFlight
  /\ \A i \in waiting : i \notin InFlight

\* No item in the pool has succeeded.
PoolIsUndecided ==
  \A i \in Items :
    i \in waiting \/ i \in Back \/ i \in InFlight => iterationStatus[i] # "SUCCEEDED"

\* The pool is the loop's own: it is empty outside of it.
PoolIsLocal == ~Looping => waiting = {} /\ again = <<>>

\* An iteration in flight is at a step it has still to run.
AtOpenStep ==
  \A i \in Items : fork[i].pc = "body" =>
    fork[i].at \in Steps /\ journal[i][fork[i].at] \in {"none", "PAUSED"}

\* A step that succeeded stays in the journal until its item is done.
SuccessIsKept ==
  \A i \in Items, s \in Steps :
    /\ ran[i][s] <= 1
    /\ ran[i][s] = 1 => journal[i][s] = "SUCCEEDED" \/ iterationStatus[i] = "SUCCEEDED"

\* Nobody runs outside of the loop, unless collecting a result broke it.
NobodyElseRuns ==
  run.pc \notin {"looping", "unwinding"} =>
    \/ InFlight = {}
    \/ unobserved /\ run.pc = "ended" /\ run.verdict = "INTERNAL_ERROR"

-----------------------------------------------------------------------------
(* Lemmas on the pool and on the body *)

\* The body goes on at the first step that has not been completed, if there is one.
LEMMA ReachType ==
  ASSUME NEW steps \in Bodies,
         NEW from \in Nat \ {0}
  PROVE  /\ Reach(steps, from) \in [pc : {"body", "over"}, at : 0..K, verdict : {"RUNNING"}]
         /\ Reach(steps, from).pc = "body" =>
              /\ Reach(steps, from).at \in Steps /\ Reach(steps, from).at >= from
              /\ steps[Reach(steps, from).at] \in {"none", "PAUSED"}
              /\ \A s \in Steps : from <= s /\ s < Reach(steps, from).at =>
                   steps[s] \notin {"none", "PAUSED"}
         /\ Reach(steps, from).pc = "over" =>
              \A s \in Steps : from <= s => steps[s] \notin {"none", "PAUSED"}
<1> DEFINE open == {s \in from..K : steps[s] \in {"none", "PAUSED"}}
<1> DEFINE first == Min(open)
<1>1. CASE open = {}
  BY <1>1 DEF Reach, Off
<1>2. CASE open # {}
  <2>1. open \subseteq Nat /\ open \subseteq Steps
    OBVIOUS
  <2>2. first \in open /\ \A t \in open : first <= t
    <3> HIDE DEF open
    <3> QED BY <1>2, <2>1, MinIsLeast
  <2>3. Reach(steps, from) = [pc |-> "body", at |-> first, verdict |-> "RUNNING"]
    BY <1>2 DEF Reach, Off
  <2>4. /\ first \in Steps /\ first >= from /\ steps[first] \in {"none", "PAUSED"}
        /\ \A s \in Steps : from <= s /\ s < first => steps[s] \notin {"none", "PAUSED"}
    BY <2>1, <2>2
  <2> HIDE DEF first
  <2> QED BY <2>3, <2>4
<1> QED BY <1>1, <1>2

\* The first index sent back.
LEMMA BackHead ==
  ASSUME again \in Seq(Items), again # <<>>,
         \A p, q \in DOMAIN again : again[p] = again[q] => p = q
  PROVE  /\ Head(again) \in Back /\ Tail(again) \in Seq(Items)
         /\ \A p, q \in DOMAIN Tail(again) : Tail(again)[p] = Tail(again)[q] => p = q
         /\ \A p \in DOMAIN Tail(again) :
              Tail(again)[p] \in Back /\ Tail(again)[p] # Head(again)
         /\ \A i \in Back : i = Head(again) \/ \E p \in DOMAIN Tail(again) : Tail(again)[p] = i
<1>1. /\ Len(again) \in Nat \ {0} /\ DOMAIN again = 1..Len(again)
  BY LenProperties, EmptySeq
<1>2. /\ Tail(again) \in Seq(Items) /\ Len(Tail(again)) = Len(again) - 1
      /\ \A p \in 1..Len(Tail(again)) : Tail(again)[p] = again[p + 1]
  BY HeadTailProperties
<1>3. DOMAIN Tail(again) = 1..(Len(again) - 1)
  BY <1>2, LenProperties
<1>4. Head(again) = again[1] /\ 1 \in DOMAIN again
  BY <1>1
<1>5. \A p \in DOMAIN Tail(again) :
        p \in Int /\ p + 1 \in DOMAIN again /\ p + 1 # 1 /\ Tail(again)[p] = again[p + 1]
  BY <1>1, <1>2, <1>3
<1>6. \A p, q \in DOMAIN Tail(again) : p + 1 = q + 1 => p = q
  BY <1>5
<1>7. Head(again) \in Back
  BY <1>4 DEF Back
<1>8. \A p, q \in DOMAIN Tail(again) : Tail(again)[p] = Tail(again)[q] => p = q
  BY <1>5, <1>6
<1>9. \A p \in DOMAIN Tail(again) : Tail(again)[p] \in Back
  BY <1>5 DEF Back
<1>10. \A p \in DOMAIN Tail(again) : Tail(again)[p] # Head(again)
  BY <1>4, <1>5
<1>11. ASSUME NEW p \in DOMAIN again, p # 1
       PROVE  \E q \in DOMAIN Tail(again) : Tail(again)[q] = again[p]
  <2>1. p - 1 \in DOMAIN Tail(again) /\ Tail(again)[p - 1] = again[(p - 1) + 1]
    BY <1>1, <1>2, <1>3, <1>11
  <2>2. (p - 1) + 1 = p
    BY <1>1
  <2> QED BY <2>1, <2>2
<1>12. \A i \in Back : i = Head(again) \/ \E q \in DOMAIN Tail(again) : Tail(again)[q] = i
  BY <1>4, <1>11 DEF Back
<1> QED BY <1>2, <1>7, <1>8, <1>9, <1>10, <1>12

\* An index sent back goes to the head of the line.
LEMMA BackCons ==
  ASSUME NEW i \in Items, again \in Seq(Items), i \notin Back,
         \A p, q \in DOMAIN again : again[p] = again[q] => p = q
  PROVE  /\ <<i>> \o again \in Seq(Items)
         /\ \A p, q \in DOMAIN (<<i>> \o again) :
              (<<i>> \o again)[p] = (<<i>> \o again)[q] => p = q
         /\ \A p \in DOMAIN (<<i>> \o again) :
              (<<i>> \o again)[p] = i \/ (<<i>> \o again)[p] \in Back
         /\ \A j \in Back \cup {i} : \E p \in DOMAIN (<<i>> \o again) : (<<i>> \o again)[p] = j
<1> DEFINE new == <<i>> \o again
<1>1. <<i>> \in Seq(Items) /\ Len(<<i>>) = 1 /\ <<i>>[1] = i
  OBVIOUS
<1>2. Len(again) \in Nat /\ DOMAIN again = 1..Len(again)
  BY LenProperties
<1>3. /\ new \in Seq(Items) /\ Len(new) = 1 + Len(again)
      /\ \A p \in 1..Len(new) : new[p] = IF p <= 1 THEN <<i>>[p] ELSE again[p - 1]
  BY <1>1, ConcatProperties
<1>4. DOMAIN new = 1..(1 + Len(again))
  BY <1>3, LenProperties
<1>5. new[1] = i
  BY <1>1, <1>2, <1>3
<1>6. \A p \in DOMAIN new : p # 1 => p - 1 \in DOMAIN again /\ new[p] = again[p - 1]
  BY <1>2, <1>3, <1>4
<1>7. \A p \in DOMAIN new : p # 1 => new[p] # i
  BY <1>6 DEF Back
<1>8. \A p, q \in DOMAIN new : p # 1 /\ q # 1 /\ new[p] = new[q] => p = q
  <2> SUFFICES ASSUME NEW p \in DOMAIN new, NEW q \in DOMAIN new,
                      p # 1, q # 1, new[p] = new[q]
               PROVE  p = q
    OBVIOUS
  <2>1. p - 1 = q - 1
    BY <1>6
  <2> QED BY <2>1, <1>4, <1>2
<1>9. \A p \in DOMAIN new : new[p] = i \/ new[p] \in Back
  BY <1>5, <1>6 DEF Back
<1>10. \A p \in DOMAIN again : p + 1 \in DOMAIN new /\ new[p + 1] = again[p]
  BY <1>2, <1>3, <1>4
<1>11. \A j \in Back \cup {i} : \E p \in DOMAIN new : new[p] = j
  <2>1. 1 \in DOMAIN new
    BY <1>2, <1>4
  <2>2. \A j \in Back : \E p \in DOMAIN again : again[p] = j
    BY DEF Back
  <2> HIDE DEF new
  <2> QED BY <1>5, <1>10, <2>1, <2>2
<1> HIDE DEF new
<1>12. \A p, q \in DOMAIN new : new[p] = new[q] => p = q
  BY <1>5, <1>7, <1>8
<1> QED BY <1>3, <1>9, <1>11, <1>12 DEF new

-----------------------------------------------------------------------------
(* The types *)

LEMMA ConstantTypes ==
  /\ Blank \in Bodies /\ [i \in Items |-> Blank] \in Journals
  /\ [i \in Items |-> "none"] \in Statuses
  /\ Zeros \in Counts /\ NoCheckpoint \in CheckpointStates
  /\ [i \in Items |-> Off] \in Forks
  /\ [i \in Items |-> [s \in Steps |-> 0]] \in Successes
BY DEF Blank, Bodies, Journals, Statuses, Zeros, Counts, NoCheckpoint, CheckpointStates,
       Off, Forks, Successes, Verdicts

LEMMA JournalTypes ==
  ASSUME NEW j \in Journals, NEW i \in Items
  PROVE  /\ j[i] \in Bodies /\ DropFailed(j[i]) \in Bodies
         /\ \A b \in Bodies : [j EXCEPT ![i] = b] \in Journals
         /\ \A s \in Steps, v \in {"none", "SUCCEEDED", "FAILED", "PAUSED"} :
              [j EXCEPT ![i][s] = v] \in Journals
BY DEF Journals, Bodies, DropFailed

LEMMA ForkTypes ==
  ASSUME NEW f \in Forks, NEW i \in Items
  PROVE  /\ f[i].verdict \in Verdicts \cup {"LIMITED", "ENGINE_ERROR"}
         /\ [f EXCEPT ![i] = Off] \in Forks
         /\ \A r \in [pc : {"body", "over"}, at : 0..K, verdict : {"RUNNING"}] :
              [f EXCEPT ![i] = r] \in Forks
         /\ \A v \in Verdicts \cup {"LIMITED", "ENGINE_ERROR"} :
              [f EXCEPT ![i].pc = "over", ![i].verdict = v] \in Forks
<1> DEFINE T == [pc : {"off", "body", "over"}, at : 0..K,
                 verdict : Verdicts \cup {"LIMITED", "ENGINE_ERROR"}]
<1>1. f \in [Items -> T] /\ f[i] \in T
  BY DEF Forks
<1>2. Off \in T
  BY DEF Off, Verdicts
<1>3. [pc : {"body", "over"}, at : 0..K, verdict : {"RUNNING"}] \subseteq T
  BY DEF Verdicts
<1>4. \A v \in Verdicts \cup {"LIMITED", "ENGINE_ERROR"} :
        [f[i] EXCEPT !.pc = "over", !.verdict = v] \in T
  BY <1>1
<1>5. f[i].verdict \in Verdicts \cup {"LIMITED", "ENGINE_ERROR"}
  BY <1>1
<1> HIDE DEF T
<1>6. \A r \in T : [f EXCEPT ![i] = r] \in [Items -> T]
  BY <1>1
<1>7. \A v \in Verdicts \cup {"LIMITED", "ENGINE_ERROR"} :
        [f EXCEPT ![i].pc = "over", ![i].verdict = v]
          = [f EXCEPT ![i] = [f[i] EXCEPT !.pc = "over", !.verdict = v]]
  BY <1>1
<1>8. Forks = [Items -> T]
  BY DEF Forks, T
<1> QED BY <1>2, <1>3, <1>4, <1>5, <1>6, <1>7, <1>8

LEMMA CountTypes ==
  ASSUME NEW c \in Counts, NEW i \in Items
  PROVE  /\ c[i] \in Nat
         /\ [c EXCEPT ![i] = @ + 1] \in Counts /\ [c EXCEPT ![i] = 0] \in Counts
         /\ \A n \in Nat : [c EXCEPT ![i] = IF @ <= n THEN @ + 1 ELSE @] \in Counts
BY DEF Counts

LEMMA SuccessTypes ==
  ASSUME NEW r \in Successes, NEW i \in Items, NEW s \in Steps
  PROVE  [r EXCEPT ![i][s] = IF @ < 2 THEN @ + 1 ELSE @] \in Successes
<1>1. r[i][s] \in 0..2
  BY DEF Successes
<1> QED BY <1>1 DEF Successes

LEMMA RunTypes ==
  ASSUME run \in RunStates
  PROVE  /\ \A pc \in {"looping", "unwinding"} : [run EXCEPT !.pc = pc] \in RunStates
         /\ \A v \in {"SUCCEEDED", "INTERNAL_ERROR"} :
              [run EXCEPT !.pc = "ended", !.verdict = v] \in RunStates
         /\ \A pc \in {"after", "paused", "ended", "looping"},
               v \in Verdicts, on \in {"none", "item", "loop", "later"}, item \in 0..N :
              [pc |-> pc, verdict |-> v, on |-> on, item |-> item] \in RunStates
BY DEF RunStates, Verdicts

LEMMA SettingTypes ==
  ASSUME settings \in Settings
  PROVE  settings \in SettingsType /\ settings.maxRetries \in Nat
BY DEF SettingsType

LEMMA TypeInit == Init => TypeOK
<1> SUFFICES ASSUME Init PROVE TypeOK
  OBVIOUS
<1>1. run \in RunStates /\ terminal \in Verdicts \cup {"none"} /\ again \in Seq(Items)
  BY DEF Init, RunStates, Verdicts
<1>2. paused \in 0..N /\ incidents \in 0..MaxIncidents /\ userRetries \in 0..MaxUserRetries
  BY DEF Init
<1> QED BY ConstantTypes, <1>1, <1>2 DEF Init, TypeOK

\* What a step of the body writes.
LEMMA WriteTypes ==
  ASSUME TypeOK, NEW i \in Items, NEW s \in Steps,
         NEW v \in {"SUCCEEDED", "FAILED", "PAUSED"}, Write(i, s, v)
  PROVE  /\ journal' \in Journals /\ foreign' \subseteq Items /\ cutOff' \subseteq Items \X Steps
         /\ UNCHANGED <<settings, kept, pool, run, overlooked, granted, collectFailed,
                        unobserved, userRetries>>
BY JournalTypes DEF Write, TypeOK

LEMMA GoesOnTypes ==
  ASSUME TypeOK, NEW i \in Items, NEW s \in Steps, GoesOn(i, s)
  PROVE  fork' \in Forks
<1>1. journal[i] \in Bodies /\ s + 1 \in Nat \ {0}
  BY JournalTypes DEF TypeOK
<1>2. Reach(journal[i], s + 1) \in [pc : {"body", "over"}, at : 0..K, verdict : {"RUNNING"}]
  BY <1>1, ReachType
<1> QED BY <1>2, ForkTypes DEF GoesOn, TypeOK

LEMMA EndsTypes ==
  ASSUME TypeOK, NEW i \in Items,
         NEW v \in Verdicts \cup {"LIMITED", "ENGINE_ERROR"}, Ends(i, v)
  PROVE  fork' \in Forks
BY ForkTypes DEF Ends, TypeOK

LEMMA FailsWithTypes ==
  ASSUME TypeOK, NEW i \in Items, NEW s \in Steps,
         NEW v \in {"FAILED", "LIMITED"}, FailsWith(i, s, v)
  PROVE  /\ journal' \in Journals /\ foreign' \subseteq Items /\ fork' \in Forks
         /\ cutOff' \subseteq Items \X Steps
         /\ UNCHANGED <<settings, kept, pool, run, overlooked, granted, collectFailed,
                        unobserved, userRetries, ran>>
BY WriteTypes, GoesOnTypes, EndsTypes DEF FailsWith, Verdicts

LEMMA IncidentType ==
  ASSUME TypeOK, Incident
  PROVE  incidents' \in 0..MaxIncidents
BY DEF TypeOK, Incident

LEMMA TypeBody ==
  ASSUME TypeOK, NEW i \in Items, BodyStep(i)
  PROVE  TypeOK'
<1> PICK s \in Steps :
      \/ StepSucceeds(i, s) \/ StepFails(i, s) \/ StepIsLimited(i, s)
      \/ StepPauses(i, s) \/ StepStops(i, s) \/ StepOutgrowsTheLog(i, s)
      \/ StepBreaks(i, s)
  BY DEF BodyStep
<1>1. /\ journal' \in Journals /\ foreign' \subseteq Items /\ fork' \in Forks
      /\ cutOff' \subseteq Items \X Steps
      /\ UNCHANGED <<settings, kept, pool, run, overlooked, granted, collectFailed,
                     unobserved, userRetries>>
      /\ ran' \in Successes /\ incidents' \in 0..MaxIncidents
  <2>1. CASE StepSucceeds(i, s)
    BY <2>1, WriteTypes, GoesOnTypes, SuccessTypes DEF StepSucceeds, Succeeds, TypeOK
  <2>2. CASE StepFails(i, s)
    BY <2>2, FailsWithTypes, IncidentType DEF StepFails, TypeOK
  <2>3. CASE StepIsLimited(i, s)
    BY <2>3, FailsWithTypes DEF StepIsLimited, TypeOK
  <2>4. CASE StepPauses(i, s)
    BY <2>4, FailsWithTypes, WriteTypes, EndsTypes, IncidentType
    DEF StepPauses, TypeOK, Verdicts
  <2>5. CASE StepStops(i, s)
    BY <2>5, WriteTypes, EndsTypes, SuccessTypes, IncidentType
    DEF StepStops, Succeeds, TypeOK, Verdicts
  <2>6. CASE StepOutgrowsTheLog(i, s)
    BY <2>6, WriteTypes, EndsTypes, IncidentType DEF StepOutgrowsTheLog, TypeOK, Verdicts
  <2>7. CASE StepBreaks(i, s)
    BY <2>7, EndsTypes, IncidentType DEF StepBreaks, TypeOK, history
  <2> QED BY <2>1, <2>2, <2>3, <2>4, <2>5, <2>6, <2>7
<1> QED BY <1>1 DEF TypeOK, kept, pool

LEMMA TypeRetryLimited ==
  ASSUME TypeOK, NEW i \in Items, i \notin Back, OnePlace, RetryLimited(i)
  PROVE  TypeOK'
<1>1. journal' \in Journals
  BY JournalTypes DEF RetryLimited, TypeOK
<1>2. fork' \in Forks /\ retries' \in Counts
  BY ForkTypes, CountTypes DEF RetryLimited, TypeOK
<1>3. granted' \in Counts
  BY CountTypes, SettingTypes DEF RetryLimited, TypeOK
<1>4. again' \in Seq(Items)
  BY BackCons DEF RetryLimited, TypeOK, OnePlace
<1> QED BY <1>1, <1>2, <1>3, <1>4 DEF RetryLimited, TypeOK, kept, bounds

LEMMA RecordTypes ==
  ASSUME TypeOK, NEW i \in Items, NEW v \in {"SUCCEEDED", "FAILED"}, Record(i, v)
  PROVE  /\ iterationStatus' \in Statuses /\ retries' \in Counts /\ journal' \in Journals
         /\ failures' \in Seq(Items)
<1>1. iterationStatus' \in Statuses
  BY DEF Record, TypeOK, Statuses
<1>2. retries' \in Counts
  BY CountTypes DEF Record, TypeOK
<1>3. journal' \in Journals
  BY JournalTypes, ConstantTypes DEF Record, TypeOK
<1>4. failures' \in Seq(Items)
  <2>1. Items \in SUBSET Nat /\ failures \in Seq(Items) /\ (v = "FAILED") \in BOOLEAN
    BY DEF TypeOK
  <2>2. failures' = Relist(failures, i, v = "FAILED")
    BY DEF Record
  <2> HIDE DEF Items
  <2> QED BY <2>1, <2>2, RelistIs
<1> QED BY <1>1, <1>2, <1>3, <1>4

LEMMA SettledTypes ==
  ASSUME TypeOK, NEW i \in Items, NEW v \in Verdicts, Settled(i, v)
  PROVE  /\ terminal' \in Verdicts \cup {"none"} /\ fork' \in Forks
         /\ finished' \in BOOLEAN
         /\ UNCHANGED <<settings, loopStatus, checkpoint, waiting, again, reason,
                        dispatched, asked, run, ran, foreign, cutOff, overlooked, granted,
                        unobserved, userRetries>>
BY ForkTypes DEF Settled, Outranking, TypeOK

LEMMA LeaveTypes ==
  ASSUME Leave
  PROVE  /\ waiting' \subseteq Items /\ again' \in Seq(Items)
         /\ terminal' \in Verdicts \cup {"none"}
         /\ reason' \in {"none", "BUDGET", "RATE_LIMIT"}
         /\ paused' \in 0..N /\ retries' \in Counts
         /\ finished' \in BOOLEAN /\ dispatched' \in BOOLEAN /\ asked' \in BOOLEAN
<1>1. again' \in Seq(Items) /\ paused' \in 0..N
  BY DEF Leave
<1> QED BY <1>1, ConstantTypes DEF Leave

LEMMA TypeSettle ==
  ASSUME TypeOK, NEW i \in Items, i \notin Back, OnePlace, Settle(i)
  PROVE  TypeOK'
<1>1. CASE RetryLimited(i)
  BY <1>1, TypeRetryLimited
<1>2. CASE SettlePaused(i)
  <2>1. Settled(i, "PAUSED") /\ paused' \in 0..N
    BY <1>2 DEF SettlePaused
  <2> QED BY <1>2, <2>1, SettledTypes DEF SettlePaused, TypeOK, Verdicts
<1>3. CASE SettleFailed(i)
  <2>1. PICK v \in Verdicts : Settled(i, v)
    BY <1>3 DEF SettleFailed, Verdicts
  <2> QED BY <1>3, <2>1, SettledTypes, RecordTypes DEF SettleFailed, TypeOK
<1>4. CASE SettleSucceeded(i)
  <2>1. PICK v \in Verdicts : Settled(i, v)
    BY <1>4 DEF SettleSucceeded, Verdicts
  <2> QED BY <1>4, <2>1, SettledTypes, RecordTypes DEF SettleSucceeded, TypeOK
<1>5. CASE FailToCollect(i)
  <2>1. Settled(i, "FAILED") /\ "FAILED" \in Verdicts
    BY <1>5 DEF FailToCollect, Verdicts
  <2> QED BY <1>5, <2>1, SettledTypes, RecordTypes, IncidentType DEF FailToCollect, TypeOK
<1>6. CASE CollectBreaks(i)
  <2>1. run' \in RunStates /\ fork' \in Forks
    BY <1>6, RunTypes, ForkTypes DEF CollectBreaks, Lost, TypeOK
  <2> QED BY <1>6, <2>1, LeaveTypes, IncidentType DEF CollectBreaks, TypeOK, kept
<1>7. CASE Unwind(i)
  <2>1. run' \in RunStates
    BY <1>7, RunTypes DEF Unwind, TypeOK
  <2> QED BY <1>7, <2>1, LeaveTypes DEF Unwind, TypeOK, kept, history, bounds
<1> QED BY <1>1, <1>2, <1>3, <1>4, <1>5, <1>6, <1>7 DEF Settle

LEMMA TypeDispatch ==
  ASSUME TypeOK, OnePlace, NEW i \in Items, Dispatch(i)
  PROVE  TypeOK'
<1>1. fork' \in Forks
  <2>1. Reach(journal[i], 1) \in [pc : {"body", "over"}, at : 0..K, verdict : {"RUNNING"}]
    <3>1. journal[i] \in Bodies /\ 1 \in Nat \ {0}
      BY JournalTypes DEF TypeOK
    <3> QED BY <3>1, ReachType
  <2> QED BY <2>1, ForkTypes DEF Dispatch, TypeOK
<1>2. again' \in Seq(Items) /\ waiting' \subseteq Items
  BY BackHead DEF Dispatch, Shift, OnePlace, TypeOK
<1> QED BY <1>1, <1>2 DEF Dispatch, TypeOK, kept, history, bounds

LEMMA TakesTypes ==
  ASSUME NEW v \in Verdicts, NEW on \in {"none", "item", "loop", "later"},
         NEW item \in 0..N, Takes(v, on, item), run \in RunStates
  PROVE  run' \in RunStates
<1>1. "RUNNING" \in Verdicts /\ "PAUSED" \in Verdicts /\ 0 \in 0..N
  BY DEF Verdicts
<1> QED BY <1>1, RunTypes DEF Takes

LEMMA VerdictType ==
  ASSUME TypeOK
  PROVE  Verdict \in Verdicts
BY DEF Verdict, ContinueVerdict, TypeOK, Verdicts

LEMMA TypePool ==
  ASSUME TypeOK, OnePlace, PoolStep
  PROVE  TypeOK'
<1>1. CASE NeedsCheckpoint
  BY <1>1 DEF NeedsCheckpoint, Due, TypeOK, kept, history, bounds
<1>2. CASE SpacingOutlastsBudget
  BY <1>2 DEF SpacingOutlastsBudget, TypeOK, kept, history, bounds, Verdicts
<1>3. CASE \E i \in Items : Dispatch(i)
  BY <1>3, TypeDispatch
<1>4. CASE ReturnVerdict
  <2>1. run' \in RunStates
    <3>1. PICK item \in 0..N : Takes(Verdict, "item", item)
      BY <1>4 DEF ReturnVerdict, TypeOK
    <3> QED BY <3>1, VerdictType, TakesTypes DEF TypeOK
  <2> QED BY <1>4, <2>1, LeaveTypes DEF ReturnVerdict, TypeOK, history, bounds
<1>5. CASE TakeCheckpoint
  <2>1. run' \in RunStates
    <3>1. "PAUSED" \in Verdicts /\ 0 \in 0..N
      BY DEF Verdicts
    <3> QED BY <1>5, <3>1, TakesTypes DEF TakeCheckpoint, TypeOK
  <2>2. checkpoint' \in CheckpointStates
    BY <1>5 DEF TakeCheckpoint, Carried, CheckpointStates, TypeOK
  <2> QED BY <1>5, <2>1, <2>2, LeaveTypes DEF TakeCheckpoint, TypeOK, history, bounds
<1>6. CASE CheckpointBreaks
  <2>1. run' \in RunStates
    BY <1>6, RunTypes DEF CheckpointBreaks, Lost, TypeOK
  <2> QED BY <1>6, <2>1, LeaveTypes, IncidentType DEF CheckpointBreaks, TypeOK, kept, history
<1>7. CASE LoopOutgrowsTheLog
  <2>1. run' \in RunStates
    <3>1. "LOG_SIZE_EXCEEDED" \in Verdicts /\ 0 \in 0..N
      BY DEF Verdicts
    <3> QED BY <1>7, <3>1, TakesTypes DEF LoopOutgrowsTheLog, TypeOK
  <2>2. incidents' \in 0..MaxIncidents
    BY <1>7, IncidentType DEF LoopOutgrowsTheLog, TypeOK
  <2> QED BY <1>7, <2>1, <2>2, LeaveTypes DEF LoopOutgrowsTheLog, TypeOK, history
<1>8. CASE Unwound
  <2>1. run' \in RunStates
    BY <1>8, RunTypes DEF Unwound, Lost, TypeOK
  <2>2. fork' \in Forks
    BY <1>8 DEF Unwound, Off, Forks, TypeOK, Verdicts
  <2> QED BY <1>8, <2>1, <2>2 DEF Unwound, TypeOK, kept, pool, history, bounds
<1> QED BY <1>1, <1>2, <1>3, <1>4, <1>5, <1>6, <1>7, <1>8 DEF PoolStep

LEMMA RestoredType ==
  ASSUME TypeOK, NEW waitpoint \in BOOLEAN
  PROVE  Restored(waitpoint) \in Journals
<1>1. \A i \in Items : journal[i] \in Bodies /\ DropFailed(journal[i]) \in Bodies
  BY JournalTypes DEF TypeOK
<1> QED BY <1>1 DEF Restored, Journals

LEMMA EnterTypes ==
  ASSUME TypeOK, NEW j \in Journals, Enter(j)
  PROVE  /\ journal' \in Journals /\ waiting' \subseteq Items /\ retries' \in Counts
         /\ fork' \in Forks
         /\ UNCHANGED <<settings, kept, again, terminal, reason, paused, finished,
                        dispatched, asked>>
BY ConstantTypes DEF Enter, TypeOK, CheckpointStates

LEMMA TypeRun ==
  ASSUME TypeOK, RunStep
  PROVE  TypeOK'
<1> USE ConstantTypes
<1>1. CASE Begin
  <2>1. run' \in RunStates
    BY <1>1, RunTypes DEF Begin, TypeOK
  <2>2. Enter(journal) /\ journal \in Journals
    BY <1>1 DEF Begin, TypeOK
  <2> QED BY <1>1, <2>1, <2>2, EnterTypes DEF Begin, TypeOK, kept, history, bounds
<1>2. CASE Resume
  <2>1. run' \in RunStates
    BY <1>2, RunTypes DEF Resume, TypeOK
  <2>2. Enter(Restored(TRUE))
    BY <1>2 DEF Resume
  <2>3. granted' \in Counts
    BY <1>2 DEF Resume, TypeOK
  <2> QED BY <1>2, <2>1, <2>2, <2>3, EnterTypes, RestoredType
    DEF Resume, TypeOK, kept, bounds
<1>3. CASE EntryFails
  <2>1. run' \in RunStates
    <3>1. "FAILED" \in Verdicts /\ 0 \in 0..N
      BY DEF Verdicts
    <3> QED BY <1>3, <3>1, TakesTypes DEF EntryFails, TypeOK
  <2>2. userRetries' \in 0..MaxUserRetries
    BY <1>3 DEF EntryFails, Retryable, TypeOK
  <2> QED BY <1>3, <2>1, <2>2, IncidentType DEF EntryFails, TypeOK, pool
<1>4. CASE FlowEnds
  <2>1. run' \in RunStates
    BY <1>4, RunTypes DEF FlowEnds, TypeOK
  <2> QED BY <1>4, <2>1 DEF FlowEnds, TypeOK, kept, pool, history, bounds
<1>5. CASE LaterStep
  <2>1. PICK v \in Verdicts : Takes(v, "later", 0)
    BY <1>5 DEF LaterStep, Verdicts
  <2>2. run' \in RunStates
    BY <2>1, TakesTypes DEF TypeOK
  <2> QED BY <1>5, <2>2, IncidentType DEF LaterStep, TypeOK, kept, pool, history
<1>6. ASSUME Retryable, Retried
      PROVE  run' \in RunStates /\ userRetries' \in 0..MaxUserRetries
  BY <1>6 DEF Retryable, Retried, RunStates, Verdicts, TypeOK
<1>7. CASE RetryFromFailedStep
  <2>1. Enter(Restored(FALSE))
    BY <1>7 DEF RetryFromFailedStep
  <2>2. cutOff' \subseteq Items \X Steps
    BY <1>7 DEF RetryFromFailedStep, CutOff, TypeOK
  <2> QED BY <1>6, <1>7, <2>1, <2>2, EnterTypes, RestoredType
    DEF RetryFromFailedStep, TypeOK, kept
<1>8. CASE RetryFromScratch
  <2>1. failures' \in Seq(Items)
    BY <1>8 DEF RetryFromScratch
  <2> QED BY <1>6, <1>8, <2>1 DEF RetryFromScratch, TypeOK
<1>9. CASE EngineLost
  <2>1. run' \in RunStates
    BY <1>9, RunTypes DEF EngineLost, Lost, TypeOK
  <2> QED BY <1>9, <2>1, LeaveTypes, IncidentType DEF EngineLost, TypeOK, kept, history
<1> QED BY <1>1, <1>2, <1>3, <1>4, <1>5, <1>7, <1>8, <1>9 DEF RunStep

LEMMA TypeStep ==
  ASSUME TypeOK, OnePlace, [Next]_vars
  PROVE  TypeOK'
<1>1. CASE \E i \in Items : BodyStep(i)
  BY <1>1, TypeBody
<1>2. CASE \E i \in Items : Settle(i)
  <2>1. PICK i \in Items : Settle(i)
    BY <1>2
  <2>2. fork[i].pc = "over"
    BY <2>1 DEF Settle, RetryLimited, SettlePaused, SettleFailed, SettleSucceeded,
                FailToCollect, CollectBreaks, Unwind, Settles
  <2>3. i \notin Back
    BY <2>2 DEF OnePlace, InFlight
  <2> QED BY <2>1, <2>3, TypeSettle
<1>3. CASE PoolStep
  BY <1>3, TypePool
<1>4. CASE RunStep
  BY <1>4, TypeRun
<1>5. CASE UNCHANGED vars
  BY <1>5 DEF vars, kept, pool, history, bounds, TypeOK
<1> QED BY <1>1, <1>2, <1>3, <1>4, <1>5 DEF Next, ProcessStep

-----------------------------------------------------------------------------
(* The steps of a body *)

Pool == OnePlace /\ PoolIsUndecided /\ PoolIsLocal /\ NobodyElseRuns

LEMMA SamePool ==
  ASSUME Pool, InFlight' = InFlight,
         UNCHANGED <<waiting, again, iterationStatus, run, unobserved>>
  PROVE  Pool'
BY DEF Pool, OnePlace, PoolIsUndecided, PoolIsLocal, NobodyElseRuns, Back, Looping

LEMMA InFlightType ==
  ASSUME fork \in Forks, NEW i \in Items, NEW r, fork' = [fork EXCEPT ![i] = r]
  PROVE  /\ r.pc # "off" => InFlight' = InFlight \cup {i}
         /\ r.pc = "off" => InFlight' = InFlight \ {i}
         /\ fork'[i] = r /\ \A j \in Items : j # i => fork'[j] = fork[j]
BY DEF InFlight, Forks

\* A step of an item in flight leaves the item in flight, at a later open step.
LEMMA BodyEffect ==
  ASSUME TypeOK, NEW i \in Items, NEW s \in Steps, Runs(i, s),
         \/ GoesOn(i, s)
         \/ \E v \in Verdicts \cup {"LIMITED", "ENGINE_ERROR"} : Ends(i, v)
  PROVE  /\ InFlight' = InFlight
         /\ \A j \in Items : j # i => fork'[j] = fork[j]
         /\ fork'[i].pc = "body" =>
              /\ fork'[i].at \in Steps /\ fork'[i].at # s
              /\ journal[i][fork'[i].at] \in {"none", "PAUSED"}
<1>1. i \in InFlight
  BY DEF Runs, InFlight
<1>2. CASE GoesOn(i, s)
  <2>1. journal[i] \in Bodies /\ s + 1 \in Nat \ {0}
    BY JournalTypes DEF TypeOK
  <2>2. /\ Reach(journal[i], s + 1).pc # "off"
        /\ Reach(journal[i], s + 1).pc = "body" =>
             /\ Reach(journal[i], s + 1).at \in Steps /\ Reach(journal[i], s + 1).at # s
             /\ journal[i][Reach(journal[i], s + 1).at] \in {"none", "PAUSED"}
    BY <2>1, ReachType
  <2> DEFINE r == Reach(journal[i], s + 1)
  <2>3. fork \in Forks /\ fork' = [fork EXCEPT ![i] = r]
    BY <1>2 DEF GoesOn, TypeOK
  <2> HIDE DEF r
  <2>4. /\ r.pc # "off"
        /\ r.pc = "body" => r.at \in Steps /\ r.at # s /\ journal[i][r.at] \in {"none", "PAUSED"}
    BY <2>2 DEF r
  <2>5. /\ InFlight' = InFlight \cup {i} /\ fork'[i] = r
        /\ \A j \in Items : j # i => fork'[j] = fork[j]
    BY <2>3, <2>4, InFlightType
  <2> QED BY <1>1, <2>4, <2>5
<1>3. CASE \E v \in Verdicts \cup {"LIMITED", "ENGINE_ERROR"} : Ends(i, v)
  <2>1. PICK v \in Verdicts \cup {"LIMITED", "ENGINE_ERROR"} : Ends(i, v)
    BY <1>3
  <2>2. /\ fork'[i].pc = "over"
        /\ \A j \in Items : j # i => fork'[j] = fork[j]
    BY <2>1 DEF Ends, TypeOK, Forks
  <2>3. InFlight' = InFlight
    BY <1>1, <2>2 DEF InFlight
  <2> QED BY <2>2, <2>3
<1> QED BY <1>2, <1>3

\* What each step of a body writes, to the journal and to the history.
LEMMA BodyWrites ==
  ASSUME TypeOK, NEW i \in Items, NEW s \in Steps,
         \/ StepSucceeds(i, s) \/ StepFails(i, s) \/ StepIsLimited(i, s)
         \/ StepPauses(i, s) \/ StepStops(i, s) \/ StepOutgrowsTheLog(i, s)
         \/ StepBreaks(i, s)
  PROVE  /\ Runs(i, s)
         /\ \/ GoesOn(i, s)
            \/ \E v \in Verdicts \cup {"LIMITED", "ENGINE_ERROR"} : Ends(i, v)
         /\ UNCHANGED <<waiting, again, iterationStatus, run, unobserved>>
         /\ \/ journal' = journal /\ ran' = ran
            \/ Write(i, s, "SUCCEEDED") /\ Succeeds(i, s)
            \/ \E v \in {"FAILED", "PAUSED"} : Write(i, s, v) /\ ran' = ran
<1> USE DEF pool, kept, Verdicts
<1>1. CASE StepSucceeds(i, s)
  BY <1>1 DEF StepSucceeds, Write
<1>2. CASE StepFails(i, s)
  BY <1>2 DEF StepFails, FailsWith, Write
<1>3. CASE StepIsLimited(i, s)
  BY <1>3 DEF StepIsLimited, FailsWith, Write
<1>4. CASE StepPauses(i, s)
  BY <1>4 DEF StepPauses, FailsWith, Write
<1>5. CASE StepStops(i, s)
  BY <1>5 DEF StepStops, Write
<1>6. CASE StepOutgrowsTheLog(i, s)
  BY <1>6 DEF StepOutgrowsTheLog, Write
<1>7. CASE StepBreaks(i, s)
  BY <1>7 DEF StepBreaks, history
<1> QED BY <1>1, <1>2, <1>3, <1>4, <1>5, <1>6, <1>7

LEMMA BodyKeeps ==
  ASSUME TypeOK, Pool, AtOpenStep, SuccessIsKept, NEW i \in Items, BodyStep(i)
  PROVE  Pool' /\ AtOpenStep' /\ SuccessIsKept'
<1> PICK s \in Steps :
      \/ StepSucceeds(i, s) \/ StepFails(i, s) \/ StepIsLimited(i, s)
      \/ StepPauses(i, s) \/ StepStops(i, s) \/ StepOutgrowsTheLog(i, s)
      \/ StepBreaks(i, s)
  BY DEF BodyStep
<1>1. Runs(i, s) /\ i \in InFlight
  BY BodyWrites DEF Runs, InFlight
<1>2. /\ InFlight' = InFlight
      /\ \A j \in Items : j # i => fork'[j] = fork[j]
      /\ fork'[i].pc = "body" =>
           /\ fork'[i].at \in Steps /\ fork'[i].at # s
           /\ journal[i][fork'[i].at] \in {"none", "PAUSED"}
  BY BodyWrites, BodyEffect
<1>3. UNCHANGED <<waiting, again, iterationStatus, run, unobserved>>
  BY BodyWrites
<1>4. Pool'
  BY <1>2, <1>3, SamePool
<1>5. \A j \in Items, t \in Steps : j # i \/ t # s => journal'[j][t] = journal[j][t]
  <2>1. CASE journal' = journal
    BY <2>1
  <2>2. CASE \E v \in {"SUCCEEDED", "FAILED", "PAUSED"} : Write(i, s, v)
    <3>1. PICK v \in {"SUCCEEDED", "FAILED", "PAUSED"} : journal' = [journal EXCEPT ![i][s] = v]
      BY <2>2 DEF Write
    <3> QED BY <3>1 DEF TypeOK, Journals, Bodies
  <2> QED BY <2>1, <2>2, BodyWrites
<1>6. AtOpenStep'
  BY <1>2, <1>5 DEF AtOpenStep
<1>7. iterationStatus[i] # "SUCCEEDED" /\ journal[i][s] # "SUCCEEDED"
  BY <1>1 DEF Pool, PoolIsUndecided, AtOpenStep, Runs
<1>8. \A j \in Items, t \in Steps : ran[j][t] \in 0..2
  BY DEF TypeOK, Successes
<1>9. ran[i][s] = 0
  BY <1>7, <1>8 DEF SuccessIsKept
<1>10. /\ \A j \in Items, t \in Steps : j # i \/ t # s => ran'[j][t] = ran[j][t]
       /\ ran'[i][s] \in {0, 1}
       /\ ran'[i][s] = 1 => journal'[i][s] = "SUCCEEDED"
  <2>1. CASE ran' = ran
    BY <1>9, <2>1
  <2>2. CASE Write(i, s, "SUCCEEDED") /\ Succeeds(i, s)
    BY <1>9, <2>2 DEF Write, Succeeds, TypeOK, Successes, Journals, Bodies
  <2> QED BY <2>1, <2>2, BodyWrites
<1>11. SuccessIsKept'
  <2> SUFFICES ASSUME NEW j \in Items, NEW t \in Steps
               PROVE  /\ ran'[j][t] <= 1
                      /\ ran'[j][t] = 1 => journal'[j][t] = "SUCCEEDED"
                                           \/ iterationStatus'[j] = "SUCCEEDED"
    BY DEF SuccessIsKept
  <2>1. CASE j = i /\ t = s
    BY <1>10, <2>1
  <2>2. CASE j # i \/ t # s
    BY <1>3, <1>5, <1>10, <2>2 DEF SuccessIsKept
  <2> QED BY <2>1, <2>2
<1> QED BY <1>4, <1>6, <1>11

-----------------------------------------------------------------------------
(* The steps of the pool *)

LEMMA LeavesFlight ==
  ASSUME TypeOK, NEW i \in Items, fork' = [fork EXCEPT ![i] = Off]
  PROVE  /\ InFlight' = InFlight \ {i} /\ fork'[i].pc = "off"
         /\ \A j \in Items : j # i => fork'[j] = fork[j]
<1>1. fork'[i].pc = "off" /\ \A j \in Items : j # i => fork'[j] = fork[j]
  BY DEF TypeOK, Forks, Off
<1>2. InFlight' = InFlight \ {i}
  BY <1>1 DEF InFlight
<1> QED BY <1>1, <1>2

\* An item leaves the pool, whatever is recorded of it: the others stay in order.
LEMMA SettledKeeps ==
  ASSUME TypeOK, Pool, AtOpenStep, SuccessIsKept, NEW i \in Items, Settles(i),
         fork' = [fork EXCEPT ![i] = Off],
         UNCHANGED <<waiting, again, run, unobserved, ran>>,
         \A j \in Items : j # i => iterationStatus'[j] = iterationStatus[j],
         \A j \in Items : j # i => journal'[j] = journal[j],
         \A s \in Steps : journal[i][s] = "SUCCEEDED" =>
           journal'[i][s] = "SUCCEEDED" \/ iterationStatus'[i] = "SUCCEEDED"
  PROVE  Pool' /\ AtOpenStep' /\ SuccessIsKept'
<1>1. /\ InFlight' = InFlight \ {i} /\ fork'[i].pc = "off"
      /\ \A j \in Items : j # i => fork'[j] = fork[j]
  BY LeavesFlight
<1>2. i \in InFlight /\ i \notin waiting /\ i \notin Back /\ Looping
  BY DEF Settles, InFlight, Pool, OnePlace
<1>3. Back' = Back
  BY DEF Back
<1>4. OnePlace'
  BY <1>1, <1>3 DEF Pool, OnePlace
<1>5. PoolIsUndecided'
  BY <1>1, <1>2, <1>3 DEF Pool, PoolIsUndecided
<1>6. PoolIsLocal' /\ NobodyElseRuns'
  BY <1>2 DEF PoolIsLocal, NobodyElseRuns, Looping
<1>7. AtOpenStep'
  BY <1>1 DEF AtOpenStep
<1>8. iterationStatus[i] # "SUCCEEDED"
  BY <1>2 DEF Pool, PoolIsUndecided
<1>9. SuccessIsKept'
  <2> SUFFICES ASSUME NEW j \in Items, NEW s \in Steps
               PROVE  /\ ran[j][s] <= 1
                      /\ ran[j][s] = 1 => journal'[j][s] = "SUCCEEDED"
                                          \/ iterationStatus'[j] = "SUCCEEDED"
    BY DEF SuccessIsKept
  <2>1. CASE j = i
    BY <1>8, <2>1 DEF SuccessIsKept
  <2>2. CASE j # i
    BY <2>2 DEF SuccessIsKept
  <2> QED BY <2>1, <2>2
<1> QED BY <1>4, <1>5, <1>6, <1>7, <1>9 DEF Pool

\* What is recorded of a finished item keeps its successes, or marks it SUCCEEDED.
LEMMA RecordKeeps ==
  ASSUME TypeOK, NEW i \in Items, NEW v \in {"SUCCEEDED", "FAILED"}, Record(i, v)
  PROVE  /\ \A j \in Items : j # i => iterationStatus'[j] = iterationStatus[j]
         /\ \A j \in Items : j # i => journal'[j] = journal[j]
         /\ \A s \in Steps : journal[i][s] = "SUCCEEDED" =>
              journal'[i][s] = "SUCCEEDED" \/ iterationStatus'[i] = "SUCCEEDED"
<1>1. /\ \A j \in Items : j # i => iterationStatus'[j] = iterationStatus[j]
      /\ iterationStatus'[i] = v
  BY DEF Record, TypeOK, Statuses
<1>2. /\ \A j \in Items : j # i => journal'[j] = journal[j]
      /\ v = "SUCCEEDED" \/ journal'[i] = journal[i]
  BY DEF Record, TypeOK, Journals
<1> QED BY <1>1, <1>2

\* A rate-limited item goes back to the head of the line with its successes.
LEMMA RetryKeeps ==
  ASSUME TypeOK, Pool, AtOpenStep, SuccessIsKept, NEW i \in Items, RetryLimited(i)
  PROVE  Pool' /\ AtOpenStep' /\ SuccessIsKept'
<1>1. /\ InFlight' = InFlight \ {i} /\ fork'[i].pc = "off"
      /\ \A j \in Items : j # i => fork'[j] = fork[j]
  BY LeavesFlight DEF RetryLimited
<1>2. i \in InFlight /\ i \notin waiting /\ i \notin Back /\ Looping
  BY DEF RetryLimited, Settles, InFlight, Pool, OnePlace
<1>3. again' = <<i>> \o again /\ again \in Seq(Items)
  BY DEF RetryLimited, TypeOK
<1>4. /\ \A p, q \in DOMAIN again' : again'[p] = again'[q] => p = q
      /\ \A j \in Back' : j = i \/ j \in Back
  <2>1. \A p, q \in DOMAIN again : again[p] = again[q] => p = q
    BY DEF Pool, OnePlace
  <2>2. /\ \A p, q \in DOMAIN again' : again'[p] = again'[q] => p = q
        /\ \A p \in DOMAIN again' : again'[p] = i \/ again'[p] \in Back
    BY <1>2, <1>3, <2>1, BackCons
  <2> QED BY <2>2 DEF Back
<1>5. UNCHANGED <<waiting, iterationStatus, run, unobserved, ran>>
  BY DEF RetryLimited, kept
<1>6. OnePlace'
  BY <1>1, <1>2, <1>4, <1>5 DEF Pool, OnePlace
<1>7. PoolIsUndecided'
  BY <1>1, <1>2, <1>4, <1>5 DEF Pool, PoolIsUndecided
<1>8. PoolIsLocal' /\ NobodyElseRuns'
  BY <1>2, <1>5 DEF PoolIsLocal, NobodyElseRuns, Looping
<1>9. /\ \A j \in Items : j # i => journal'[j] = journal[j]
      /\ \A s \in Steps : journal[i][s] = "SUCCEEDED" => journal'[i][s] = "SUCCEEDED"
  BY DEF RetryLimited, DropFailed, TypeOK, Journals
<1>10. AtOpenStep'
  BY <1>1, <1>9 DEF AtOpenStep
<1>11. SuccessIsKept'
  BY <1>5, <1>9 DEF SuccessIsKept
<1> QED BY <1>6, <1>7, <1>8, <1>10, <1>11 DEF Pool

LEMMA SettleKeeps ==
  ASSUME TypeOK, Pool, AtOpenStep, SuccessIsKept, NEW i \in Items, Settle(i)
  PROVE  Pool' /\ AtOpenStep' /\ SuccessIsKept'
<1>1. CASE RetryLimited(i)
  BY <1>1, RetryKeeps
<1>2. CASE SettlePaused(i)
  BY <1>2, SettledKeeps DEF SettlePaused, Settled
<1>3. CASE SettleFailed(i) \/ SettleSucceeded(i) \/ FailToCollect(i)
  <2>1. /\ Settles(i) /\ \E v \in {"SUCCEEDED", "FAILED"} : Record(i, v)
        /\ \E v \in {"RUNNING", "SUCCEEDED", "FAILED", "LOG_SIZE_EXCEEDED"} : Settled(i, v)
    BY <1>3 DEF SettleFailed, SettleSucceeded, FailToCollect
  <2>2. fork' = [fork EXCEPT ![i] = Off] /\ UNCHANGED <<waiting, again, run, unobserved, ran>>
    BY <2>1 DEF Settled
  <2> QED BY <2>1, <2>2, RecordKeeps, SettledKeeps
<1>4. CASE CollectBreaks(i)
  <2>1. /\ InFlight' = InFlight \ {i} /\ fork'[i].pc = "off"
        /\ \A j \in Items : j # i => fork'[j] = fork[j]
    BY <1>4, LeavesFlight DEF CollectBreaks
  <2>2. /\ UNCHANGED <<journal, iterationStatus, ran>>
        /\ waiting' = {} /\ again' = <<>> /\ unobserved'
        /\ run'.pc = "ended" /\ run'.verdict = "INTERNAL_ERROR"
    BY <1>4 DEF CollectBreaks, Leave, kept, Lost, TypeOK, RunStates
  <2>3. Back' = {}
    BY <2>2 DEF Back
  <2>4. Pool'
    BY <2>1, <2>2, <2>3
    DEF Pool, OnePlace, PoolIsUndecided, PoolIsLocal, NobodyElseRuns, Looping
  <2> QED BY <2>1, <2>2, <2>4 DEF AtOpenStep, SuccessIsKept
<1>5. CASE Unwind(i)
  <2>1. /\ UNCHANGED <<journal, fork, iterationStatus, ran>>
        /\ waiting' = {} /\ again' = <<>> /\ run'.pc = "unwinding"
    BY <1>5 DEF Unwind, Leave, kept, history, TypeOK, RunStates
  <2>2. Back' = {} /\ InFlight' = InFlight
    BY <2>1 DEF Back, InFlight
  <2>3. Pool'
    BY <2>1, <2>2 DEF Pool, OnePlace, PoolIsUndecided, PoolIsLocal, NobodyElseRuns, Looping
  <2> QED BY <2>1, <2>3 DEF AtOpenStep, SuccessIsKept
<1> QED BY <1>1, <1>2, <1>3, <1>4, <1>5 DEF Settle

\* A pool that is empty is in order.
LEMMA EmptyPool ==
  ASSUME waiting' = {}, again' = <<>>, InFlight' = {}
  PROVE  Pool'
<1>1. Back' = {}
  BY DEF Back
<1> QED BY <1>1 DEF Pool, OnePlace, PoolIsUndecided, PoolIsLocal, NobodyElseRuns

\* Outside of the loop nothing is in the pool; Unwound apart, nothing is in flight.
LEMMA OutsideTheLoop ==
  ASSUME Pool, ~Looping
  PROVE  /\ waiting = {} /\ again = <<>>
         /\ run.pc # "unwinding" /\ ~(run.pc = "ended" /\ run.verdict = "INTERNAL_ERROR")
              => InFlight = {}
BY DEF Pool, PoolIsLocal, NobodyElseRuns, Looping

LEMMA DispatchKeeps ==
  ASSUME TypeOK, Pool, AtOpenStep, SuccessIsKept, NEW i \in Items, Dispatch(i)
  PROVE  Pool' /\ AtOpenStep' /\ SuccessIsKept'
<1>1. UNCHANGED <<journal, iterationStatus, run, ran>>
  BY DEF Dispatch, kept, history
<1>2. /\ Reach(journal[i], 1) \in [pc : {"body", "over"}, at : 0..K, verdict : {"RUNNING"}]
      /\ Reach(journal[i], 1).pc = "body" =>
           /\ Reach(journal[i], 1).at \in Steps
           /\ journal[i][Reach(journal[i], 1).at] \in {"none", "PAUSED"}
  <2>1. journal[i] \in Bodies /\ 1 \in Nat \ {0}
    BY JournalTypes DEF TypeOK
  <2> QED BY <2>1, ReachType
<1>3. /\ fork'[i] = Reach(journal[i], 1) /\ \A j \in Items : j # i => fork'[j] = fork[j]
  BY DEF Dispatch, TypeOK, Forks
<1>4. InFlight' = InFlight \cup {i}
  BY <1>2, <1>3 DEF InFlight
<1>5. /\ i \in waiting \cup Back /\ i \notin waiting' \cup Back'
      /\ waiting' \subseteq waiting /\ Back' \subseteq Back
      /\ \A p, q \in DOMAIN again' : again'[p] = again'[q] => p = q
  <2>1. CASE again # <<>>
    <3>1. /\ Head(again) \in Back
          /\ \A p, q \in DOMAIN Tail(again) : Tail(again)[p] = Tail(again)[q] => p = q
          /\ \A p \in DOMAIN Tail(again) :
               Tail(again)[p] \in Back /\ Tail(again)[p] # Head(again)
      BY <2>1, BackHead DEF TypeOK, Pool, OnePlace
    <3>2. i = Head(again) /\ again' = Tail(again) /\ waiting' = waiting
      BY <2>1 DEF Dispatch, Shift
    <3>3. i \notin waiting
      BY <3>1, <3>2 DEF Pool, OnePlace
    <3> QED BY <3>1, <3>2, <3>3 DEF Back
  <2>2. CASE again = <<>>
    BY <2>2 DEF Dispatch, Shift, Back, Pool, OnePlace
  <2> QED BY <2>1, <2>2
<1>6. OnePlace'
  BY <1>4, <1>5 DEF Pool, OnePlace
<1>7. PoolIsUndecided'
  BY <1>1, <1>4, <1>5 DEF Pool, PoolIsUndecided
<1>8. PoolIsLocal' /\ NobodyElseRuns'
  BY <1>1 DEF Dispatch, CanDispatch, Looping, PoolIsLocal, NobodyElseRuns
<1>9. AtOpenStep'
  BY <1>1, <1>2, <1>3 DEF AtOpenStep
<1>10. SuccessIsKept'
  BY <1>1 DEF SuccessIsKept
<1> QED BY <1>6, <1>7, <1>8, <1>9, <1>10 DEF Pool

LEMMA PoolKeeps ==
  ASSUME TypeOK, Pool, AtOpenStep, SuccessIsKept, PoolStep
  PROVE  Pool' /\ AtOpenStep' /\ SuccessIsKept'
<1>1. CASE NeedsCheckpoint \/ SpacingOutlastsBudget
  <2>1. UNCHANGED <<fork, waiting, again, journal, iterationStatus, run, ran, unobserved>>
    BY <1>1 DEF NeedsCheckpoint, SpacingOutlastsBudget, kept, history
  <2>2. InFlight' = InFlight
    BY <2>1 DEF InFlight
  <2> QED BY <2>1, <2>2, SamePool DEF AtOpenStep, SuccessIsKept
<1>2. CASE \E i \in Items : Dispatch(i)
  BY <1>2, DispatchKeeps
<1>3. CASE ReturnVerdict \/ TakeCheckpoint \/ CheckpointBreaks \/ LoopOutgrowsTheLog
  <2>1. /\ UNCHANGED <<fork, journal, iterationStatus, ran>>
        /\ waiting' = {} /\ again' = <<>> /\ InFlight = {}
    BY <1>3 DEF ReturnVerdict, TakeCheckpoint, CheckpointBreaks, LoopOutgrowsTheLog, Leave,
                Done, kept, history
  <2>2. InFlight' = {}
    BY <2>1 DEF InFlight
  <2> QED BY <2>1, <2>2, EmptyPool DEF AtOpenStep, SuccessIsKept
<1>4. CASE Unwound
  <2>1. UNCHANGED <<journal, iterationStatus, ran, waiting, again>> /\ ~Looping
    BY <1>4 DEF Unwound, kept, pool, history, Looping
  <2>2. waiting' = {} /\ again' = <<>>
    BY <2>1, OutsideTheLoop
  <2>3. \A i \in Items : fork'[i].pc = "off"
    BY <1>4 DEF Unwound, AllSettled, InFlight, Off, TypeOK, Forks
  <2>4. InFlight' = {}
    BY <2>3 DEF InFlight
  <2> QED BY <2>1, <2>2, <2>3, <2>4, EmptyPool DEF AtOpenStep, SuccessIsKept
<1> QED BY <1>1, <1>2, <1>3, <1>4 DEF PoolStep

-----------------------------------------------------------------------------
(* The run around it *)

\* A new execution has nothing in flight.
LEMMA NobodyFlies ==
  ASSUME fork' = [i \in Items |-> Off]
  PROVE  InFlight' = {} /\ \A i \in Items : fork'[i].pc = "off"
BY DEF InFlight, Off

\* The loop is entered, with every success still in the journal.
LEMMA EnterKeeps ==
  ASSUME TypeOK, Pool, AtOpenStep, SuccessIsKept,
         again = <<>>, NEW j \in Journals, Enter(j),
         run'.pc = "looping", ran' = ran,
         \A i \in Items, s \in Steps : journal[i][s] = "SUCCEEDED" => j[i][s] = "SUCCEEDED"
  PROVE  Pool' /\ AtOpenStep' /\ SuccessIsKept'
<1>1. /\ journal' = j /\ waiting' \subseteq Items /\ again' = <<>>
      /\ fork' = [i \in Items |-> Off] /\ UNCHANGED iterationStatus
      /\ \A i \in waiting' : IsPending(i, j)
  BY DEF Enter, kept
<1>2. \A i \in waiting' : iterationStatus[i] # "SUCCEEDED"
  BY <1>1 DEF IsPending
<1>3. InFlight' = {} /\ Back' = {} /\ \A i \in Items : fork'[i].pc = "off"
  BY <1>1, NobodyFlies DEF Back
<1>4. Pool'
  BY <1>1, <1>2, <1>3
  DEF Pool, OnePlace, PoolIsUndecided, PoolIsLocal, NobodyElseRuns, Looping
<1>5. AtOpenStep'
  BY <1>3 DEF AtOpenStep
<1>6. SuccessIsKept'
  BY <1>1 DEF SuccessIsKept
<1> QED BY <1>4, <1>5, <1>6

LEMMA RestoredKeeps ==
  ASSUME TypeOK, NEW waitpoint \in BOOLEAN, NEW i \in Items, NEW s \in Steps,
         journal[i][s] = "SUCCEEDED"
  PROVE  Restored(waitpoint)[i][s] = "SUCCEEDED"
BY DEF Restored, DropFailed

LEMMA RunKeeps ==
  ASSUME TypeOK, Pool, AtOpenStep, SuccessIsKept, RunStep
  PROVE  Pool' /\ AtOpenStep' /\ SuccessIsKept'
<1>1. CASE Begin
  <2>1. again = <<>>
    BY <1>1, OutsideTheLoop DEF Begin, Looping
  <2>2. /\ journal \in Journals /\ Enter(journal)
        /\ run'.pc = "looping" /\ ran' = ran
    BY <1>1 DEF Begin, TypeOK, RunStates, history
  <2> QED BY <2>1, <2>2, EnterKeeps
<1>2. CASE Resume
  <2>1. again = <<>>
    BY <1>2, OutsideTheLoop DEF Resume, Looping
  <2>2. Enter(Restored(TRUE))
    BY <1>2 DEF Resume
  <2>3. run'.pc = "looping" /\ ran' = ran
    BY <1>2 DEF Resume, TypeOK, RunStates
  <2> QED BY <2>1, <2>2, <2>3, EnterKeeps, RestoredType, RestoredKeeps
<1>3. CASE FlowEnds \/ LaterStep
  <2>1. run.pc = "after" /\ UNCHANGED <<fork, pool, journal, iterationStatus, ran>>
    BY <1>3 DEF FlowEnds, LaterStep, kept, history
  <2>2. waiting = {} /\ again = <<>> /\ InFlight = {}
    BY <2>1, OutsideTheLoop DEF Looping
  <2>3. waiting' = {} /\ again' = <<>> /\ InFlight' = {}
    BY <2>1, <2>2 DEF pool, InFlight
  <2> QED BY <2>1, <2>3, EmptyPool DEF AtOpenStep, SuccessIsKept
<1>4. ASSUME Retryable, Retried
      PROVE  again = <<>> /\ run'.pc = "looping"
  BY <1>4, OutsideTheLoop DEF Retryable, Retried, Looping
<1>5. CASE RetryFromFailedStep
  <2>1. Enter(Restored(FALSE)) /\ Retryable /\ Retried /\ ran' = ran
    BY <1>5 DEF RetryFromFailedStep
  <2> QED BY <1>4, <2>1, EnterKeeps, RestoredType, RestoredKeeps
<1>6. CASE RetryFromScratch
  <2>1. /\ fork' = [i \in Items |-> Off] /\ again' = <<>> /\ run'.pc = "looping"
        /\ waiting' = Items
        /\ iterationStatus' = [i \in Items |-> "none"]
        /\ ran' = [i \in Items |-> [s \in Steps |-> 0]]
    BY <1>4, <1>6 DEF RetryFromScratch
  <2>2. InFlight' = {} /\ Back' = {} /\ \A i \in Items : fork'[i].pc = "off"
    BY <2>1, NobodyFlies DEF Back
  <2>3. Pool'
    BY <2>1, <2>2
    DEF Pool, OnePlace, PoolIsUndecided, PoolIsLocal, NobodyElseRuns, Looping
  <2>4. AtOpenStep' /\ SuccessIsKept'
    BY <2>1, <2>2 DEF AtOpenStep, SuccessIsKept
  <2> QED BY <2>3, <2>4
<1>7. CASE EntryFails \/ EngineLost
  <2>1. /\ fork' = [i \in Items |-> Off] /\ waiting' = {} /\ again' = <<>>
        /\ UNCHANGED <<journal, iterationStatus, ran>>
    <3>1. CASE EntryFails
      <4>1. ~Looping /\ UNCHANGED <<waiting, again>>
        BY <3>1 DEF EntryFails, Retryable, Looping, pool
      <4> QED BY <3>1, <4>1, OutsideTheLoop DEF EntryFails
    <3>2. CASE EngineLost
      BY <3>2 DEF EngineLost, Leave, kept, history
    <3> QED BY <1>7, <3>1, <3>2
  <2>2. InFlight' = {} /\ \A i \in Items : fork'[i].pc = "off"
    BY <2>1, NobodyFlies
  <2> QED BY <2>1, <2>2, EmptyPool DEF AtOpenStep, SuccessIsKept
<1> QED BY <1>1, <1>2, <1>3, <1>5, <1>6, <1>7 DEF RunStep

-----------------------------------------------------------------------------
(* Together *)

IInv == TypeOK /\ Pool /\ AtOpenStep /\ SuccessIsKept

LEMMA InductiveInit == Init => IInv
<1> SUFFICES ASSUME Init PROVE IInv
  OBVIOUS
<1>1. TypeOK
  BY TypeInit
<1>2. \A i \in Items : fork[i] = Off /\ Off.pc = "off"
  BY DEF Init, Off
<1>3. again = <<>> /\ waiting = {} /\ InFlight = {}
  BY <1>2 DEF InFlight, Init
<1>4. Back = {}
  BY <1>3 DEF Back
<1>5. Pool
  BY <1>3, <1>4 DEF Pool, OnePlace, PoolIsUndecided, PoolIsLocal, NobodyElseRuns
<1>6. \A i \in Items, s \in Steps : ran[i][s] = 0
  BY DEF Init
<1>7. AtOpenStep /\ SuccessIsKept
  BY <1>2, <1>6 DEF AtOpenStep, SuccessIsKept
<1> QED BY <1>1, <1>5, <1>7 DEF IInv

LEMMA InductiveStep ==
  ASSUME IInv, [Next]_vars
  PROVE  IInv'
<1>1. TypeOK'
  BY TypeStep DEF IInv, Pool
<1>2. CASE \E i \in Items : BodyStep(i)
  BY <1>1, <1>2, BodyKeeps DEF IInv
<1>3. CASE \E i \in Items : Settle(i)
  BY <1>1, <1>3, SettleKeeps DEF IInv
<1>4. CASE PoolStep
  BY <1>1, <1>4, PoolKeeps DEF IInv
<1>5. CASE RunStep
  BY <1>1, <1>5, RunKeeps DEF IInv
<1>6. CASE UNCHANGED vars
  <2>1. UNCHANGED <<fork, waiting, again, journal, iterationStatus, run, ran, unobserved>>
    BY <1>6 DEF vars, kept, pool, history
  <2>2. InFlight' = InFlight
    BY <2>1 DEF InFlight
  <2> QED BY <1>1, <2>1, <2>2, SamePool DEF IInv, AtOpenStep, SuccessIsKept
<1> QED BY <1>2, <1>3, <1>4, <1>5, <1>6 DEF Next, ProcessStep

LEMMA Inductive == Spec => []IInv
<1> QED BY InductiveInit, InductiveStep, PTL DEF Spec

-----------------------------------------------------------------------------
(* What a step changes: the facts that the other invariants rest on *)

RunsAlone == settings.concurrency = 1

\* A step that waits for a resume of its own.
Waits(i, s) == journal[i][s] = "PAUSED" /\ <<i, s>> \notin cutOff

\* A step of the body of i: what it writes, where it leaves the iteration, and
\* with which verdict.
LEMMA BodyOutcome ==
  ASSUME TypeOK, NEW i \in Items, BodyStep(i)
  PROVE  /\ UNCHANGED <<settings, kept, pool, run, overlooked, granted, collectFailed>>
         /\ i \in InFlight /\ fork[i].pc = "body" /\ InFlight' = InFlight
         /\ \A j \in Items : j # i => fork'[j] = fork[j] /\ journal'[j] = journal[j]
         /\ \E s \in Steps :
              /\ Runs(i, s)
              /\ \A t \in Steps : t # s => journal'[i][t] = journal[i][t]
              /\ \/ foreign' = foreign
                 \/ /\ foreign' = foreign \cup {i} /\ Waits(i, s) /\ run.item # i
              /\ \A j \in Items, t \in Steps :
                   j # i \/ t # s => (<<j, t>> \in cutOff' <=> <<j, t>> \in cutOff)
              /\ \/ /\ fork'[i] = Reach(journal[i], s + 1)
                    /\ journal'[i][s] \in {"SUCCEEDED", "FAILED"}
                 \/ /\ fork'[i].pc = "over"
                    /\ fork'[i].verdict \in {"FAILED", "LIMITED", "LOG_SIZE_EXCEEDED"}
                    /\ journal'[i][s] = "FAILED"
                 \/ /\ fork'[i].pc = "over" /\ fork'[i].verdict = "PAUSED"
                    /\ journal'[i][s] = "PAUSED" /\ RunsAlone
                 \/ /\ fork'[i].pc = "over" /\ fork'[i].verdict = "SUCCEEDED"
                    /\ journal'[i][s] = "SUCCEEDED"
                 \/ /\ fork'[i].pc = "over" /\ fork'[i].verdict = "ENGINE_ERROR"
                    /\ journal' = journal
<1> PICK s \in Steps :
      \/ StepSucceeds(i, s) \/ StepFails(i, s) \/ StepIsLimited(i, s)
      \/ StepPauses(i, s) \/ StepStops(i, s) \/ StepOutgrowsTheLog(i, s)
      \/ StepBreaks(i, s)
  BY DEF BodyStep
<1>1. Runs(i, s) /\ i \in InFlight /\ fork[i].pc = "body"
  BY BodyWrites DEF Runs, InFlight
<1>2. InFlight' = InFlight /\ \A j \in Items : j # i => fork'[j] = fork[j]
  BY BodyWrites, BodyEffect
<1>3. \A v \in Verdicts \cup {"LIMITED", "ENGINE_ERROR"} :
        Ends(i, v) => fork'[i].pc = "over" /\ fork'[i].verdict = v
  BY DEF Ends, TypeOK, Forks
<1>4. GoesOn(i, s) => fork'[i] = Reach(journal[i], s + 1)
  BY DEF GoesOn, TypeOK, Forks
<1>5. ASSUME NEW v \in {"SUCCEEDED", "FAILED", "PAUSED"}, Write(i, s, v)
      PROVE  /\ UNCHANGED <<settings, kept, pool, run, overlooked, granted, collectFailed>>
             /\ journal'[i][s] = v
             /\ \A t \in Steps : t # s => journal'[i][t] = journal[i][t]
             /\ \A j \in Items : j # i => journal'[j] = journal[j]
             /\ \/ foreign' = foreign
                \/ foreign' = foreign \cup {i} /\ Waits(i, s) /\ run.item # i
             /\ \A j \in Items, t \in Steps :
                  j # i \/ t # s => (<<j, t>> \in cutOff' <=> <<j, t>> \in cutOff)
  BY <1>5 DEF Write, Waits, TypeOK, Journals, Bodies
<1>6. ASSUME NEW v \in {"FAILED", "LIMITED"}, FailsWith(i, s, v)
      PROVE  /\ Write(i, s, "FAILED")
             /\ \/ fork'[i] = Reach(journal[i], s + 1)
                \/ fork'[i].pc = "over" /\ fork'[i].verdict = v
  BY <1>3, <1>4, <1>6 DEF FailsWith, Verdicts
<1>7. CASE StepSucceeds(i, s)
  BY <1>1, <1>2, <1>4, <1>5, <1>7 DEF StepSucceeds
<1>8. CASE StepFails(i, s)
  BY <1>1, <1>2, <1>5, <1>6, <1>8 DEF StepFails
<1>9. CASE StepIsLimited(i, s)
  BY <1>1, <1>2, <1>5, <1>6, <1>9 DEF StepIsLimited
<1>10. CASE StepPauses(i, s)
  <2>1. CASE PauseRefused
    BY <1>1, <1>2, <1>5, <1>6, <1>10, <2>1 DEF StepPauses
  <2>2. CASE ~PauseRefused
    <3>1. RunsAlone
      BY <2>2, SettingTypes DEF PauseRefused, RunsAlone, TypeOK, SettingsType
    <3>2. Write(i, s, "PAUSED") /\ Ends(i, "PAUSED")
      BY <1>10, <2>2 DEF StepPauses
    <3> QED BY <1>1, <1>2, <1>3, <1>5, <3>1, <3>2 DEF Verdicts
  <2> QED BY <2>1, <2>2
<1>11. CASE StepStops(i, s)
  BY <1>1, <1>2, <1>3, <1>5, <1>11 DEF StepStops, Verdicts
<1>12. CASE StepOutgrowsTheLog(i, s)
  BY <1>1, <1>2, <1>3, <1>5, <1>12 DEF StepOutgrowsTheLog, Verdicts
<1>13. CASE StepBreaks(i, s)
  BY <1>1, <1>2, <1>3, <1>13 DEF StepBreaks, Verdicts, history
<1> QED BY <1>7, <1>8, <1>9, <1>10, <1>11, <1>12, <1>13

\* Where the items that may be started are.
LEMMA DispatchOutcome ==
  ASSUME TypeOK, OnePlace, NEW i \in Items, Dispatch(i)
  PROVE  /\ UNCHANGED <<settings, journal, iterationStatus, failures, checkpoint, terminal,
                        reason, paused, retries, finished, run, history>>
         /\ CanDispatch /\ dispatched'
         /\ fork'[i] = Reach(journal[i], 1) /\ InFlight' = InFlight \cup {i}
         /\ \A j \in Items : j # i => fork'[j] = fork[j]
         /\ i \notin waiting' /\ i \notin Back'
         /\ waiting \cup Back = waiting' \cup Back' \cup {i}
         /\ waiting' \subseteq waiting /\ Back' \subseteq Back
         /\ Back = {} => i \in waiting /\ (\A j \in waiting : i <= j)
         /\ Back # {} => i \in Back
<1>1. /\ UNCHANGED <<settings, journal, iterationStatus, failures, checkpoint, terminal,
                     reason, paused, retries, finished, run, history>>
      /\ CanDispatch /\ dispatched'
  BY DEF Dispatch
<1>2. /\ fork'[i] = Reach(journal[i], 1) /\ \A j \in Items : j # i => fork'[j] = fork[j]
  BY DEF Dispatch, TypeOK, Forks
<1>3. InFlight' = InFlight \cup {i}
  <2>1. journal[i] \in Bodies /\ 1 \in Nat \ {0}
    BY JournalTypes DEF TypeOK
  <2>2. Reach(journal[i], 1).pc # "off"
    BY <2>1, ReachType
  <2> QED BY <1>2, <2>2 DEF InFlight
<1>4. CASE again # <<>>
  <2>1. /\ Head(again) \in Back
        /\ \A p \in DOMAIN Tail(again) :
             Tail(again)[p] \in Back /\ Tail(again)[p] # Head(again)
        /\ \A j \in Back :
             j = Head(again) \/ \E p \in DOMAIN Tail(again) : Tail(again)[p] = j
    BY <1>4, BackHead DEF TypeOK, OnePlace
  <2>2. i = Head(again) /\ again' = Tail(again) /\ waiting' = waiting
    BY <1>4 DEF Dispatch, Shift
  <2>3. Back = Back' \cup {i} /\ i \notin Back' /\ i \in Back
    BY <2>1, <2>2 DEF Back
  <2>4. i \notin waiting
    BY <2>3 DEF OnePlace
  <2> QED BY <1>1, <1>2, <1>3, <2>2, <2>3, <2>4
<1>5. CASE again = <<>>
  <2>1. /\ i \in waiting /\ (\A j \in waiting : i <= j) /\ waiting' = waiting \ {i}
        /\ again' = <<>>
    BY <1>5 DEF Dispatch, Shift
  <2>2. Back = {} /\ Back' = {}
    BY <1>5, <2>1 DEF Back
  <2> QED BY <1>1, <1>2, <1>3, <2>1, <2>2
<1> QED BY <1>4, <1>5

\* A rate-limited item goes back to the head of the line.
LEMMA AgainOutcome ==
  ASSUME TypeOK, OnePlace, NEW i \in Items, RetryLimited(i)
  PROVE  /\ UNCHANGED <<settings, kept, waiting, terminal, reason, paused, run, ran, foreign, cutOff,
                        overlooked, collectFailed>>
         /\ Looping /\ terminal = "none" /\ finished'
         /\ fork[i].pc = "over" /\ fork[i].verdict = "LIMITED" /\ fork'[i].pc = "off"
         /\ i \in InFlight /\ i \notin Back /\ i \notin waiting
         /\ InFlight' = InFlight \ {i} /\ Back' = Back \cup {i}
         /\ \A j \in Items : j # i => /\ fork'[j] = fork[j] /\ journal'[j] = journal[j]
                                      /\ retries'[j] = retries[j] /\ granted'[j] = granted[j]
         /\ \A s \in Steps :
              journal'[i][s] = IF journal[i][s] = "FAILED" THEN "none" ELSE journal[i][s]
         /\ retries[i] < settings.maxRetries /\ retries'[i] = retries[i] + 1
         /\ granted'[i] <= granted[i] + 1
<1>1. /\ UNCHANGED <<settings, kept, waiting, terminal, reason, paused, run, ran, foreign, cutOff,
                     overlooked, collectFailed>>
      /\ Looping /\ terminal = "none" /\ finished'
      /\ fork[i].pc = "over" /\ fork[i].verdict = "LIMITED"
      /\ fork' = [fork EXCEPT ![i] = Off] /\ again' = <<i>> \o again
      /\ retries[i] < settings.maxRetries
  BY DEF RetryLimited, Settles
<1>2. i \in InFlight /\ i \notin Back /\ i \notin waiting
  BY <1>1 DEF InFlight, OnePlace
<1>3. /\ InFlight' = InFlight \ {i} /\ fork'[i].pc = "off"
      /\ \A j \in Items : j # i => fork'[j] = fork[j]
  BY <1>1, LeavesFlight
<1>4. Back' = Back \cup {i}
  <2>1. again \in Seq(Items) /\ \A p, q \in DOMAIN again : again[p] = again[q] => p = q
    BY DEF TypeOK, OnePlace
  <2> DEFINE new == <<i>> \o again
  <2>2. /\ \A p \in DOMAIN new : new[p] = i \/ new[p] \in Back
        /\ \A j \in Back \cup {i} : \E p \in DOMAIN new : new[p] = j
    BY <1>2, <2>1, BackCons
  <2>3. again' = new
    BY <1>1
  <2> HIDE DEF new
  <2> QED BY <2>2, <2>3 DEF Back
<1>5. /\ \A j \in Items : j # i => journal'[j] = journal[j]
      /\ \A s \in Steps :
           journal'[i][s] = IF journal[i][s] = "FAILED" THEN "none" ELSE journal[i][s]
  BY DEF RetryLimited, DropFailed, TypeOK, Journals
<1>6. /\ \A j \in Items : j # i => retries'[j] = retries[j] /\ granted'[j] = granted[j]
      /\ retries'[i] = retries[i] + 1
      /\ granted'[i] <= granted[i] + 1
  <2>1. retries \in [Items -> Nat] /\ granted \in [Items -> Nat] /\ settings.maxRetries \in Nat
    BY SettingTypes DEF TypeOK, Counts
  <2>2. /\ retries' = [retries EXCEPT ![i] = @ + 1]
        /\ granted' = [granted EXCEPT ![i] = IF @ <= settings.maxRetries THEN @ + 1 ELSE @]
    BY DEF RetryLimited
  <2> QED BY <2>1, <2>2
<1> QED BY <1>1, <1>2, <1>3, <1>4, <1>5, <1>6

\* An item that is over leaves the pool.
LEMMA SettledOutcome ==
  ASSUME TypeOK, OnePlace, NEW i \in Items, Settles(i), NEW w \in Verdicts, Settled(i, w)
  PROVE  /\ UNCHANGED <<settings, loopStatus, checkpoint, waiting, again, reason, dispatched,
                        run, ran, foreign, cutOff, overlooked, granted>>
         /\ Looping /\ fork[i].pc = "over" /\ fork'[i].pc = "off" /\ i \in InFlight
         /\ i \notin Back' /\ i \notin waiting' /\ i \notin InFlight'
         /\ InFlight' = InFlight \ {i} /\ Back' = Back
         /\ \A j \in Items : j # i => fork'[j] = fork[j]
         /\ terminal' = Outranking(w) /\ finished'
<1>1. /\ UNCHANGED <<settings, loopStatus, checkpoint, waiting, again, reason, dispatched,
                     run, ran, foreign, cutOff, overlooked, granted>>
      /\ Looping /\ fork[i].pc = "over" /\ fork' = [fork EXCEPT ![i] = Off]
      /\ terminal' = Outranking(w) /\ finished'
  BY DEF Settled, Settles
<1>2. /\ InFlight' = InFlight \ {i} /\ fork'[i].pc = "off"
      /\ \A j \in Items : j # i => fork'[j] = fork[j]
  BY <1>1, LeavesFlight
<1>3. i \in InFlight /\ i \notin Back /\ i \notin waiting
  BY <1>1 DEF InFlight, OnePlace
<1>4. Back' = Back
  BY <1>1 DEF Back
<1> QED BY <1>1, <1>2, <1>3, <1>4

LEMMA RecordOutcome ==
  ASSUME TypeOK, NEW i \in Items, NEW v \in {"SUCCEEDED", "FAILED"}, Record(i, v)
  PROVE  /\ iterationStatus'[i] = v /\ retries'[i] = 0
         /\ \A j \in Items : j # i => /\ iterationStatus'[j] = iterationStatus[j]
                                      /\ journal'[j] = journal[j] /\ retries'[j] = retries[j]
         /\ v = "FAILED" => journal' = journal
         /\ \A s \in Steps : journal'[i][s] \in {journal[i][s], "none"}
<1>1. /\ \A j \in Items : j # i => iterationStatus'[j] = iterationStatus[j]
      /\ iterationStatus'[i] = v
  BY DEF Record, TypeOK, Statuses
<1>2. /\ \A j \in Items : j # i => retries'[j] = retries[j]
      /\ retries'[i] = 0
  BY DEF Record, TypeOK, Counts
<1>3. /\ v = "FAILED" => journal' = journal
      /\ journal' \in {journal, [journal EXCEPT ![i] = Blank]}
  BY DEF Record
<1>4. /\ \A j \in Items : j # i => journal'[j] = journal[j]
      /\ \A s \in Steps : journal'[i][s] \in {journal[i][s], "none"}
  BY <1>3 DEF TypeOK, Journals, Blank
<1> QED BY <1>1, <1>2, <1>3, <1>4

\* The verdict that ends the loop: the first one, or a later one that outranks it.
LEMMA OutrankingIs ==
  ASSUME NEW w \in Verdicts, terminal \in Verdicts \cup {"none"}, terminal # "RUNNING"
  PROVE  /\ Outranking(w) \in {w, terminal} /\ Outranking(w) # "RUNNING"
         /\ Outranking(w) = "none" => terminal = "none" /\ ~EndsTheLoop(w)
         /\ terminal = "none" /\ EndsTheLoop(w) => Outranking(w) = w
         /\ w \in {"FAILED", "LOG_SIZE_EXCEEDED"} /\ EndsTheLoop(w)
              => Outranking(w) \notin {"none", "PAUSED"}
         /\ w = "PAUSED" /\ Outranking(w) = "PAUSED" => terminal \in {"none", "PAUSED"}
<1>1. /\ Rank["none"] = 0 /\ Rank["PAUSED"] = 1 /\ Rank["SUCCEEDED"] = 2
      /\ Rank["FAILED"] = 3 /\ Rank["LOG_SIZE_EXCEEDED"] = 4 /\ Rank["RUNNING"] = 0
  BY DEF Rank
<1>2. /\ w \in {"RUNNING", "PAUSED", "SUCCEEDED", "FAILED", "LOG_SIZE_EXCEEDED"}
      /\ terminal \in {"none", "PAUSED", "SUCCEEDED", "FAILED", "LOG_SIZE_EXCEEDED"}
  BY DEF Verdicts
<1>3. EndsTheLoop(w) => w # "RUNNING"
  BY DEF EndsTheLoop
<1>4. Outranking(w) = IF EndsTheLoop(w) /\ Rank[w] > Rank[terminal] THEN w ELSE terminal
  BY DEF Outranking
<1>5. EndsTheLoop(w) \in BOOLEAN
  BY DEF EndsTheLoop
<1> QED BY <1>1, <1>2, <1>3, <1>4, <1>5

\* The end of an execution of the loop, whichever it is.
LEMMA ExitOutcome ==
  ASSUME TypeOK, terminal # "RUNNING",
         ReturnVerdict \/ TakeCheckpoint \/ CheckpointBreaks \/ LoopOutgrowsTheLog
  PROVE  /\ UNCHANGED <<settings, journal, fork, iterationStatus, failures, history>>
         /\ Leave /\ Looping /\ InFlight = {} /\ InFlight' = {}
         /\ terminal = "none" /\ reason = "none" => waiting = {} /\ Back = {}
         /\ \/ /\ run'.pc = "after" /\ terminal = "none" /\ waiting = {} /\ Back = {}
              /\ ContinueVerdict = "RUNNING"
            \/ /\ run'.pc = "paused" /\ run'.on = "item" /\ run'.item = paused
              /\ terminal = "PAUSED"
            \/ /\ run'.pc = "paused" /\ run'.on = "loop" /\ terminal = "none"
              /\ loopStatus' = "PAUSED" /\ checkpoint'.retries = retries
            \/ /\ run'.pc = "ended" /\ run'.on = "none"
              /\ \/ terminal # "PAUSED" \/ loopStatus' = "FAILED"
                 \/ run'.verdict = "INTERNAL_ERROR"
            \/ run'.pc = "ended" /\ run'.verdict = "INTERNAL_ERROR"
<1>1. /\ UNCHANGED <<settings, journal, fork, iterationStatus, failures, history>>
      /\ Leave /\ Done
  BY DEF ReturnVerdict, TakeCheckpoint, CheckpointBreaks, LoopOutgrowsTheLog, kept
<1>2. InFlight = {} /\ InFlight' = {} /\ Looping /\ ~CanDispatch
  BY <1>1 DEF Done, InFlight
<1>3. terminal = "none" /\ reason = "none" => waiting = {} /\ Back = {}
  <2>1. Cardinality(InFlight) < settings.concurrency
    <3>1. Cardinality(InFlight) = 0
      BY <1>2, FS_EmptySet
    <3>2. settings.concurrency \in Nat \ {0}
      BY SettingTypes DEF TypeOK, SettingsType
    <3> QED BY <3>1, <3>2
  <2> QED BY <1>2, <2>1 DEF CanDispatch, Pending, Back
<1>4. terminal = "none" /\ ~Checkpoints => waiting = {} /\ Back = {}
  BY <1>3 DEF Checkpoints, Pending, Back
<1>5. CASE ReturnVerdict
  <2>1. /\ Takes(Verdict, "item", IF Verdict = "PAUSED" THEN paused ELSE 0)
        /\ ~(Checkpoints /\ ~settings.inline)
    BY <1>5 DEF ReturnVerdict
  <2>2. Verdict \in Verdicts
    BY VerdictType
  <2>3. CASE Verdict = "RUNNING"
    <3>1. terminal = "none" /\ ~Checkpoints /\ ContinueVerdict = "RUNNING"
      BY <2>1, <2>3 DEF Verdict
    <3>2. run'.pc = "after"
      BY <2>1, <2>3 DEF Takes
    <3> QED BY <1>1, <1>2, <1>3, <1>4, <3>1, <3>2
  <2>4. CASE Verdict = "PAUSED"
    <3>1. terminal = "PAUSED"
      BY <2>1, <2>4 DEF Verdict, ContinueVerdict
    <3>2. run'.pc = "paused" /\ run'.on = "item" /\ run'.item = paused
      BY <2>1, <2>4 DEF Takes
    <3> QED BY <1>1, <1>2, <1>3, <3>1, <3>2
  <2>5. CASE Verdict \notin {"RUNNING", "PAUSED"}
    <3>1. terminal # "PAUSED"
      BY <2>5 DEF Verdict
    <3>2. run'.pc = "ended" /\ run'.on = "none"
      BY <2>1, <2>5 DEF Takes
    <3> QED BY <1>1, <1>2, <1>3, <3>1, <3>2
  <2> QED BY <2>3, <2>4, <2>5
<1>6. CASE TakeCheckpoint
  <2>1. /\ terminal = "none" /\ loopStatus' = "PAUSED" /\ checkpoint'.retries = retries
        /\ run'.pc = "paused" /\ run'.on = "loop"
    BY <1>6 DEF TakeCheckpoint, Checkpoints, Carried, Takes
  <2> QED BY <1>1, <1>2, <1>3, <2>1
<1>7. CASE CheckpointBreaks
  <2>1. run'.pc = "ended" /\ run'.verdict = "INTERNAL_ERROR"
    BY <1>7 DEF CheckpointBreaks, Lost, TypeOK, RunStates
  <2> QED BY <1>1, <1>2, <1>3, <2>1
<1>8. CASE LoopOutgrowsTheLog
  <2>1. run'.pc = "ended" /\ run'.on = "none" /\ loopStatus' = "FAILED"
    BY <1>8 DEF LoopOutgrowsTheLog, Takes
  <2> QED BY <1>1, <1>2, <1>3, <2>1
<1> QED BY <1>5, <1>6, <1>7, <1>8

\* A waitpoint restores the journal as it was, a retry without what failed.
LEMMA RestoredIs ==
  ASSUME TypeOK
  PROVE  /\ Restored(TRUE) = journal
         /\ \A i \in Items, s \in Steps :
              Restored(FALSE)[i][s] =
                IF iterationStatus[i] # "SUCCEEDED" /\ journal[i][s] = "FAILED"
                THEN "none" ELSE journal[i][s]
BY DEF Restored, DropFailed, TypeOK, Journals, Bodies

\* An execution that is lost takes the pool with it.
LEMMA LostOutcome ==
  ASSUME TypeOK, EngineLost
  PROVE  /\ UNCHANGED <<settings, journal, kept, history>> /\ Leave
         /\ run'.pc = "ended" /\ run'.verdict = "INTERNAL_ERROR"
         /\ Back' = {} /\ InFlight' = {}
<1>1. run'.pc = "ended" /\ run'.verdict = "INTERNAL_ERROR"
  BY DEF EngineLost, Lost, TypeOK, RunStates
<1>2. fork' = [i \in Items |-> Off] /\ Leave
  BY DEF EngineLost
<1>3. InFlight' = {} /\ Back' = {}
  BY <1>2, NobodyFlies DEF Leave, Back
<1> QED BY <1>1, <1>2, <1>3 DEF EngineLost

\* Another step of the run around the loop: nothing is in the pool before it.
LEMMA RunOutcome ==
  ASSUME TypeOK, Pool, RunStep, ~EngineLost
  PROVE  /\ UNCHANGED <<settings, terminal, reason, paused, finished, dispatched>>
         /\ ~Looping /\ run.pc # "unwinding" /\ (run.pc # "ended" => InFlight = {})
         /\ waiting = {} /\ Back = {} /\ Back' = {} /\ InFlight' = {}
<1>1. /\ UNCHANGED <<settings, again, terminal, reason, paused, finished, dispatched>>
      /\ run.pc \in {"queued", "paused", "after", "ended"}
      /\ fork' = [i \in Items |-> Off] \/ (fork' = fork /\ run.pc = "after")
  BY DEF RunStep, Begin, Resume, EntryFails, FlowEnds, LaterStep, RetryFromFailedStep,
         RetryFromScratch, Retryable, Enter, pool, kept
<1>2. /\ ~Looping /\ run.pc # "unwinding" /\ waiting = {} /\ again = <<>>
      /\ run.pc # "ended" => InFlight = {}
  BY <1>1, OutsideTheLoop DEF Looping
<1>3. Back = {} /\ Back' = {}
  BY <1>1, <1>2 DEF Back
<1>4. InFlight' = {}
  <2>1. CASE fork' = [i \in Items |-> Off]
    BY <2>1, NobodyFlies
  <2>2. CASE fork' = fork /\ run.pc = "after"
    BY <1>2, <2>2 DEF InFlight
  <2> QED BY <1>1, <2>1, <2>2
<1> QED BY <1>1, <1>2, <1>3, <1>4

-----------------------------------------------------------------------------
(* The verdict of an iteration is in its body *)

\* An iteration that failed has a FAILED step, one that paused has a PAUSED one, and
\* does not pause beside others.
VerdictsAreWritten ==
  \A i \in Items : fork[i].pc = "over" =>
    /\ fork[i].verdict \in {"FAILED", "LIMITED", "LOG_SIZE_EXCEEDED"} => Has(i, "FAILED")
    /\ fork[i].verdict = "PAUSED" => Has(i, "PAUSED") /\ RunsAlone

\* The locals of the loop are fresh whenever it is entered.
LocalsAreFresh ==
  /\ terminal # "RUNNING"
  /\ ~Looping => /\ terminal = "none" /\ reason = "none" /\ paused = 0
                 /\ ~finished /\ ~dispatched

LEMMA SameVerdicts ==
  ASSUME VerdictsAreWritten, UNCHANGED settings,
         \A j \in Items : /\ fork'[j].pc = "over" => fork'[j] = fork[j]
                          /\ fork'[j].pc = "over" => journal'[j] = journal[j]
  PROVE  VerdictsAreWritten'
BY DEF VerdictsAreWritten, Has, RunsAlone

LEMMA VerdictsBody ==
  ASSUME TypeOK, VerdictsAreWritten, LocalsAreFresh, NEW i \in Items, BodyStep(i)
  PROVE  VerdictsAreWritten' /\ LocalsAreFresh'
<1>1. LocalsAreFresh'
  BY BodyOutcome DEF LocalsAreFresh, Looping, pool
<1>2. \A j \in Items : j # i => fork'[j] = fork[j] /\ journal'[j] = journal[j]
  BY BodyOutcome
<1>3. fork'[i].pc = "over" =>
        /\ fork'[i].verdict \in {"FAILED", "LIMITED", "LOG_SIZE_EXCEEDED"} =>
             \E s \in Steps : journal'[i][s] = "FAILED"
        /\ fork'[i].verdict = "PAUSED" => (\E s \in Steps : journal'[i][s] = "PAUSED") /\ RunsAlone
  <2>1. PICK s \in Steps :
          \/ fork'[i] = Reach(journal[i], s + 1)
          \/ fork'[i].verdict \in {"FAILED", "LIMITED", "LOG_SIZE_EXCEEDED"}
             /\ journal'[i][s] = "FAILED"
          \/ fork'[i].verdict = "PAUSED" /\ journal'[i][s] = "PAUSED" /\ RunsAlone
          \/ fork'[i].verdict \in {"SUCCEEDED", "ENGINE_ERROR"}
    BY BodyOutcome
  <2>2. Reach(journal[i], s + 1).verdict = "RUNNING"
    <3>1. journal[i] \in Bodies /\ s + 1 \in Nat \ {0}
      BY JournalTypes DEF TypeOK
    <3> QED BY <3>1, ReachType
  <2> QED BY <2>1, <2>2
<1>4. settings' = settings
  BY BodyOutcome
<1> QED BY <1>1, <1>2, <1>3, <1>4 DEF VerdictsAreWritten, Has, RunsAlone

LEMMA VerdictsSettle ==
  ASSUME TypeOK, Pool, VerdictsAreWritten, LocalsAreFresh, NEW i \in Items, Settle(i)
  PROVE  VerdictsAreWritten' /\ LocalsAreFresh'
<1> USE DEF Pool
<1>1. CASE RetryLimited(i)
  <2>1. VerdictsAreWritten'
    BY <1>1, AgainOutcome, SameVerdicts
  <2> QED BY <1>1, <2>1, AgainOutcome DEF LocalsAreFresh, Looping
<1>2. ASSUME Settles(i), NEW w \in Verdicts, Settled(i, w),
             \A j \in Items : j # i => journal'[j] = journal[j]
      PROVE  VerdictsAreWritten' /\ LocalsAreFresh'
  <2>1. VerdictsAreWritten'
    BY <1>2, SettledOutcome, SameVerdicts
  <2>2. terminal' # "RUNNING"
    BY <1>2, SettledOutcome, OutrankingIs DEF LocalsAreFresh, TypeOK
  <2> QED BY <1>2, <2>1, <2>2, SettledOutcome DEF LocalsAreFresh, Looping
<1>3. CASE SettlePaused(i)
  BY <1>2, <1>3 DEF SettlePaused, Verdicts
<1>4. CASE SettleFailed(i) \/ SettleSucceeded(i) \/ FailToCollect(i)
  <2>1. PICK v \in {"SUCCEEDED", "FAILED"}, w \in Verdicts :
          Settles(i) /\ Record(i, v) /\ Settled(i, w)
    BY <1>4 DEF SettleFailed, SettleSucceeded, FailToCollect, Verdicts
  <2> QED BY <1>2, <2>1, RecordOutcome
<1>5. CASE CollectBreaks(i) \/ Unwind(i)
  <2>1. /\ Leave /\ journal' = journal /\ settings' = settings
        /\ \A j \in Items : fork'[j] = fork[j] \/ fork'[j].pc = "off"
    BY <1>5 DEF CollectBreaks, Unwind, TypeOK, Forks, Off
  <2>2. VerdictsAreWritten'
    BY <2>1, SameVerdicts
  <2> QED BY <2>1, <2>2 DEF LocalsAreFresh, Leave
<1> QED BY <1>1, <1>3, <1>4, <1>5 DEF Settle

LEMMA VerdictsPool ==
  ASSUME TypeOK, Pool, VerdictsAreWritten, LocalsAreFresh, PoolStep
  PROVE  VerdictsAreWritten' /\ LocalsAreFresh'
<1> USE DEF Pool
<1>1. CASE NeedsCheckpoint \/ SpacingOutlastsBudget
  <2>1. /\ UNCHANGED <<settings, fork, journal, run>> /\ Looping /\ terminal' # "RUNNING"
    BY <1>1 DEF NeedsCheckpoint, SpacingOutlastsBudget, CanDispatch, LocalsAreFresh
  <2>2. VerdictsAreWritten'
    BY <2>1, SameVerdicts
  <2> QED BY <2>1, <2>2 DEF LocalsAreFresh, Looping
<1>2. CASE \E i \in Items : Dispatch(i)
  <2> PICK i \in Items : Dispatch(i)
    BY <1>2
  <2>1. /\ UNCHANGED <<settings, journal, terminal, run>> /\ CanDispatch
        /\ fork'[i] = Reach(journal[i], 1)
        /\ \A j \in Items : j # i => fork'[j] = fork[j]
    BY DispatchOutcome
  <2>2. Reach(journal[i], 1).verdict = "RUNNING"
    <3>1. journal[i] \in Bodies /\ 1 \in Nat \ {0}
      BY JournalTypes DEF TypeOK
    <3> QED BY <3>1, ReachType
  <2>3. VerdictsAreWritten'
    BY <2>1, <2>2 DEF VerdictsAreWritten, Has, RunsAlone
  <2> QED BY <2>1, <2>3 DEF LocalsAreFresh, CanDispatch, Looping
<1>3. CASE ReturnVerdict \/ TakeCheckpoint \/ CheckpointBreaks \/ LoopOutgrowsTheLog
  <2>1. UNCHANGED <<settings, journal, fork>> /\ Leave
    BY <1>3, ExitOutcome DEF LocalsAreFresh
  <2>2. VerdictsAreWritten'
    BY <2>1, SameVerdicts
  <2> QED BY <2>1, <2>2 DEF LocalsAreFresh, Leave
<1>4. CASE Unwound
  <2>1. /\ UNCHANGED <<settings, journal, pool>> /\ ~Looping
        /\ \A j \in Items : fork'[j] = fork[j] \/ fork'[j].pc = "off"
    BY <1>4 DEF Unwound, Looping, Off
  <2>2. VerdictsAreWritten'
    BY <2>1, SameVerdicts
  <2> QED BY <2>1, <2>2 DEF LocalsAreFresh, pool
<1> QED BY <1>1, <1>2, <1>3, <1>4 DEF PoolStep

LEMMA VerdictsStep ==
  ASSUME IInv, VerdictsAreWritten, LocalsAreFresh, [Next]_vars
  PROVE  VerdictsAreWritten' /\ LocalsAreFresh'
<1> USE DEF IInv
<1>1. CASE \E i \in Items : BodyStep(i)
  BY <1>1, VerdictsBody
<1>2. CASE \E i \in Items : Settle(i)
  BY <1>2, VerdictsSettle
<1>3. CASE PoolStep
  BY <1>3, VerdictsPool
<1>4. CASE RunStep
  <2>1. InFlight' = {}
    BY <1>4, RunOutcome, LostOutcome
  <2>2. LocalsAreFresh'
    <3>1. CASE EngineLost
      BY <3>1, LostOutcome DEF LocalsAreFresh, Leave
    <3>2. CASE ~EngineLost
      BY <1>4, <3>2, RunOutcome DEF LocalsAreFresh
    <3> QED BY <3>1, <3>2
  <2>3. \A j \in Items : fork'[j].pc # "over"
    BY <2>1 DEF InFlight
  <2> QED BY <2>2, <2>3 DEF VerdictsAreWritten
<1>5. CASE UNCHANGED vars
  BY <1>5 DEF vars, pool, VerdictsAreWritten, LocalsAreFresh, Has, RunsAlone, Looping
<1> QED BY <1>1, <1>2, <1>3, <1>4, <1>5 DEF Next, ProcessStep

LEMMA VerdictsInit == Init => VerdictsAreWritten /\ LocalsAreFresh
<1> SUFFICES ASSUME Init PROVE VerdictsAreWritten /\ LocalsAreFresh
  OBVIOUS
<1>1. \A i \in Items : fork[i].pc = "off"
  BY DEF Init, Off
<1>2. VerdictsAreWritten
  BY <1>1 DEF VerdictsAreWritten
<1> QED BY <1>2 DEF Init, LocalsAreFresh

\* What the invariants of the following sections start from.
Base == IInv /\ VerdictsAreWritten /\ LocalsAreFresh

LEMMA BaseIsInvariant == Spec => []Base
<1>1. Init => VerdictsAreWritten /\ LocalsAreFresh
  BY VerdictsInit
<1>2. IInv /\ VerdictsAreWritten /\ LocalsAreFresh /\ [Next]_vars
        => VerdictsAreWritten' /\ LocalsAreFresh'
  BY VerdictsStep
<1>3. IInv /\ VerdictsAreWritten /\ LocalsAreFresh => Base
  BY DEF Base
<1> QED BY <1>1, <1>2, <1>3, Inductive, PTL DEF Spec

-----------------------------------------------------------------------------
(* The cases of what becomes of an iteration that is over *)

\* It is sent back; or it leaves the pool paused, failed or done; or the loop breaks.
Resent(i) == RetryLimited(i)

LeavesPaused(i) ==
  /\ Settles(i) /\ Settled(i, "PAUSED") /\ fork[i].verdict = "PAUSED" /\ paused' = i
  /\ UNCHANGED <<journal, iterationStatus, failures, retries, collectFailed>>

LeavesFailed(i) ==
  /\ Settles(i) /\ Record(i, "FAILED") /\ paused' = paused
  /\ \E w \in {"FAILED", "LOG_SIZE_EXCEEDED"} : Settled(i, w)
  /\ \/ collectFailed'
     \/ /\ fork[i].verdict \in {"FAILED", "LIMITED", "LOG_SIZE_EXCEEDED"}
        /\ collectFailed' = collectFailed

LeavesDone(i) ==
  /\ Settles(i) /\ Record(i, "SUCCEEDED") /\ paused' = paused
  /\ fork[i].verdict \in {"RUNNING", "SUCCEEDED"} /\ Settled(i, fork[i].verdict)
  /\ collectFailed' = collectFailed

Breaks(i) ==
  /\ Settles(i) /\ Looping /\ Leave
  /\ \/ run'.pc = "unwinding"
     \/ run'.pc = "ended" /\ run'.verdict = "INTERNAL_ERROR"
  /\ \A j \in Items : fork'[j] = fork[j] \/ fork'[j].pc = "off"
  /\ UNCHANGED <<settings, journal, iterationStatus, failures, foreign, cutOff, overlooked, granted,
                 collectFailed>>

LEMMA SettleCases ==
  ASSUME TypeOK, NEW i \in Items, Settle(i)
  PROVE  Resent(i) \/ LeavesPaused(i) \/ LeavesFailed(i) \/ LeavesDone(i) \/ Breaks(i)
<1>1. CASE RetryLimited(i)
  BY <1>1 DEF Resent
<1>2. CASE SettlePaused(i)
  BY <1>2 DEF SettlePaused, LeavesPaused
<1>3. CASE SettleFailed(i)
  BY <1>3 DEF SettleFailed, LeavesFailed
<1>4. CASE SettleSucceeded(i)
  BY <1>4 DEF SettleSucceeded, LeavesDone
<1>5. CASE FailToCollect(i)
  BY <1>5 DEF FailToCollect, LeavesFailed
<1>6. CASE CollectBreaks(i)
  <2>1. run'.pc = "ended" /\ run'.verdict = "INTERNAL_ERROR"
    BY <1>6 DEF CollectBreaks, Lost, TypeOK, RunStates
  <2>2. \A j \in Items : fork'[j] = fork[j] \/ fork'[j].pc = "off"
    BY <1>6 DEF CollectBreaks, Off, TypeOK, Forks
  <2>3. Settles(i) /\ Looping
    BY <1>6 DEF CollectBreaks, Settles
  <2> QED BY <1>6, <2>1, <2>2, <2>3 DEF CollectBreaks, Breaks, kept
<1>7. CASE Unwind(i)
  <2>1. run'.pc = "unwinding"
    BY <1>7 DEF Unwind, TypeOK, RunStates
  <2>2. /\ Settles(i) /\ Leave /\ fork' = fork
        /\ UNCHANGED <<settings, journal, iterationStatus, failures, foreign, cutOff, overlooked,
                       granted, collectFailed>>
    BY <1>7 DEF Unwind, kept, history
  <2>3. Looping
    BY <2>2 DEF Settles
  <2> QED BY <2>1, <2>2, <2>3 DEF Breaks
<1> QED BY <1>1, <1>2, <1>3, <1>4, <1>5, <1>6, <1>7 DEF Settle

-----------------------------------------------------------------------------
(* The list of failures is what the statuses say *)

FailuresMatch ==
  Ascending(failures) /\ \A i \in Items : iterationStatus[i] = "FAILED" <=> Listed(failures, i)

LEMMA StatusOutcome ==
  ASSUME TypeOK, [Next]_vars
  PROVE  \/ UNCHANGED <<iterationStatus, failures>>
         \/ \E i \in Items, v \in {"SUCCEEDED", "FAILED"} : Record(i, v)
         \/ iterationStatus' = [i \in Items |-> "none"] /\ failures' = <<>>
<1>1. CASE \E i \in Items : BodyStep(i)
  BY <1>1, BodyOutcome DEF kept
<1>2. CASE \E i \in Items : Settle(i)
  <2>1. PICK i \in Items : Settle(i)
    BY <1>2
  <2> QED BY <2>1, SettleCases
          DEF Resent, LeavesPaused, LeavesFailed, LeavesDone, Breaks, RetryLimited, kept
<1>3. CASE PoolStep
  BY <1>3 DEF PoolStep, NeedsCheckpoint, SpacingOutlastsBudget, Dispatch, ReturnVerdict,
              TakeCheckpoint, CheckpointBreaks, LoopOutgrowsTheLog, Unwound, kept
<1>4. CASE RunStep
  BY <1>4 DEF RunStep, Begin, Resume, EntryFails, FlowEnds, LaterStep, RetryFromFailedStep,
              RetryFromScratch, EngineLost, Enter, kept
<1>5. CASE UNCHANGED vars
  BY <1>5 DEF vars, kept
<1> QED BY <1>1, <1>2, <1>3, <1>4, <1>5 DEF Next, ProcessStep

LEMMA FailuresInit == Init => FailuresMatch
BY DEF Init, FailuresMatch, Ascending, Listed

LEMMA FailuresStep ==
  ASSUME TypeOK, FailuresMatch, [Next]_vars
  PROVE  FailuresMatch'
<1>1. CASE UNCHANGED <<iterationStatus, failures>>
  BY <1>1 DEF FailuresMatch, Ascending, Listed
<1>2. CASE \E i \in Items, v \in {"SUCCEEDED", "FAILED"} : Record(i, v)
  <2>1. PICK i \in Items, v \in {"SUCCEEDED", "FAILED"} : Record(i, v)
    BY <1>2
  <2>2. /\ iterationStatus'[i] = v
        /\ \A j \in Items : j # i => iterationStatus'[j] = iterationStatus[j]
    BY <2>1, RecordOutcome
  <2>3. /\ Items \in SUBSET Nat /\ failures \in Seq(Items) /\ (v = "FAILED") \in BOOLEAN
        /\ failures' = Relist(failures, i, v = "FAILED")
    BY <2>1 DEF Record, TypeOK
  <2>4. Ascending(failures) /\ \A j \in Items : iterationStatus[j] = "FAILED" <=> Listed(failures, j)
    BY DEF FailuresMatch
  <2> HIDE DEF Items
  <2>5. /\ Ascending(failures')
        /\ \A j \in Items : Listed(failures', j) <=> IF j = i THEN v = "FAILED"
                                                     ELSE Listed(failures, j)
    BY <2>3, <2>4, RelistIs
  <2>6. \A j \in Items : iterationStatus'[j] = "FAILED" <=> Listed(failures', j)
    BY <2>2, <2>4, <2>5
  <2>7. Ascending(failures)' /\ \A j \in Items : Listed(failures, j)' <=> Listed(failures', j)
    BY <2>5 DEF Ascending, Listed
  <2> QED BY <2>6, <2>7 DEF FailuresMatch
<1>3. CASE iterationStatus' = [i \in Items |-> "none"] /\ failures' = <<>>
  BY <1>3 DEF FailuresMatch, Ascending, Listed
<1> QED BY <1>1, <1>2, <1>3, StatusOutcome

-----------------------------------------------------------------------------
(* An item the loop is not to enter again is decided *)

InPool == waiting \cup Back \cup InFlight

Decided(i) ==
  \/ iterationStatus[i] = "SUCCEEDED"
  \/ iterationStatus[i] = "FAILED" /\ settings.continues
  \/ Overlooked(i)

NothingBefore == run.pc = "queued" => \A i \in Items : iterationStatus[i] = "none"

\* While no verdict ends the loop, what is out of its pool is decided.
OutOfPoolIsDecided ==
  Looping /\ terminal = "none" => \A i \in Items \ InPool : Decided(i)

\* A loop that stops at its first failed item and did not stop has, out of flight, no
\* item that failed with its FAILED step but one that has paused since.
FailuresPause ==
  ~settings.continues /\ (run.pc = "paused" \/ (Looping /\ terminal \in {"none", "PAUSED"})) =>
    \A i \in Items \ InFlight :
      iterationStatus[i] = "FAILED" /\ Has(i, "FAILED") => Has(i, "PAUSED")

AfterIsDecided ==
  run.pc = "after" =>
    \A i \in Items :
      \/ iterationStatus[i] = "SUCCEEDED"
      \/ iterationStatus[i] = "FAILED" /\ settings.continues /\ settings.tolerates
      \/ Overlooked(i)

Decisions == NothingBefore /\ OutOfPoolIsDecided /\ FailuresPause /\ AfterIsDecided

\* What a step leaves of the items it does not touch.
LEMMA SameDecisions ==
  ASSUME NEW i \in Items, settings' = settings, iterationStatus'[i] = iterationStatus[i],
         journal'[i] = journal[i]
  PROVE  /\ Decided(i)' <=> Decided(i)
         /\ \A v : Has(i, v)' <=> Has(i, v)
BY DEF Decided, Overlooked, Has

LEMMA DecisionsBody ==
  ASSUME Base, Decisions, NEW i \in Items, BodyStep(i)
  PROVE  Decisions'
<1> USE DEF Base, IInv, Pool
<1>1. /\ UNCHANGED <<settings, iterationStatus, waiting, again, terminal, run>>
      /\ i \in InFlight /\ InFlight' = InFlight
      /\ \A j \in Items : j # i => journal'[j] = journal[j]
  BY BodyOutcome DEF pool, kept
<1>2. InPool' = InPool /\ i \in InPool
  BY <1>1 DEF InPool, Back
<1>3. run.pc # "after"
  BY <1>1 DEF NobodyElseRuns
<1>4. \A j \in Items : j # i => /\ Decided(j)' <=> Decided(j)
                                /\ \A v : Has(j, v)' <=> Has(j, v)
  BY <1>1, SameDecisions
<1>5. OutOfPoolIsDecided'
  BY <1>1, <1>2, <1>4 DEF Decisions, OutOfPoolIsDecided, Looping
<1>6. FailuresPause'
  BY <1>1, <1>4 DEF Decisions, FailuresPause, Looping
<1> QED BY <1>1, <1>3, <1>5, <1>6 DEF Decisions, NothingBefore, AfterIsDecided

LEMMA DecisionsResent ==
  ASSUME Base, Decisions, NEW i \in Items, Resent(i)
  PROVE  Decisions'
<1> USE DEF Base, IInv, Pool
<1>1. /\ UNCHANGED <<settings, iterationStatus, waiting, terminal, run>> /\ Looping
      /\ i \in InFlight /\ InFlight' = InFlight \ {i} /\ Back' = Back \cup {i}
      /\ \A j \in Items : j # i => journal'[j] = journal[j]
      /\ \A s \in Steps : journal'[i][s] # "FAILED"
  BY AgainOutcome DEF Resent, kept
<1>2. InPool' = InPool /\ i \in InPool
  BY <1>1 DEF InPool
<1>3. \A j \in Items : j # i => /\ Decided(j)' <=> Decided(j)
                                /\ \A v : Has(j, v)' <=> Has(j, v)
  BY <1>1, SameDecisions
<1>4. ~Has(i, "FAILED")'
  BY <1>1 DEF Has
<1>5. OutOfPoolIsDecided'
  BY <1>1, <1>2, <1>3 DEF Decisions, OutOfPoolIsDecided, Looping
<1>6. FailuresPause'
  BY <1>1, <1>3, <1>4 DEF Decisions, FailuresPause, Looping
<1> QED BY <1>1, <1>5, <1>6 DEF Decisions, NothingBefore, AfterIsDecided, Looping

\* An item leaves the pool with a verdict the loop goes on after: it is decided.
LEMMA DecisionsLeaves ==
  ASSUME Base, Decisions, NEW i \in Items, Settles(i),
         NEW w \in Verdicts, Settled(i, w),
         \A j \in Items : j # i => /\ iterationStatus'[j] = iterationStatus[j]
                                   /\ journal'[j] = journal[j],
         terminal' = "none" => Decided(i)',
         ~settings.continues /\ terminal' \in {"none", "PAUSED"} =>
           /\ terminal \in {"none", "PAUSED"}
           /\ iterationStatus'[i] # "FAILED" \/ Has(i, "PAUSED")'
  PROVE  Decisions'
<1> USE DEF Base, IInv, Pool
<1>1. /\ UNCHANGED <<settings, waiting, run>> /\ Looping
      /\ InFlight' = InFlight \ {i} /\ Back' = Back
      /\ terminal' = Outranking(w)
  BY SettledOutcome
<1>2. InPool \subseteq InPool' \cup {i}
  BY <1>1 DEF InPool
<1>3. \A j \in Items : j # i => /\ Decided(j)' <=> Decided(j)
                                /\ \A v : Has(j, v)' <=> Has(j, v)
  BY <1>1, SameDecisions
<1>4. terminal' = "none" => terminal = "none"
  BY <1>1, OutrankingIs DEF TypeOK, LocalsAreFresh
<1>5. OutOfPoolIsDecided'
  BY <1>1, <1>2, <1>3, <1>4 DEF Decisions, OutOfPoolIsDecided, Looping
<1>6. FailuresPause'
  <2> SUFFICES ASSUME ~settings.continues, terminal' \in {"none", "PAUSED"},
                      NEW j \in Items, j \notin InFlight',
                      iterationStatus'[j] = "FAILED", Has(j, "FAILED")'
               PROVE  Has(j, "PAUSED")'
    BY <1>1 DEF FailuresPause, Looping
  <2>1. CASE j = i
    BY <2>1
  <2>2. CASE j # i
    BY <1>1, <1>3, <2>2 DEF Decisions, FailuresPause
  <2> QED BY <2>1, <2>2
<1> QED BY <1>1, <1>5, <1>6 DEF Decisions, NothingBefore, AfterIsDecided, Looping

LEMMA DecisionsSettle ==
  ASSUME Base, Decisions, NEW i \in Items, Settle(i)
  PROVE  Decisions'
<1> USE DEF Base, IInv, Pool
<1>1. CASE Resent(i)
  BY <1>1, DecisionsResent
<1>2. terminal \in Verdicts \cup {"none"} /\ terminal # "RUNNING" /\ settings.continues \in BOOLEAN
  BY SettingTypes DEF TypeOK, LocalsAreFresh, SettingsType
<1>3. CASE LeavesPaused(i)
  <2>1. Settles(i) /\ Settled(i, "PAUSED") /\ "PAUSED" \in Verdicts
    BY <1>3 DEF LeavesPaused, Verdicts
  <2>2. terminal' = Outranking("PAUSED")
    BY <2>1, SettledOutcome
  <2>3. terminal' # "none" /\ (terminal' = "PAUSED" => terminal \in {"none", "PAUSED"})
    BY <1>2, <2>1, <2>2, OutrankingIs DEF EndsTheLoop
  <2>4. Has(i, "PAUSED") /\ UNCHANGED <<journal, iterationStatus>>
    BY <1>3 DEF LeavesPaused, Settles, VerdictsAreWritten
  <2>5. Has(i, "PAUSED")'
    BY <2>4 DEF Has
  <2> QED BY <2>1, <2>3, <2>4, <2>5, DecisionsLeaves
<1>4. CASE LeavesFailed(i)
  <2>1. PICK w \in {"FAILED", "LOG_SIZE_EXCEEDED"} : Settled(i, w)
    BY <1>4 DEF LeavesFailed
  <2>2. w \in Verdicts /\ Settles(i) /\ Record(i, "FAILED")
    BY <1>4 DEF LeavesFailed, Verdicts
  <2>3. terminal' = Outranking(w) /\ settings' = settings
    BY <2>1, <2>2, SettledOutcome
  <2>4. /\ iterationStatus'[i] = "FAILED"
        /\ \A j \in Items : j # i => /\ iterationStatus'[j] = iterationStatus[j]
                                     /\ journal'[j] = journal[j]
    BY <2>2, RecordOutcome
  <2>5. EndsTheLoop(w) \/ settings.continues
    BY DEF EndsTheLoop
  <2>6. /\ terminal' = "none" => settings.continues
        /\ ~settings.continues => terminal' \notin {"none", "PAUSED"}
    BY <1>2, <2>2, <2>3, <2>5, OutrankingIs
  <2>7. terminal' = "none" => Decided(i)'
    BY <2>3, <2>4, <2>6 DEF Decided
  <2> QED BY <2>1, <2>2, <2>4, <2>6, <2>7, DecisionsLeaves
<1>5. CASE LeavesDone(i)
  <2>1. PICK w \in {"RUNNING", "SUCCEEDED"} : Settled(i, w)
    BY <1>5 DEF LeavesDone
  <2>2. w \in Verdicts /\ Settles(i) /\ Record(i, "SUCCEEDED")
    BY <1>5 DEF LeavesDone, Verdicts
  <2>3. terminal' = Outranking(w)
    BY <2>1, <2>2, SettledOutcome
  <2>4. /\ iterationStatus'[i] = "SUCCEEDED"
        /\ \A j \in Items : j # i => /\ iterationStatus'[j] = iterationStatus[j]
                                     /\ journal'[j] = journal[j]
    BY <2>2, RecordOutcome
  <2>5. terminal' \in {"none", "PAUSED"} => terminal \in {"none", "PAUSED"}
    BY <1>2, <2>2, <2>3, OutrankingIs
  <2>6. Decided(i)'
    BY <2>4 DEF Decided
  <2> QED BY <2>1, <2>2, <2>4, <2>5, <2>6, DecisionsLeaves
<1>6. CASE Breaks(i)
  <2>1. run'.pc \in {"unwinding", "ended"}
    BY <1>6 DEF Breaks
  <2> QED BY <2>1 DEF Decisions, NothingBefore, OutOfPoolIsDecided, FailuresPause,
                      AfterIsDecided, Looping
<1> QED BY <1>1, <1>3, <1>4, <1>5, <1>6, SettleCases

LEMMA DecisionsPool ==
  ASSUME Base, FailuresMatch, Decisions, PoolStep
  PROVE  Decisions'
<1> USE DEF Base, IInv, Pool
<1>1. CASE NeedsCheckpoint \/ SpacingOutlastsBudget
  <2>1. /\ UNCHANGED <<settings, journal, iterationStatus, waiting, again, fork, run>>
        /\ terminal = "none" /\ terminal' \in {"none", "FAILED"} /\ Looping
    BY <1>1 DEF NeedsCheckpoint, SpacingOutlastsBudget, CanDispatch, kept
  <2>2. InPool' = InPool /\ InFlight' = InFlight
    BY <2>1 DEF InPool, InFlight, Back
  <2>3. \A j \in Items : /\ Decided(j)' <=> Decided(j)
                         /\ \A v : Has(j, v)' <=> Has(j, v)
    BY <2>1, SameDecisions
  <2>4. OutOfPoolIsDecided'
    BY <2>1, <2>2, <2>3 DEF Decisions, OutOfPoolIsDecided, Looping
  <2>5. FailuresPause'
    BY <2>1, <2>2, <2>3 DEF Decisions, FailuresPause, Looping
  <2> QED BY <2>1, <2>4, <2>5 DEF Decisions, NothingBefore, AfterIsDecided, Looping
<1>2. CASE \E i \in Items : Dispatch(i)
  <2> PICK i \in Items : Dispatch(i)
    BY <1>2
  <2>1. /\ UNCHANGED <<settings, journal, iterationStatus, terminal, run>> /\ CanDispatch
        /\ InFlight' = InFlight \cup {i}
        /\ waiting \cup Back = waiting' \cup Back' \cup {i}
    BY DispatchOutcome
  <2>2. InPool' = InPool /\ InFlight \subseteq InFlight'
    BY <2>1 DEF InPool
  <2>3. \A j \in Items : /\ Decided(j)' <=> Decided(j)
                         /\ \A v : Has(j, v)' <=> Has(j, v)
    BY <2>1, SameDecisions
  <2>4. OutOfPoolIsDecided'
    BY <2>1, <2>2, <2>3 DEF Decisions, OutOfPoolIsDecided, Looping
  <2>5. FailuresPause'
    BY <2>1, <2>2, <2>3 DEF Decisions, FailuresPause, Looping
  <2> QED BY <2>1, <2>4, <2>5
          DEF Decisions, NothingBefore, AfterIsDecided, CanDispatch, Looping
<1>3. CASE ReturnVerdict \/ TakeCheckpoint \/ CheckpointBreaks \/ LoopOutgrowsTheLog
  <2>1. /\ UNCHANGED <<settings, journal, iterationStatus, failures>>
        /\ Looping /\ InFlight = {} /\ InFlight' = {}
        /\ \/ /\ run'.pc = "after" /\ terminal = "none" /\ waiting = {} /\ Back = {}
              /\ ContinueVerdict = "RUNNING"
           \/ run'.pc = "paused" /\ terminal \in {"none", "PAUSED"}
           \/ run'.pc = "ended"
    BY <1>3, ExitOutcome DEF LocalsAreFresh
  <2>2. \A j \in Items : /\ Decided(j)' <=> Decided(j)
                         /\ \A v : Has(j, v)' <=> Has(j, v)
    BY <2>1, SameDecisions
  <2>3. FailuresPause'
    BY <2>1, <2>2 DEF Decisions, FailuresPause, Looping
  <2>4. AfterIsDecided'
    <3> SUFFICES ASSUME run'.pc = "after", NEW j \in Items
                 PROVE  \/ iterationStatus[j] = "SUCCEEDED"
                        \/ iterationStatus[j] = "FAILED" /\ settings.continues /\ settings.tolerates
                        \/ Overlooked(j)
      BY <2>1 DEF AfterIsDecided, Overlooked, Has
    <3>1. /\ terminal = "none" /\ j \notin InPool
          /\ settings.continues /\ ~settings.tolerates => failures = <<>>
      BY <2>1 DEF InPool, ContinueVerdict
    <3>2. Decided(j)
      BY <2>1, <3>1 DEF Decisions, OutOfPoolIsDecided
    <3>3. failures = <<>> => iterationStatus[j] # "FAILED"
      BY DEF FailuresMatch, Listed
    <3> QED BY <3>1, <3>2, <3>3 DEF Decided
  <2> QED BY <2>1, <2>3, <2>4 DEF Decisions, NothingBefore, OutOfPoolIsDecided, Looping
<1>4. CASE Unwound
  <2>1. run'.pc = "ended"
    BY <1>4 DEF Unwound, Lost, TypeOK, RunStates
  <2> QED BY <2>1 DEF Decisions, NothingBefore, OutOfPoolIsDecided, FailuresPause,
                      AfterIsDecided, Looping
<1> QED BY <1>1, <1>2, <1>3, <1>4 DEF PoolStep

\* The loop is entered: an item it passes by is decided.
LEMMA DecisionsEnter ==
  ASSUME Base, run'.pc = "looping", settings' = settings, InFlight' = {},
         \A i \in Items \ waiting' : Decided(i)',
         ~settings.continues => \A i \in Items : iterationStatus'[i] = "FAILED" /\ Has(i, "FAILED")'
                                                   => Has(i, "PAUSED")'
  PROVE  Decisions'
BY DEF Decisions, NothingBefore, OutOfPoolIsDecided, FailuresPause, AfterIsDecided, Looping,
       InPool

LEMMA DecisionsRun ==
  ASSUME Base, Decisions, RunStep
  PROVE  Decisions'
<1> USE DEF Base, IInv, Pool
<1>1. CASE EngineLost
  <2>1. run'.pc = "ended"
    BY <1>1, LostOutcome
  <2> QED BY <2>1 DEF Decisions, NothingBefore, OutOfPoolIsDecided, FailuresPause,
                      AfterIsDecided, Looping
<1> SUFFICES ASSUME ~EngineLost PROVE Decisions'
  BY <1>1
<1>2. /\ settings' = settings /\ terminal' = terminal
      /\ waiting = {} /\ Back = {} /\ Back' = {} /\ InFlight' = {}
      /\ (run.pc # "ended" => InFlight = {})
      /\ ~Looping /\ terminal = "none"
  BY RunOutcome DEF LocalsAreFresh
<1>3. CASE Begin
  <2>1. /\ run'.pc = "looping" /\ iterationStatus' = iterationStatus
        /\ \A i \in Items : iterationStatus[i] = "none"
        /\ waiting' = {i \in Items : IsPending(i, journal)}
    BY <1>3 DEF Begin, Enter, kept, TypeOK, RunStates, Decisions, NothingBefore
  <2>2. waiting' = Items
    BY <2>1 DEF IsPending
  <2> QED BY <1>2, <2>1, <2>2, DecisionsEnter
<1>4. CASE Resume
  <2>1. /\ run.pc = "paused" /\ run'.pc = "looping" /\ iterationStatus' = iterationStatus
        /\ waiting' = {i \in Items : IsPending(i, Restored(TRUE))}
        /\ journal' = Restored(TRUE)
    BY <1>4 DEF Resume, Enter, kept, TypeOK, RunStates
  <2>2. journal' = journal /\ waiting' = {i \in Items : IsPending(i, journal)}
    BY <2>1, RestoredIs
  <2>3. \A i \in Items : /\ Decided(i)' <=> Decided(i)
                         /\ \A v : Has(i, v)' <=> Has(i, v)
    BY <1>2, <2>1, <2>2, SameDecisions
  <2>4. ~settings.continues =>
          \A i \in Items : iterationStatus[i] = "FAILED" /\ Has(i, "FAILED") => Has(i, "PAUSED")
    BY <1>2, <2>1 DEF Decisions, FailuresPause
  <2>5. ASSUME NEW i \in Items, i \notin waiting'
        PROVE  Decided(i)
    <3>1. ~IsPending(i, journal)
      BY <2>2, <2>5
    <3>2. iterationStatus[i] \in {"none", "SUCCEEDED", "FAILED"}
      BY DEF TypeOK, Statuses
    <3>3. iterationStatus[i] = "SUCCEEDED" \/ (iterationStatus[i] = "FAILED" /\ Has(i, "FAILED"))
      BY <3>1, <3>2 DEF IsPending, Has
    <3> QED BY <2>4, <3>3 DEF Decided, Overlooked
  <2>6. \A i \in Items \ waiting' : Decided(i)'
    BY <2>3, <2>5
  <2>7. ~settings.continues =>
          \A i \in Items : iterationStatus'[i] = "FAILED" /\ Has(i, "FAILED")' => Has(i, "PAUSED")'
    BY <2>1, <2>3, <2>4
  <2> QED BY <1>2, <2>1, <2>6, <2>7, DecisionsEnter
<1>5. CASE EntryFails \/ FlowEnds
  <2>1. run'.pc = "ended"
    <3>1. CASE EntryFails
      BY <3>1 DEF EntryFails, Takes
    <3>2. CASE FlowEnds
      BY <3>2 DEF FlowEnds, TypeOK, RunStates
    <3> QED BY <1>5, <3>1, <3>2
  <2> QED BY <2>1 DEF Decisions, NothingBefore, OutOfPoolIsDecided, FailuresPause,
                      AfterIsDecided, Looping
<1>6. CASE LaterStep
  <2>1. /\ run.pc = "after" /\ run'.pc \in {"paused", "ended"}
        /\ UNCHANGED <<journal, iterationStatus>>
    BY <1>6 DEF LaterStep, Takes, kept
  <2>2. \A i \in Items : \A v : Has(i, v)' <=> Has(i, v)
    BY <1>2, <2>1, SameDecisions
  <2>3. FailuresPause'
    BY <1>2, <2>1, <2>2 DEF Decisions, AfterIsDecided, Overlooked, FailuresPause
  <2> QED BY <2>1, <2>3 DEF Decisions, NothingBefore, OutOfPoolIsDecided, AfterIsDecided, Looping
<1>7. CASE RetryFromFailedStep
  <2>1. /\ run'.pc = "looping" /\ iterationStatus' = iterationStatus
        /\ waiting' = {i \in Items : IsPending(i, Restored(FALSE))}
        /\ journal' = Restored(FALSE)
    BY <1>7 DEF RetryFromFailedStep, Retried, Enter, kept
  <2>2. \A i \in Items : iterationStatus[i] # "SUCCEEDED" =>
          \A s \in Steps : journal'[i][s] # "FAILED"
    BY <2>1, RestoredIs
  <2>3. \A i \in Items : iterationStatus[i] # "SUCCEEDED" => i \in waiting'
    BY <2>1, <2>2 DEF IsPending
  <2>4. \A i \in Items \ waiting' : Decided(i)'
    BY <2>1, <2>3 DEF Decided
  <2>5. \A i \in Items : iterationStatus'[i] = "FAILED" => ~Has(i, "FAILED")'
    BY <2>1, <2>2 DEF Has
  <2> QED BY <1>2, <2>1, <2>4, <2>5, DecisionsEnter
<1>8. CASE RetryFromScratch
  <2>1. /\ run'.pc = "looping" /\ waiting' = Items
        /\ \A i \in Items : iterationStatus'[i] = "none"
    BY <1>8 DEF RetryFromScratch, Retried
  <2> QED BY <1>2, <2>1, DecisionsEnter
<1> QED BY <1>3, <1>4, <1>5, <1>6, <1>7, <1>8 DEF RunStep

LEMMA DecisionsInit == Init => Decisions
BY DEF Init, Decisions, NothingBefore, OutOfPoolIsDecided, FailuresPause, AfterIsDecided, Looping

LEMMA DecisionsStep ==
  ASSUME Base, FailuresMatch, Decisions, [Next]_vars
  PROVE  FailuresMatch' /\ Decisions'
<1>1. FailuresMatch'
  BY FailuresStep DEF Base, IInv
<1>2. CASE \E i \in Items : BodyStep(i)
  BY <1>1, <1>2, DecisionsBody
<1>3. CASE \E i \in Items : Settle(i)
  BY <1>1, <1>3, DecisionsSettle
<1>4. CASE PoolStep
  BY <1>1, <1>4, DecisionsPool
<1>5. CASE RunStep
  BY <1>1, <1>5, DecisionsRun
<1>6. CASE UNCHANGED vars
  BY <1>1, <1>6 DEF vars, pool, kept, Decisions, NothingBefore, OutOfPoolIsDecided, FailuresPause,
              AfterIsDecided, Looping, InPool, InFlight, Back, Decided, Overlooked, Has
<1> QED BY <1>2, <1>3, <1>4, <1>5, <1>6 DEF Next, ProcessStep

LEMMA DecisionsAreInvariant == Spec => [](FailuresMatch /\ Decisions)
<1>1. Init => FailuresMatch /\ Decisions
  BY FailuresInit, DecisionsInit
<1>2. Base /\ FailuresMatch /\ Decisions /\ [Next]_vars => FailuresMatch' /\ Decisions'
  BY DecisionsStep
<1> QED BY <1>1, <1>2, BaseIsInvariant, PTL DEF Spec

-----------------------------------------------------------------------------
(* The retries of a rate-limited item are counted wherever it may be retried again *)

CountedIn(i, counts) == granted[i] <= counts[i]

\* An item counts those it was granted in its loop, and in a checkpoint taken over it,
\* unless neither will enter it again.
CountsHold(i) ==
  /\ granted[i] <= settings.maxRetries
  /\ run.pc = "queued" => granted[i] = 0
  /\ Looping => CountedIn(i, retries) \/ (~IsPending(i, journal) /\ i \notin InPool)
  /\ run.pc = "paused" /\ run.on = "loop" =>
       /\ loopStatus = "PAUSED"
       /\ CountedIn(i, checkpoint.retries) \/ ~IsPending(i, journal)

RetriesAreCounted == collectFailed \/ \A i \in Items : CountsHold(i)

LEMMA SamePending ==
  ASSUME NEW i \in Items, iterationStatus'[i] = iterationStatus[i], journal'[i] = journal[i]
  PROVE  IsPending(i, journal)' <=> IsPending(i, journal)
BY DEF IsPending

\* Nothing of what counts for an item changes in the loop.
LEMMA SameCounts ==
  ASSUME NEW i \in Items, CountsHold(i), Looping, UNCHANGED <<settings, run>>,
         iterationStatus'[i] = iterationStatus[i], journal'[i] = journal[i],
         granted'[i] = granted[i], retries'[i] = retries[i], i \in InPool' => i \in InPool
  PROVE  CountsHold(i)'
BY SamePending DEF CountsHold, CountedIn, Looping

LEMMA CountsBody ==
  ASSUME Base, RetriesAreCounted, NEW i \in Items, BodyStep(i)
  PROVE  RetriesAreCounted'
<1> USE DEF Base, IInv, Pool
<1>1. /\ UNCHANGED <<settings, kept, waiting, again, retries, run, granted, collectFailed>>
      /\ i \in InFlight /\ InFlight' = InFlight
      /\ \A j \in Items : j # i => journal'[j] = journal[j]
  BY BodyOutcome DEF pool
<1>2. InPool' = InPool /\ i \in InPool
  BY <1>1 DEF InPool, Back
<1>3. run.pc \notin {"queued", "paused"}
  BY <1>1 DEF NobodyElseRuns
<1>4. ASSUME NEW j \in Items, CountsHold(j)
      PROVE  CountsHold(j)'
  <2>1. j = i => CountsHold(j)'
    BY <1>1, <1>2, <1>3, <1>4 DEF CountsHold, CountedIn, Looping
  <2>2. CASE j # i
    BY <1>1, <1>2, <1>3, <1>4, <2>2, SamePending DEF CountsHold, CountedIn, Looping, kept
  <2> QED BY <2>1, <2>2
<1> QED BY <1>1, <1>4 DEF RetriesAreCounted

LEMMA CountsSettle ==
  ASSUME Base, RetriesAreCounted, NEW i \in Items, Settle(i)
  PROVE  RetriesAreCounted'
<1> USE DEF Base, IInv, Pool
<1>1. CASE Resent(i)
  <2>1. /\ UNCHANGED <<settings, kept, waiting, run, collectFailed>> /\ Looping
        /\ i \in InFlight /\ InFlight' = InFlight \ {i} /\ Back' = Back \cup {i}
        /\ \A j \in Items : j # i => /\ journal'[j] = journal[j] /\ retries'[j] = retries[j]
                                     /\ granted'[j] = granted[j]
        /\ retries[i] < settings.maxRetries /\ retries'[i] = retries[i] + 1
        /\ granted'[i] <= granted[i] + 1
    BY <1>1, AgainOutcome DEF Resent
  <2>2. InPool' = InPool /\ i \in InPool
    BY <2>1 DEF InPool
  <2>3. ASSUME NEW j \in Items, CountsHold(j)
        PROVE  CountsHold(j)'
    <3>1. CASE j # i
      BY <2>1, <2>2, <2>3, <3>1, SameCounts DEF kept
    <3>2. CASE j = i
      <4>1. /\ granted[i] \in Nat /\ retries[i] \in Nat /\ granted'[i] \in Nat
            /\ settings.maxRetries \in Nat
        <5>1. TypeOK'
          BY InductiveStep DEF Next, ProcessStep
        <5> QED BY <5>1, SettingTypes DEF TypeOK, Counts
      <4>2. granted[i] <= retries[i]
        BY <2>1, <2>2, <2>3, <3>2 DEF CountsHold, CountedIn
      <4>3. granted'[i] <= retries'[i] /\ granted'[i] <= settings.maxRetries
        BY <2>1, <4>1, <4>2
      <4> QED BY <2>1, <3>2, <4>3 DEF CountsHold, CountedIn, Looping
    <3> QED BY <3>1, <3>2
  <2> QED BY <2>1, <2>3 DEF RetriesAreCounted
<1>2. CASE LeavesPaused(i)
  <2>1. Settles(i) /\ Settled(i, "PAUSED") /\ "PAUSED" \in Verdicts
    BY <1>2 DEF LeavesPaused, Verdicts
  <2>2. /\ UNCHANGED <<settings, run, granted, waiting>> /\ Looping
        /\ InFlight' = InFlight \ {i} /\ Back' = Back
    BY <2>1, SettledOutcome
  <2>3. InPool' \subseteq InPool
    BY <2>2 DEF InPool
  <2>4. UNCHANGED <<journal, iterationStatus, retries, collectFailed>>
    BY <1>2 DEF LeavesPaused
  <2>5. \A j \in Items : CountsHold(j) => CountsHold(j)'
    BY <2>2, <2>3, <2>4, SameCounts
  <2> QED BY <2>4, <2>5 DEF RetriesAreCounted
<1>3. CASE LeavesFailed(i) \/ LeavesDone(i)
  <2>1. PICK v \in {"FAILED", "SUCCEEDED"}, w \in Verdicts :
          Settles(i) /\ Record(i, v) /\ Settled(i, w)
    BY <1>3 DEF LeavesFailed, LeavesDone, Verdicts
  <2>2. /\ UNCHANGED <<settings, run, granted, waiting>> /\ Looping
        /\ InFlight' = InFlight \ {i} /\ Back' = Back
        /\ i \notin Back' /\ i \notin waiting' /\ i \notin InFlight'
    BY <2>1, SettledOutcome
  <2>3. InPool' \subseteq InPool /\ i \notin InPool'
    BY <2>2 DEF InPool
  <2>4. /\ iterationStatus'[i] = v /\ (v = "FAILED" => journal' = journal)
        /\ \A j \in Items : j # i => /\ iterationStatus'[j] = iterationStatus[j]
                                     /\ journal'[j] = journal[j] /\ retries'[j] = retries[j]
    BY <2>1, RecordOutcome
  <2>5. collectFailed' \/ (collectFailed' = collectFailed /\ ~IsPending(i, journal)')
    <3>1. CASE v = "SUCCEEDED"
      <4>1. LeavesDone(i) => collectFailed' = collectFailed
        BY DEF LeavesDone
      <4>2. LeavesFailed(i) => iterationStatus'[i] = "FAILED"
        BY RecordOutcome DEF LeavesFailed
      <4> QED BY <1>3, <2>4, <3>1, <4>1, <4>2 DEF IsPending
    <3>2. CASE v = "FAILED"
      <4>1. LeavesDone(i) => iterationStatus'[i] = "SUCCEEDED"
        BY RecordOutcome DEF LeavesDone
      <4>2. LeavesFailed(i)
        BY <1>3, <2>4, <3>2, <4>1
      <4>3. \/ collectFailed'
            \/ collectFailed' = collectFailed /\ Has(i, "FAILED")
        BY <4>2 DEF LeavesFailed, Settles, VerdictsAreWritten
      <4> QED BY <2>4, <3>2, <4>3 DEF IsPending, Has
    <3> QED BY <3>1, <3>2
  <2>6. ASSUME NEW j \in Items, CountsHold(j), ~collectFailed'
        PROVE  CountsHold(j)'
    <3>1. CASE j # i
      BY <2>2, <2>3, <2>4, <2>6, <3>1, SameCounts
    <3>2. CASE j = i
      BY <2>2, <2>3, <2>5, <2>6, <3>2 DEF CountsHold, Looping
    <3> QED BY <3>1, <3>2
  <2> QED BY <2>5, <2>6 DEF RetriesAreCounted
<1>4. CASE Breaks(i)
  <2>1. /\ run'.pc \in {"unwinding", "ended"}
        /\ UNCHANGED <<settings, granted, collectFailed>>
    BY <1>4 DEF Breaks
  <2> QED BY <2>1 DEF RetriesAreCounted, CountsHold, Looping
<1> QED BY <1>1, <1>2, <1>3, <1>4, SettleCases

LEMMA CountsPool ==
  ASSUME Base, RetriesAreCounted, PoolStep
  PROVE  RetriesAreCounted'
<1> USE DEF Base, IInv, Pool
<1>1. CASE NeedsCheckpoint \/ SpacingOutlastsBudget
  <2>1. /\ UNCHANGED <<settings, journal, iterationStatus, waiting, again, fork, run, retries,
                       granted, collectFailed>>
        /\ Looping
    BY <1>1 DEF NeedsCheckpoint, SpacingOutlastsBudget, CanDispatch, kept, history
  <2>2. InPool' = InPool
    BY <2>1 DEF InPool, InFlight, Back
  <2>3. \A j \in Items : CountsHold(j) => CountsHold(j)'
    BY <2>1, <2>2, SameCounts
  <2> QED BY <2>1, <2>3 DEF RetriesAreCounted
<1>2. CASE \E i \in Items : Dispatch(i)
  <2> PICK i \in Items : Dispatch(i)
    BY <1>2
  <2>1. /\ UNCHANGED <<settings, journal, iterationStatus, run, retries, granted,
                       collectFailed>>
        /\ Looping /\ InFlight' = InFlight \cup {i}
        /\ waiting \cup Back = waiting' \cup Back' \cup {i}
    BY DispatchOutcome DEF history, CanDispatch
  <2>2. InPool' = InPool
    BY <2>1 DEF InPool
  <2>3. \A j \in Items : CountsHold(j) => CountsHold(j)'
    BY <2>1, <2>2, SameCounts
  <2> QED BY <2>1, <2>3 DEF RetriesAreCounted
<1>3. CASE ReturnVerdict \/ TakeCheckpoint \/ CheckpointBreaks \/ LoopOutgrowsTheLog
  <2>1. /\ UNCHANGED <<settings, journal, iterationStatus, granted, collectFailed>>
        /\ Looping /\ InFlight = {}
        /\ \/ run'.pc \in {"after", "ended"}
           \/ run'.pc = "paused" /\ run'.on = "item"
           \/ /\ run'.pc = "paused" /\ terminal = "none"
              /\ loopStatus' = "PAUSED" /\ checkpoint'.retries = retries
    BY <1>3, ExitOutcome DEF LocalsAreFresh, history
  <2>2. \A j \in Items : IsPending(j, journal)' <=> IsPending(j, journal)
    BY <2>1, SamePending
  <2>3. \A j \in Items : CountsHold(j) => CountsHold(j)'
    BY <2>1, <2>2 DEF CountsHold, CountedIn, Looping
  <2> QED BY <2>1, <2>3 DEF RetriesAreCounted
<1>4. CASE Unwound
  <2>1. run'.pc = "ended" /\ UNCHANGED <<settings, granted, collectFailed>>
    BY <1>4 DEF Unwound, Lost, TypeOK, RunStates, history
  <2> QED BY <2>1 DEF RetriesAreCounted, CountsHold, Looping
<1> QED BY <1>1, <1>2, <1>3, <1>4 DEF PoolStep

\* Someone has entered the loop anew, with no retry counted yet.
LEMMA NoneGranted ==
  ASSUME Base, run'.pc = "looping", settings' = settings, granted' = Zeros, retries' \in Counts
  PROVE  RetriesAreCounted'
<1>1. \A i \in Items : granted'[i] = 0 /\ retries'[i] \in Nat
  BY DEF Zeros, Counts
<1>2. settings.maxRetries \in Nat
  BY SettingTypes DEF Base, IInv, TypeOK
<1>3. \A i \in Items : granted'[i] <= settings'.maxRetries /\ granted'[i] <= retries'[i]
  BY <1>1, <1>2
<1> QED BY <1>3 DEF RetriesAreCounted, CountsHold, CountedIn, Looping

LEMMA CountsRun ==
  ASSUME Base, RetriesAreCounted, RunStep
  PROVE  RetriesAreCounted'
<1> USE DEF Base, IInv, Pool
<1>1. settings' = settings /\ Back' = {} /\ InFlight' = {}
  BY RunOutcome, LostOutcome
<1>2. TypeOK'
  BY InductiveStep DEF Next
<1>3. CASE Begin
  <2>1. /\ run.pc = "queued" /\ run'.pc = "looping" /\ UNCHANGED <<granted, collectFailed>>
        /\ retries' \in Counts
    BY <1>2, <1>3 DEF Begin, TypeOK, RunStates, history
  <2>2. settings.maxRetries \in Nat /\ \A i \in Items : retries'[i] \in Nat
    BY <2>1, SettingTypes DEF TypeOK, Counts
  <2>3. ASSUME NEW i \in Items, CountsHold(i)
        PROVE  CountsHold(i)'
    BY <1>1, <2>1, <2>2, <2>3 DEF CountsHold, CountedIn, Looping
  <2> QED BY <2>1, <2>3 DEF RetriesAreCounted
<1>4. CASE Resume
  <2>1. /\ run.pc = "paused" /\ run'.pc = "looping" /\ iterationStatus' = iterationStatus
        /\ waiting' = {i \in Items : IsPending(i, Restored(TRUE))}
        /\ journal' = Restored(TRUE) /\ collectFailed' = collectFailed
        /\ retries' = IF loopStatus = "PAUSED" THEN checkpoint.retries ELSE Zeros
        /\ granted' = IF run.on = "loop" THEN granted ELSE Zeros
    BY <1>4 DEF Resume, Enter, kept, TypeOK, RunStates
  <2>2. CASE run.on = "loop"
    <3>1. journal' = journal /\ InPool' = {i \in Items : IsPending(i, journal)}
      BY <1>1, <2>1, RestoredIs DEF InPool
    <3>2. \A j \in Items : IsPending(j, journal)' <=> IsPending(j, journal)
      BY <2>1, <3>1, SamePending
    <3>3. ASSUME NEW i \in Items, CountsHold(i)
          PROVE  CountsHold(i)'
      BY <1>1, <2>1, <2>2, <3>1, <3>2, <3>3 DEF CountsHold, CountedIn, Looping
    <3> QED BY <2>1, <3>3 DEF RetriesAreCounted
  <2>3. CASE run.on # "loop"
    BY <1>1, <1>2, <2>1, <2>3, NoneGranted DEF TypeOK
  <2> QED BY <2>2, <2>3
<1>5. CASE EntryFails \/ FlowEnds \/ LaterStep \/ EngineLost
  <2>1. UNCHANGED <<granted, collectFailed>>
    BY <1>5 DEF EntryFails, FlowEnds, LaterStep, EngineLost, history
  <2>2. run'.pc = "ended" \/ (run'.pc = "paused" /\ run'.on = "later")
    <3>1. CASE EntryFails
      BY <3>1 DEF EntryFails, Takes
    <3>2. CASE FlowEnds
      BY <3>2 DEF FlowEnds, TypeOK, RunStates
    <3>3. CASE LaterStep
      BY <3>3 DEF LaterStep, Takes
    <3>4. CASE EngineLost
      BY <3>4, LostOutcome
    <3> QED BY <1>5, <3>1, <3>2, <3>3, <3>4
  <2> QED BY <1>1, <2>1, <2>2 DEF RetriesAreCounted, CountsHold, Looping
<1>6. CASE RetryFromFailedStep \/ RetryFromScratch
  <2>1. Retried /\ granted' = Zeros
    BY <1>6 DEF RetryFromFailedStep, RetryFromScratch
  <2>2. run'.pc = "looping"
    BY <2>1 DEF Retried
  <2> QED BY <1>1, <1>2, <2>1, <2>2, NoneGranted DEF TypeOK
<1> QED BY <1>3, <1>4, <1>5, <1>6 DEF RunStep

LEMMA CountsInit == Init => RetriesAreCounted
<1> SUFFICES ASSUME Init, NEW i \in Items PROVE CountsHold(i)
  BY DEF RetriesAreCounted
<1>1. settings.maxRetries \in Nat
  BY SettingTypes DEF Init
<1> QED BY <1>1 DEF Init, CountsHold, Zeros, Looping

LEMMA CountsStep ==
  ASSUME Base, RetriesAreCounted, [Next]_vars
  PROVE  RetriesAreCounted'
<1>1. CASE \E i \in Items : BodyStep(i)
  BY <1>1, CountsBody
<1>2. CASE \E i \in Items : Settle(i)
  BY <1>2, CountsSettle
<1>3. CASE PoolStep
  BY <1>3, CountsPool
<1>4. CASE RunStep
  BY <1>4, CountsRun
<1>5. CASE UNCHANGED vars
  BY <1>5 DEF vars, pool, kept, history, RetriesAreCounted, CountsHold, CountedIn, Looping,
              IsPending, InPool, InFlight, Back
<1> QED BY <1>1, <1>2, <1>3, <1>4, <1>5 DEF Next, ProcessStep

LEMMA CountsAreInvariant == Spec => []RetriesAreCounted
<1>1. Base /\ RetriesAreCounted /\ [Next]_vars => RetriesAreCounted'
  BY CountsStep
<1> QED BY CountsInit, <1>1, BaseIsInvariant, PTL DEF Spec

-----------------------------------------------------------------------------
(* A loop that runs its items one by one runs them in order *)

BehindIsClosed ==
  \A i \in Items : fork[i].pc = "body" =>
    \A t \in Steps : t < fork[i].at => journal[i][t] \notin {"none", "PAUSED"}

\* One item has been started and not settled, and it comes before those that wait.
InOrder ==
  RunsAlone =>
    /\ \A i, j \in InFlight \cup Back : i = j
    /\ \A i \in InFlight \cup Back, j \in waiting : i < j
    /\ InFlight # {} => Back = {}
    /\ InFlight # {} /\ Looping => terminal = "none"
    /\ ~Looping => \A i \in Items : fork[i].pc # "body"

\* No step pauses beside others.
ConcurrentNeverPauses ==
  ~RunsAlone => foreign = {} /\ \A i \in Items : ~Has(i, "PAUSED")

Order == BehindIsClosed /\ InOrder /\ ConcurrentNeverPauses

\* A loop that starts an item alone has none in flight.
LEMMA AloneInFlight ==
  ASSUME TypeOK, RunsAlone, CanDispatch
  PROVE  InFlight = {}
<1>1. Cardinality(InFlight) < 1
  BY DEF CanDispatch, RunsAlone
<1>2. IsFiniteSet(InFlight)
  <2>1. IsFiniteSet(1..N)
    BY FS_Interval
  <2> QED BY <2>1, FS_Subset DEF InFlight
<1>3. Cardinality(InFlight) \in Nat
  BY <1>2, FS_CardinalityType
<1>4. Cardinality(InFlight) = 0
  BY <1>1, <1>3
<1> QED BY <1>2, <1>4, FS_EmptySet

\* Only a step of a body writes to the journal: another step keeps or drops what is there.
LEMMA JournalOutcome ==
  ASSUME TypeOK, (\E i \in Items : Settle(i)) \/ PoolStep \/ RunStep \/ UNCHANGED vars
  PROVE  /\ \A j \in Items, s \in Steps : journal'[j][s] \in {journal[j][s], "none"}
         /\ foreign' \in {foreign, {}}
<1>1. CASE \E i \in Items : Settle(i)
  <2> PICK i \in Items : Settle(i)
    BY <1>1
  <2>1. CASE Resent(i)
    BY <2>1 DEF Resent, RetryLimited, DropFailed, TypeOK, Journals
  <2>2. CASE LeavesPaused(i) \/ Breaks(i)
    BY <2>2 DEF LeavesPaused, Breaks, Settled
  <2>3. CASE LeavesFailed(i) \/ LeavesDone(i)
    <3>1. PICK v \in {"FAILED", "SUCCEEDED"}, w \in Verdicts : Record(i, v) /\ Settled(i, w)
      BY <2>3 DEF LeavesFailed, LeavesDone, Verdicts
    <3>2. \A j \in Items, s \in Steps : journal'[j][s] \in {journal[j][s], "none"}
      BY <3>1, RecordOutcome
    <3> QED BY <3>1, <3>2 DEF Settled
  <2> QED BY <2>1, <2>2, <2>3, SettleCases
<1>2. CASE PoolStep
  BY <1>2 DEF PoolStep, NeedsCheckpoint, SpacingOutlastsBudget, Dispatch, ReturnVerdict,
              TakeCheckpoint, CheckpointBreaks, LoopOutgrowsTheLog, Unwound, history
<1>3. CASE RunStep
  <2>1. CASE RetryFromScratch
    BY <2>1 DEF RetryFromScratch, Blank
  <2>2. CASE Resume \/ RetryFromFailedStep
    <3>1. foreign' = foreign /\ \E w \in BOOLEAN : journal' = Restored(w)
      BY <2>2 DEF Resume, RetryFromFailedStep, Enter
    <3> QED BY <3>1, RestoredIs
  <2>3. CASE Begin \/ EntryFails \/ FlowEnds \/ LaterStep \/ EngineLost
    BY <2>3 DEF Begin, EntryFails, FlowEnds, LaterStep, EngineLost, Enter, history
  <2> QED BY <1>3, <2>1, <2>2, <2>3 DEF RunStep
<1>4. CASE UNCHANGED vars
  BY <1>4 DEF vars, history
<1> QED BY <1>1, <1>2, <1>3, <1>4

LEMMA OrderBody ==
  ASSUME Base, Order, NEW i \in Items, BodyStep(i)
  PROVE  Order'
<1> USE DEF Base, IInv, Pool
<1>1. /\ UNCHANGED <<settings, waiting, again, terminal, run>> /\ InFlight' = InFlight
      /\ i \in InFlight /\ fork[i].pc = "body"
      /\ \A j \in Items : j # i => fork'[j] = fork[j] /\ journal'[j] = journal[j]
  BY BodyOutcome DEF pool
<1>2. PICK s \in Steps :
        /\ Runs(i, s)
        /\ \A t \in Steps : t # s => journal'[i][t] = journal[i][t]
        /\ foreign' = foreign \/ Waits(i, s)
        /\ \/ fork'[i] = Reach(journal[i], s + 1) /\ journal'[i][s] \in {"SUCCEEDED", "FAILED"}
           \/ fork'[i].pc = "over" /\ journal'[i][s] \in {"SUCCEEDED", "FAILED"}
           \/ fork'[i].pc = "over" /\ RunsAlone
           \/ fork'[i].pc = "over" /\ journal' = journal
  BY BodyOutcome
<1>3. BehindIsClosed'
  <2>1. /\ Reach(journal[i], s + 1).pc = "body" =>
             \A t \in Steps : s + 1 <= t /\ t < Reach(journal[i], s + 1).at =>
               journal[i][t] \notin {"none", "PAUSED"}
    <3>1. journal[i] \in Bodies /\ s + 1 \in Nat \ {0}
      BY JournalTypes DEF TypeOK
    <3> QED BY <3>1, ReachType
  <2>2. \A t \in Steps : t < s => journal[i][t] \notin {"none", "PAUSED"}
    BY <1>2 DEF Runs, Order, BehindIsClosed
  <2>3. ASSUME fork'[i].pc = "body", NEW t \in Steps, t < fork'[i].at
        PROVE  journal'[i][t] \notin {"none", "PAUSED"}
    <3>1. fork'[i] = Reach(journal[i], s + 1) /\ journal'[i][s] \in {"SUCCEEDED", "FAILED"}
      BY <1>2, <2>3
    <3>2. t < s \/ t = s \/ s + 1 <= t
      OBVIOUS
    <3> QED BY <1>2, <2>1, <2>2, <2>3, <3>1, <3>2
  <2> QED BY <1>1, <2>3 DEF Order, BehindIsClosed
<1>4. InOrder'
  <2>1. Back' = Back
    BY <1>1 DEF Back
  <2>2. RunsAlone => Looping
    BY <1>1 DEF Order, InOrder
  <2> QED BY <1>1, <2>1, <2>2 DEF Order, InOrder, RunsAlone, Looping
<1>5. ConcurrentNeverPauses'
  <2> SUFFICES ASSUME ~RunsAlone
               PROVE  foreign' = {} /\ \A j \in Items, t \in Steps : journal'[j][t] # "PAUSED"
    BY <1>1 DEF ConcurrentNeverPauses, RunsAlone, Has
  <2>1. foreign = {} /\ \A j \in Items, t \in Steps : journal[j][t] # "PAUSED"
    BY DEF Order, ConcurrentNeverPauses, Has
  <2>2. journal'[i][s] # "PAUSED"
    BY <1>2, <2>1
  <2> QED BY <1>1, <1>2, <2>1, <2>2 DEF Waits
<1> QED BY <1>3, <1>4, <1>5 DEF Order

\* An iteration goes on where it was unless a step of it runs.
LEMMA SameBodies ==
  ASSUME Order, \A j \in Items : fork'[j].pc = "body" =>
                                   fork'[j] = fork[j] /\ journal'[j] = journal[j]
  PROVE  BehindIsClosed'
BY DEF Order, BehindIsClosed

LEMMA NobodyPauses ==
  ASSUME TypeOK, Order, settings' = settings,
         (\E i \in Items : Settle(i)) \/ PoolStep \/ RunStep \/ UNCHANGED vars
  PROVE  ConcurrentNeverPauses'
BY JournalOutcome DEF Order, ConcurrentNeverPauses, Has, RunsAlone

\* The pool of an item that is over.
LEMMA OneInFlight ==
  ASSUME Base, Order, RunsAlone, NEW i \in InFlight
  PROVE  /\ InFlight = {i} /\ Back = {}
         /\ Looping => terminal = "none"
         /\ \A j \in waiting : i < j
BY DEF Order, InOrder

LEMMA OrderSettle ==
  ASSUME Base, Order, NEW i \in Items, Settle(i)
  PROVE  Order'
<1> USE DEF Base, IInv, Pool
<1>1. CASE Resent(i)
  <2>1. /\ UNCHANGED <<settings, waiting, terminal, run>> /\ Looping
        /\ i \in InFlight /\ InFlight' = InFlight \ {i} /\ Back' = Back \cup {i}
        /\ fork'[i].pc = "off"
        /\ \A j \in Items : j # i => fork'[j] = fork[j] /\ journal'[j] = journal[j]
    BY <1>1, AgainOutcome DEF Resent
  <2>2. RunsAlone => InFlight' = {} /\ Back' = {i} /\ \A j \in waiting : i < j
    BY <2>1, OneInFlight
  <2>3. InOrder'
    BY <2>1, <2>2 DEF InOrder, RunsAlone, Looping
  <2>4. BehindIsClosed'
    BY <2>1, SameBodies
  <2> QED BY <2>1, <2>3, <2>4, NobodyPauses DEF Order
<1>2. CASE LeavesPaused(i) \/ LeavesFailed(i) \/ LeavesDone(i)
  <2>1. PICK w \in Verdicts : Settles(i) /\ Settled(i, w)
    BY <1>2 DEF LeavesPaused, LeavesFailed, LeavesDone, Verdicts
  <2>2. /\ UNCHANGED <<settings, waiting, run>> /\ Looping
        /\ i \in InFlight /\ InFlight' = InFlight \ {i} /\ Back' = Back
        /\ fork'[i].pc = "off" /\ \A j \in Items : j # i => fork'[j] = fork[j]
    BY <2>1, SettledOutcome
  <2>3. \A j \in Items : j # i => journal'[j] = journal[j]
    BY <1>2, RecordOutcome DEF LeavesPaused, LeavesFailed, LeavesDone
  <2>4. RunsAlone => InFlight' = {} /\ Back' = {}
    BY <2>2, OneInFlight
  <2>5. InOrder'
    BY <2>2, <2>4 DEF InOrder, RunsAlone, Looping
  <2>6. BehindIsClosed'
    BY <2>2, <2>3, SameBodies
  <2> QED BY <2>2, <2>5, <2>6, NobodyPauses DEF Order
<1>3. CASE Breaks(i)
  <2>1. /\ UNCHANGED <<settings, journal>> /\ Looping /\ fork[i].pc = "over"
        /\ waiting' = {} /\ again' = <<>> /\ run'.pc # "looping"
        /\ \A j \in Items : fork'[j] = fork[j] \/ fork'[j].pc = "off"
    BY <1>3 DEF Breaks, Leave, Settles
  <2>2. Back' = {} /\ InFlight' \subseteq InFlight /\ i \in InFlight
    BY <2>1 DEF Back, InFlight
  <2>3. ASSUME RunsAlone, NEW j \in Items
        PROVE  fork'[j].pc # "body"
    <3>1. InFlight = {i}
      BY <2>2, <2>3, OneInFlight
    <3> QED BY <2>1, <3>1 DEF InFlight
  <2>4. InOrder'
    <3>1. RunsAlone => \A j, l \in InFlight' : j = l
      BY <2>2, OneInFlight
    <3> QED BY <2>1, <2>2, <2>3, <3>1 DEF InOrder, RunsAlone, Looping
  <2>5. BehindIsClosed'
    BY <2>1, SameBodies
  <2> QED BY <2>1, <2>4, <2>5, NobodyPauses DEF Order
<1> QED BY <1>1, <1>2, <1>3, SettleCases

LEMMA OrderPool ==
  ASSUME Base, Order, PoolStep
  PROVE  Order'
<1> USE DEF Base, IInv, Pool
<1>1. CASE NeedsCheckpoint \/ SpacingOutlastsBudget
  <2>1. /\ UNCHANGED <<settings, journal, waiting, again, fork, run>>
        /\ CanDispatch /\ Looping
    BY <1>1 DEF NeedsCheckpoint, SpacingOutlastsBudget, CanDispatch
  <2>2. InFlight' = InFlight /\ Back' = Back /\ (RunsAlone => InFlight = {})
    BY <2>1, AloneInFlight DEF InFlight, Back
  <2>3. InOrder'
    BY <2>1, <2>2 DEF Order, InOrder, RunsAlone, Looping
  <2>4. BehindIsClosed'
    BY <2>1, SameBodies
  <2> QED BY <2>1, <2>3, <2>4, NobodyPauses DEF Order
<1>2. CASE \E i \in Items : Dispatch(i)
  <2> PICK i \in Items : Dispatch(i)
    BY <1>2
  <2>1. /\ UNCHANGED <<settings, journal, terminal, run>> /\ CanDispatch
        /\ fork'[i] = Reach(journal[i], 1) /\ InFlight' = InFlight \cup {i}
        /\ \A j \in Items : j # i => fork'[j] = fork[j]
        /\ i \notin waiting' /\ i \notin Back'
        /\ waiting' \subseteq waiting /\ Back' \subseteq Back
        /\ Back = {} => i \in waiting /\ (\A j \in waiting : i <= j)
        /\ Back # {} => i \in Back
    BY DispatchOutcome
  <2>2. RunsAlone => /\ InFlight' = {i} /\ Back' = {}
                     /\ \A j \in waiting' : i < j
    <3> SUFFICES ASSUME RunsAlone
                 PROVE  InFlight' = {i} /\ Back' = {} /\ \A j \in waiting' : i < j
      OBVIOUS
    <3>1. InFlight' = {i}
      BY <2>1, AloneInFlight
    <3>2. CASE Back = {}
      <4>1. \A j \in waiting' : i <= j /\ j # i /\ j \in Items
        BY <2>1, <3>2 DEF TypeOK
      <4> QED BY <2>1, <3>1, <3>2, <4>1
    <3>3. CASE Back # {}
      <4>1. i \in Back /\ (\A j \in Back : j = i) /\ \A j \in waiting : i < j
        BY <2>1, <3>3 DEF Order, InOrder
      <4>2. Back' = {}
        BY <2>1, <4>1
      <4> QED BY <2>1, <3>1, <4>1, <4>2
    <3> QED BY <3>2, <3>3
  <2>3. InOrder'
    BY <2>1, <2>2 DEF InOrder, RunsAlone, Looping, CanDispatch
  <2>4. BehindIsClosed'
    <3>1. Reach(journal[i], 1).pc = "body" =>
            \A t \in Steps : 1 <= t /\ t < Reach(journal[i], 1).at =>
              journal[i][t] \notin {"none", "PAUSED"}
      <4>1. journal[i] \in Bodies /\ 1 \in Nat \ {0}
        BY JournalTypes DEF TypeOK
      <4> QED BY <4>1, ReachType
    <3> QED BY <2>1, <3>1 DEF Order, BehindIsClosed
  <2> QED BY <2>1, <2>3, <2>4, NobodyPauses DEF Order
<1>3. CASE ReturnVerdict \/ TakeCheckpoint \/ CheckpointBreaks \/ LoopOutgrowsTheLog
  <2>1. /\ UNCHANGED <<settings, journal, fork>> /\ InFlight = {} /\ InFlight' = {}
        /\ waiting' = {} /\ again' = <<>>
    BY <1>3, ExitOutcome DEF LocalsAreFresh, Leave
  <2>2. Back' = {} /\ \A j \in Items : fork'[j].pc # "body"
    BY <2>1 DEF Back, InFlight
  <2> QED BY <2>1, <2>2, SameBodies, NobodyPauses DEF Order, InOrder
<1>4. CASE Unwound
  <2>1. /\ UNCHANGED <<settings, waiting, again>> /\ ~Looping
        /\ \A j \in Items : fork'[j].pc = "off"
    BY <1>4 DEF Unwound, AllSettled, InFlight, Off, TypeOK, Forks, pool, Looping
  <2>2. waiting' = {} /\ Back' = {} /\ InFlight' = {}
    BY <2>1, OutsideTheLoop DEF Back, InFlight
  <2>3. \A j \in Items : fork'[j].pc # "body"
    BY <2>1
  <2> QED BY <2>1, <2>2, <2>3, SameBodies, NobodyPauses DEF Order, InOrder
<1> QED BY <1>1, <1>2, <1>3, <1>4 DEF PoolStep

LEMMA OrderRun ==
  ASSUME Base, Order, RunStep
  PROVE  Order'
<1> USE DEF Base, IInv, Pool
<1>1. settings' = settings /\ Back' = {} /\ InFlight' = {}
  BY RunOutcome, LostOutcome
<1>2. \A j \in Items : fork'[j].pc # "body"
  BY <1>1 DEF InFlight
<1> QED BY <1>1, <1>2, SameBodies, NobodyPauses DEF Order, InOrder

LEMMA OrderInit == Init => Order
<1> SUFFICES ASSUME Init PROVE Order
  OBVIOUS
<1>1. \A i \in Items : fork[i].pc = "off" /\ \A s \in Steps : journal[i][s] = "none"
  BY DEF Init, Off, Blank
<1>2. InFlight = {} /\ again = <<>> /\ foreign = {}
  BY <1>1 DEF InFlight, Init
<1>3. Back = {}
  BY <1>2 DEF Back
<1> QED BY <1>1, <1>2, <1>3 DEF Order, BehindIsClosed, InOrder, ConcurrentNeverPauses, Has

LEMMA OrderStep ==
  ASSUME Base, Order, [Next]_vars
  PROVE  Order'
<1>1. CASE \E i \in Items : BodyStep(i)
  BY <1>1, OrderBody
<1>2. CASE \E i \in Items : Settle(i)
  BY <1>2, OrderSettle
<1>3. CASE PoolStep
  BY <1>3, OrderPool
<1>4. CASE RunStep
  BY <1>4, OrderRun
<1>5. CASE UNCHANGED vars
  BY <1>5 DEF vars, pool, history, Order, BehindIsClosed, InOrder, ConcurrentNeverPauses,
              Looping, RunsAlone, InFlight, Back, Has
<1> QED BY <1>1, <1>2, <1>3, <1>4, <1>5 DEF Next, ProcessStep

-----------------------------------------------------------------------------
(* A pause is met again by its own resume *)

\* The items that wait for a resume of theirs.
Pauses == {i \in Items : \E s \in Steps : Waits(i, s)} \ overlooked

\* The step an item waits at is the first it has still to run, and the only such one.
FirstOpen(i) ==
  \A s, t \in Steps : Waits(i, s) =>
    /\ t < s => journal[i][t] \notin {"none", "PAUSED"}
    /\ Waits(i, t) => t = s

\* Where such an item is while the loop runs: first in line and not yet entered; at its
\* pause, with its own resume; over with another pause or an error; or the one whose
\* pause ends the loop.
Awaited(i) ==
  /\ run.item = i /\ ~dispatched /\ ~finished /\ reason = "none" /\ terminal = "none"
  /\ Back = {} /\ InFlight = {}
  /\ i \in waiting /\ \A j \in waiting : i <= j
Reentered(i) ==
  run.item = i /\ fork[i].pc = "body" /\ Waits(i, fork[i].at)
Over(i) == fork[i].pc = "over" /\ fork[i].verdict \in {"PAUSED", "ENGINE_ERROR"}
Ending(i) == terminal = "PAUSED" /\ paused = i

PendingIsPooled ==
  Looping => \A i \in Items :
               IsPending(i, journal) => i \in InPool \/ (i = paused /\ terminal = "PAUSED")

PausedLeads ==
  paused # 0 => /\ terminal = "PAUSED" /\ Back = {} /\ InFlight = {}
                /\ \A j \in waiting : paused < j

PausesAreOpen == \A i \in Pauses : iterationStatus[i] # "SUCCEEDED" /\ FirstOpen(i)

\* Once the loop is left only the item a run is paused on waits, before all pending ones.
PausesOutside ==
  /\ run.pc \in {"queued", "after"} => Pauses = {}
  /\ run.pc = "ended" /\ run.verdict # "INTERNAL_ERROR" /\ loopStatus # "FAILED" => Pauses = {}
  /\ run.pc = "paused" =>
       /\ Pauses \subseteq {run.item} /\ (run.on # "item" => Pauses = {})
       /\ run.on = "item" => \A j \in Items : j < run.item => ~IsPending(j, journal)

PausesInside ==
  Looping => \A i \in Pauses : Awaited(i) \/ Reentered(i) \/ Over(i) \/ Ending(i)

OwnPauses ==
  /\ foreign \subseteq overlooked /\ PendingIsPooled /\ PausedLeads
  /\ PausesAreOpen /\ PausesOutside /\ PausesInside

PausesAreOwn == RunsAlone /\ ~collectFailed => OwnPauses

\* Whoever waits for a resume while an item is in flight is that item.
LEMMA PausesInFlight ==
  ASSUME Base, Order, RunsAlone, OwnPauses, Looping, NEW i \in InFlight
  PROVE  /\ paused = 0
         /\ \A j \in Pauses : j = i /\ (Reentered(i) \/ Over(i))
<1>1. InFlight = {i} /\ i # 0
  BY OneInFlight DEF InFlight
<1>2. paused = 0
  BY <1>1 DEF OwnPauses, PausedLeads
<1>3. ASSUME NEW j \in Pauses
      PROVE  j = i /\ (Reentered(i) \/ Over(i))
  <2>1. Reentered(j) \/ Over(j)
    BY <1>1, <1>2 DEF OwnPauses, PausesInside, Awaited, Ending, Pauses
  <2>2. j \in InFlight
    BY <2>1 DEF Reentered, Over, InFlight, Pauses
  <2> QED BY <1>1, <2>1, <2>2
<1> QED BY <1>2, <1>3

\* With none in flight and no verdict, it is the one the loop is about to enter.
LEMMA PausesAwaited ==
  ASSUME OwnPauses, Looping, InFlight = {}, terminal = "none", NEW i \in Pauses
  PROVE  Awaited(i)
<1>1. ~Reentered(i) /\ ~Over(i)
  BY DEF Reentered, Over, InFlight, Pauses
<1> QED BY <1>1 DEF OwnPauses, PausesInside, Ending

\* Nobody begins to wait but in a body.
LEMMA PausesShrink ==
  ASSUME TypeOK, overlooked \subseteq overlooked', cutOff \subseteq cutOff',
         (\E i \in Items : Settle(i)) \/ PoolStep \/ RunStep \/ UNCHANGED vars
  PROVE  Pauses' \subseteq Pauses
BY JournalOutcome DEF Pauses, Waits

\* Where nobody waits, the pauses are in order.
LEMMA NobodyWaits ==
  ASSUME Pauses' = {}, run'.pc # "paused", PendingIsPooled', PausedLeads',
         foreign' \subseteq overlooked'
  PROVE  OwnPauses'
BY DEF OwnPauses, PausesAreOpen, PausesOutside, PausesInside

LEMMA PausesBody ==
  ASSUME Base, Order, RunsAlone, OwnPauses, NEW i \in Items, BodyStep(i)
  PROVE  OwnPauses'
<1> USE DEF Base, IInv, Pool
<1>1. /\ UNCHANGED <<iterationStatus, overlooked, waiting, again, terminal, paused, run>>
      /\ i \in InFlight /\ fork[i].pc = "body" /\ InFlight' = InFlight
      /\ \A j \in Items : j # i => fork'[j] = fork[j] /\ journal'[j] = journal[j]
  BY BodyOutcome DEF pool, kept
<1>2. PICK s \in Steps :
        /\ Runs(i, s)
        /\ \A t \in Steps : t # s => journal'[i][t] = journal[i][t]
        /\ \/ foreign' = foreign
           \/ foreign' = foreign \cup {i} /\ Waits(i, s) /\ run.item # i
        /\ \A j \in Items, t \in Steps :
             j # i \/ t # s => (<<j, t>> \in cutOff' <=> <<j, t>> \in cutOff)
        /\ \/ journal'[i][s] \in {"SUCCEEDED", "FAILED"}
           \/ /\ fork'[i].pc = "over" /\ fork'[i].verdict = "PAUSED"
              /\ journal'[i][s] = "PAUSED"
           \/ /\ fork'[i].pc = "over" /\ fork'[i].verdict = "ENGINE_ERROR"
              /\ journal' = journal
  BY BodyOutcome
<1>3. Looping /\ fork[i].at = s
  BY <1>1, <1>2 DEF Order, InOrder, Runs
<1>4. /\ paused = 0 /\ \A j \in Pauses : j = i
      /\ i \in Pauses => run.item = i /\ Waits(i, s) /\ FirstOpen(i)
  <2>1. i \in Pauses => Reentered(i)
    BY <1>1, <1>3, PausesInFlight DEF Over
  <2> QED BY <1>1, <1>3, <2>1, PausesInFlight DEF Reentered, OwnPauses, PausesAreOpen
<1>5. foreign' \subseteq overlooked'
  <2>1. Waits(i, s) => i \in overlooked \/ i \in Pauses
    BY DEF Pauses, Waits
  <2> QED BY <1>1, <1>2, <1>4, <2>1 DEF OwnPauses
<1>6. \A j \in Pauses' : j = i
  BY <1>1, <1>2, <1>4 DEF Pauses, Waits
<1>7. ASSUME i \in Pauses'
      PROVE  FirstOpen(i)' /\ Over(i)'
  <2>1. PICK u \in Steps : Waits(i, u)'
    BY <1>7 DEF Pauses
  <2>2. \A t \in Steps : t # s => (Waits(i, t)' <=> Waits(i, t)) /\ ~Waits(i, t)
    <3>1. ASSUME NEW t \in Steps, t # s
          PROVE  Waits(i, t)' <=> Waits(i, t)
      BY <1>2, <3>1 DEF Waits
    <3>2. ASSUME NEW t \in Steps, t # s
          PROVE  ~Waits(i, t)
      <4>1. Waits(i, t) => i \in Pauses
        BY <1>1, <1>7 DEF Pauses
      <4> QED BY <1>4, <3>2, <4>1 DEF FirstOpen
    <3> QED BY <3>1, <3>2
  <2>3. u = s /\ journal'[i][s] = "PAUSED"
    BY <2>1, <2>2 DEF Waits
  <2>4. \A t \in Steps : t < s => journal[i][t] \notin {"none", "PAUSED"}
    BY <1>1, <1>3 DEF Order, BehindIsClosed
  <2>5. FirstOpen(i)'
    BY <1>2, <2>2, <2>4 DEF FirstOpen
  <2>6. Over(i)'
    BY <1>2, <2>3 DEF Over
  <2> QED BY <2>5, <2>6
<1>8. PendingIsPooled'
  <2>1. InPool' = InPool /\ i \in InPool
    BY <1>1 DEF InPool, Back
  <2>2. \A j \in Items : j # i => (IsPending(j, journal)' <=> IsPending(j, journal))
    BY <1>1, SamePending
  <2> QED BY <1>1, <2>1, <2>2 DEF OwnPauses, PendingIsPooled, Looping
<1>9. iterationStatus[i] # "SUCCEEDED"
  BY <1>1 DEF PoolIsUndecided
<1>10. PausesAreOpen' /\ PausesInside'
  BY <1>1, <1>6, <1>7, <1>9 DEF PausesAreOpen, PausesInside
<1>11. PausesOutside'
  BY <1>1, <1>3 DEF PausesOutside, Looping
<1>12. PausedLeads'
  BY <1>1, <1>4 DEF PausedLeads
<1> QED BY <1>5, <1>8, <1>10, <1>11, <1>12 DEF OwnPauses

LEMMA PausesSettle ==
  ASSUME Base, Base', Order, Order', RunsAlone, OwnPauses, ~collectFailed',
         NEW i \in Items, Settle(i)
  PROVE  OwnPauses'
<1> USE DEF Base, IInv, Pool
<1>1. CASE Resent(i)
  <2>1. /\ UNCHANGED <<iterationStatus, waiting, terminal, paused, run, foreign, cutOff, overlooked>>
        /\ Looping /\ i \in InFlight /\ fork[i].pc = "over" /\ fork[i].verdict = "LIMITED"
        /\ InFlight' = InFlight \ {i} /\ Back' = Back \cup {i}
        /\ \A j \in Items : j # i => journal'[j] = journal[j]
    BY <1>1, AgainOutcome DEF Resent, kept
  <2>2. paused = 0 /\ Pauses = {}
    BY <2>1, PausesInFlight DEF Reentered, Over
  <2>3. Pauses' = {}
    BY <2>1, <2>2, PausesShrink
  <2>4. PendingIsPooled'
    <3>1. InPool' = InPool /\ i \in InPool
      BY <2>1 DEF InPool
    <3>2. \A j \in Items : j # i => (IsPending(j, journal)' <=> IsPending(j, journal))
      BY <2>1, SamePending
    <3> QED BY <2>1, <3>1, <3>2 DEF OwnPauses, PendingIsPooled, Looping
  <2>5. PausedLeads' /\ foreign' \subseteq overlooked' /\ run'.pc # "paused"
    BY <2>1, <2>2 DEF PausedLeads, OwnPauses, Looping
  <2> QED BY <2>3, <2>4, <2>5, NobodyWaits
<1>2. ASSUME NEW w \in Verdicts, Settles(i), Settled(i, w)
      PROVE  /\ UNCHANGED <<run, foreign, cutOff, overlooked, waiting>>
             /\ Looping /\ i \in InFlight /\ fork[i].pc = "over"
             /\ InFlight' = {} /\ Back' = {} /\ \A j \in waiting : i < j
             /\ terminal = "none" /\ terminal' = Outranking(w)
             /\ paused = 0 /\ (\A j \in Pauses : j = i /\ Over(i)) /\ Pauses' \subseteq Pauses
             /\ \A j \in Items : IsPending(j, journal) => j \in waiting \cup {i}
  <2>1. /\ UNCHANGED <<run, foreign, cutOff, overlooked, waiting>>
        /\ Looping /\ i \in InFlight /\ fork[i].pc = "over"
        /\ InFlight' = InFlight \ {i} /\ Back' = Back /\ terminal' = Outranking(w)
    BY <1>2, SettledOutcome
  <2>2. InFlight = {i} /\ Back = {} /\ terminal = "none" /\ \A j \in waiting : i < j
    BY <2>1, OneInFlight
  <2>3. paused = 0 /\ \A j \in Pauses : j = i /\ Over(i)
    BY <2>1, PausesInFlight DEF Reentered
  <2>4. Pauses' \subseteq Pauses
    BY <2>1, PausesShrink
  <2>5. \A j \in Items : IsPending(j, journal) => j \in waiting \cup {i}
    BY <2>1, <2>2 DEF OwnPauses, PendingIsPooled, InPool
  <2> QED BY <2>1, <2>2, <2>3, <2>4, <2>5
<1>3. CASE LeavesPaused(i)
  <2>1. /\ Settles(i) /\ Settled(i, "PAUSED") /\ "PAUSED" \in Verdicts /\ paused' = i
        /\ UNCHANGED <<journal, iterationStatus>>
    BY <1>3 DEF LeavesPaused, Verdicts
  <2>2. /\ UNCHANGED <<run, foreign, cutOff, overlooked, waiting>> /\ Looping
        /\ InFlight' = {} /\ Back' = {} /\ \A j \in waiting : i < j
        /\ terminal = "none" /\ terminal' = Outranking("PAUSED")
        /\ (\A j \in Pauses : j = i) /\ Pauses' \subseteq Pauses
        /\ \A j \in Items : IsPending(j, journal) => j \in waiting \cup {i}
    BY <1>2, <2>1
  <2>3. terminal' = "PAUSED"
    <3>1. Rank["PAUSED"] > Rank["none"]
      BY DEF Rank
    <3> QED BY <2>2, <3>1 DEF Outranking, EndsTheLoop
  <2>4. PendingIsPooled'
    <3>1. \A j \in Items : IsPending(j, journal)' <=> IsPending(j, journal)
      BY <2>1, SamePending
    <3> QED BY <2>1, <2>2, <2>3, <3>1 DEF PendingIsPooled, InPool
  <2>5. PausedLeads'
    BY <2>1, <2>2, <2>3 DEF PausedLeads
  <2>6. PausesInside'
    BY <2>1, <2>2, <2>3 DEF PausesInside, Ending
  <2>7. PausesAreOpen'
    BY <2>1, <2>2 DEF OwnPauses, PausesAreOpen, FirstOpen, Waits
  <2>8. PausesOutside' /\ foreign' \subseteq overlooked'
    BY <2>2 DEF PausesOutside, Looping, OwnPauses
  <2> QED BY <2>4, <2>5, <2>6, <2>7, <2>8 DEF OwnPauses
<1>4. CASE LeavesFailed(i) \/ LeavesDone(i)
  <2>1. PICK v \in {"FAILED", "SUCCEEDED"}, w \in Verdicts :
          /\ Settles(i) /\ Record(i, v) /\ Settled(i, w) /\ paused' = paused
          /\ fork[i].verdict \notin {"PAUSED", "ENGINE_ERROR"}
          /\ v = "FAILED" => fork[i].verdict \in {"FAILED", "LIMITED", "LOG_SIZE_EXCEEDED"}
    <3>1. CASE LeavesFailed(i)
      <4>1. PICK w \in {"FAILED", "LOG_SIZE_EXCEEDED"} : Settled(i, w)
        BY <3>1 DEF LeavesFailed
      <4>2. /\ Settles(i) /\ Record(i, "FAILED") /\ paused' = paused
            /\ fork[i].verdict \in {"FAILED", "LIMITED", "LOG_SIZE_EXCEEDED"}
        BY <3>1 DEF LeavesFailed
      <4>3. w \in Verdicts
        BY DEF Verdicts
      <4> QED BY <4>1, <4>2, <4>3
    <3>2. CASE LeavesDone(i)
      <4>1. PICK w \in {"RUNNING", "SUCCEEDED"} : fork[i].verdict = w /\ Settled(i, w)
        BY <3>2 DEF LeavesDone
      <4>2. Settles(i) /\ Record(i, "SUCCEEDED") /\ paused' = paused
        BY <3>2 DEF LeavesDone
      <4>3. w \in Verdicts
        BY DEF Verdicts
      <4> QED BY <4>1, <4>2, <4>3
    <3> QED BY <1>4, <3>1, <3>2
  <2>2. /\ UNCHANGED <<run, foreign, cutOff, overlooked, waiting>> /\ Looping /\ fork[i].pc = "over"
        /\ paused = 0 /\ (\A j \in Pauses : j = i /\ Over(i)) /\ Pauses' \subseteq Pauses
        /\ \A j \in Items : IsPending(j, journal) => j \in waiting \cup {i}
    BY <1>2, <2>1
  <2>3. Pauses' = {}
    BY <2>1, <2>2 DEF Over
  <2>4. /\ iterationStatus'[i] = v /\ (v = "FAILED" => journal' = journal)
        /\ \A j \in Items : j # i => /\ iterationStatus'[j] = iterationStatus[j]
                                     /\ journal'[j] = journal[j]
    BY <2>1, RecordOutcome
  <2>5. ~IsPending(i, journal)'
    <3>1. CASE v = "SUCCEEDED"
      BY <2>4, <3>1 DEF IsPending
    <3>2. CASE v = "FAILED"
      <4>1. Has(i, "FAILED")
        BY <2>1, <2>2, <3>2 DEF VerdictsAreWritten
      <4> QED BY <2>4, <3>2, <4>1 DEF IsPending, Has
    <3> QED BY <3>1, <3>2
  <2>6. \A j \in Items : j # i => (IsPending(j, journal)' <=> IsPending(j, journal))
    BY <2>4, SamePending
  <2>7. PendingIsPooled'
    BY <2>2, <2>5, <2>6 DEF PendingIsPooled, InPool
  <2>8. PausedLeads' /\ foreign' \subseteq overlooked' /\ run'.pc # "paused"
    BY <2>1, <2>2 DEF PausedLeads, OwnPauses, Looping
  <2> QED BY <2>3, <2>7, <2>8, NobodyWaits
<1>5. CASE Breaks(i)
  <2>1. /\ UNCHANGED <<journal, iterationStatus, foreign, cutOff, overlooked>>
        /\ run'.pc \in {"unwinding", "ended"} /\ paused' = 0
        /\ run'.pc = "ended" => run'.verdict = "INTERNAL_ERROR"
    BY <1>5 DEF Breaks, Leave
  <2>2. Pauses' = Pauses
    BY <2>1 DEF Pauses, Waits
  <2>3. PausesAreOpen' /\ foreign' \subseteq overlooked'
    BY <2>1, <2>2 DEF OwnPauses, PausesAreOpen, FirstOpen, Waits
  <2>4. PendingIsPooled' /\ PausedLeads' /\ PausesOutside' /\ PausesInside'
    BY <2>1 DEF PendingIsPooled, PausedLeads, PausesOutside, PausesInside, Looping
  <2> QED BY <2>3, <2>4 DEF OwnPauses
<1> QED BY <1>1, <1>3, <1>4, <1>5, SettleCases

\* The body of an item that is entered at its pause begins there.
LEMMA ReachesPause ==
  ASSUME TypeOK, NEW i \in Items, NEW s \in Steps, Waits(i, s), FirstOpen(i)
  PROVE  Reach(journal[i], 1).pc = "body" /\ Reach(journal[i], 1).at = s
<1> DEFINE r == Reach(journal[i], 1)
<1>1. journal[i][s] = "PAUSED"
  BY DEF Waits
<1>2. journal[i] \in Bodies /\ 1 \in Nat \ {0}
  BY JournalTypes DEF TypeOK
<1>3. /\ r.pc \in {"body", "over"}
      /\ r.pc = "body" =>
           /\ r.at \in Steps /\ journal[i][r.at] \in {"none", "PAUSED"}
           /\ \A t \in Steps : 1 <= t /\ t < r.at => journal[i][t] \notin {"none", "PAUSED"}
      /\ r.pc = "over" => \A t \in Steps : 1 <= t => journal[i][t] \notin {"none", "PAUSED"}
  BY <1>2, ReachType
<1> HIDE DEF r
<1>4. r.pc = "body"
  BY <1>1, <1>3
<1>5. ~(s < r.at)
  BY <1>1, <1>3, <1>4
<1>6. ~(r.at < s)
  BY <1>1, <1>3, <1>4 DEF FirstOpen
<1>7. r.at = s
  BY <1>3, <1>4, <1>5, <1>6
<1> QED BY <1>1, <1>4, <1>7 DEF r

LEMMA PausesDispatch ==
  ASSUME Base, Order, RunsAlone, OwnPauses, NEW i \in Items, Dispatch(i)
  PROVE  OwnPauses'
<1> USE DEF Base, IInv, Pool
<1>1. /\ UNCHANGED <<journal, iterationStatus, terminal, paused, run, foreign, cutOff, overlooked>>
      /\ CanDispatch /\ Looping /\ terminal = "none"
      /\ fork'[i] = Reach(journal[i], 1) /\ InFlight' = InFlight \cup {i}
      /\ waiting \cup Back = waiting' \cup Back' \cup {i}
      /\ Back = {} => i \in waiting /\ (\A j \in waiting : i <= j)
  BY DispatchOutcome DEF history, CanDispatch
<1>2. InFlight = {} /\ paused = 0
  BY <1>1, AloneInFlight DEF OwnPauses, PausedLeads
<1>3. ASSUME NEW j \in Pauses
      PROVE  j = i /\ run.item = i
  <2>1. Awaited(j)
    BY <1>1, <1>2, PausesAwaited
  <2>2. i \in waiting /\ i <= j /\ j <= i /\ run.item = j
    BY <1>1, <2>1 DEF Awaited
  <2> QED BY <2>2 DEF Pauses
<1>4. Pauses' = Pauses
  BY <1>1 DEF Pauses, Waits
<1>5. ASSUME NEW j \in Pauses
      PROVE  Reentered(j)'
  <2>1. j = i /\ run.item = i /\ FirstOpen(i)
    BY <1>3 DEF OwnPauses, PausesAreOpen
  <2>2. PICK s \in Steps : Waits(i, s)
    BY <2>1 DEF Pauses
  <2>3. fork'[i].pc = "body" /\ fork'[i].at = s
    BY <1>1, <2>1, <2>2, ReachesPause
  <2>4. Waits(i, s)'
    BY <1>1, <2>2 DEF Waits
  <2> QED BY <1>1, <2>1, <2>3, <2>4 DEF Reentered
<1>6. PausesAreOpen' /\ foreign' \subseteq overlooked' /\ PausesInside'
  BY <1>1, <1>4, <1>5 DEF OwnPauses, PausesAreOpen, FirstOpen, PausesInside, Waits
<1>7. PausesOutside' /\ PausedLeads'
  BY <1>1, <1>2 DEF PausesOutside, PausedLeads, Looping
<1>8. PendingIsPooled'
  <2>1. InPool' = InPool
    BY <1>1 DEF InPool
  <2>2. \A j \in Items : IsPending(j, journal)' <=> IsPending(j, journal)
    BY <1>1, SamePending
  <2> QED BY <1>1, <2>1, <2>2 DEF OwnPauses, PendingIsPooled, Looping
<1> QED BY <1>6, <1>7, <1>8 DEF OwnPauses

LEMMA PausesExit ==
  ASSUME Base, Order, RunsAlone, OwnPauses,
         ReturnVerdict \/ TakeCheckpoint \/ CheckpointBreaks \/ LoopOutgrowsTheLog
  PROVE  OwnPauses'
<1> USE DEF Base, IInv, Pool
<1>1. /\ UNCHANGED <<journal, iterationStatus, foreign, cutOff, overlooked>>
      /\ Leave /\ Looping /\ InFlight = {}
      /\ terminal = "none" /\ reason = "none" => waiting = {}
      /\ \/ run'.pc = "after" /\ terminal = "none"
         \/ run'.pc = "paused" /\ run'.on = "item" /\ run'.item = paused /\ terminal = "PAUSED"
         \/ run'.pc = "paused" /\ run'.on = "loop" /\ terminal = "none"
         \/ run'.pc = "ended" /\ (terminal # "PAUSED" \/ loopStatus' = "FAILED"
                                  \/ run'.verdict = "INTERNAL_ERROR")
  BY ExitOutcome DEF LocalsAreFresh, history
<1>2. Pauses' = Pauses /\ \A j \in Items : IsPending(j, journal)' <=> IsPending(j, journal)
  BY <1>1, SamePending DEF Pauses, Waits
<1>3. \A j \in Pauses : terminal = "PAUSED" /\ paused = j
  <2> SUFFICES ASSUME NEW j \in Pauses
               PROVE  Ending(j)
    BY DEF Ending
  <2>1. ~Reentered(j) /\ ~Over(j)
    BY <1>1 DEF Reentered, Over, InFlight, Pauses
  <2>2. ~Awaited(j)
    BY <1>1 DEF Awaited
  <2> QED BY <1>1, <2>1, <2>2 DEF OwnPauses, PausesInside
<1>4. terminal = "PAUSED" => \A j \in Items : j < paused => ~IsPending(j, journal)
  <2> SUFFICES ASSUME terminal = "PAUSED", NEW j \in Items, j < paused, IsPending(j, journal)
               PROVE  FALSE
    OBVIOUS
  <2>1. paused \in Nat /\ paused # 0
    BY DEF TypeOK
  <2>2. Back = {} /\ \A l \in waiting : paused < l
    BY <2>1 DEF OwnPauses, PausedLeads
  <2>3. j \in waiting \/ j = paused
    BY <1>1, <2>2 DEF OwnPauses, PendingIsPooled, InPool
  <2>4. j \in Nat
    OBVIOUS
  <2> QED BY <2>1, <2>2, <2>3, <2>4
<1>5. PausesOutside'
  BY <1>1, <1>2, <1>3, <1>4 DEF PausesOutside
<1>6. PausesAreOpen' /\ foreign' \subseteq overlooked'
  BY <1>1, <1>2 DEF OwnPauses, PausesAreOpen, FirstOpen, Waits
<1>7. PendingIsPooled' /\ PausedLeads' /\ PausesInside'
  BY <1>1 DEF PendingIsPooled, PausedLeads, PausesInside, Leave, Looping
<1> QED BY <1>5, <1>6, <1>7 DEF OwnPauses

LEMMA PausesPool ==
  ASSUME Base, Base', Order, RunsAlone, OwnPauses, PoolStep
  PROVE  OwnPauses'
<1> USE DEF Base, IInv, Pool
<1>1. CASE NeedsCheckpoint \/ SpacingOutlastsBudget
  <2>1. /\ UNCHANGED <<journal, iterationStatus, waiting, again, fork, paused, run, foreign, cutOff,
                       overlooked>>
        /\ CanDispatch /\ Looping /\ terminal = "none" /\ (dispatched \/ finished)
    BY <1>1 DEF NeedsCheckpoint, SpacingOutlastsBudget, CanDispatch, Due, kept, history
  <2>2. InFlight = {} /\ paused = 0
    BY <2>1, AloneInFlight DEF OwnPauses, PausedLeads
  <2>3. Pauses = {}
    BY <2>1, <2>2, PausesAwaited DEF Awaited
  <2>4. Pauses' = {}
    BY <2>1, <2>3 DEF Pauses, Waits
  <2>5. PendingIsPooled'
    <3>1. InPool' = InPool
      BY <2>1 DEF InPool, InFlight, Back
    <3>2. \A j \in Items : IsPending(j, journal)' <=> IsPending(j, journal)
      BY <2>1, SamePending
    <3> QED BY <2>1, <3>1, <3>2 DEF OwnPauses, PendingIsPooled, Looping
  <2>6. PausedLeads' /\ foreign' \subseteq overlooked' /\ run'.pc # "paused"
    BY <2>1, <2>2 DEF PausedLeads, OwnPauses, Looping
  <2> QED BY <2>4, <2>5, <2>6, NobodyWaits
<1>2. CASE \E i \in Items : Dispatch(i)
  BY <1>2, PausesDispatch
<1>3. CASE ReturnVerdict \/ TakeCheckpoint \/ CheckpointBreaks \/ LoopOutgrowsTheLog
  BY <1>3, PausesExit
<1>4. CASE Unwound
  <2>1. UNCHANGED <<journal, iterationStatus, foreign, cutOff, overlooked>>
    BY <1>4 DEF Unwound, kept, history
  <2>2. run'.pc = "ended" /\ run'.verdict = "INTERNAL_ERROR"
    BY <1>4 DEF Unwound, Lost, TypeOK, RunStates
  <2>3. Pauses' = Pauses
    BY <2>1 DEF Pauses, Waits
  <2>4. PausesAreOpen' /\ foreign' \subseteq overlooked'
    BY <2>1, <2>3 DEF OwnPauses, PausesAreOpen, FirstOpen, Waits
  <2>5. PendingIsPooled' /\ PausedLeads' /\ PausesOutside' /\ PausesInside'
    BY <2>2 DEF PendingIsPooled, PausedLeads, PausesOutside, PausesInside, Looping,
                LocalsAreFresh
  <2> QED BY <2>4, <2>5 DEF OwnPauses
<1> QED BY <1>1, <1>2, <1>3, <1>4 DEF PoolStep

\* Entering the loop puts every pending item in its pool.
LEMMA EnteredPool ==
  ASSUME Base, RunStep, ~EngineLost, NEW j, Enter(j)
  PROVE  PendingIsPooled' /\ PausedLeads' /\ waiting' = {i \in Items : IsPending(i, journal)'}
<1>1. /\ journal' = j /\ waiting' = {i \in Items : IsPending(i, j)}
      /\ UNCHANGED <<iterationStatus, paused>>
  BY DEF Enter, kept
<1>2. \A i \in Items : IsPending(i, journal)' <=> IsPending(i, j)
  BY <1>1 DEF IsPending
<1>3. paused = 0
  BY RunOutcome DEF Base, IInv, LocalsAreFresh
<1> QED BY <1>1, <1>2, <1>3 DEF PendingIsPooled, PausedLeads, InPool

LEMMA PausesResume ==
  ASSUME Base, Order, RunsAlone, OwnPauses, Resume
  PROVE  OwnPauses'
<1> USE DEF Base, IInv, Pool
<1>1. /\ run.pc = "paused" /\ run'.pc = "looping" /\ run'.item = run.item
      /\ iterationStatus' = iterationStatus /\ foreign' = foreign /\ cutOff' = cutOff
      /\ overlooked' = overlooked \cup {i \in Items : Overlooked(i)}
      /\ ~EngineLost
  BY DEF Resume, EngineLost, Enter, TypeOK, RunStates, kept
<1>2. /\ ~Looping /\ Back' = {} /\ InFlight' = {}
      /\ terminal' = "none" /\ reason' = "none" /\ ~finished' /\ ~dispatched'
  BY <1>1, RunOutcome DEF LocalsAreFresh, RunStep
<1>3. journal' = journal
  BY RestoredIs DEF Resume, Enter
<1>4. PendingIsPooled' /\ PausedLeads' /\ waiting' = {i \in Items : IsPending(i, journal)}
  <2>1. Enter(Restored(TRUE))
    BY DEF Resume
  <2>2. \A i \in Items : IsPending(i, journal)' <=> IsPending(i, journal)
    BY <1>1, <1>3, SamePending
  <2>3. /\ PendingIsPooled' /\ PausedLeads'
        /\ waiting' = {i \in Items : IsPending(i, journal)'}
    BY <1>1, <2>1, EnteredPool DEF RunStep
  <2> QED BY <2>2, <2>3
<1>5. Pauses' = Pauses \ {i \in Items : Overlooked(i)}
  BY <1>1, <1>3 DEF Pauses, Waits
<1>6. ASSUME NEW i \in Pauses'
      PROVE  Awaited(i)'
  <2>1. i \in Pauses /\ i \in Items /\ ~Overlooked(i) /\ Has(i, "PAUSED")
    BY <1>5 DEF Pauses, Waits, Has
  <2>2. run.item = i /\ \A j \in Items : j < i => ~IsPending(j, journal)
    BY <1>1, <2>1 DEF OwnPauses, PausesOutside
  <2>3. IsPending(i, journal)
    <3>1. iterationStatus[i] # "SUCCEEDED"
      BY <2>1 DEF OwnPauses, PausesAreOpen
    <3>2. iterationStatus[i] = "FAILED" => ~Has(i, "FAILED")
      BY <2>1 DEF Overlooked
    <3> QED BY <3>1, <3>2 DEF IsPending, Has
  <2>4. i \in waiting' /\ \A j \in waiting' : i <= j
    <3>1. \A j \in waiting' : j \in Items /\ ~(j < i)
      BY <1>4, <2>2
    <3> QED BY <1>4, <2>1, <2>3, <3>1
  <2> QED BY <1>2, <1>1, <2>2, <2>4 DEF Awaited
<1>7. PausesAreOpen' /\ foreign' \subseteq overlooked' /\ PausesInside'
  BY <1>1, <1>3, <1>5, <1>6 DEF OwnPauses, PausesAreOpen, FirstOpen, PausesInside, Waits
<1>8. PausesOutside'
  BY <1>1 DEF PausesOutside
<1> QED BY <1>4, <1>7, <1>8 DEF OwnPauses

\* All of the loop is run again: nobody waits.
LEMMA PausesScratch ==
  ASSUME Base, RetryFromScratch
  PROVE  OwnPauses'
<1>1. /\ journal' = [i \in Items |-> Blank] /\ waiting' = Items /\ foreign' = {}
      /\ run'.pc = "looping" /\ run.pc = "ended" /\ paused' = paused
  BY DEF RetryFromScratch, Retryable, Retried
<1>2. paused' = 0
  BY <1>1 DEF Base, LocalsAreFresh, Looping
<1>3. Pauses' = {}
  BY <1>1 DEF Pauses, Waits, Blank
<1>4. PendingIsPooled' /\ PausedLeads'
  BY <1>1, <1>2 DEF PendingIsPooled, PausedLeads, InPool
<1> QED BY <1>1, <1>3, <1>4, NobodyWaits

LEMMA PausesRun ==
  ASSUME Base, Base', Order, RunsAlone, OwnPauses, RunStep
  PROVE  OwnPauses'
<1> USE DEF Base, IInv, Pool
<1>1. ASSUME overlooked' = overlooked, foreign' = foreign, cutOff \subseteq cutOff', Pauses = {}
      PROVE  Pauses' = {} /\ foreign' \subseteq overlooked'
  BY <1>1, PausesShrink DEF OwnPauses
<1>2. CASE Begin
  <2>1. /\ run.pc = "queued" /\ run'.pc = "looping" /\ UNCHANGED <<overlooked, cutOff, foreign>>
        /\ ~EngineLost
    BY <1>2 DEF Begin, EngineLost, TypeOK, RunStates, history
  <2>2. Enter(journal)
    BY <1>2 DEF Begin
  <2>3. Pauses = {}
    BY <2>1 DEF OwnPauses, PausesOutside
  <2> QED BY <1>1, <2>1, <2>2, <2>3, EnteredPool, NobodyWaits
<1>3. CASE Resume
  BY <1>3, PausesResume
<1>4. CASE EntryFails
  <2>1. /\ UNCHANGED <<journal, iterationStatus, foreign, cutOff, overlooked>>
        /\ run'.pc = "ended" /\ loopStatus' = "FAILED"
    BY <1>4 DEF EntryFails, Takes
  <2>2. Pauses' = Pauses
    BY <2>1 DEF Pauses, Waits
  <2>3. PausesAreOpen' /\ foreign' \subseteq overlooked'
    BY <2>1, <2>2 DEF OwnPauses, PausesAreOpen, FirstOpen, Waits
  <2>4. PendingIsPooled' /\ PausedLeads' /\ PausesOutside' /\ PausesInside'
    BY <1>4, <2>1, RunOutcome DEF PendingIsPooled, PausedLeads, PausesOutside, PausesInside,
                                  Looping, LocalsAreFresh
  <2> QED BY <2>3, <2>4 DEF OwnPauses
<1>5. CASE FlowEnds \/ LaterStep
  <2>1. /\ run.pc = "after" /\ UNCHANGED <<overlooked, cutOff, foreign, paused>>
        /\ run'.pc = "ended" \/ (run'.pc = "paused" /\ run'.on = "later")
    <3>1. CASE FlowEnds
      BY <3>1 DEF FlowEnds, TypeOK, RunStates, history, pool
    <3>2. CASE LaterStep
      BY <3>2 DEF LaterStep, Takes, history, pool
    <3> QED BY <1>5, <3>1, <3>2
  <2>2. Pauses' = {} /\ foreign' \subseteq overlooked'
    BY <1>1, <2>1 DEF OwnPauses, PausesOutside
  <2>3. PausesAreOpen' /\ PausesOutside' /\ PausesInside'
    BY <2>1, <2>2 DEF PausesAreOpen, PausesOutside, PausesInside
  <2>4. PendingIsPooled' /\ PausedLeads'
    BY <2>1 DEF PendingIsPooled, PausedLeads, Looping, LocalsAreFresh
  <2> QED BY <2>2, <2>3, <2>4 DEF OwnPauses
<1>6. CASE RetryFromFailedStep
  <2>1. /\ loopStatus # "FAILED" /\ UNCHANGED <<overlooked, foreign>>
        /\ run.pc = "ended" /\ run'.pc = "looping" /\ ~EngineLost
        /\ cutOff' = cutOff \cup CutOff /\ Enter(Restored(FALSE))
    BY <1>6 DEF RetryFromFailedStep, Retryable, Retried, EngineLost
  <2>2. CASE run.verdict = "INTERNAL_ERROR"
    <3>1. ASSUME NEW i \in Items, NEW s \in Steps
          PROVE  ~Waits(i, s)'
      <4>1. journal'[i][s] = "PAUSED" => journal[i][s] = "PAUSED"
        BY <2>1, RestoredIs DEF Enter
      <4>2. journal[i][s] = "PAUSED" => <<i, s>> \in CutOff
        BY <2>2 DEF CutOff
      <4> QED BY <2>1, <4>1, <4>2 DEF Waits
    <3>2. Pauses' = {} /\ foreign' \subseteq overlooked'
      BY <2>1, <3>1 DEF Pauses, OwnPauses
    <3> QED BY <2>1, <3>2, EnteredPool, NobodyWaits
  <2>3. CASE run.verdict # "INTERNAL_ERROR"
    <3>1. Pauses = {}
      BY <2>1, <2>3 DEF OwnPauses, PausesOutside
    <3> QED BY <1>1, <2>1, <3>1, EnteredPool, NobodyWaits
  <2> QED BY <2>2, <2>3
<1>7. CASE RetryFromScratch
  BY <1>7, PausesScratch
<1>8. CASE EngineLost
  <2>1. /\ UNCHANGED <<journal, iterationStatus, foreign, cutOff, overlooked>> /\ paused' = 0
        /\ run'.pc = "ended" /\ run'.verdict = "INTERNAL_ERROR"
    BY <1>8, LostOutcome DEF kept, history, Leave
  <2>2. Pauses' = Pauses
    BY <2>1 DEF Pauses, Waits
  <2>3. PausesAreOpen' /\ foreign' \subseteq overlooked'
    BY <2>1, <2>2 DEF OwnPauses, PausesAreOpen, FirstOpen, Waits
  <2>4. PendingIsPooled' /\ PausedLeads' /\ PausesOutside' /\ PausesInside'
    BY <2>1 DEF PendingIsPooled, PausedLeads, PausesOutside, PausesInside, Looping
  <2> QED BY <2>3, <2>4 DEF OwnPauses
<1> QED BY <1>2, <1>3, <1>4, <1>5, <1>6, <1>7, <1>8 DEF RunStep

\* A result that could not be collected is forgotten only when all starts over.
LEMMA CollectOutcome ==
  ASSUME TypeOK, [Next]_vars, ~collectFailed', ~RetryFromScratch
  PROVE  ~collectFailed /\ settings' = settings
<1>1. CASE \E i \in Items : BodyStep(i)
  BY <1>1, BodyOutcome
<1>2. CASE \E i \in Items : Settle(i)
  <2> PICK i \in Items : Settle(i)
    BY <1>2
  <2> QED BY DEF Settle, RetryLimited, SettlePaused, SettleFailed, SettleSucceeded, FailToCollect,
                 CollectBreaks, Unwind, Settled, history
<1>3. CASE PoolStep
  BY <1>3 DEF PoolStep, NeedsCheckpoint, SpacingOutlastsBudget, Dispatch, ReturnVerdict,
              TakeCheckpoint, CheckpointBreaks, LoopOutgrowsTheLog, Unwound, history
<1>4. CASE RunStep
  <2>1. CASE Begin
    BY <2>1 DEF Begin, Enter, history
  <2>2. CASE Resume
    BY <2>2 DEF Resume, Enter
  <2>3. CASE RetryFromFailedStep
    BY <2>3 DEF RetryFromFailedStep, Enter
  <2>4. CASE EntryFails \/ FlowEnds \/ LaterStep \/ EngineLost
    BY <2>4 DEF EntryFails, FlowEnds, LaterStep, EngineLost, history
  <2> QED BY <1>4, <2>1, <2>2, <2>3, <2>4 DEF RunStep
<1>5. CASE UNCHANGED vars
  BY <1>5 DEF vars, history
<1> QED BY <1>1, <1>2, <1>3, <1>4, <1>5 DEF Next, ProcessStep

LEMMA PausesStep ==
  ASSUME Base, Base', Order, Order', PausesAreOwn, [Next]_vars
  PROVE  PausesAreOwn'
<1> SUFFICES ASSUME RunsAlone', ~collectFailed'
             PROVE  OwnPauses'
  BY DEF PausesAreOwn
<1>1. CASE RetryFromScratch
  BY <1>1, PausesScratch
<1>2. CASE ~RetryFromScratch
  <2>1. RunsAlone /\ OwnPauses
    BY <1>2, CollectOutcome DEF Base, IInv, PausesAreOwn, RunsAlone
  <2>2. CASE \E i \in Items : BodyStep(i)
    BY <2>1, <2>2, PausesBody
  <2>3. CASE \E i \in Items : Settle(i)
    BY <2>1, <2>3, PausesSettle
  <2>4. CASE PoolStep
    BY <2>1, <2>4, PausesPool
  <2>5. CASE RunStep
    BY <2>1, <2>5, PausesRun
  <2>6. CASE UNCHANGED vars
    <3>1. UNCHANGED <<journal, iterationStatus, loopStatus, fork, waiting, again, terminal, reason,
                      paused, dispatched, finished, run, foreign, cutOff, overlooked>>
      BY <2>6 DEF vars, pool, kept, history
    <3>2. UNCHANGED <<InFlight, Back, InPool, Pauses>>
      BY <3>1 DEF InFlight, Back, InPool, Pauses, Waits
    <3>3. PendingIsPooled' /\ PausedLeads' /\ foreign' \subseteq overlooked'
      BY <2>1, <3>1, <3>2 DEF OwnPauses, PendingIsPooled, PausedLeads, IsPending, Looping
    <3>4. PausesAreOpen' /\ PausesOutside'
      BY <2>1, <3>1, <3>2
      DEF OwnPauses, PausesAreOpen, PausesOutside, FirstOpen, Waits, IsPending
    <3>5. PausesInside'
      BY <2>1, <3>1, <3>2
      DEF OwnPauses, PausesInside, Awaited, Reentered, Over, Ending, Waits, Looping
    <3> QED BY <3>3, <3>4, <3>5 DEF OwnPauses
  <2> QED BY <2>2, <2>3, <2>4, <2>5, <2>6 DEF Next, ProcessStep
<1> QED BY <1>1, <1>2

LEMMA PausesInit == Init => PausesAreOwn
<1> SUFFICES ASSUME Init PROVE OwnPauses
  BY DEF PausesAreOwn
<1>1. Pauses = {}
  BY DEF Init, Pauses, Waits, Blank
<1>2. foreign = {} /\ paused = 0 /\ run.pc = "queued"
  BY DEF Init
<1> QED BY <1>1, <1>2 DEF OwnPauses, PendingIsPooled, PausedLeads, PausesAreOpen, PausesOutside,
                          PausesInside, Looping

LEMMA PausesAreInvariant == Spec => [](Order /\ PausesAreOwn)
<1>1. Base /\ Order /\ [Next]_vars => Order'
  BY OrderStep
<1>2. Base /\ Base' /\ Order /\ Order' /\ PausesAreOwn /\ [Next]_vars => PausesAreOwn'
  BY PausesStep
<1> QED BY OrderInit, PausesInit, <1>1, <1>2, BaseIsInvariant, PTL DEF Spec

-----------------------------------------------------------------------------
(* The theorems *)

\* Every reachable state is well typed.
THEOREM TypeCorrect == Spec => []TypeOK
<1>1. IInv => TypeOK
  BY DEF IInv
<1> QED BY <1>1, Inductive, PTL

\* No step that has succeeded is run again, however often its item is retried for a
\* rate limit, the run resumed or checkpointed, or retried from its failed step.
THEOREM StepsRunOnce == Spec => []NoStepRepeated
<1>1. IInv => NoStepRepeated
  BY DEF IInv, SuccessIsKept, NoStepRepeated
<1> QED BY <1>1, Inductive, PTL

\* When the run has left the loop no iteration is still in flight, unless an engine
\* error while a result was collected left the others unobserved.
THEOREM NobodyIsLeft == Spec => []NobodyLeftRunning
<1>1. IInv => NobodyLeftRunning
  BY DEF IInv, Pool, NobodyElseRuns, NobodyLeftRunning
<1> QED BY <1>1, Inductive, PTL

\* A loop that lets the flow go on has decided every item, has failed ones only if the
\* flow tolerates them, and lists exactly these, each once and in order: but for an
\* item whose pause a resume took for decided.
THEOREM EveryItemIsDecided == Spec => []EveryItemDecided
<1>1. FailuresMatch /\ Decisions => EveryItemDecided
  BY DEF FailuresMatch, Ascending, Listed, Decisions, AfterIsDecided, EveryItemDecided
<1> QED BY <1>1, DecisionsAreInvariant, PTL

\* An item is given maxRateLimitRetries retries in all, whatever checkpoints lie between
\* them: unless a result could not be collected.
THEOREM RetriesHold == Spec => []RetriesHoldAcrossCheckpoints
<1>1. RetriesAreCounted => RetriesHoldAcrossCheckpoints
  BY DEF RetriesAreCounted, CountsHold, RetriesHoldAcrossCheckpoints
<1> QED BY <1>1, CountsAreInvariant, PTL

\* A paused step is run again by its own resume and never by another's, whatever ends the
\* run has and however often it is retried: unless its own overlooked it, the retry of a
\* run that was lost goes on from it, or an item whose result could not be collected is
\* entered before it.
THEOREM OwnResumeOnly == Spec => []OwnResume
<1>1. Order /\ PausesAreOwn => OwnResume
  <2>1. CASE RunsAlone
    BY <2>1 DEF PausesAreOwn, OwnPauses, OwnResume
  <2>2. CASE ~RunsAlone
    BY <2>2 DEF Order, ConcurrentNeverPauses, OwnResume
  <2> QED BY <2>1, <2>2
<1> QED BY <1>1, PausesAreInvariant, PTL

\* A loop that returns another verdict leaves no paused step behind, but in an item that a
\* resume overlooked, one that the retry of a lost run went on from, or when a result
\* could not be collected.
THEOREM NoPauseAbandoned == Spec => []PauseNotAbandoned
<1>1. Order /\ PausesAreOwn => PauseNotAbandoned
  <2>1. CASE RunsAlone
    BY <2>1 DEF PausesAreOwn, OwnPauses, PausesOutside, Pauses, Waits, PauseNotAbandoned
  <2>2. CASE ~RunsAlone
    BY <2>2 DEF Order, ConcurrentNeverPauses, Has, PauseNotAbandoned
  <2> QED BY <2>1, <2>2
<1> QED BY <1>1, PausesAreInvariant, PTL
=============================================================================
