--------------------------- MODULE Runners_proofs ---------------------------
(***************************************************************************)
(* Proofs about the Qwen runner, for any requests, prompts, pages, page    *)
(* size, kernel batch and chunk length.                                    *)
(***************************************************************************)
EXTENDS MCRunners, FiniteSetTheorems, TLAPS

-----------------------------------------------------------------------------
(***************************************************************************)
(* Slots: a page and an offset in it.                                      *)
(***************************************************************************)
LEMMA MultiplesApart ==
  ASSUME NEW n \in Nat, NEW x \in Int, NEW y \in Int, x < y
  PROVE  n * x + n <= n * y
<1>1. n * (x + 1) <= n * y
  OBVIOUS
<1>2. n * (x + 1) = n * x + n
  OBVIOUS
<1> QED
  BY <1>1, <1>2

LEMMA PageAndOffset ==
  ASSUME NEW n \in Nat \ {0}, NEW p \in Nat
  PROVE  p = n * (p \div n) + (p % n) /\ p \div n \in Nat /\ p % n \in 0 .. n - 1
OBVIOUS

LEMMA SlotUnique ==
  ASSUME NEW n \in Nat, NEW a \in Nat, NEW b \in Nat, NEW x \in 0 .. n - 1, NEW y \in 0 .. n - 1,
         n * a + x = n * b + y
  PROVE  a = b /\ x = y
<1>1. n * a \in Nat /\ n * b \in Nat
  OBVIOUS
<1>2. ~ (a < b)
  BY <1>1, MultiplesApart
<1>3. ~ (b < a)
  BY <1>1, MultiplesApart
<1> QED
  BY <1>2, <1>3

\* The position is in one of the request's pages.
Home(r, p) == r \in QRequest /\ p \in Nat /\ (p \div QPageSize) + 1 \in DOMAIN qPageIds[r]

LEMMA SlotOfHome ==
  ASSUME QwenTypeOK, NEW r, NEW p, Home(r, p)
  PROVE  LET s == SlotOf(qPageIds[r], p)
             page == qPageIds[r][(p \div QPageSize) + 1]
         IN  /\ page \in Page
             /\ s = QPageSize * page + (p % QPageSize)
             /\ s \in Slot
             /\ s \div QPageSize = page /\ s % QPageSize = p % QPageSize
<1> DEFINE n == QPageSize
           i == (p \div QPageSize) + 1
           page == qPageIds[r][i]
           o == p % QPageSize
           s == SlotOf(qPageIds[r], p)
<1>1. n \in Nat \ {0} /\ QPages \in Nat \ {0}
  BY QwenBatchesAssumption
<1>2. p \in Nat /\ o \in 0 .. n - 1
  BY <1>1, PageAndOffset DEF Home
<1>3. page \in Page /\ page \in Nat /\ page < QPages
  <2>1. qPageIds[r] \in Seq(Page) /\ i \in DOMAIN qPageIds[r]
    BY DEF Home, QwenTypeOK
  <2>2. page \in Page
    BY <2>1
  <2> QED
    BY <1>1, <2>2 DEF Page
<1>4. s = page * n + o
  BY DEF SlotOf
<1> HIDE DEF n, i, page, o, s
<1>5. page * n = n * page /\ n * page \in Nat
  BY <1>1, <1>3
<1>6. s = n * page + o /\ s \in Nat
  BY <1>1, <1>2, <1>4, <1>5
<1>7. n * page + n <= n * QPages
  BY <1>1, <1>3, MultiplesApart
<1>8. n * QPages = QPages * n /\ QPages * n \in Nat
  BY <1>1
<1>9. s <= QPages * n - 1
  BY <1>1, <1>2, <1>5, <1>6, <1>7, <1>8
<1>10. s \in Slot
  BY <1>6, <1>8, <1>9 DEF Slot, n
<1>11. s = n * (s \div n) + (s % n) /\ s \div n \in Nat /\ s % n \in 0 .. n - 1
  BY <1>1, <1>6, PageAndOffset
<1>12. s \div n = page /\ s % n = o
  BY <1>1, <1>2, <1>3, <1>6, <1>11, SlotUnique
<1> QED
  BY <1>3, <1>6, <1>10, <1>12 DEF n, i, page, o, s

LEMMA SlotsDistinct ==
  ASSUME QwenTypeOK, PagesOwned, NEW r, NEW p, NEW q, NEW o, Home(r, p), Home(q, o),
         SlotOf(qPageIds[r], p) = SlotOf(qPageIds[q], o)
  PROVE  r = q /\ p = o
<1> DEFINE n == QPageSize
           i == p \div QPageSize
           j == o \div QPageSize
<1>1. n \in Nat \ {0}
  BY QwenBatchesAssumption
<1>2. qPageIds[r][i + 1] = qPageIds[q][j + 1] /\ p % n = o % n
  BY SlotOfHome
<1>3. r = q /\ i + 1 = j + 1
  BY <1>2 DEF PagesOwned, Home
<1>4. /\ p = n * i + (p % n) /\ i \in Nat
      /\ o = n * j + (o % n) /\ j \in Nat
  BY <1>1, PageAndOffset DEF Home
<1> HIDE DEF n, i, j
<1>5. i = j
  BY <1>3, <1>4
<1> QED
  BY <1>2, <1>3, <1>4, <1>5

-----------------------------------------------------------------------------
(***************************************************************************)
(* What a kernel writes.                                                   *)
(***************************************************************************)
\* A write of a request's own token to that token's slot.
OwnWrite(w) ==
  \E r \in QRequest : \E p \in Nat :
    /\ Home(r, p) /\ p < Len(qSeq[r])
    /\ w = Write(SlotOf(qPageIds[r], p), r, p, qSeq[r][p + 1])

LEMMA WriteFields ==
  ASSUME NEW s, NEW r, NEW p, NEW t
  PROVE  Write(s, r, p, t).slot = s /\ Write(s, r, p, t).row = [req |-> r, pos |-> p, tok |-> t]
BY DEF Write

LEMMA OwnWrites ==
  ASSUME QwenTypeOK, PagesOwned, NEW W, \A w \in W : OwnWrite(w), qPool' = Written(W)
  PROVE  /\ qPool' = [s \in Slot |-> qPool'[s]]
         /\ \A r, p : Home(r, p) =>
              LET s == SlotOf(qPageIds[r], p)
              IN  IF \E w \in W : w.slot = s
                  THEN qPool'[s] = [req |-> r, pos |-> p, tok |-> qSeq[r][p + 1]]
                  ELSE qPool'[s] = qPool[s]
         /\ \A s \in Slot : qPool'[s] # qPool[s] =>
              \E r \in QRequest : \E p \in Nat :
                 Home(r, p) /\ s = SlotOf(qPageIds[r], p)
                 /\ qPool'[s] = [req |-> r, pos |-> p, tok |-> qSeq[r][p + 1]]
<1> DEFINE Mine(s) == {w \in W : w.slot = s}
<1>1. qPool' = [s \in Slot |-> IF Mine(s) = {} THEN qPool[s] ELSE (CHOOSE w \in Mine(s) : TRUE).row]
  BY DEF Written
<1>2. \A s : Mine(s) # {} => (CHOOSE w \in Mine(s) : TRUE) \in Mine(s)
  OBVIOUS
<1>3. qPool' = [s \in Slot |-> qPool'[s]]
  BY <1>1
<1>4. ASSUME NEW r, NEW p, Home(r, p)
      PROVE  LET s == SlotOf(qPageIds[r], p)
             IN  IF \E w \in W : w.slot = s
                 THEN qPool'[s] = [req |-> r, pos |-> p, tok |-> qSeq[r][p + 1]]
                 ELSE qPool'[s] = qPool[s]
  <2> DEFINE s == SlotOf(qPageIds[r], p)
             w == CHOOSE w \in Mine(s) : TRUE
  <2>1. s \in Slot
    BY <1>4, SlotOfHome
  <2>2. CASE Mine(s) = {}
    BY <1>1, <2>1, <2>2
  <2>3. CASE Mine(s) # {}
    <3>1. w \in W /\ w.slot = s
      BY <1>2, <2>3
    <3>2. qPool'[s] = w.row
      BY <1>1, <2>1, <2>3
    <3> HIDE DEF w, s
    <3>3. PICK q \in QRequest : \E o \in Nat :
             /\ Home(q, o) /\ o < Len(qSeq[q])
             /\ w = Write(SlotOf(qPageIds[q], o), q, o, qSeq[q][o + 1])
      BY <3>1 DEF OwnWrite
    <3>4. PICK o \in Nat : Home(q, o) /\ w = Write(SlotOf(qPageIds[q], o), q, o, qSeq[q][o + 1])
      BY <3>3
    <3>5. SlotOf(qPageIds[q], o) = s /\ w.row = [req |-> q, pos |-> o, tok |-> qSeq[q][o + 1]]
      BY <3>1, <3>4, WriteFields
    <3>6. q = r /\ o = p
      BY <1>4, <3>4, <3>5, SlotsDistinct DEF s
    <3> QED
      BY <3>1, <3>2, <3>5, <3>6 DEF s
  <2> QED
    BY <2>2, <2>3
<1>5. ASSUME NEW s \in Slot, qPool'[s] # qPool[s]
      PROVE  \E r \in QRequest : \E p \in Nat :
                 Home(r, p) /\ s = SlotOf(qPageIds[r], p)
                 /\ qPool'[s] = [req |-> r, pos |-> p, tok |-> qSeq[r][p + 1]]
  <2> DEFINE w == CHOOSE w \in Mine(s) : TRUE
  <2>1. Mine(s) # {}
    BY <1>1, <1>5
  <2>2. w \in W /\ w.slot = s /\ qPool'[s] = w.row
    BY <1>1, <1>2, <2>1
  <2> HIDE DEF w
  <2>3. PICK q \in QRequest : \E o \in Nat :
           /\ Home(q, o) /\ o < Len(qSeq[q])
           /\ w = Write(SlotOf(qPageIds[q], o), q, o, qSeq[q][o + 1])
    BY <2>2 DEF OwnWrite
  <2>4. PICK o \in Nat : Home(q, o) /\ w = Write(SlotOf(qPageIds[q], o), q, o, qSeq[q][o + 1])
    BY <2>3
  <2>5. SlotOf(qPageIds[q], o) = s /\ w.row = [req |-> q, pos |-> o, tok |-> qSeq[q][o + 1]]
    BY <2>2, <2>4, WriteFields
  <2> QED
    BY <2>2, <2>4, <2>5
<1> QED
  BY <1>3, <1>4, <1>5

\* Attention over rows that hold a request's tokens is the model's.
LEMMA AttendsToTokens ==
  ASSUME NEW pool, NEW pages, NEW s, NEW n \in Nat,
         \A p \in 0 .. n - 1 : pool[SlotOf(pages, p)].tok = s[p + 1]
  PROVE  Attend(pool, pages, n) = NextToken(s, n)
<1>1. {p \in 0 .. n - 1 : pool[SlotOf(pages, p)].tok = 1} = {p \in 0 .. n - 1 : s[p + 1] = 1}
  OBVIOUS
<1> QED
  BY <1>1 DEF Attend, NextToken

LEMMA NextTokenType ==
  ASSUME NEW s, NEW n \in Nat
  PROVE  NextToken(s, n) \in QToken
<1> DEFINE S == {p \in 0 .. n - 1 : s[p + 1] = 1}
<1>1. IsFiniteSet(0 .. n - 1)
  BY FS_Interval
<1>2. Cardinality(S) \in Nat
  BY <1>1, FS_Subset, FS_CardinalityType
<1> HIDE DEF S
<1>3. Cardinality(S) % 2 \in 0 .. 1
  BY <1>2
<1> QED
  BY <1>3 DEF S, NextToken, QToken

LEMMA NextTokenPrefix ==
  ASSUME NEW s, NEW t, NEW n \in Nat, \A i \in 1 .. n : s[i] = t[i]
  PROVE  NextToken(s, n) = NextToken(t, n)
<1>1. \A p \in 0 .. n - 1 : s[p + 1] = t[p + 1]
  OBVIOUS
<1>2. {p \in 0 .. n - 1 : s[p + 1] = 1} = {p \in 0 .. n - 1 : t[p + 1] = 1}
  BY <1>1
<1> QED
  BY <1>2 DEF NextToken

-----------------------------------------------------------------------------
(***************************************************************************)
(* What a call leaves of the invariant.                                    *)
(***************************************************************************)
LEMMA RunningFinite ==
  ASSUME NEW R \in SUBSET QRequest
  PROVE  IsFiniteSet(R) /\ Cardinality(R) \in Nat
BY QwenBatchesAssumption, FS_Subset, FS_CardinalityType

\* Requests that leave: fewer run, and their pages have no owner.
LEMMA LeaveKeeps ==
  ASSUME QwenTypeOK, PagesOwned, NEW R \in SUBSET Running, Leave(R)
  PROVE  /\ qState' \in [QRequest -> {"waiting", "running", "ended"}]
         /\ qPageIds' \in [QRequest -> Seq(Page)]
         /\ Cardinality(Running') <= KernelBatch
         /\ PagesOwned'
         /\ Running' = Running \ R
         /\ \A r \in Running' : qPageIds'[r] = qPageIds[r]
<1>1. /\ qState' \in [QRequest -> {"waiting", "running", "ended"}]
      /\ qPageIds' \in [QRequest -> Seq(Page)]
  BY DEF Leave, QwenTypeOK
<1>2. Running' = Running \ R
  BY DEF Running, Leave
<1>3. Cardinality(Running') <= KernelBatch
  <2>1. Running' \subseteq Running /\ Running \subseteq QRequest
    BY <1>2 DEF Running
  <2>2. IsFiniteSet(Running) /\ Cardinality(Running) \in Nat /\ Cardinality(Running') \in Nat
    BY <2>1, RunningFinite
  <2>3. Cardinality(Running') <= Cardinality(Running)
    BY <2>1, <2>2, FS_Subset
  <2>4. KernelBatch \in Nat
    BY QwenBatchesAssumption
  <2> QED
    BY <2>2, <2>3, <2>4 DEF QwenTypeOK
<1>4. \A r \in QRequest : qPageIds'[r] = qPageIds[r] \/ qPageIds'[r] = <<>>
  BY DEF Leave
<1>5. ASSUME NEW r \in QRequest, qState'[r] # "running" PROVE qPageIds'[r] = <<>>
  BY <1>5 DEF Leave, PagesOwned
<1>6. ASSUME NEW r \in QRequest, NEW q \in QRequest, NEW i \in DOMAIN qPageIds'[r],
             NEW j \in DOMAIN qPageIds'[q], qPageIds'[r][i] = qPageIds'[q][j]
      PROVE  r = q /\ i = j
  BY <1>4, <1>6 DEF PagesOwned
<1>7. \A r \in Running' : qPageIds'[r] = qPageIds[r]
  BY <1>2 DEF Leave, Running
<1> QED
  BY <1>1, <1>2, <1>3, <1>5, <1>6, <1>7 DEF PagesOwned

\* The positions of a request that are in the cache after a call that samples
\* for the requests of D.
CachedAfter(r, D) ==
  IF r \in D THEN Len(qSeq[r]) ELSE IF Prefills(r) THEN qComputed'[r] ELSE Len(qSeq[r]) - 1

\* A call that samples the model's next tokens and leaves the tokens of the
\* running requests in the cache keeps the invariant.
LEMMA CallKeeps ==
  ASSUME QwenInv, NEW D \in SUBSET Running,
         NEW next, next = [r \in D |-> NextToken(qSeq[r], Len(qSeq[r]))],
         Sampling(next),
         qComputed' \in [QRequest -> Nat],
         \A r \in QRequest : /\ qComputed'[r] <= Len(QPrompt[r])
                             /\ qComputed'[r] < Len(QPrompt[r]) <=> Prefills(r) /\ r \notin D
                             /\ r \notin Running => qComputed'[r] = qComputed[r],
         qPool' = [s \in Slot |-> qPool'[s]],
         \A r \in Running : \A p \in 0 .. CachedAfter(r, D) - 1 :
            Home(r, p) /\ qPool'[SlotOf(qPageIds[r], p)].tok = qSeq[r][p + 1],
         qTable' = [b \in Row |-> qTable'[b]], qWritten' = [b \in Row |-> qWritten'[b]],
         TableRemembered'
  PROVE  QwenInv'
<1> DEFINE F == {r \in DOMAIN next : Len(qSeq[r]) + 1 >= Len(QPrompt[r]) + QNew[r]}
<1>1. F \in SUBSET Running /\ Leave(F) /\ DOMAIN next = D
  BY DEF Sampling
<1> HIDE DEF F
<1>2. /\ QwenTypeOK /\ PagesOwned /\ SequencesSound /\ QwenOutputExact
      /\ QPrompt \in [QRequest -> Seq(QToken)] /\ D \subseteq QRequest
  BY QwenBatchesAssumption DEF QwenInv, Running
<1>3. /\ qState' \in [QRequest -> {"waiting", "running", "ended"}]
      /\ qPageIds' \in [QRequest -> Seq(Page)]
      /\ Cardinality(Running') <= KernelBatch
      /\ PagesOwned'
      /\ Running' = Running \ F
      /\ \A r \in Running' : qPageIds'[r] = qPageIds[r]
  BY <1>1, <1>2, LeaveKeeps
<1>4. \A r \in QRequest : qSeq[r] \in Seq(QToken) /\ Len(qSeq[r]) \in Nat
                          /\ Len(QPrompt[r]) \in Nat /\ QPrompt[r] \in Seq(QToken)
  BY <1>2 DEF QwenTypeOK
<1>5. \A r \in QRequest : qSeq'[r] = IF r \in D THEN Append(qSeq[r], next[r]) ELSE qSeq[r]
  BY <1>1 DEF Sampling
<1>6. \A r \in D : next[r] = NextToken(qSeq[r], Len(qSeq[r])) /\ next[r] \in QToken
  BY <1>2, <1>4, NextTokenType
<1>7. qSeq' = [r \in QRequest |-> qSeq'[r]]
  BY DEF Sampling
\* The sequences.
<1>8. ASSUME NEW r \in QRequest
      PROVE  /\ qSeq'[r] \in Seq(QToken) /\ Len(qSeq'[r]) \in Nat
             /\ Len(qSeq'[r]) = IF r \in D THEN Len(qSeq[r]) + 1 ELSE Len(qSeq[r])
             /\ \A i \in 1 .. Len(qSeq[r]) : qSeq'[r][i] = qSeq[r][i]
             /\ r \in D => qSeq'[r][Len(qSeq[r]) + 1] = next[r]
  <2> DEFINE s == qSeq[r]
             t == qSeq'[r]
             x == next[r]
  <2>1. s \in Seq(QToken)
    BY <1>4
  <2>2. CASE r \in D
    <3>1. x \in QToken /\ t = Append(s, x)
      BY <1>5, <1>6, <2>2
    <3> HIDE DEF s, t, x
    <3>2. /\ t \in Seq(QToken) /\ Len(t) \in Nat /\ Len(t) = Len(s) + 1
          /\ \A i \in 1 .. Len(s) : t[i] = s[i]
          /\ t[Len(s) + 1] = x
      BY <2>1, <3>1
    <3> QED
      BY <2>2, <3>2 DEF s, t, x
  <2>3. CASE r \notin D
    BY <1>4, <1>5, <2>3
  <2> QED
    BY <2>2, <2>3
<1>9. qSeq' \in [QRequest -> Seq(QToken)]
  BY <1>7, <1>8
<1>10. QwenTypeOK'
  BY <1>3, <1>9 DEF QwenTypeOK
<1>11. \A r \in QRequest : Prefills(r)' <=> Prefills(r) /\ r \notin D
  BY DEF Prefills
<1>12. SequencesSound'
  <2> SUFFICES ASSUME NEW r \in QRequest
               PROVE  /\ qState'[r] = "waiting" => qComputed'[r] = 0
                      /\ qComputed'[r] <= Len(QPrompt[r]) /\ Len(QPrompt[r]) <= Len(qSeq'[r])
                      /\ \A i \in 1 .. Len(QPrompt[r]) : qSeq'[r][i] = QPrompt[r][i]
                      /\ Prefills(r)' => Len(qSeq'[r]) = Len(QPrompt[r])
                      /\ ~Prefills(r)' => Len(qSeq'[r]) > Len(QPrompt[r])
    BY DEF SequencesSound, Prefills
  <2>1. /\ Len(QPrompt[r]) <= Len(qSeq[r])
        /\ \A i \in 1 .. Len(QPrompt[r]) : qSeq[r][i] = QPrompt[r][i]
        /\ Prefills(r) => Len(qSeq[r]) = Len(QPrompt[r])
        /\ ~Prefills(r) => Len(qSeq[r]) > Len(QPrompt[r])
    BY <1>2 DEF SequencesSound
  <2>2. /\ Len(qSeq[r]) \in Nat /\ Len(QPrompt[r]) \in Nat
        /\ Len(qSeq'[r]) = IF r \in D THEN Len(qSeq[r]) + 1 ELSE Len(qSeq[r])
        /\ \A i \in 1 .. Len(qSeq[r]) : qSeq'[r][i] = qSeq[r][i]
    BY <1>4, <1>8
  <2>3. \A i \in 1 .. Len(QPrompt[r]) : qSeq'[r][i] = QPrompt[r][i]
    BY <2>1, <2>2
  <2>4. r \notin D /\ ~Prefills(r)' => ~Prefills(r)
    BY <1>11
  <2>5. Prefills(r)' => r \notin D /\ Prefills(r)
    BY <1>11
  <2>6. qState'[r] = "waiting" => qComputed'[r] = 0
    <3>1. qState'[r] = "waiting" => qState[r] = "waiting"
      BY <1>1 DEF Leave
    <3>2. qState[r] = "waiting" => qComputed[r] = 0 /\ r \notin Running
      BY <1>2 DEF SequencesSound, Running
    <3> QED
      BY <3>1, <3>2
  <2> QED
    BY <2>1, <2>2, <2>3, <2>4, <2>5, <2>6
\* The rows.
<1>13. RowsHoldTokens'
  <2> SUFFICES ASSUME NEW r \in Running', NEW p \in 0 .. Cached(r)' - 1
               PROVE  /\ (p \div QPageSize) + 1 \in DOMAIN qPageIds'[r]
                      /\ qPool'[SlotOf(qPageIds'[r], p)].tok = qSeq'[r][p + 1]
    BY DEF RowsHoldTokens, SlotOf
  <2>1. r \in Running /\ r \in QRequest /\ qPageIds'[r] = qPageIds[r]
    BY <1>3 DEF Running
  <2>2. Cached(r)' = CachedAfter(r, D)
    <3>1. Cached(r)' = IF Prefills(r)' THEN qComputed'[r] ELSE Len(qSeq'[r]) - 1
      BY DEF Cached
    <3>2. Prefills(r)' <=> Prefills(r) /\ r \notin D
      BY <1>11, <2>1
    <3>3. /\ Len(qSeq[r]) \in Nat
          /\ Len(qSeq'[r]) = IF r \in D THEN Len(qSeq[r]) + 1 ELSE Len(qSeq[r])
      BY <1>4, <1>8, <2>1
    <3> QED
      BY <3>1, <3>2, <3>3 DEF CachedAfter
  <2>3. Home(r, p) /\ qPool'[SlotOf(qPageIds[r], p)].tok = qSeq[r][p + 1]
    BY <2>1, <2>2
  <2>4. p + 1 \in 1 .. Len(qSeq[r])
    <3>1. CachedAfter(r, D) \in Int /\ CachedAfter(r, D) <= Len(qSeq[r])
      <4>1. qComputed'[r] \in Nat /\ qComputed'[r] <= Len(QPrompt[r])
        BY <2>1
      <4>2. Len(QPrompt[r]) <= Len(qSeq[r])
        BY <1>2, <2>1 DEF SequencesSound
      <4> QED
        BY <1>4, <2>1, <4>1, <4>2 DEF CachedAfter
    <3> QED
      BY <1>4, <2>1, <2>2, <3>1
  <2> QED
    BY <1>8, <2>1, <2>3, <2>4 DEF Home
\* The output.
<1>14. QwenOutputExact'
  <2> SUFFICES ASSUME NEW r \in QRequest, NEW i \in (Len(QPrompt[r]) + 1) .. Len(qSeq'[r])
               PROVE  qSeq'[r][i] = NextToken(qSeq'[r], i - 1)
    BY DEF QwenOutputExact, NextToken
  <2>0. /\ Len(qSeq[r]) \in Nat /\ Len(QPrompt[r]) \in Nat /\ Len(qSeq'[r]) \in Nat
        /\ Len(qSeq'[r]) = IF r \in D THEN Len(qSeq[r]) + 1 ELSE Len(qSeq[r])
        /\ \A k \in 1 .. Len(qSeq[r]) : qSeq'[r][k] = qSeq[r][k]
        /\ r \in D => qSeq'[r][Len(qSeq[r]) + 1] = next[r]
    BY <1>4, <1>8
  <2>1. i \in Nat /\ i - 1 \in Nat /\ i <= Len(qSeq'[r]) /\ i >= Len(QPrompt[r]) + 1 /\ i >= 1
    BY <2>0
  <2>2. ASSUME i - 1 <= Len(qSeq[r])
        PROVE  NextToken(qSeq'[r], i - 1) = NextToken(qSeq[r], i - 1)
    <3>1. \A k \in 1 .. i - 1 : qSeq'[r][k] = qSeq[r][k]
      BY <2>0, <2>1, <2>2
    <3> QED
      BY <2>1, <3>1, NextTokenPrefix
  <2>3. CASE i <= Len(qSeq[r])
    <3>1. i - 1 <= Len(qSeq[r]) /\ i \in (Len(QPrompt[r]) + 1) .. Len(qSeq[r]) /\ i \in 1 .. Len(qSeq[r])
      BY <2>0, <2>1, <2>3
    <3>2. qSeq[r][i] = NextToken(qSeq[r], i - 1)
      BY <1>2, <3>1 DEF QwenOutputExact
    <3> QED
      BY <2>0, <2>2, <3>1, <3>2
  <2>4. CASE i > Len(qSeq[r])
    <3>1. r \in D /\ i = Len(qSeq[r]) + 1
      BY <2>0, <2>1, <2>4
    <3>2. i - 1 = Len(qSeq[r]) /\ i - 1 <= Len(qSeq[r])
      BY <2>0, <3>1
    <3>3. next[r] = NextToken(qSeq[r], Len(qSeq[r]))
      BY <1>6, <3>1
    <3> QED
      BY <2>0, <2>2, <3>1, <3>2, <3>3
  <2> QED
    BY <2>0, <2>1, <2>3, <2>4
<1> QED
  BY <1>3, <1>10, <1>12, <1>13, <1>14 DEF QwenInv

-----------------------------------------------------------------------------
(***************************************************************************)
(* QwenInv is inductive.                                                   *)
(***************************************************************************)
LEMMA QwenInitially == QInit => QwenInv
<1> SUFFICES ASSUME QInit PROVE QwenInv
  OBVIOUS
<1> USE DEF QInit
<1>1. Running = {} /\ Cardinality({}) = 0
  BY FS_EmptySet DEF Running
<1>2. QwenTypeOK
  BY <1>1, QwenBatchesAssumption DEF QwenTypeOK
<1>3. \A r \in QRequest : Len(QPrompt[r]) \in Nat /\ Len(QPrompt[r]) > 0
  <2> TAKE r \in QRequest
  <2>1. QPrompt[r] \in Seq(QToken) /\ QPrompt[r] # <<>>
    BY QwenBatchesAssumption
  <2> HIDE DEF QInit
  <2> QED
    BY <2>1
<1>4. SequencesSound
  BY <1>3 DEF SequencesSound, Prefills
<1>5. QwenOutputExact
  <2> SUFFICES ASSUME NEW r \in QRequest PROVE (Len(QPrompt[r]) + 1) .. Len(qSeq[r]) = {}
    BY DEF QwenOutputExact
  <2> QED
    BY <1>3
<1> QED
  BY <1>1, <1>2, <1>4, <1>5 DEF QwenInv, PagesOwned, RowsHoldTokens, TableRemembered

LEMMA AdmitKeeps ==
  ASSUME QwenInv, NEW r \in QRequest, QAdmit(r)
  PROVE  QwenInv'
<1> USE DEF QAdmit
<1>1. QwenTypeOK /\ PagesOwned /\ SequencesSound /\ RowsHoldTokens /\ TableRemembered
      /\ QwenOutputExact
  BY DEF QwenInv
<1>2. Running' = Running \cup {r} /\ r \notin Running
  BY <1>1 DEF Running, QwenTypeOK
<1>3. Cardinality(Running') <= KernelBatch
  <2>1. IsFiniteSet(Running) /\ Cardinality(Running) \in Nat
    BY RunningFinite DEF Running
  <2>2. Cardinality(Running') = Cardinality(Running) + 1
    BY <1>2, <2>1, FS_AddElement
  <2>3. KernelBatch \in Nat
    BY QwenBatchesAssumption
  <2> HIDE DEF QAdmit
  <2>4. Cardinality(Running) < KernelBatch
    BY DEF QAdmit
  <2> QED
    BY <2>1, <2>2, <2>3, <2>4
<1>4. QwenTypeOK'
  BY <1>1, <1>3 DEF QwenTypeOK
<1>5. PagesOwned'
  BY <1>1 DEF PagesOwned, QwenTypeOK
<1>6. SequencesSound'
  BY <1>1 DEF SequencesSound, Prefills, QwenTypeOK
<1>7. Prefills(r) /\ qComputed[r] = 0
  <2>1. Len(QPrompt[r]) \in Nat /\ Len(QPrompt[r]) > 0
    <3>1. QPrompt[r] \in Seq(QToken) /\ QPrompt[r] # <<>>
      BY QwenBatchesAssumption
    <3> QED
      BY <3>1
  <2> QED
    BY <1>1, <2>1 DEF SequencesSound, Prefills
<1>8. RowsHoldTokens'
  <2> SUFFICES ASSUME NEW q \in Running', NEW p \in 0 .. Cached(q) - 1
               PROVE  /\ (p \div QPageSize) + 1 \in DOMAIN qPageIds[q]
                      /\ qPool[SlotOf(qPageIds[q], p)].tok = qSeq[q][p + 1]
    BY DEF RowsHoldTokens, Cached, Prefills
  <2>1. q # r
    BY <1>7 DEF Cached
  <2> QED
    BY <1>1, <1>2, <2>1 DEF RowsHoldTokens
<1> QED
  BY <1>1, <1>4, <1>5, <1>6, <1>8 DEF QwenInv, TableRemembered, QwenOutputExact

LEMMA GrowKeeps ==
  ASSUME QwenInv, NEW r \in QRequest, Grow(r)
  PROVE  QwenInv'
<1>1. QwenTypeOK /\ PagesOwned /\ SequencesSound /\ RowsHoldTokens /\ TableRemembered
      /\ QwenOutputExact
  BY DEF QwenInv
<1>2. PICK page \in Page : /\ \A q \in QRequest : ~Holds(q, page)
                           /\ qPageIds' = [qPageIds EXCEPT ![r] = Append(@, page)]
  BY DEF Grow
<1>3. /\ qState[r] = "running"
      /\ UNCHANGED <<qState, qSeq, qComputed, qPool, qRows, qTable, qWritten>>
  BY DEF Grow
<1>4. \A q \in QRequest : q # r => qPageIds'[q] = qPageIds[q]
  BY <1>1, <1>2 DEF QwenTypeOK
<1>5. /\ qPageIds[r] \in Seq(Page) /\ Len(qPageIds[r]) \in Nat
      /\ qPageIds'[r] \in Seq(Page)
      /\ DOMAIN qPageIds[r] = 1 .. Len(qPageIds[r])
      /\ DOMAIN qPageIds'[r] = 1 .. Len(qPageIds[r]) + 1
      /\ \A i \in DOMAIN qPageIds[r] : qPageIds'[r][i] = qPageIds[r][i]
      /\ qPageIds'[r][Len(qPageIds[r]) + 1] = page
  <2> DEFINE s == qPageIds[r]
             t == qPageIds'[r]
  <2>1. s \in Seq(Page) /\ t = Append(s, page)
    BY <1>1, <1>2 DEF QwenTypeOK
  <2> HIDE DEF s, t
  <2>2. /\ Len(s) \in Nat /\ t \in Seq(Page) /\ DOMAIN s = 1 .. Len(s)
        /\ DOMAIN t = 1 .. Len(s) + 1
        /\ \A i \in DOMAIN s : t[i] = s[i]
        /\ t[Len(s) + 1] = page
    BY <2>1
  <2> QED
    BY <2>1, <2>2 DEF s, t
<1>6. QwenTypeOK'
  <2>1. qPageIds' = [q \in QRequest |-> qPageIds'[q]]
    BY <1>1, <1>2 DEF QwenTypeOK
  <2>2. \A q \in QRequest : qPageIds'[q] \in Seq(Page)
    BY <1>1, <1>4, <1>5 DEF QwenTypeOK
  <2>3. qPageIds' \in [QRequest -> Seq(Page)]
    BY <2>1, <2>2
  <2>4. Running' = Running
    BY <1>3 DEF Running
  <2> QED
    BY <1>1, <1>3, <2>3, <2>4 DEF QwenTypeOK
<1>7. PagesOwned'
  <2>1. \A q \in QRequest : qState'[q] # "running" => qPageIds'[q] = <<>>
    BY <1>1, <1>3, <1>4 DEF PagesOwned
  <2>2. ASSUME NEW q \in QRequest, NEW i \in DOMAIN qPageIds'[q],
               ~(i \in DOMAIN qPageIds[q] /\ qPageIds'[q][i] = qPageIds[q][i])
        PROVE  q = r /\ i = Len(qPageIds[r]) + 1 /\ qPageIds'[q][i] = page
    <3>1. q = r
      BY <1>4, <2>2
    <3>2. i \in 1 .. Len(qPageIds[r]) + 1 /\ i \notin 1 .. Len(qPageIds[r])
      BY <1>5, <2>2, <3>1
    <3> QED
      BY <1>5, <3>1, <3>2
  <2>3. \A q \in QRequest : \A i \in DOMAIN qPageIds[q] : qPageIds[q][i] # page
    BY <1>2 DEF Holds
  <2>4. ASSUME NEW q \in QRequest, NEW u \in QRequest, NEW i \in DOMAIN qPageIds'[q],
               NEW j \in DOMAIN qPageIds'[u], qPageIds'[q][i] = qPageIds'[u][j]
        PROVE  q = u /\ i = j
    BY <1>1, <2>2, <2>3, <2>4 DEF PagesOwned
  <2> QED
    BY <2>1, <2>4 DEF PagesOwned
<1>8. SequencesSound'
  BY <1>1, <1>3 DEF SequencesSound, Prefills
<1>9. RowsHoldTokens'
  <2> SUFFICES ASSUME NEW q \in Running, NEW p \in 0 .. Cached(q) - 1
               PROVE  /\ (p \div QPageSize) + 1 \in DOMAIN qPageIds'[q]
                      /\ qPool[SlotOf(qPageIds'[q], p)].tok = qSeq[q][p + 1]
    BY <1>3 DEF RowsHoldTokens, Cached, Prefills, Running, SlotOf
  <2>1. /\ (p \div QPageSize) + 1 \in DOMAIN qPageIds[q]
        /\ qPool[SlotOf(qPageIds[q], p)].tok = qSeq[q][p + 1]
    BY <1>1 DEF RowsHoldTokens
  <2>2. q \in QRequest
    BY DEF Running
  <2>3. \A i \in DOMAIN qPageIds[q] : i \in DOMAIN qPageIds'[q] /\ qPageIds'[q][i] = qPageIds[q][i]
    <3>1. CASE q # r
      BY <1>4, <2>2, <3>1
    <3>2. CASE q = r
      <4>1. \A i \in 1 .. Len(qPageIds[r]) : i \in 1 .. Len(qPageIds[r]) + 1
        BY <1>5
      <4> QED
        BY <1>5, <3>2, <4>1
    <3> QED
      BY <3>1, <3>2
  <2> QED
    BY <2>1, <2>3 DEF SlotOf
<1> QED
  BY <1>1, <1>3, <1>6, <1>7, <1>8, <1>9 DEF QwenInv, TableRemembered, QwenOutputExact

LEMMA AbortKeeps ==
  ASSUME QwenInv, NEW r \in QRequest, QAbort(r)
  PROVE  QwenInv'
<1>1. QwenTypeOK /\ PagesOwned /\ SequencesSound /\ RowsHoldTokens /\ TableRemembered
      /\ QwenOutputExact
  BY DEF QwenInv
<1>2. {r} \in SUBSET Running /\ Leave({r})
  BY DEF QAbort, Running
<1>3. UNCHANGED <<qSeq, qComputed, qPool, qRows, qTable, qWritten>>
  BY DEF QAbort
<1>4. /\ qState' \in [QRequest -> {"waiting", "running", "ended"}]
      /\ qPageIds' \in [QRequest -> Seq(Page)]
      /\ Cardinality(Running') <= KernelBatch
      /\ PagesOwned'
      /\ Running' = Running \ {r}
      /\ \A q \in Running' : qPageIds'[q] = qPageIds[q]
  BY <1>1, <1>2, LeaveKeeps
<1>5. QwenTypeOK'
  BY <1>1, <1>3, <1>4 DEF QwenTypeOK
<1>6. SequencesSound'
  BY <1>1, <1>2, <1>3 DEF SequencesSound, Prefills, Leave
<1>7. RowsHoldTokens'
  <2> SUFFICES ASSUME NEW q \in Running', NEW p \in 0 .. Cached(q) - 1
               PROVE  /\ (p \div QPageSize) + 1 \in DOMAIN qPageIds'[q]
                      /\ qPool[SlotOf(qPageIds'[q], p)].tok = qSeq[q][p + 1]
    BY <1>3 DEF RowsHoldTokens, Cached, Prefills, SlotOf
  <2> QED
    BY <1>1, <1>4 DEF RowsHoldTokens
<1> QED
  BY <1>1, <1>3, <1>4, <1>5, <1>6, <1>7 DEF QwenInv, TableRemembered, QwenOutputExact

\* A request with pages for n tokens has a slot for each of them.
LEMMA EnoughPages ==
  ASSUME QwenTypeOK, NEW r \in QRequest, NEW n \in Nat, HasPages(r, n), NEW p \in 0 .. n - 1
  PROVE  Home(r, p)
<1> DEFINE size == QPageSize
           i == p \div QPageSize
           o == p % QPageSize
           k == Len(qPageIds[r])
<1>1. size \in Nat \ {0} /\ p \in Nat /\ p < n
  BY QwenBatchesAssumption
<1>2. k \in Nat /\ DOMAIN qPageIds[r] = 1 .. k /\ k * size >= n
  BY DEF QwenTypeOK, HasPages
<1>3. p = size * i + o /\ i \in Nat /\ o \in 0 .. size - 1
  BY <1>1, PageAndOffset
<1>4. Home(r, p) <=> i + 1 \in 1 .. k
  BY <1>1, <1>2 DEF Home
<1> HIDE DEF size, i, o, k
<1>5. k * size = size * k /\ size * k \in Nat /\ size * i \in Nat
  BY <1>1, <1>2, <1>3
<1>6. ASSUME k <= i PROVE FALSE
  <2>1. size * k <= size * i
    BY <1>1, <1>2, <1>3, <1>6
  <2> QED
    BY <1>1, <1>2, <1>3, <1>5, <2>1
<1> QED
  BY <1>2, <1>3, <1>4, <1>6

\* What QwenWritesStayHome says of a step.
WritesHome ==
  \A s \in Slot : qPool'[s] # qPool[s] =>
    \E r \in QRequest : \E i \in DOMAIN qPageIds[r] :
      /\ qPageIds[r][i] = s \div QPageSize
      /\ LET p == (i - 1) * QPageSize + (s % QPageSize)
         IN  qPool'[s] = [req |-> r, pos |-> p, tok |-> qSeq[r][p + 1]]

LEMMA OwnWritesStayHome ==
  ASSUME QwenTypeOK, PagesOwned, NEW W, \A w \in W : OwnWrite(w), qPool' = Written(W)
  PROVE  WritesHome
<1> SUFFICES ASSUME NEW s \in Slot, qPool'[s] # qPool[s]
             PROVE  \E r \in QRequest : \E i \in DOMAIN qPageIds[r] :
                      /\ qPageIds[r][i] = s \div QPageSize
                      /\ LET p == (i - 1) * QPageSize + (s % QPageSize)
                         IN  qPool'[s] = [req |-> r, pos |-> p, tok |-> qSeq[r][p + 1]]
  BY DEF WritesHome
<1>1. PICK r \in QRequest : \E p \in Nat :
         Home(r, p) /\ s = SlotOf(qPageIds[r], p)
         /\ qPool'[s] = [req |-> r, pos |-> p, tok |-> qSeq[r][p + 1]]
  BY OwnWrites
<1>2. PICK p \in Nat : Home(r, p) /\ s = SlotOf(qPageIds[r], p)
         /\ qPool'[s] = [req |-> r, pos |-> p, tok |-> qSeq[r][p + 1]]
  BY <1>1
<1> DEFINE i == (p \div QPageSize) + 1
<1>3. /\ s \div QPageSize = qPageIds[r][i] /\ s % QPageSize = p % QPageSize
      /\ i \in DOMAIN qPageIds[r]
  BY <1>2, SlotOfHome DEF Home
<1>4. (i - 1) * QPageSize + (s % QPageSize) = p
  <2>1. QPageSize \in Nat \ {0}
    BY QwenBatchesAssumption
  <2>2. p = QPageSize * (p \div QPageSize) + (p % QPageSize) /\ p \div QPageSize \in Nat
    BY <2>1, PageAndOffset
  <2> QED
    BY <1>3, <2>1, <2>2
<1> HIDE DEF i
<1> QED
  BY <1>2, <1>3, <1>4

LEMMA PrefillKeeps ==
  ASSUME QwenInv, QPrefill
  PROVE  QwenInv' /\ WritesHome
<1> DEFINE R == {r \in Running : Prefills(r)}
<1>1. QwenTypeOK /\ PagesOwned /\ SequencesSound /\ RowsHoldTokens /\ TableRemembered
  BY DEF QwenInv
<1>2. PICK chunk \in [R -> 1 .. QChunk] :
        LET end(r) == qComputed[r] + chunk[r]
            last == {r \in R : end(r) = Len(QPrompt[r])}
        IN  /\ \A r \in R : end(r) <= Len(QPrompt[r])
            /\ qPool' = Written(UNION {ChunkWrites(r, chunk[r]) : r \in R})
            /\ Sampling([r \in last |-> Attend(qPool', qPageIds[r], end(r))])
            /\ qComputed' = [r \in QRequest |-> IF r \in R THEN end(r) ELSE qComputed[r]]
            /\ UNCHANGED <<qRows, qTable, qWritten>>
  BY DEF QPrefill
<1> DEFINE end(r) == qComputed[r] + chunk[r]
           last == {r \in R : end(r) = Len(QPrompt[r])}
           W == UNION {ChunkWrites(r, chunk[r]) : r \in R}
           next == [r \in last |-> Attend(qPool', qPageIds[r], end(r))]
<1>3. /\ qPool' = Written(W) /\ Sampling(next) /\ UNCHANGED <<qRows, qTable, qWritten>>
      /\ qComputed' = [r \in QRequest |-> IF r \in R THEN end(r) ELSE qComputed[r]]
  BY <1>2
<1>4. ASSUME NEW r \in R
      PROVE  /\ r \in QRequest /\ r \in Running /\ Prefills(r)
             /\ qComputed[r] \in Nat /\ chunk[r] \in Nat \ {0} /\ end(r) \in Nat
             /\ end(r) <= Len(QPrompt[r]) /\ Len(QPrompt[r]) \in Nat
             /\ Len(qSeq[r]) = Len(QPrompt[r])
             /\ \A i \in 1 .. Len(QPrompt[r]) : qSeq[r][i] = QPrompt[r][i]
             /\ \A p \in 0 .. Len(QPrompt[r]) - 1 : Home(r, p)
  <2>1. r \in QRequest /\ r \in Running /\ Prefills(r)
    BY <1>4 DEF Running
  <2>2. qComputed[r] \in Nat /\ chunk[r] \in 1 .. QChunk /\ QPrompt[r] \in Seq(QToken)
    BY <1>1, <1>2, <1>4, <2>1, QwenBatchesAssumption DEF QwenTypeOK
  <2>3. Len(QPrompt[r]) \in Nat /\ QChunk \in Nat
    BY <2>2, QwenBatchesAssumption
  <2>4. /\ Len(qSeq[r]) = Len(QPrompt[r])
        /\ \A i \in 1 .. Len(QPrompt[r]) : qSeq[r][i] = QPrompt[r][i]
    BY <1>1, <2>1 DEF SequencesSound
  <2>5. HasPages(r, Len(QPrompt[r]))
    BY <1>4, <2>1 DEF QPrefill, Covered
  <2>6. \A p \in 0 .. Len(QPrompt[r]) - 1 : Home(r, p)
    BY <1>1, <2>1, <2>3, <2>5, EnoughPages
  <2>7. chunk[r] \in Nat \ {0} /\ end(r) \in Nat
    BY <2>2, <2>3
  <2>8. end(r) <= Len(QPrompt[r])
    BY <1>2, <1>4
  <2> QED
    BY <2>1, <2>2, <2>3, <2>4, <2>6, <2>7, <2>8
<1>5. ASSUME NEW w \in W PROVE OwnWrite(w)
  <2>1. PICK r \in R : w \in ChunkWrites(r, chunk[r])
    BY <1>5
  <2>2. PICK p \in qComputed[r] .. qComputed[r] + chunk[r] - 1 :
           w = Write(SlotOf(qPageIds[r], p), r, p, QPrompt[r][p + 1])
    BY <2>1 DEF ChunkWrites
  <2>3. p \in Nat /\ p + 1 \in 1 .. Len(QPrompt[r]) /\ p \in 0 .. Len(QPrompt[r]) - 1
    BY <1>4
  <2>4. r \in QRequest /\ Home(r, p) /\ p < Len(qSeq[r]) /\ QPrompt[r][p + 1] = qSeq[r][p + 1]
    BY <1>4, <2>3
  <2> QED
    BY <2>2, <2>3, <2>4 DEF OwnWrite
<1>6. ASSUME NEW r \in R, NEW p \in qComputed[r] .. end(r) - 1
      PROVE  \E w \in W : w.slot = SlotOf(qPageIds[r], p)
  <2> DEFINE w == Write(SlotOf(qPageIds[r], p), r, p, QPrompt[r][p + 1])
  <2>1. w.slot = SlotOf(qPageIds[r], p) /\ w = Write(SlotOf(qPageIds[r], p), r, p, QPrompt[r][p + 1])
    BY DEF Write
  <2>2. p \in qComputed[r] .. qComputed[r] + chunk[r] - 1
    BY <1>4
  <2> HIDE DEF w
  <2>3. w \in ChunkWrites(r, chunk[r])
    BY <2>1, <2>2 DEF ChunkWrites
  <2>4. w \in W
    BY <2>3
  <2> HIDE DEF W
  <2> QED
    BY <2>1, <2>4
<1> HIDE DEF W
<1>7. WritesHome
  BY <1>1, <1>3, <1>5, OwnWritesStayHome
\* What the cache holds after the call.
<1>8. ASSUME NEW r, NEW p, Home(r, p),
             \/ r \in R /\ p \in qComputed[r] .. end(r) - 1
             \/ qPool[SlotOf(qPageIds[r], p)].tok = qSeq[r][p + 1]
      PROVE  qPool'[SlotOf(qPageIds[r], p)].tok = qSeq[r][p + 1]
  <2> DEFINE s == SlotOf(qPageIds[r], p)
  <2>1. IF \E w \in W : w.slot = s
        THEN qPool'[s] = [req |-> r, pos |-> p, tok |-> qSeq[r][p + 1]]
        ELSE qPool'[s] = qPool[s]
    BY <1>1, <1>3, <1>5, <1>8, OwnWrites
  <2> HIDE DEF s, end, R
  <2>2. CASE \E w \in W : w.slot = s
    BY <2>1, <2>2 DEF s
  <2>3. CASE ~ \E w \in W : w.slot = s
    <3>1. qPool'[s] = qPool[s]
      BY <2>1, <2>3
    <3>2. ~(r \in R /\ p \in qComputed[r] .. end(r) - 1)
      BY <1>6, <2>3 DEF s
    <3> QED
      BY <1>8, <3>1, <3>2 DEF s
  <2> QED
    BY <2>2, <2>3
<1>9. ASSUME NEW r \in R, NEW p \in 0 .. end(r) - 1
      PROVE  Home(r, p) /\ qPool'[SlotOf(qPageIds[r], p)].tok = qSeq[r][p + 1]
  <2>1. Home(r, p)
    BY <1>4
  <2>2. CASE p \in 0 .. qComputed[r] - 1
    <3>1. r \in Running /\ Cached(r) = qComputed[r]
      BY <1>4 DEF Cached
    <3>2. qPool[SlotOf(qPageIds[r], p)].tok = qSeq[r][p + 1]
      BY <1>1, <2>2, <3>1 DEF RowsHoldTokens
    <3> QED
      BY <1>8, <2>1, <3>2
  <2>3. CASE p \in qComputed[r] .. end(r) - 1
    BY <1>8, <2>1, <2>3
  <2> QED
    BY <1>4, <2>1, <2>2, <2>3
\* The tokens sampled.
<1>10. next = [r \in last |-> NextToken(qSeq[r], Len(qSeq[r]))]
  <2> SUFFICES ASSUME NEW r \in last
               PROVE  Attend(qPool', qPageIds[r], end(r)) = NextToken(qSeq[r], Len(qSeq[r]))
    OBVIOUS
  <2>1. r \in R /\ end(r) = Len(qSeq[r]) /\ end(r) \in Nat
    BY <1>4
  <2>2. \A p \in 0 .. end(r) - 1 : qPool'[SlotOf(qPageIds[r], p)].tok = qSeq[r][p + 1]
    BY <1>9, <2>1
  <2> HIDE DEF end
  <2>3. Attend(qPool', qPageIds[r], end(r)) = NextToken(qSeq[r], end(r))
    BY <2>1, <2>2, AttendsToTokens
  <2> QED
    BY <2>1, <2>3
<1>11. last \subseteq R /\ R \subseteq Running /\ Running \subseteq QRequest
  BY DEF Running
<1>12. qComputed' \in [QRequest -> Nat]
  BY <1>1, <1>3, <1>4 DEF QwenTypeOK
<1>13. ASSUME NEW r \in QRequest
       PROVE  /\ qComputed'[r] <= Len(QPrompt[r])
              /\ qComputed'[r] < Len(QPrompt[r]) <=> Prefills(r) /\ r \notin last
              /\ r \notin Running => qComputed'[r] = qComputed[r]
  <2>1. CASE r \in R
    <3>1. qComputed'[r] = end(r) /\ (r \in last <=> end(r) = Len(QPrompt[r]))
      BY <1>3, <2>1
    <3> QED
      BY <1>4, <2>1, <3>1
  <2>2. CASE r \notin R
    <3>1. qComputed'[r] = qComputed[r] /\ r \notin last
      BY <1>3, <2>2
    <3>2. qComputed[r] <= Len(QPrompt[r])
      BY <1>1 DEF SequencesSound
    <3> QED
      BY <3>1, <3>2 DEF Prefills
  <2> QED
    BY <2>1, <2>2
<1>14. ASSUME NEW r \in Running, NEW p \in 0 .. CachedAfter(r, last) - 1
       PROVE  Home(r, p) /\ qPool'[SlotOf(qPageIds[r], p)].tok = qSeq[r][p + 1]
  <2>1. CASE r \in R
    <3>1. qComputed'[r] = end(r) /\ (r \in last => end(r) = Len(qSeq[r])) /\ Prefills(r)
      BY <1>3, <1>4, <1>11, <2>1
    <3>2. CachedAfter(r, last) = end(r)
      BY <3>1 DEF CachedAfter
    <3> QED
      BY <1>9, <2>1, <3>2
  <2>2. CASE r \notin R
    <3>1. ~Prefills(r) /\ r \notin last
      BY <2>2
    <3>2. p \in 0 .. Cached(r) - 1
      BY <3>1 DEF CachedAfter, Cached
    <3>3. (p \div QPageSize) + 1 \in DOMAIN qPageIds[r]
          /\ qPool[SlotOf(qPageIds[r], p)].tok = qSeq[r][p + 1]
      BY <1>1, <3>2 DEF RowsHoldTokens
    <3>4. Home(r, p)
      <4>1. p \in Nat
        OBVIOUS
      <4> QED
        BY <1>11, <3>3, <4>1 DEF Home
    <3> QED
      BY <1>8, <3>3, <3>4
  <2> QED
    BY <2>1, <2>2
<1>15. /\ qPool' = [s \in Slot |-> qPool'[s]] /\ TableRemembered'
       /\ qTable' = [b \in Row |-> qTable'[b]] /\ qWritten' = [b \in Row |-> qWritten'[b]]
  BY <1>1, <1>3 DEF Written, TableRemembered, QwenTypeOK
<1> HIDE DEF R, end, last, next
<1>16. last \in SUBSET Running
  BY <1>11
<1>17. QwenInv'
  BY <1>3, <1>10, <1>12, <1>13, <1>14, <1>15, <1>16, CallKeeps
<1> QED
  BY <1>7, <1>17

\* The batch of a decode call: each of its requests has a row, and each row
\* one of its requests.
LEMMA BatchRows ==
  ASSUME QwenTypeOK, NEW R \in SUBSET Running, R # {}, NEW batch \in Orders(R)
  PROVE  /\ Len(batch) \in Nat /\ Len(batch) <= KernelBatch
         /\ \A b \in Row : RequestOf(b, batch) \in R
         /\ \A r \in R : \E b \in Row : b < Len(batch) /\ batch[b + 1] = r
<1> DEFINE n == Cardinality(R)
<1>1. Running \subseteq QRequest
  BY DEF Running
<1>2. n \in Nat /\ IsFiniteSet(Running) /\ Cardinality(Running) \in Nat
  BY <1>1, RunningFinite
<1>3. n <= Cardinality(Running)
  BY <1>2, FS_Subset
<1>4. KernelBatch \in Nat /\ Cardinality(Running) <= KernelBatch
  BY QwenBatchesAssumption DEF QwenTypeOK
<1>5. batch \in [1 .. n -> R] /\ Range(batch) = R
  BY DEF Orders
<1> HIDE DEF n
<1>6. batch \in Seq(R) /\ Len(batch) = n
  BY <1>2, <1>5
<1>7. \A r \in R : \E i \in 1 .. n : batch[i] = r
  BY <1>5 DEF Range
<1>8. n >= 1
  BY <1>2, <1>7
<1>9. ASSUME NEW b \in Row PROVE RequestOf(b, batch) \in R
  <2>1. b \in Nat
    BY <1>4 DEF Row
  <2>2. CASE b < n
    <3>1. b + 1 \in 1 .. n
      BY <1>2, <2>1, <2>2
    <3> QED
      BY <1>5, <1>6, <2>2, <3>1 DEF RequestOf
  <2>3. CASE ~(b < n)
    <3>1. 1 \in 1 .. n
      BY <1>2, <1>8
    <3> QED
      BY <1>5, <1>6, <2>3, <3>1 DEF RequestOf
  <2> QED
    BY <2>2, <2>3
<1>10. ASSUME NEW r \in R PROVE \E b \in Row : b < Len(batch) /\ batch[b + 1] = r
  <2>1. PICK i \in 1 .. n : batch[i] = r
    BY <1>7
  <2>2. i - 1 \in Row /\ i - 1 < n /\ (i - 1) + 1 = i
    BY <1>2, <1>3, <1>4 DEF Row
  <2> QED
    BY <1>6, <2>1, <2>2
<1> QED
  BY <1>2, <1>3, <1>4, <1>6, <1>9, <1>10

LEMMA DecodeKeeps ==
  ASSUME QwenInv, QDecode
  PROVE  QwenInv' /\ WritesHome
<1> DEFINE R == {r \in Running : ~Prefills(r)}
<1>1. QwenTypeOK /\ PagesOwned /\ SequencesSound /\ RowsHoldTokens /\ TableRemembered
  BY DEF QwenInv
<1>2. PICK batch \in Orders(R) :
        /\ R # {} /\ \A r \in R : HasPages(r, Covered(r))
        /\ qRows' = [b \in Row |-> RowInputs(b, batch)]
        /\ qTable' = [b \in Row |-> IF RowUnchanged(qWritten[b], RowPages(b, batch))
                                    THEN qTable[b] ELSE RowPages(b, batch)]
        /\ qWritten' = [b \in Row |-> IF RowUnchanged(qWritten[b], RowPages(b, batch))
                                      THEN qWritten[b] ELSE RowPages(b, batch)]
        /\ qPool' = Written({Write(qRows'[b].slot, RequestOf(b, batch), qRows'[b].len - 1,
                                   qRows'[b].tok) : b \in Row})
        /\ Sampling([r \in R |->
                       LET b == CHOOSE i \in Row : i < Len(batch) /\ batch[i + 1] = r
                       IN  Attend(qPool', qTable'[b], qRows'[b].len)])
        /\ UNCHANGED qComputed
  BY DEF QDecode
<1> DEFINE Home0(b) == RequestOf(b, batch)
           W == {Write(qRows'[b].slot, Home0(b), qRows'[b].len - 1, qRows'[b].tok) : b \in Row}
           row(r) == CHOOSE i \in Row : i < Len(batch) /\ batch[i + 1] = r
           next == [r \in R |-> Attend(qPool', qTable'[row(r)], qRows'[row(r)].len)]
<1>3. /\ qPool' = Written(W) /\ Sampling(next) /\ UNCHANGED qComputed
  BY <1>2
<1>4. ASSUME NEW r \in R
      PROVE  /\ r \in QRequest /\ r \in Running /\ ~Prefills(r)
             /\ qSeq[r] \in Seq(QToken) /\ Len(qSeq[r]) \in Nat /\ Len(qSeq[r]) > 1
             /\ \A p \in 0 .. Len(qSeq[r]) - 1 : Home(r, p)
             /\ qPageIds[r] # <<>>
  <2>1. r \in QRequest /\ r \in Running /\ ~Prefills(r)
    BY <1>4 DEF Running
  <2>2. qSeq[r] \in Seq(QToken) /\ QPrompt[r] \in Seq(QToken) /\ QPrompt[r] # <<>>
    BY <1>1, <2>1, QwenBatchesAssumption DEF QwenTypeOK
  <2>3. Len(qSeq[r]) \in Nat /\ Len(QPrompt[r]) \in Nat /\ Len(QPrompt[r]) > 0
    BY <2>2
  <2>4. Len(qSeq[r]) > Len(QPrompt[r])
    BY <1>1, <2>1 DEF SequencesSound
  <2>5. HasPages(r, Len(qSeq[r]))
    BY <1>2, <1>4, <2>1 DEF Covered
  <2>6. \A p \in 0 .. Len(qSeq[r]) - 1 : Home(r, p)
    BY <1>1, <2>1, <2>3, <2>5, EnoughPages
  <2>7. qPageIds[r] # <<>>
    <3>1. 0 \in 0 .. Len(qSeq[r]) - 1
      BY <2>3, <2>4
    <3>2. DOMAIN qPageIds[r] # {}
      BY <2>6, <3>1 DEF Home
    <3> QED
      BY <3>2
  <2> QED
    BY <2>1, <2>2, <2>3, <2>4, <2>6, <2>7
<1>5. R \in SUBSET Running /\ R # {} /\ Running \subseteq QRequest
  BY <1>2 DEF Running
<1>6. /\ \A b \in Row : Home0(b) \in R
      /\ \A r \in R : \E b \in Row : b < Len(batch) /\ batch[b + 1] = r
  BY <1>1, <1>2, <1>5, BatchRows
<1>7. ASSUME NEW r \in R PROVE row(r) \in Row /\ Home0(row(r)) = r
  <2>1. row(r) \in Row /\ row(r) < Len(batch) /\ batch[row(r) + 1] = r
    BY <1>6
  <2> HIDE DEF row
  <2> QED
    BY <2>1 DEF RequestOf
<1> HIDE DEF row
\* The buffers.
<1>8. ASSUME NEW b \in Row
      PROVE  LET r == Home0(b) IN
             /\ qRows'[b].tok = qSeq[r][Len(qSeq[r])] /\ qRows'[b].len = Len(qSeq[r])
             /\ qRows'[b].slot = SlotOf(qPageIds[r], Len(qSeq[r]) - 1)
             /\ qTable'[b] = qPageIds[r]
             /\ qWritten'[b] = qPageIds[r]
  <2> DEFINE r == Home0(b)
  <2>1. qRows'[b] = DecodeRow(r)
    BY <1>2, <1>8 DEF RowInputs
  <2>2. r \in R /\ RowPages(b, batch) = qPageIds[r]
    BY <1>6, <1>8 DEF RowPages
  <2>3. qTable'[b] = (IF qWritten[b] = qPageIds[r] THEN qTable[b] ELSE qPageIds[r])
        /\ qWritten'[b] = (IF qWritten[b] = qPageIds[r] THEN qWritten[b] ELSE qPageIds[r])
    BY <1>2, <1>8, <2>2 DEF RowUnchanged
  <2> HIDE DEF r
  <2>4. qPageIds[r] # <<>>
    BY <1>4, <2>2
  <2>5. qWritten[b] = <<>> \/ qTable[b] = qWritten[b]
    BY <1>1, <1>8 DEF TableRemembered
  <2>6. qTable'[b] = qPageIds[r] /\ qWritten'[b] = qPageIds[r]
    BY <2>3, <2>4, <2>5
  <2>7. Last(qSeq[r]) = qSeq[r][Len(qSeq[r])]
    BY DEF Last
  <2>8. /\ DecodeRow(r).tok = qSeq[r][Len(qSeq[r])] /\ DecodeRow(r).len = Len(qSeq[r])
        /\ DecodeRow(r).slot = SlotOf(qPageIds[r], Len(qSeq[r]) - 1)
    BY <2>7 DEF DecodeRow
  <2> QED
    BY <2>1, <2>6, <2>8 DEF r
<1>9. ASSUME NEW b \in Row
      PROVE  /\ Home0(b) \in R
             /\ Write(qRows'[b].slot, Home0(b), qRows'[b].len - 1, qRows'[b].tok)
                  = Write(SlotOf(qPageIds[Home0(b)], Len(qSeq[Home0(b)]) - 1), Home0(b),
                          Len(qSeq[Home0(b)]) - 1, qSeq[Home0(b)][Len(qSeq[Home0(b)])])
  BY <1>6, <1>8, <1>9
<1> HIDE DEF Home0
<1>10. ASSUME NEW w \in W PROVE OwnWrite(w)
  <2>1. PICK b \in Row :
           w = Write(qRows'[b].slot, Home0(b), qRows'[b].len - 1, qRows'[b].tok)
    BY <1>10
  <2> DEFINE r == Home0(b)
             p == Len(qSeq[r]) - 1
  <2>2. r \in R /\ w = Write(SlotOf(qPageIds[r], p), r, p, qSeq[r][Len(qSeq[r])])
    BY <1>9, <2>1
  <2> HIDE DEF r
  <2>3. p \in Nat /\ p < Len(qSeq[r]) /\ p + 1 = Len(qSeq[r]) /\ r \in QRequest /\ Home(r, p)
    BY <1>4, <2>2
  <2> HIDE DEF p
  <2>4. w = Write(SlotOf(qPageIds[r], p), r, p, qSeq[r][p + 1])
    BY <2>2, <2>3
  <2> QED
    BY <2>3, <2>4 DEF OwnWrite
<1>11. ASSUME NEW r \in R
       PROVE  \E w \in W : w.slot = SlotOf(qPageIds[r], Len(qSeq[r]) - 1)
  <2> DEFINE b == row(r)
             w == Write(qRows'[b].slot, Home0(b), qRows'[b].len - 1, qRows'[b].tok)
  <2>1. b \in Row /\ Home0(b) = r
    BY <1>7
  <2> HIDE DEF b
  <2>2. w.slot = qRows'[b].slot /\ w \in W
    BY <2>1 DEF Write
  <2>3. qRows'[b].slot = SlotOf(qPageIds[r], Len(qSeq[r]) - 1)
    BY <1>8, <2>1
  <2> HIDE DEF w, W
  <2> QED
    BY <2>2, <2>3
<1> HIDE DEF W
<1>12. WritesHome
  BY <1>1, <1>3, <1>10, OwnWritesStayHome
\* What the cache holds after the call.
<1>13. ASSUME NEW r, NEW p, Home(r, p),
              \/ r \in R /\ p = Len(qSeq[r]) - 1
              \/ qPool[SlotOf(qPageIds[r], p)].tok = qSeq[r][p + 1]
       PROVE  qPool'[SlotOf(qPageIds[r], p)].tok = qSeq[r][p + 1]
  <2> DEFINE s == SlotOf(qPageIds[r], p)
  <2>1. IF \E w \in W : w.slot = s
        THEN qPool'[s] = [req |-> r, pos |-> p, tok |-> qSeq[r][p + 1]]
        ELSE qPool'[s] = qPool[s]
    BY <1>1, <1>3, <1>10, <1>13, OwnWrites
  <2> HIDE DEF s, R
  <2>2. CASE \E w \in W : w.slot = s
    BY <2>1, <2>2 DEF s
  <2>3. CASE ~ \E w \in W : w.slot = s
    <3>1. qPool'[s] = qPool[s]
      BY <2>1, <2>3
    <3>2. ~(r \in R /\ p = Len(qSeq[r]) - 1)
      BY <1>11, <2>3 DEF s
    <3> QED
      BY <1>13, <3>1, <3>2 DEF s
  <2> QED
    BY <2>2, <2>3
<1>14. ASSUME NEW r \in Running, NEW p \in 0 .. Cached(r) - 1
       PROVE  Home(r, p) /\ qPool'[SlotOf(qPageIds[r], p)].tok = qSeq[r][p + 1]
  <2>1. (p \div QPageSize) + 1 \in DOMAIN qPageIds[r]
        /\ qPool[SlotOf(qPageIds[r], p)].tok = qSeq[r][p + 1]
    BY <1>1 DEF RowsHoldTokens
  <2>2. Home(r, p)
    <3>1. p \in Nat
      OBVIOUS
    <3> QED
      BY <1>5, <2>1, <3>1 DEF Home
  <2> QED
    BY <1>13, <2>1, <2>2
<1>15. ASSUME NEW r \in R, NEW p \in 0 .. Len(qSeq[r]) - 1
       PROVE  Home(r, p) /\ qPool'[SlotOf(qPageIds[r], p)].tok = qSeq[r][p + 1]
  <2>1. Home(r, p) /\ r \in Running /\ Cached(r) = Len(qSeq[r]) - 1 /\ Len(qSeq[r]) \in Nat
    BY <1>4 DEF Cached
  <2>2. CASE p = Len(qSeq[r]) - 1
    BY <1>13, <2>1, <2>2
  <2>3. CASE p # Len(qSeq[r]) - 1
    <3>1. p \in 0 .. Cached(r) - 1
      BY <2>1, <2>3
    <3> QED
      BY <1>14, <2>1, <3>1
  <2> QED
    BY <2>2, <2>3
\* The tokens sampled.
<1>16. next = [r \in R |-> NextToken(qSeq[r], Len(qSeq[r]))]
  <2> SUFFICES ASSUME NEW r \in R
               PROVE  Attend(qPool', qTable'[row(r)], qRows'[row(r)].len)
                        = NextToken(qSeq[r], Len(qSeq[r]))
    OBVIOUS
  <2>1. qTable'[row(r)] = qPageIds[r] /\ qRows'[row(r)].len = Len(qSeq[r])
    BY <1>7, <1>8
  <2>2. Len(qSeq[r]) \in Nat
    BY <1>4
  <2>3. \A p \in 0 .. Len(qSeq[r]) - 1 : qPool'[SlotOf(qPageIds[r], p)].tok = qSeq[r][p + 1]
    BY <1>15
  <2>4. Attend(qPool', qPageIds[r], Len(qSeq[r])) = NextToken(qSeq[r], Len(qSeq[r]))
    BY <2>2, <2>3, AttendsToTokens
  <2> QED
    BY <2>1, <2>4
<1>17. qComputed' \in [QRequest -> Nat] /\ qComputed' = qComputed
  BY <1>1, <1>3 DEF QwenTypeOK
<1>18. ASSUME NEW r \in QRequest
       PROVE  /\ qComputed'[r] <= Len(QPrompt[r])
              /\ qComputed'[r] < Len(QPrompt[r]) <=> Prefills(r) /\ r \notin R
              /\ r \notin Running => qComputed'[r] = qComputed[r]
  BY <1>1, <1>17 DEF SequencesSound, Prefills
<1>19. ASSUME NEW r \in Running, NEW p \in 0 .. CachedAfter(r, R) - 1
       PROVE  Home(r, p) /\ qPool'[SlotOf(qPageIds[r], p)].tok = qSeq[r][p + 1]
  <2>1. CASE r \in R
    BY <1>15, <2>1 DEF CachedAfter
  <2>2. CASE r \notin R
    BY <1>14, <1>17, <2>2 DEF CachedAfter, Cached
  <2> QED
    BY <2>1, <2>2
<1>20. /\ qPool' = [s \in Slot |-> qPool'[s]]
       /\ qTable' = [b \in Row |-> qTable'[b]] /\ qWritten' = [b \in Row |-> qWritten'[b]]
  BY <1>2, <1>3 DEF Written
<1>21. TableRemembered'
  BY <1>8 DEF TableRemembered
<1> HIDE DEF R, next
<1>22. QwenInv'
  BY <1>3, <1>5, <1>16, <1>17, <1>18, <1>19, <1>20, <1>21, CallKeeps
<1> QED
  BY <1>12, <1>22

LEMMA QwenStepKeeps ==
  ASSUME QwenInv, RunnersNext \/ UNCHANGED allVars
  PROVE  QwenInv' /\ (WritesHome \/ UNCHANGED qPool)
<1>1. ASSUME UNCHANGED qvars PROVE QwenInv' /\ UNCHANGED qPool
  <2> USE <1>1 DEF qvars
  <2>1. QwenTypeOK /\ PagesOwned /\ SequencesSound /\ RowsHoldTokens /\ TableRemembered
        /\ QwenOutputExact
    BY DEF QwenInv
  <2>2. Running' = Running
    BY DEF Running
  <2>3. QwenTypeOK' /\ PagesOwned' /\ TableRemembered'
    BY <2>1, <2>2 DEF QwenTypeOK, PagesOwned, TableRemembered
  <2>4. SequencesSound'
    BY <2>1 DEF SequencesSound, Prefills
  <2>5. RowsHoldTokens'
    BY <2>1, <2>2 DEF RowsHoldTokens, Cached, Prefills
  <2>6. QwenOutputExact'
    BY <2>1 DEF QwenOutputExact
  <2> QED
    BY <2>3, <2>4, <2>5, <2>6 DEF QwenInv
<1>2. ASSUME QNext PROVE QwenInv' /\ (WritesHome \/ UNCHANGED qPool)
  <2>1. ASSUME NEW r \in QRequest, QAdmit(r) \/ Grow(r) \/ QAbort(r)
        PROVE  QwenInv' /\ UNCHANGED qPool
    BY <2>1, AdmitKeeps, GrowKeeps, AbortKeeps DEF QAdmit, Grow, QAbort
  <2> QED
    BY <1>1, <1>2, <2>1, PrefillKeeps, DecodeKeeps DEF QNext, QAllEnded
<1> QED
  BY <1>1, <1>2 DEF RunnersNext, allVars

\* Whichever row and pages a request has, whoever had them before and whoever
\* shares its calls: every token it gets is the one the model computes from the
\* tokens before it (run_prefill, run_decode).
THEOREM QwenOutputsCorrect == RunnersSpec => []QwenOutputExact
<1>1. RunnersInit => QwenInv
  BY QwenInitially DEF RunnersInit
<1>2. QwenInv /\ [RunnersNext]_allVars => QwenInv'
  BY QwenStepKeeps
<1>3. QwenInv => QwenOutputExact
  BY DEF QwenInv
<1> QED
  BY <1>1, <1>2, <1>3, PTL DEF RunnersSpec

\* No call of the Qwen runner, and no row of it that repeats row 0, changes a
\* slot to anything but the token of the request that holds its page.
THEOREM QwenWritesHome == RunnersSpec => QwenWritesStayHome
<1>1. RunnersInit => QwenInv
  BY QwenInitially DEF RunnersInit
<1>2. QwenInv /\ [RunnersNext]_allVars => QwenInv'
  BY QwenStepKeeps
<1>3. QwenInv /\ [RunnersNext]_allVars =>
        [\A s \in Slot : qPool'[s] # qPool[s] =>
           \E r \in QRequest : \E i \in DOMAIN qPageIds[r] :
             /\ qPageIds[r][i] = s \div QPageSize
             /\ LET p == (i - 1) * QPageSize + (s % QPageSize)
                IN  qPool'[s] = [req |-> r, pos |-> p, tok |-> qSeq[r][p + 1]] ]_qvars
  BY QwenStepKeeps DEF WritesHome
<1> QED
  BY <1>1, <1>2, <1>3, PTL DEF RunnersSpec, QwenWritesStayHome
=============================================================================
