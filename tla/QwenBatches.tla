---------------------------- MODULE QwenBatches ----------------------------
(***************************************************************************)
(* Qwen314BModelRunner between the scheduler's batches and the kernels.    *)
(* The decode kernel always runs KernelBatch rows, from buffers that       *)
(* outlive the call: tokens, lengths and slots are written in every call,  *)
(* a row of the block table only when the pages of its request differ from *)
(* the ones that were written to it last.  The rows behind the batch       *)
(* repeat row 0, so that what they write is what row 0 writes.             *)
(*                                                                         *)
(* Requests come and go between calls, so that a row of the table gets     *)
(* another request and a page another owner.  The pages are the            *)
(* scheduler's; here they are taken and given back one request at a time.  *)
(***************************************************************************)
EXTENDS Integers, Sequences, FiniteSets, SequencesExt

CONSTANTS
  QArrivals,    \* the requests, in the order of arrival
  QPrompt,      \* request -> non-empty sequence of tokens
  QNew,         \* request -> tokens to generate
  QPages,       \* pages of the pool
  QPageSize,
  KernelBatch,  \* max_batch_size, rows of the compiled kernels
  QChunk,       \* bound: tokens of one prefill chunk
  Nobody

QRequest == Range(QArrivals)
QToken == 0 .. 1

ASSUME QwenBatchesAssumption ==
  /\ IsInjective(QArrivals) /\ IsFiniteSet(QRequest) /\ Nobody \notin QRequest
  /\ QPrompt \in [QRequest -> Seq(QToken)] /\ \A r \in QRequest : QPrompt[r] # <<>>
  /\ QNew \in [QRequest -> Nat \ {0}]
  /\ {QPages, QPageSize, KernelBatch, QChunk} \subseteq Nat \ {0}

VARIABLES
  qState,     \* request -> "waiting", "running", "ended"
  qSeq,       \* request -> prompt and output tokens
  qComputed,  \* request -> prompt tokens computed
  qPageIds,   \* request -> its pages, in order of position
  qPool,      \* slot -> cache row
  qRows,      \* decode buffers: row -> [tok, len, slot]
  qTable,     \* decode block table: row -> pages
  qWritten    \* _decode_block_table_row_pages: row -> pages, <<>> for None

qvars == <<qState, qSeq, qComputed, qPageIds, qPool, qRows, qTable, qWritten>>

Row == 0 .. KernelBatch - 1
Page == 0 .. QPages - 1
Slot == 0 .. QPages * QPageSize - 1
EmptyRow == [req |-> Nobody, pos |-> 0, tok |-> 0]

\* After init_kv_cache: the warm-up filled the decode buffers and cleared what
\* the runner remembers of the block table.
QInit ==
  /\ qState = [r \in QRequest |-> "waiting"]
  /\ qSeq = QPrompt
  /\ qComputed = [r \in QRequest |-> 0]
  /\ qPageIds = [r \in QRequest |-> <<>>]
  /\ qPool = [s \in Slot |-> EmptyRow]
  /\ qRows = [b \in Row |-> [tok |-> 0, len |-> 1, slot |-> 0 - 1]]
  /\ qTable = [b \in Row |-> <<0>>]
  /\ qWritten = [b \in Row |-> <<>>]

(***************************************************************************)
(* The scheduler (external).                                               *)
(***************************************************************************)
Running == {r \in QRequest : qState[r] = "running"}

QAdmit(r) ==
  /\ qState[r] = "waiting" /\ Cardinality(Running) < KernelBatch
  /\ \A i \in DOMAIN QArrivals : \E j \in 1 .. i : qState[QArrivals[i]] # "waiting" \/ QArrivals[j] = r
  /\ qState' = [qState EXCEPT ![r] = "running"]
  /\ UNCHANGED <<qSeq, qComputed, qPageIds, qPool, qRows, qTable, qWritten>>

Prefills(r) == qComputed[r] < Len(QPrompt[r])

\* The tokens the request's next call may cover.
Covered(r) == IF Prefills(r) THEN Len(QPrompt[r]) ELSE Len(qSeq[r])

HasPages(r, n) == Len(qPageIds[r]) * QPageSize >= n

Holds(r, page) == \E i \in DOMAIN qPageIds[r] : qPageIds[r][i] = page

\* A free page more for a request that needs one.
Grow(r) ==
  /\ qState[r] = "running" /\ ~HasPages(r, Covered(r))
  /\ \E page \in Page :
       /\ \A q \in QRequest : ~Holds(q, page)
       /\ qPageIds' = [qPageIds EXCEPT ![r] = Append(@, page)]
  /\ UNCHANGED <<qState, qSeq, qComputed, qPool, qRows, qTable, qWritten>>

\* Requests that end, finished or aborted, give their pages back.
Leave(R) ==
  /\ qState' = [r \in QRequest |-> IF r \in R THEN "ended" ELSE qState[r]]
  /\ qPageIds' = [r \in QRequest |-> IF r \in R THEN <<>> ELSE qPageIds[r]]

QAbort(r) ==
  /\ qState[r] = "running"
  /\ Leave({r})
  /\ UNCHANGED <<qSeq, qComputed, qPool, qRows, qTable, qWritten>>

\* A call's requests get the tokens sampled for them.
Sampling(next) ==
  /\ qSeq' = [r \in QRequest |-> IF r \in DOMAIN next THEN Append(qSeq[r], next[r]) ELSE qSeq[r]]
  /\ Leave({r \in DOMAIN next : Len(qSeq[r]) + 1 >= Len(QPrompt[r]) + QNew[r]})

(***************************************************************************)
(* The kernels (external): they write the tokens of the call to their      *)
(* slots, -1 being none, and then attend to all positions of a row through *)
(* its pages.  Attention is a parity, so that one wrong row shows.         *)
(***************************************************************************)
\* The slot of a position (_write_slot_mapping).
SlotOf(pages, p) == pages[(p \div QPageSize) + 1] * QPageSize + (p % QPageSize)

Written(writes) ==
  [s \in Slot |->
     LET mine == {w \in writes : w.slot = s}
     IN  IF mine = {} THEN qPool[s] ELSE (CHOOSE w \in mine : TRUE).row]

Attend(pool, pages, n) == Cardinality({p \in 0 .. n - 1 : pool[SlotOf(pages, p)].tok = 1}) % 2

\* The same of the first n tokens of a sequence: the model.
NextToken(s, n) == Cardinality({p \in 0 .. n - 1 : s[p + 1] = 1}) % 2

Write(s, r, p, t) == [slot |-> s, row |-> [req |-> r, pos |-> p, tok |-> t]]

(***************************************************************************)
(* Prefill: run_prefill and _prepare_prefill_inputs.                       *)
(***************************************************************************)
\* The chunk of a request, in its pages.
ChunkWrites(r, n) ==
  {Write(SlotOf(qPageIds[r], p), r, p, QPrompt[r][p + 1]) :
     p \in qComputed[r] .. qComputed[r] + n - 1}

QPrefill ==
  LET R == {r \in Running : Prefills(r)}
  IN  /\ R # {} /\ \A r \in R : HasPages(r, Covered(r))
      /\ \E chunk \in [R -> 1 .. QChunk] :
           LET end(r) == qComputed[r] + chunk[r]
               last == {r \in R : end(r) = Len(QPrompt[r])}
           IN  /\ \A r \in R : end(r) <= Len(QPrompt[r])
               /\ qPool' = Written(UNION {ChunkWrites(r, chunk[r]) : r \in R})
               /\ Sampling([r \in last |-> Attend(qPool', qPageIds[r], end(r))])
               /\ qComputed' = [r \in QRequest |-> IF r \in R THEN end(r) ELSE qComputed[r]]
               /\ UNCHANGED <<qRows, qTable, qWritten>>

(***************************************************************************)
(* Decode: run_decode and _prepare_decode_inputs.                          *)
(***************************************************************************)
DecodeRow(r) ==
  [tok |-> Last(qSeq[r]), len |-> Len(qSeq[r]), slot |-> SlotOf(qPageIds[r], Len(qSeq[r]) - 1)]

\* Rows behind the batch repeat row 0.
RequestOf(b, batch) == IF b < Len(batch) THEN batch[b + 1] ELSE batch[1]

(* Mutant: the rows behind the batch keep what an earlier call left in them. *)
LeftOver(b, batch) == IF b < Len(batch) THEN DecodeRow(batch[b + 1]) ELSE qRows[b]

RowInputs(b, batch) == DecodeRow(RequestOf(b, batch))

RowPages(b, batch) == qPageIds[RequestOf(b, batch)]

(* Mutant: rows with as many pages as before are taken to be unchanged. *)
SameLength(written, pages) == Len(written) = Len(pages)

\* _write_cached_decode_block_table_row.
RowUnchanged(written, pages) == written = pages

\* The requests of a call, in the order the scheduler has them.
Orders(R) == {batch \in [1 .. Cardinality(R) -> R] : Range(batch) = R}

QDecode ==
  LET R == {r \in Running : ~Prefills(r)}
  IN  \E batch \in Orders(R) :
      /\ R # {} /\ \A r \in R : HasPages(r, Covered(r))
      /\ qRows' = [b \in Row |-> RowInputs(b, batch)]
      /\ qTable' = [b \in Row |-> IF RowUnchanged(qWritten[b], RowPages(b, batch))
                                  THEN qTable[b] ELSE RowPages(b, batch)]
      /\ qWritten' = [b \in Row |-> IF RowUnchanged(qWritten[b], RowPages(b, batch))
                                    THEN qWritten[b] ELSE RowPages(b, batch)]
      /\ qPool' = Written({Write(qRows'[b].slot, RequestOf(b, batch), qRows'[b].len - 1,
                                 qRows'[b].tok) : b \in Row})
      /\ Sampling([r \in R |->
                     LET b == CHOOSE i \in Row : i < Len(batch) /\ batch[i + 1] = r
                     IN  Attend(qPool', qTable'[b], qRows'[b].len)])
      /\ UNCHANGED qComputed

\* Every request has ended: the only state without a step.
QAllEnded ==
  /\ \A r \in QRequest : qState[r] = "ended"
  /\ UNCHANGED qvars

QNext ==
  \/ \E r \in QRequest : QAdmit(r) \/ Grow(r) \/ QAbort(r)
  \/ QPrefill
  \/ QDecode
  \/ QAllEnded

(***************************************************************************)
(* Properties.                                                             *)
(***************************************************************************)
\* Every output token is the one the model computes from the tokens before it,
\* whichever row, pages and companions its request had.
QwenOutputExact ==
  \A r \in QRequest : \A i \in (Len(QPrompt[r]) + 1) .. Len(qSeq[r]) :
     qSeq[r][i] = NextToken(qSeq[r], i - 1)

\* A call changes a slot only to the token of the request that holds the page,
\* at the position the slot has in it; pages nobody holds are not written.
QwenWritesStayHome ==
  [][\A s \in Slot : qPool'[s] # qPool[s] =>
       \E r \in QRequest : \E i \in DOMAIN qPageIds[r] :
         /\ qPageIds[r][i] = s \div QPageSize
         /\ LET p == (i - 1) * QPageSize + (s % QPageSize)
            IN  qPool'[s] = [req |-> r, pos |-> p, tok |-> qSeq[r][p + 1]] ]_qvars

(***************************************************************************)
(* The inductive invariant (Runners_proofs): pages have one owner, the     *)
(* cache rows of a request's computed positions hold its tokens, and a row *)
(* of the block table is what the runner remembers of it.                  *)
(***************************************************************************)
\* Positions of a running request that are in the cache.
Cached(r) == IF Prefills(r) THEN qComputed[r] ELSE Len(qSeq[r]) - 1

QwenTypeOK ==
  /\ qState \in [QRequest -> {"waiting", "running", "ended"}]
  /\ qSeq \in [QRequest -> Seq(QToken)]
  /\ qComputed \in [QRequest -> Nat]
  /\ qPageIds \in [QRequest -> Seq(Page)]
  /\ qPool = [s \in Slot |-> qPool[s]]
  /\ qTable = [b \in Row |-> qTable[b]]
  /\ qWritten = [b \in Row |-> qWritten[b]]
  /\ Cardinality(Running) <= KernelBatch

PagesOwned ==
  /\ \A r \in QRequest : qState[r] # "running" => qPageIds[r] = <<>>
  /\ \A r, q \in QRequest : \A i \in DOMAIN qPageIds[r] : \A j \in DOMAIN qPageIds[q] :
       qPageIds[r][i] = qPageIds[q][j] => r = q /\ i = j

SequencesSound ==
  \A r \in QRequest :
    /\ qState[r] = "waiting" => qComputed[r] = 0
    /\ qComputed[r] <= Len(QPrompt[r]) /\ Len(QPrompt[r]) <= Len(qSeq[r])
    /\ \A i \in 1 .. Len(QPrompt[r]) : qSeq[r][i] = QPrompt[r][i]
    /\ Prefills(r) => Len(qSeq[r]) = Len(QPrompt[r])
    /\ ~Prefills(r) => Len(qSeq[r]) > Len(QPrompt[r])

RowsHoldTokens ==
  \A r \in Running : \A p \in 0 .. Cached(r) - 1 :
    /\ (p \div QPageSize) + 1 \in DOMAIN qPageIds[r]
    /\ qPool[SlotOf(qPageIds[r], p)].tok = qSeq[r][p + 1]

TableRemembered == \A b \in Row : qWritten[b] = <<>> \/ qTable[b] = qWritten[b]

QwenInv ==
  QwenTypeOK /\ PagesOwned /\ SequencesSound /\ RowsHoldTokens /\ TableRemembered /\ QwenOutputExact
=============================================================================
