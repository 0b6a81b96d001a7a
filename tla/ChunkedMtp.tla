---------------------------- MODULE ChunkedMtp ----------------------------
(***************************************************************************)
(* DeepSeekV4ModelRunner, from a scheduled batch to the rows the kernels   *)
(* write: prefill chunks packed one request per rank, autoregressive       *)
(* decode, and speculative decode of arbitrary depth (K > 1 drafts         *)
(* verified in fixed-width chunks).  Decode kernels are compiled for a     *)
(* fixed tile of TileBatch rows of TileSeq tokens on every rank and run    *)
(* all of it whatever the batch, so a row without a request needs pages    *)
(* of its own.                                                             *)
(*                                                                         *)
(* The seven cache groups are represented by one of each kind: "ori" (ring *)
(* of the sliding window), "state" (ring of the compressor's inputs) and   *)
(* "cmp" (one compressed row per Ratio tokens, full history).  A cache     *)
(* row records whose token it holds, at which position.  The model that    *)
(* the kernels evaluate is a parity of what they read, so that one wrong   *)
(* row shows in the next token; the drafts are arbitrary.                  *)
(***************************************************************************)
EXTENDS Integers, Sequences, FiniteSets, SequencesExt

CONSTANTS
  Arrivals,     \* the requests, in the order of arrival
  Prompt,       \* Request -> non-empty sequence of tokens
  MaxNew,       \* Request -> tokens to generate
  NumRanks,     \* layout.ranks
  Layouts,      \* set of [k, seq, batch, params]: NumSpec, decode_seq,
                \* decode_batch, whether batches carry sampling_params
  Slots,        \* capacity slots of each rank (CachePools)
  BlockSize, Ratio, StateBlock, Window,
  PrefillTile,  \* rolling caches hold two chunks of this many tokens
  ChunkLimit,   \* bound: tokens of one prefill chunk
  MaxSeqLen,
  NoRequest

Request == Range(Arrivals)
Token == 0 .. 1
Ranks == 0 .. NumRanks - 1
CeilDiv(a, b) == (a + b - 1) \div b
Least(a, b) == IF a < b THEN a ELSE b

ASSUME ChunkedMtpAssumption ==
  /\ IsInjective(Arrivals) /\ NoRequest \notin Request
  /\ Prompt \in [Request -> Seq(Token)] /\ MaxNew \in [Request -> Nat \ {0}]
  /\ \A r \in Request : Len(Prompt[r]) > 0 /\ Len(Prompt[r]) + MaxNew[r] <= MaxSeqLen
  /\ \A l \in Layouts : l.k \in Nat \ {1} /\ l.seq \in Nat \ {0} /\ l.batch \in Nat \ {0}
  /\ {NumRanks, Slots, BlockSize, Ratio, StateBlock, Window, ChunkLimit} \subseteq Nat \ {0}
  /\ BlockSize % Ratio = 0 /\ ChunkLimit <= PrefillTile

VARIABLES
  layout,    \* the compiled decode tile, fixed for a run
  running,   \* Scheduler.running: admitted requests, oldest first
  place,     \* request -> [rank, slot] or NoPlace (cache partition, ring pages)
  seq,       \* request -> prompt and output tokens the engine has
  status,    \* request -> "waiting", "prefill", "decode", "done", "failed"
  computed,  \* request -> prompt tokens computed
  cache,     \* group -> rank -> address -> cache row
  mtpCache,  \* rank -> address -> request that wrote the MTP layer's row
  mtp,       \* request -> _DeepSeekV4MtpRequestState
  call,      \* the decode call in progress
  failure    \* the check that failed a call last

vars == <<layout, running, place, seq, status, computed, cache, mtpCache, mtp, call, failure>>

Group == {"ori", "state", "cmp"}
NumSpec == layout.k
TileSeq == layout.seq
TileBatch == layout.batch

(***************************************************************************)
(* Cache groups and the addresses in them.                                 *)
(***************************************************************************)
\* Source tokens of a page, cache rows of a page.
PageTokens(g) == IF g = "state" THEN StateBlock ELSE BlockSize
PageRows(g) == IF g = "cmp" THEN BlockSize \div Ratio ELSE PageTokens(g)

\* max_blocks_per_seq: rings hold the history and two chunks in flight, the
\* sliding window one more page because it may start inside a page.
PagesPerSeq(g) ==
  CASE g = "ori"   -> CeilDiv(Window - 1 + 2 * PrefillTile, BlockSize) + 1
    [] g = "state" -> CeilDiv(Ratio + 2 * PrefillTile, StateBlock)
    [] g = "cmp"   -> CeilDiv(MaxSeqLen, BlockSize)

\* Pages the scheduler may hand out on a rank; the pages behind are scratch.
PoolPages(g) == Slots * PagesPerSeq(g)

NoPlace == [rank |-> 0, slot |-> 0 - 1]
Placed(r) == place[r].slot >= 0

\* The pages a request of n tokens holds in a group, in ring order.
PageIds(r, g, n) ==
  [i \in 1 .. Least(CeilDiv(n, PageTokens(g)), PagesPerSeq(g)) |->
     place[r].slot * PagesPerSeq(g) + i - 1]

\* slot_mapping_from_ids and its variants: position p through a row's pages.
Address(g, ids, p) ==
  ids[((p \div PageTokens(g)) % Len(ids)) + 1] * PageRows(g)
    + ((p % PageTokens(g)) * PageRows(g)) \div PageTokens(g)

Closes(p) == (p + 1) % Ratio = 0

\* Where position p of a row with these pages is written, -1 for nowhere.
Targets(ids, p) ==
  [g \in Group |-> IF g = "cmp" /\ ~Closes(p) THEN 0 - 1 ELSE Address(g, ids[g], p)]

NoRow == [req |-> NoRequest, pos |-> 0, tok |-> 0]

(***************************************************************************)
(* The main kernel (external), as the code in src/ relies on it.  A cell   *)
(* is one token row of a dispatch: the rank, the pages of its row, the     *)
(* addresses it writes, its position and token, and whose token it is.     *)
(* All rows write "ori" and "state" first, then closing positions compress *)
(* their Ratio state entries into "cmp", then every row attends over its   *)
(* window and over its compressed history.                                 *)
(***************************************************************************)
Cell(k, ids, at, r, p, t) ==
  [rank |-> k, ids |-> ids, at |-> at, row |-> [req |-> r, pos |-> p, tok |-> t]]

\* The rows of a group after the cells are written. Scratch rows are never
\* read back and not represented.
WriteGroup(g, rows, cells) ==
  [k \in Ranks |->
     [s \in DOMAIN rows[k] |->
        LET mine == {c \in cells : c.rank = k /\ c.at[g] = s}
        IN  IF mine = {} THEN rows[k][s] ELSE (CHOOSE c \in mine : TRUE).row]]

\* The compressed row a closing cell writes.
Compressed(state, c) ==
  [c EXCEPT !.row.tok =
     Cardinality({p \in (c.row.pos - Ratio + 1) .. c.row.pos :
                    state[c.rank][Address("state", c.ids["state"], p)].tok = 1}) % 2]

Dispatch(rows) ==
  \E cells \in {rows} :
    \E state \in {WriteGroup("state", cache["state"], cells)} :
      \E closing \in {{Compressed(state, c) :
                         c \in {d \in cells : d.at["cmp"] \in DOMAIN cache["cmp"][d.rank]}}} :
        cache' = [ori   |-> WriteGroup("ori", cache["ori"], cells),
                  state |-> state,
                  cmp   |-> WriteGroup("cmp", cache["cmp"], closing)]

\* What the row at position p of rank k with these pages samples.
Sampled(rows, k, ids, p) ==
  ( Cardinality({q \in Max({0, p - Window + 1}) .. p :
                   rows["ori"][k][Address("ori", ids["ori"], q)].tok = 1})
    + Cardinality({q \in 0 .. p : Closes(q) /\
                   rows["cmp"][k][Address("cmp", ids["cmp"], q)].tok = 1}) ) % 2

\* The same of a sequence of tokens, without caches: the model's next token.
Greedy(s) ==
  ( Cardinality({q \in Max({1, Len(s) - Window + 1}) .. Len(s) : s[q] = 1})
    + Cardinality({q \in 1 .. Len(s) - (Len(s) % Ratio) : s[q] = 1}) ) % 2

(***************************************************************************)
(* Requests.                                                               *)
(***************************************************************************)
NoMtp == [draft |-> 0, pos |-> 0, prompt |-> 0, committed |-> 0, proposed |-> 0, slack |-> 0]
IdleCall == [phase |-> "idle"]

Init ==
  /\ layout \in Layouts
  /\ running = <<>>
  /\ place = [r \in Request |-> NoPlace]
  /\ seq = Prompt
  /\ status = [r \in Request |-> "waiting"]
  /\ computed = [r \in Request |-> 0]
  /\ cache = [g \in Group |-> [k \in Ranks |->
                [s \in 0 .. PoolPages(g) * PageRows(g) - 1 |-> NoRow]]]
  /\ mtpCache = [k \in Ranks |-> [s \in 0 .. PoolPages("ori") * BlockSize - 1 |-> NoRequest]]
  /\ mtp = [r \in Request |-> NoMtp]
  /\ call = IdleCall
  /\ failure = "none"

\* The pages of every group for n tokens of a request.
Pages(r, n) == [g \in Group |-> PageIds(r, g, n)]

Load(k) == Cardinality({r \in Request : Placed(r) /\ place[r].rank = k})
FreeSlots(k) == {s \in 0 .. Slots - 1 : \A r \in Request : place[r] # [rank |-> k, slot |-> s]}

\* The scheduler admits in order of arrival, when it likes; the cache manager
\* places a request on a least loaded rank with free pages.
Admit(r) ==
  /\ call = IdleCall /\ status[r] = "waiting"
  /\ \A i \in DOMAIN Arrivals : \E j \in 1 .. i : status[Arrivals[i]] # "waiting" \/ Arrivals[j] = r
  /\ \E k \in Ranks :
       /\ FreeSlots(k) # {} /\ \A i \in Ranks : FreeSlots(i) # {} => Load(k) <= Load(i)
       /\ place' = [place EXCEPT ![r] = [rank |-> k, slot |-> Min(FreeSlots(k))]]
  /\ status' = [status EXCEPT ![r] = "prefill"]
  /\ running' = Append(running, r)
  /\ UNCHANGED <<layout, seq, computed, cache, mtpCache, mtp, call, failure>>

Finished(r, s) == Len(s) >= Len(Prompt[r]) + MaxNew[r]

(* Mutant: a request that ends keeps its pages. *)
SettleKeepsPages(R, next, states, st) ==
  /\ seq' = [r \in Request |-> IF r \in R THEN next[r] ELSE seq[r]]
  /\ status' = [r \in Request |-> IF r \in R THEN st[r] ELSE status[r]]
  /\ running' = SelectSeq(running, LAMBDA r : r \notin R \/ st[r] \notin {"done", "failed"})
  /\ mtp' = [r \in Request |-> IF r \in R THEN states[r] ELSE mtp[r]]
  /\ UNCHANGED place

\* What a step leaves of its requests R: new token sequences and states; those
\* that end give their pages back (release_finished_requests).
Settle(R, next, states, st) ==
  LET left == {r \in R : st[r] \in {"done", "failed"}}
  IN  /\ seq' = [r \in Request |-> IF r \in R THEN next[r] ELSE seq[r]]
      /\ status' = [r \in Request |-> IF r \in R THEN st[r] ELSE status[r]]
      /\ place' = [r \in Request |-> IF r \in left THEN NoPlace ELSE place[r]]
      /\ running' = SelectSeq(running, LAMBDA r : r \notin left)
      /\ mtp' = [r \in Request |->
                   IF r \in left THEN NoMtp ELSE IF r \in R THEN states[r] ELSE mtp[r]]

\* A check of the runner raises: the step's requests end with an error.
Fail(why, R) ==
  /\ failure' = why
  /\ Settle(R, seq, mtp, [r \in R |-> "failed"])
  /\ call' = IdleCall
  /\ UNCHANGED <<layout, computed, cache, mtpCache>>

(***************************************************************************)
(* Prefill: one request per rank, chunks padded to a common number of      *)
(* kernel tokens.                                                          *)
(***************************************************************************)
NoWrite == [g \in Group |-> 0 - 1]

\* _prefill_kernel_tokens: the longest chunk, padded to whole tiles.
KernelTokens(chunk) == CeilDiv(Max(Range(chunk)), PrefillTile) * PrefillTile

(* Mutant: pad tokens keep the addresses of the positions after the chunk. *)
PadsWritten(ids, start, n, i) == Targets(ids, start + i)

\* _pad_prefill_mapping: pad tokens write nowhere.
PrefillTarget(ids, start, n, i) == IF i < n THEN Targets(ids, start + i) ELSE NoWrite

\* _rank_scatter copies the first request's inputs to idle ranks,
\* _rank_scatter_mappings disables their writes.
IdleTarget(target) == NoWrite

\* _prefill_kernel_positions goes on behind the chunk, up to the last position;
\* _padded_vector and _padded_rows repeat the chunk's tokens.
KernelPosition(start, i) == Least(start + i, MaxSeqLen - 1)
PaddedToken(tokens, start, n, i) == tokens[start + (i % n) + 1]

\* Every token row of the dispatch: chunk[r] tokens of each request.
PrefillCells(chunk) ==
  LET R == DOMAIN chunk
      first == Head(SelectSeq(running, LAMBDA r : r \in R))
      owner(k) == IF \E r \in R : place[r].rank = k
                  THEN CHOOSE r \in R : place[r].rank = k ELSE first
      cell(k, i) ==
        LET r == owner(k)
            ids == Pages(r, computed[r] + chunk[r])
            target == PrefillTarget(ids, computed[r], chunk[r], i)
        IN  Cell(k, ids, IF place[r].rank = k THEN target ELSE IdleTarget(target), r,
                 KernelPosition(computed[r], i), PaddedToken(Prompt[r], computed[r], chunk[r], i))
  IN  {cell(k, i) : k \in Ranks, i \in 0 .. KernelTokens(chunk) - 1}

\* _capture_mtp_prefill_context and, on the last chunk, finalize_prefill: the
\* positions of the MTP rows written. Each row needs the token after it, so the
\* chunk's last one waits for the next chunk.
MtpPrefillRows(r, n) ==
  LET start == computed[r]
      end == start + n
  IN  (end - Least(n, PrefillTile)) .. (end - 2)
      \cup (IF start > 0 /\ n < PrefillTile THEN {start - 1} ELSE {})
      \cup (IF end = Len(Prompt[r]) THEN {end - 1} ELSE {})

WriteMtp(writes) ==
  [k \in Ranks |-> [s \in DOMAIN mtpCache[k] |->
     LET mine == {w \in writes : w.rank = k /\ w.at = s}
     IN  IF mine = {} THEN mtpCache[k][s] ELSE (CHOOSE w \in mine : TRUE).req]]

MtpWrite(k, at, r) == [rank |-> k, at |-> at, req |-> r]

Prefill(chunk) ==
  LET R == DOMAIN chunk
      end(r) == computed[r] + chunk[r]
      last(r) == end(r) = Len(Prompt[r])
      next == [r \in R |->
                 IF last(r) THEN Append(seq[r], Sampled(cache', place[r].rank, Pages(r, end(r)), end(r) - 1))
                 ELSE seq[r]]
  IN  /\ Dispatch(PrefillCells(chunk))
      /\ computed' = [r \in Request |-> IF r \in R THEN end(r) ELSE computed[r]]
      /\ mtpCache' =
           IF NumSpec = 0 THEN mtpCache
           ELSE WriteMtp(UNION {{MtpWrite(place[r].rank, Address("ori", PageIds(r, "ori", end(r)), p), r) :
                                   p \in MtpPrefillRows(r, chunk[r])} : r \in R})
      /\ \E draft \in IF NumSpec = 0 THEN [R -> {0}] ELSE [R -> Token] :
           Settle(R, next,
                  [r \in R |-> IF NumSpec > 0 /\ last(r)
                               THEN [NoMtp EXCEPT !.draft = draft[r], !.pos = end(r), !.prompt = end(r)]
                               ELSE mtp[r]],
                  [r \in R |-> IF ~last(r) THEN "prefill"
                               ELSE IF Finished(r, next[r]) THEN "done" ELSE "decode"])
      /\ UNCHANGED <<layout, call, failure>>

\* _partitioned_prefill_chunks: the oldest unfinished prompt of every rank.
Prefilling(k) == SelectSeq(running, LAMBDA r : status[r] = "prefill" /\ place[r].rank = k)

PrefillStep ==
  /\ call = IdleCall
  /\ LET R == {Head(Prefilling(k)) : k \in {i \in Ranks : Prefilling(i) # <<>>}}
     IN  /\ R # {}
         /\ \E chunk \in [R -> 1 .. ChunkLimit] :
              /\ \A r \in R : computed[r] + chunk[r] <= Len(Prompt[r])
              /\ Prefill(chunk)

(***************************************************************************)
(* The decode tile.  A wave is the sequence of requests of one dispatch,   *)
(* in[r] the tokens, positions and allocated length of r's row.            *)
(***************************************************************************)
\* _decode_assignment: a rank's rows are its requests in batch order.
OnRank(wave, k) == SelectSeq(wave, LAMBDA r : place[r].rank = k)

(* Mutant: the scratch pages start one page early, inside the pool. *)
ScratchInsidePool(j) == [g \in Group |-> <<PoolPages(g) + j - 1>>]

\* _scratch_group_block_ids: a page behind the pool for every row.
ScratchIds(j) == [g \in Group |-> <<PoolPages(g) + j>>]

\* _pad_group_block_ids: rows without a request get scratch pages.
RowIds(wave, k, j, in) ==
  LET local == OnRank(wave, k)
  IN  IF j < Len(local) THEN Pages(local[j + 1], in[local[j + 1]].n)
      ELSE ScratchIds(j - Len(local))

\* _stage_decode_dynamic_inputs: a row without a request repeats the tokens and
\* positions of the rank's first request, on an idle rank of the batch's first.
RowOwner(wave, k, j) ==
  LET local == OnRank(wave, k)
  IN  IF j < Len(local) THEN local[j + 1]
      ELSE IF local # <<>> THEN local[1] ELSE wave[1]

TileCells(wave, in) ==
  LET cell(k, j, o) ==
        LET r == RowOwner(wave, k, j)
            ids == RowIds(wave, k, j, in)
        IN  Cell(k, ids, Targets(ids, in[r].pos[o]), r, in[r].pos[o], in[r].tok[o])
  IN  {cell(k, j, o) : k \in Ranks, j \in 0 .. TileBatch - 1, o \in 1 .. TileSeq}

\* What prepare_mtp_target_inputs, _prepare_decode_inputs and
\* _stage_sampling_inputs refuse. carried is the number of sampling parameters
\* in the batch.
OverCapacity(wave) == \E k \in Ranks : Len(OnRank(wave, k)) > TileBatch
SharedPartialChunk(wave, active) ==
  active < TileSeq /\ \E k \in Ranks : Len(OnRank(wave, k)) > 1
PastMaxSeqLen(wave, in) ==
  \E r \in Range(wave) : \E o \in 1 .. TileSeq : in[r].pos[o] >= MaxSeqLen
ParamsMisaligned(wave, carried) == layout.params /\ carried # Len(wave)

\* The first of the checks that fails, in their order; "none" when the dispatch
\* may go.
TileCheck(wave, in, active, carried) ==
  IF OverCapacity(wave) THEN "capacity"
  ELSE IF SharedPartialChunk(wave, active) THEN "partial_chunk"
  ELSE IF PastMaxSeqLen(wave, in) THEN "position"
  ELSE IF ParamsMisaligned(wave, carried) THEN "sampling_rows"
  ELSE "none"

Decoding == SelectSeq(running, LAMBDA r : status[r] = "decode")

(***************************************************************************)
(* Autoregressive decode (K = 0): prepared ahead in the pipelined worker   *)
(* (prepare_decode, run_prepared_decode) or built in the call.             *)
(***************************************************************************)
\* prepare_decode takes one request per rank only.
AutoCheck(batch, in, prepared) ==
  IF prepared /\ \E k \in Ranks : Len(OnRank(batch, k)) > 1 THEN "one_per_rank"
  ELSE TileCheck(batch, in, 1, Len(batch))

AutoDecode(batch, prepared) ==
  LET R == Range(batch)
      in == [r \in R |-> [tok |-> <<Last(seq[r])>>, pos |-> <<Len(seq[r]) - 1>>, n |-> Len(seq[r])]]
      next == [r \in R |-> Append(seq[r], Sampled(cache', place[r].rank, Pages(r, in[r].n), Len(seq[r]) - 1))]
      check == AutoCheck(batch, in, prepared)
  IN  \/ check # "none" /\ Fail(check, R)
      \/ /\ check = "none"
         /\ Dispatch(TileCells(batch, in))
         /\ Settle(R, next, mtp, [r \in R |-> IF Finished(r, next[r]) THEN "done" ELSE "decode"])
         /\ UNCHANGED <<layout, computed, mtpCache, call, failure>>

AutoDecodeStep ==
  /\ call = IdleCall /\ NumSpec = 0 /\ Decoding # <<>>
  /\ \E prepared \in BOOLEAN : AutoDecode(Decoding, prepared)

(***************************************************************************)
(* Speculative decode with K > 1: _run_chunked_mtp_decode.                 *)
(***************************************************************************)
\* The length the scheduler sends. A step scheduled before the result of the
\* one before is known assumes that all of its drafts are accepted.
ScheduledLen(r, late) == Len(seq[r]) + (IF late THEN mtp[r].slack ELSE 0)

(* Mutant: the scheduler's optimistic length is used as it is. *)
UncorrectedLen(r, late) == ScheduledLen(r, late)

\* _correct_mtp_seq_lens.
CorrectedLen(r, late) ==
  IF mtp[r].proposed > 0 THEN mtp[r].prompt + mtp[r].committed + 1 ELSE ScheduledLen(r, late)

\* _mtp_draft_count.
DraftCount(len) ==
  Least(NumSpec, Max({0} \cup {Min({MaxSeqLen - len[r] : r \in DOMAIN len})}))

\* The scheduler found full-history pages for the drafts too.
BeginDecode(batch, late) ==
  LET R == Range(batch)
      len == [r \in R |-> CorrectedLen(r, late)]
      n == [r \in R |-> ScheduledLen(r, late) + NumSpec]
  IN  /\ \A r \in R : CeilDiv(n[r], BlockSize) <= PagesPerSeq("cmp")
      /\ call' = [phase |-> "propose", batch |-> batch, len |-> len, n |-> n,
                  k |-> DraftCount(len), drafts |-> [r \in R |-> <<mtp[r].draft>>],
                  acc |-> [r \in R |-> <<>>], pend |-> [r \in R |-> 0],
                  tail |-> [r \in R |-> [tok |-> 0, pos |-> 0]],
                  active |-> batch, off |-> 0, width |-> 0, waves |-> <<>>, cont |-> <<>>]
      /\ UNCHANGED <<layout, running, place, seq, status, computed, cache, mtpCache, mtp, failure>>

BeginDecodeStep ==
  /\ call = IdleCall /\ NumSpec > 0 /\ Decoding # <<>>
  /\ \E late \in BOOLEAN : BeginDecode(Decoding, late)

\* _run_mtp_token_step: one token of every request at position at[r], in waves
\* of one request per rank; every other row of the tile writes its scratch page.
MtpStepWrites(batch, n, at) ==
  LET wave(w, k) == IF w <= Len(OnRank(batch, k)) THEN OnRank(batch, k)[w] ELSE NoRequest
      target(k, r, j, o) ==
        IF r # NoRequest /\ j = 0 /\ o = 0 THEN Address("ori", PageIds(r, "ori", n[r]), at[r])
        ELSE ScratchIds(j)["ori"][1] * BlockSize + o
  IN  {MtpWrite(k, target(k, wave(w, k), j, o), wave(w, k)) :
         w \in 1 .. Len(batch), k \in Ranks, j \in 0 .. TileBatch - 1, o \in 0 .. TileSeq - 1}

\* _propose_mtp_tokens: the next draft of every request.
ProposeStep ==
  /\ call.phase = "propose" /\ \E r \in DOMAIN call.drafts : Len(call.drafts[r]) < call.k
  /\ LET R == DOMAIN call.drafts
         done == Len(call.drafts[Head(call.batch)])
     IN  /\ mtpCache' = WriteMtp(MtpStepWrites(call.batch, call.n, [r \in R |-> mtp[r].pos + done - 1]))
         /\ \E t \in [R -> Token] :
              call' = [call EXCEPT !.drafts = [r \in R |-> Append(call.drafts[r], t[r])]]
  /\ UNCHANGED <<layout, running, place, seq, status, computed, cache, mtp, failure>>

\* The tokens a verification feeds: the last output token, then the drafts.
Input(r, i) == IF i = 0 THEN Last(seq[r]) ELSE call.drafts[r][i]

\* _select_decode_batch_rows by rank: a wave takes one request of every rank.
OnePerRank(active) ==
  LET depth == Max({Len(OnRank(active, k)) : k \in Ranks})
      wave(w) == SelectSeq([i \in 1 .. NumRanks |->
                   IF w <= Len(OnRank(active, i - 1)) THEN OnRank(active, i - 1)[w] ELSE NoRequest],
                   LAMBDA r : r # NoRequest)
  IN  [w \in 1 .. depth |-> wave(w)]

(* Mutant: a narrow chunk takes all requests in one dispatch. *)
WavesNotSplit(active, width) == <<active>>

\* A chunk as wide as the tile takes all requests, a narrower one goes in waves.
Waves(active, width) == IF width = TileSeq THEN <<active>> ELSE OnePerRank(active)

(* Mutant: the pending token is not compared with its draft. *)
ConfirmedUnseen(r) == TRUE

\* The pending token of the chunk before is the draft the next chunk starts with.
Confirmed(r) == call.pend[r] = call.drafts[r][call.off]

\* Head of the loop of _verify_mtp_drafts: settle what the last chunk left
\* pending, and cut the next one.
VerifyRound ==
  /\ \/ call.phase = "propose" /\ \A r \in DOMAIN call.drafts : Len(call.drafts[r]) >= call.k
     \/ call.phase = "verify"
  /\ LET left == call.off > 0
         act == IF left THEN SelectSeq(call.active, Confirmed) ELSE call.active
         R == DOMAIN call.drafts
         width == Least(TileSeq, call.k + 1 - call.off)
     IN  call' = [call EXCEPT
           !.drafts = [r \in R |-> SubSeq(call.drafts[r], 1, call.k)],
           !.acc = [r \in R |-> IF left /\ r \in Range(call.active)
                                THEN Append(call.acc[r], call.pend[r]) ELSE call.acc[r]],
           !.tail = [r \in R |-> IF left /\ r \in Range(call.active) /\ r \notin Range(act)
                                 THEN [tok |-> call.pend[r], pos |-> call.len[r] - 1 + call.off]
                                 ELSE call.tail[r]],
           !.active = act, !.cont = <<>>, !.width = width,
           !.waves = IF act = <<>> THEN <<>> ELSE Waves(act, width),
           !.phase = IF act = <<>> THEN "advance" ELSE "wave"]
  /\ UNCHANGED <<layout, running, place, seq, status, computed, cache, mtpCache, mtp, failure>>

\* The row of a request in the chunk: real positions, then the last repeated.
ChunkRow(r) ==
  LET at(o) == call.off + Least(o, call.width) - 1
  IN  [tok |-> [o \in 1 .. TileSeq |-> Input(r, at(o))],
       pos |-> [o \in 1 .. TileSeq |-> call.len[r] - 1 + at(o)],
       n   |-> call.n[r]]

\* Predictions of a row that match the drafts they are compared with, from the
\* first on; the chunk's last prediction is not compared here.
Matched(preds, drafts, off) ==
  Max({m \in 0 .. Len(preds) - 1 : \A i \in 1 .. m : preds[i] = drafts[off + i]})

\* What a wave's predictions leave of the call. A request ends at its first
\* mismatch or with the last draft; otherwise its last prediction is pending.
Judge(wave, preds) ==
  LET W == Range(wave)
      m == [r \in W |-> Matched(preds[r], call.drafts[r], call.off)]
      final == call.off + call.width - 1 = call.k
      ends(r) == m[r] < call.width - 1 \/ final
  IN  [call EXCEPT
        !.acc = [r \in DOMAIN call.acc |->
                   IF r \notin W THEN call.acc[r]
                   ELSE call.acc[r] \o SubSeq(preds[r], 1, IF ends(r) THEN m[r] + 1 ELSE m[r])],
        !.tail = [r \in DOMAIN call.tail |->
                    IF r \in W /\ ends(r)
                    THEN [tok |-> preds[r][m[r] + 1], pos |-> call.len[r] + call.off + m[r]]
                    ELSE call.tail[r]],
        !.pend = [r \in DOMAIN call.pend |->
                    IF r \in W /\ ~ends(r) THEN preds[r][call.width] ELSE call.pend[r]],
        !.cont = call.cont \o SelectSeq(wave, LAMBDA r : ~ends(r)),
        !.waves = Tail(call.waves)]

Wave ==
  /\ call.phase = "wave" /\ call.waves # <<>>
  /\ LET wave == Head(call.waves)
         W == Range(wave)
         in == [r \in W |-> ChunkRow(r)]
         check == TileCheck(wave, in, call.width, Len(call.batch))
     IN  \/ check # "none" /\ Fail(check, Range(call.batch))
         \/ /\ check = "none"
            /\ Dispatch(TileCells(wave, in))
            /\ \E preds \in {[r \in W |-> [o \in 1 .. call.width |->
                     Sampled(cache', place[r].rank, Pages(r, call.n[r]), in[r].pos[o])]]} :
                 call' = Judge(wave, preds)
            /\ UNCHANGED <<layout, running, place, seq, status, computed, mtpCache, mtp, failure>>

\* Foot of the loop: the requests that go on take the next chunk.
NextChunk ==
  /\ call.phase = "wave" /\ call.waves = <<>>
  /\ call' = [call EXCEPT !.active = call.cont, !.off = call.off + call.width,
                          !.phase = IF call.cont = <<>> THEN "advance" ELSE "verify"]
  /\ UNCHANGED <<layout, running, place, seq, status, computed, cache, mtpCache, mtp, failure>>

\* The rest of _run_chunked_mtp_decode: counters, the MTP row of each tail, the
\* next draft; the engine appends what the request may still take.
Advance ==
  /\ call.phase = "advance"
  /\ LET R == Range(call.batch)
         next == [r \in R |->
                    SubSeq(seq[r] \o call.acc[r], 1,
                           Least(Len(seq[r]) + Len(call.acc[r]), Len(Prompt[r]) + MaxNew[r]))]
     IN  /\ mtpCache' = WriteMtp(MtpStepWrites(call.batch, call.n, [r \in R |-> call.tail[r].pos]))
         /\ \E t \in [R -> Token] :
              Settle(R, next,
                     [r \in R |-> [mtp[r] EXCEPT
                        !.draft = t[r], !.pos = call.tail[r].pos + 1,
                        !.committed = @ + Len(call.acc[r]), !.proposed = @ + call.k,
                        !.slack = NumSpec + 1 - Len(call.acc[r])]],
                     [r \in R |-> IF Finished(r, next[r]) THEN "done" ELSE "decode"])
  /\ call' = IdleCall
  /\ UNCHANGED <<layout, computed, cache, failure>>

\* The only state without a next step: TLC's deadlock check shows that no request
\* is left without a step to take.
AllEnded ==
  /\ \A r \in Request : status[r] \in {"done", "failed"}
  /\ UNCHANGED vars

Next ==
  \/ \E r \in Request : Admit(r)
  \/ PrefillStep
  \/ AutoDecodeStep
  \/ BeginDecodeStep
  \/ ProposeStep
  \/ VerifyRound
  \/ Wave
  \/ NextChunk
  \/ Advance
  \/ AllEnded

Spec == Init /\ [][Next]_vars

(***************************************************************************)
(* Properties.                                                             *)
(***************************************************************************)
TypeOK ==
  /\ layout \in Layouts /\ Range(running) \subseteq Request
  /\ status \in [Request -> {"waiting", "prefill", "decode", "done", "failed"}]
  /\ \A r \in Request : Placed(r) <=> status[r] \in {"prefill", "decode"}
  /\ \A r \in Request : Len(seq[r]) <= MaxSeqLen

\* Every output token is the one the model computes from the tokens before it,
\* whatever chunks, tiles, waves and drafts it came through.
OutputExact ==
  \A r \in Request : \A i \in (Len(Prompt[r]) + 1) .. Len(seq[r]) :
     seq[r][i] = Greedy(SubSeq(seq[r], 1, i - 1))

\* accept_mtp_tokens: the longest matching prefix of the drafts and one token
\* of the main model.
AcceptMtpTokens(main, draft) ==
  SubSeq(main, 1, 1 + Max({m \in 0 .. Len(draft) : \A i \in 1 .. m : draft[i] = main[i]}))

\* Verification in chunks and waves accepts what one pass over all drafts
\* would, and the tail is the last accepted token at its position.
VerificationExact ==
  call.phase = "advance" =>
    \A r \in Range(call.batch) :
      LET d == call.drafts[r]
          main == [i \in 1 .. Len(d) + 1 |-> Greedy(seq[r] \o SubSeq(d, 1, i - 1))]
      IN  /\ call.acc[r] = AcceptMtpTokens(main, d)
          /\ call.tail[r] = [tok |-> Last(call.acc[r]), pos |-> Len(seq[r]) - 1 + Len(call.acc[r])]

\* Between calls, every cache row the request's next token reads holds the
\* request's own token: rejected drafts, ring reuse and filler rows left no
\* other behind.
HistoryExact ==
  call = IdleCall =>
    \A r \in Request :
      status[r] \in {"prefill", "decode"} =>
        LET n == IF status[r] = "prefill" THEN computed[r] ELSE Len(seq[r]) - 1
            ids == Pages(r, n + 1)
            row(g, p) == cache[g][place[r].rank][Address(g, ids[g], p)]
            held(g, p) == row(g, p) = [req |-> r, pos |-> p, tok |-> seq[r][p + 1]]
        IN  /\ \A p \in Max({0, n - Window + 1}) .. n - 1 : held("ori", p)
            /\ \A p \in (n - (n % Ratio)) .. n - 1 : held("state", p)
            /\ \A p \in {q \in 0 .. n - 1 : Closes(q)} :
                 row("cmp", p) = [req |-> r, pos |-> p,
                   tok |-> Cardinality({q \in (p - Ratio + 1) .. p : seq[r][q + 1] = 1}) % 2]

\* The request that holds an address on a rank, if any.
Holder(g, k, s) ==
  {r \in Request : place[r].rank = k /\ place[r].slot = (s \div PageRows(g)) \div PagesPerSeq(g)}

\* A dispatch changes the rows of a request's pages only to that request's.
WritesStayHome ==
  [][ /\ \A g \in Group, k \in Ranks : \A s \in DOMAIN cache[g][k] :
           cache'[g][k][s] # cache[g][k][s] =>
             \A r \in Holder(g, k, s) : cache'[g][k][s].req = r
      /\ \A k \in Ranks : \A s \in DOMAIN mtpCache[k] :
           mtpCache'[k][s] # mtpCache[k][s] =>
             \A r \in Holder("ori", k, s) : mtpCache'[k][s] = r ]_vars

\* The batches the runner builds pass the tile's checks: only two of them can
\* fail, the ones on prepared autoregressive batches and on sampling parameters.
TileContractKept == failure \in {"none", "one_per_rank", "sampling_rows"}

(* Prefill in padded chunks, the fixed decode tile and drafts verified in  *)
(* chunks and waves change no token: a request gets the model's own, the   *)
(* rows it will attend to are its own, and the kernels' contract is kept.  *)
RunnerExact ==
  /\ TypeOK
  /\ OutputExact
  /\ VerificationExact
  /\ HistoryExact
  /\ TileContractKept
===========================================================================
