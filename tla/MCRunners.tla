----------------------------- MODULE MCRunners -----------------------------
(***************************************************************************)
(* The runners of the two models.  A deployment serves one of them, so a   *)
(* behaviour is one of DeepSeek's or one of Qwen's, chosen at the start.   *)
(***************************************************************************)
EXTENDS ChunkedMtp, QwenBatches

CONSTANTS r1, r2, r3

MCArrivals == <<r1, r2, r3>>
MCPrompt == r1 :> <<1, 0, 1, 1>> @@ r2 :> <<1>> @@ r3 :> <<0, 1>>
MCMaxNew == r1 :> 3 @@ r2 :> 3 @@ r3 :> 2
Tile(k, s, b, p) == [k |-> k, seq |-> s, batch |-> b, params |-> p]
MCLayouts == {Tile(0, 1, 2, TRUE), Tile(2, 2, 2, FALSE), Tile(2, 4, 2, TRUE)}

MCQPrompt == r1 :> <<1, 1, 0>> @@ r2 :> <<1>> @@ r3 :> <<0, 1>>
MCQNew == r1 :> 3 @@ r2 :> 3 @@ r3 :> 2

VARIABLE part

allVars == <<vars, qvars, part>>

(* The model that is not served keeps one initial state. *)
RunnersInit ==
  /\ Init /\ QInit
  /\ part \in {"deepseek", "qwen"}
  /\ part = "qwen" => layout = Tile(0, 1, 2, TRUE)

RunnersNext ==
  \/ part = "deepseek" /\ Next /\ UNCHANGED <<qvars, part>>
  \/ part = "qwen" /\ QNext /\ UNCHANGED <<vars, part>>

RunnersSpec == RunnersInit /\ [][RunnersNext]_allVars

(* No kernel call, of either model, changes a row in a page of a request   *)
(* to anything but that request's: what padding, filler rows and rows left *)
(* over from a larger batch write goes elsewhere, or is the same.          *)
RowsStayHome == WritesStayHome /\ QwenWritesStayHome
============================================================================
