------------------------- MODULE WorkerLanes_proofs -------------------------
(***************************************************************************)
(* Proofs about the pipelined worker, for any number of requests, state    *)
(* slots, steps in flight and faults, with both runners.                   *)
(***************************************************************************)
EXTENDS WorkerLanes, FiniteSetTheorems, SequenceTheorems, TLAPS

-----------------------------------------------------------------------------
(***************************************************************************)
(* Queues and commands.                                                    *)
(***************************************************************************)
LEMMA Bounds_ ==
  /\ IsFiniteSet(Request) /\ Modes \subseteq Mode
  /\ TailSlots \in Nat \ {0} /\ Depth \in Nat \ {0} /\ GenLimit \in Nat
  /\ MaxSteps \in Nat /\ BufferSlots = 2 /\ Buffer = {0, 1} /\ Buffer = 0 .. 1
BY LanesAssumption DEF BufferSlots, Buffer

LEMMA TailFacts ==
  ASSUME NEW S, NEW q \in Seq(S), q # <<>>
  PROVE  /\ Head(q) \in S /\ Tail(q) \in Seq(S) /\ Head(q) = q[1] /\ Len(Tail(q)) = Len(q) - 1
         /\ Len(q) \in Nat \ {0} /\ DOMAIN q = 1 .. Len(q) /\ DOMAIN Tail(q) = 1 .. (Len(q) - 1)
         /\ \A i \in DOMAIN Tail(q) : i + 1 \in DOMAIN q /\ Tail(q)[i] = q[i + 1]
         /\ \A i \in DOMAIN q : i = 1 \/ (i - 1 \in DOMAIN Tail(q) /\ q[i] = Tail(q)[i - 1])
OBVIOUS

LEMMA AppendFacts ==
  ASSUME NEW S, NEW q \in Seq(S), NEW x \in S
  PROVE  /\ Append(q, x) \in Seq(S) /\ Len(Append(q, x)) = Len(q) + 1
         /\ Len(q) \in Nat /\ DOMAIN q = 1 .. Len(q) /\ DOMAIN Append(q, x) = 1 .. (Len(q) + 1)
         /\ \A i \in DOMAIN q : i # Len(q) + 1 /\ Append(q, x)[i] = q[i]
         /\ Append(q, x)[Len(q) + 1] = x
OBVIOUS

LEMMA QueueFacts ==
  ASSUME NEW S, NEW q \in Seq(S)
  PROVE  Len(q) \in Nat /\ DOMAIN q = 1 .. Len(q) /\ \A i \in DOMAIN q : q[i] \in S
OBVIOUS

LEMMA ConcatFacts ==
  ASSUME NEW S, NEW p \in Seq(S), NEW q \in Seq(S)
  PROVE  /\ p \o q \in Seq(S) /\ DOMAIN (p \o q) = 1 .. (Len(p) + Len(q))
         /\ \A i \in 1 .. Len(p) : (p \o q)[i] = p[i]
         /\ \A i \in (Len(p) + 1) .. (Len(p) + Len(q)) : (p \o q)[i] = q[i - Len(p)]
OBVIOUS

\* The elements of a queue.
LEMMA TailRange ==
  ASSUME NEW S, NEW q \in Seq(S), q # <<>>
  PROVE  /\ \A i \in DOMAIN Tail(q) : \E j \in DOMAIN q : Tail(q)[i] = q[j]
         /\ \E j \in DOMAIN q : Head(q) = q[j]
         /\ \A j \in DOMAIN q : q[j] = Head(q) \/ \E i \in DOMAIN Tail(q) : Tail(q)[i] = q[j]
<1>1. \A i \in DOMAIN Tail(q) : \E j \in DOMAIN q : Tail(q)[i] = q[j]
  BY TailFacts
<1>2. \E j \in DOMAIN q : Head(q) = q[j]
  BY TailFacts
<1>3. ASSUME NEW j \in DOMAIN q, j # 1 PROVE \E i \in DOMAIN Tail(q) : Tail(q)[i] = q[j]
  <2>1. j - 1 \in DOMAIN Tail(q) /\ q[j] = Tail(q)[j - 1]
    BY <1>3, TailFacts
  <2> QED
    BY <2>1
<1>4. Head(q) = q[1]
  BY TailFacts
<1> QED
  BY <1>1, <1>2, <1>3, <1>4

LEMMA AppendRange ==
  ASSUME NEW S, NEW q \in Seq(S), NEW x \in S
  PROVE  /\ \A i \in DOMAIN Append(q, x) : Append(q, x)[i] = x \/ \E j \in DOMAIN q : Append(q, x)[i] = q[j]
         /\ \E i \in DOMAIN Append(q, x) : Append(q, x)[i] = x
         /\ \A j \in DOMAIN q : \E i \in DOMAIN Append(q, x) : Append(q, x)[i] = q[j]
BY AppendFacts

LEMMA Nothing ==
  /\ NoCmd.id = 0 /\ NoCmd.kind = "none" /\ NoCmd.reqs = {} /\ NoCmd.finished = {} /\ NoCmd.fresh = {}
  /\ NoSnap \in Snap /\ NoWork \in Work /\ NoWork.desc \in Desc /\ NoWork.error = FALSE
  /\ NoItem.cmd = NoCmd /\ NoItem.kind = "none" /\ NoItem.error = FALSE /\ NoItem.desc = NoWork.desc
<1>1. NoCmd.id = 0 /\ NoCmd.kind = "none" /\ NoCmd.reqs = {} /\ NoCmd.finished = {} /\ NoCmd.fresh = {}
  BY DEF NoCmd
<1>2. NoSnap \in Snap
  BY Bounds_ DEF NoSnap, Snap
<1>3. NoWork.desc \in Desc
  BY Bounds_ DEF NoWork, Desc
<1>4. NoWork \in Work /\ NoWork.error = FALSE
  BY <1>3 DEF NoWork, Work
<1>5. NoItem.cmd = NoCmd /\ NoItem.kind = "none" /\ NoItem.error = FALSE /\ NoItem.desc = NoWork.desc
  BY DEF NoItem
<1> QED
  BY <1>1, <1>2, <1>3, <1>4, <1>5

LEMMA StepFields ==
  ASSUME NEW c \in Step
  PROVE  /\ c.kind \in {"prefill", "decode", "cleanup"} /\ c.id \in 1 .. MaxSteps /\ c.id # 0
         /\ c.id \in 0 .. MaxSteps /\ c.id \in Nat
         /\ c.reqs \subseteq Request /\ c.fresh \subseteq Request /\ c.finished \subseteq Request
         /\ c.blind \subseteq Request /\ c # NoCmd /\ c \in Command /\ c \notin Control
<1>1. /\ c.kind \in {"prefill", "decode", "cleanup"} /\ c.id \in 1 .. MaxSteps
      /\ c.reqs \subseteq Request /\ c.fresh \subseteq Request /\ c.finished \subseteq Request
      /\ c.blind \subseteq Request
  BY DEF Step
<1>2. c.id # 0 /\ c.id \in 0 .. MaxSteps /\ c.id \in Nat
  BY <1>1, Bounds_
<1>3. c # NoCmd
  BY <1>2, Nothing
<1>4. c \notin Control
  <2>1. ASSUME NEW k \in {"profile", "shutdown"}, c = [NoCmd EXCEPT !.kind = k] PROVE FALSE
    BY <2>1, <1>1 DEF NoCmd
  <2> QED
    BY <2>1 DEF Control
<1> QED
  BY <1>1, <1>2, <1>3, <1>4 DEF Command

LEMMA ControlFields ==
  ASSUME NEW c \in Control
  PROVE  /\ c.kind \in {"profile", "shutdown"} /\ c.id = 0 /\ c.reqs = {} /\ c.fresh = {}
         /\ c.finished = {} /\ c \in Command
<1>1. PICK k \in {"profile", "shutdown"} : c = [NoCmd EXCEPT !.kind = k]
  BY DEF Control
<1> QED
  BY <1>1 DEF NoCmd, Command

LEMMA CommandFields ==
  ASSUME NEW c \in Command \cup {NoCmd}
  PROVE  /\ c.kind \in {"none", "prefill", "decode", "cleanup", "profile", "shutdown"}
         /\ c.id \in 0 .. MaxSteps /\ c.id \in Nat
         /\ c.reqs \subseteq Request /\ c.fresh \subseteq Request /\ c.finished \subseteq Request
         /\ c \in Step \/ (c.id = 0 /\ c.reqs = {} /\ c.finished = {} /\ c.kind \in {"none", "profile", "shutdown"})
         /\ c.id = 0 => c.reqs = {} /\ c.finished = {} /\ c.kind \in {"none", "profile", "shutdown"}
         /\ c.id # 0 => c \in Step
<1>1. CASE c \in Step
  BY <1>1, StepFields
<1>2. CASE c \in Control
  BY <1>2, ControlFields, Bounds_
<1>3. CASE c = NoCmd
  BY <1>3, Nothing, Bounds_
<1> QED
  BY <1>1, <1>2, <1>3 DEF Command

LEMMA ItemFields ==
  ASSUME NEW x \in Item \cup {NoItem}
  PROVE  /\ x.kind \in {"none", "pending", "done", "profile", "shutdown"}
         /\ x.cmd \in Command \cup {NoCmd} /\ x.desc \in Desc /\ x.error \in BOOLEAN
         /\ x.kind \in {"pending", "done"} => x.cmd \in Step /\ x # NoItem
         /\ x.kind \in {"profile", "shutdown"} => x.cmd \in Control
         /\ x \in Item => x.kind # "none"
<1>1. CASE x = NoItem /\ x \notin Item
  BY <1>1, Nothing
<1>2. CASE x \in [kind : {"pending", "done"}, cmd : Step, error : BOOLEAN, desc : Desc]
  BY <1>2, Nothing DEF Command
<1>3. CASE x \in {[NoItem EXCEPT !.kind = c.kind, !.cmd = c] : c \in Control}
  <2>1. PICK c \in Control : x = [NoItem EXCEPT !.kind = c.kind, !.cmd = c]
    BY <1>3
  <2>2. x.kind = c.kind /\ x.cmd = c /\ x.error = FALSE /\ x.desc = NoWork.desc
    BY <2>1 DEF NoItem
  <2> QED
    BY <2>2, ControlFields, Nothing
<1> QED
  BY <1>1, <1>2, <1>3 DEF Item

\* A command becomes an item, and an item its command.
LEMMA ControlItem ==
  ASSUME NEW c \in Control
  PROVE  LET x == [NoItem EXCEPT !.kind = c.kind, !.cmd = c]
         IN  x \in Item /\ x.kind = c.kind /\ x.cmd = c
BY DEF Item, NoItem

LEMMA StepItem ==
  ASSUME NEW c \in Step, NEW k \in {"pending", "done"}, NEW e \in BOOLEAN, NEW d \in Desc
  PROVE  [kind |-> k, cmd |-> c, error |-> e, desc |-> d] \in Item
BY DEF Item

-----------------------------------------------------------------------------
(***************************************************************************)
(* Types.                                                                  *)
(***************************************************************************)
LEMMA TypesInitially == Init => TypeInv
<1> SUFFICES ASSUME Init PROVE TypeInv
  OBVIOUS
<1> USE DEF Init
<1>1. LaneTypes /\ LaneHolds
  BY Nothing, Bounds_ DEF LaneTypes, LaneHolds
<1>2. EngineTypes
  BY Bounds_ DEF EngineTypes
<1>3. SharedTypes
  BY Bounds_ DEF SharedTypes, Snap
<1>4. RunnerTypes
  <2>1. freeTail \in Seq(Tail_)
    BY Bounds_ DEF Tail_
  <2>2. mtp \in [Request -> [slot : 0 .. TailSlots, gen : Nat, ready : BOOLEAN]]
    BY Bounds_ DEF NoState
  <2> QED
    BY <2>1, <2>2, Bounds_ DEF RunnerTypes
<1> QED
  BY <1>1, <1>2, <1>3, <1>4 DEF TypeInv

\* The engine: a step is sent.
\* The command that Send puts into the queue.
Sends(c, kind, batch, victims) ==
  /\ c \in Step /\ c.kind = kind /\ c.id = sent + 1 /\ c.reqs = batch
  /\ c.finished = pendingFree \cup victims
  /\ inFlight' = Append(inFlight, c) /\ inQueue' = Append(inQueue, c)

LEMMA SendTypes ==
  ASSUME TypeInv, NEW kind \in {"prefill", "decode", "cleanup"},
         NEW batch \in SUBSET Request, NEW victims \in SUBSET Request, Send(kind, batch, victims)
  PROVE  /\ TypeInv'
         /\ \E c : Sends(c, kind, batch, victims)
<1> DEFINE freed == pendingFree \cup victims
           fresh == batch \ (known \ freed)
           blind == IF kind = "decode" THEN {r \in batch : BusyWith(r)} ELSE {}
           c == [kind |-> kind, id |-> sent + 1, reqs |-> batch, fresh |-> fresh,
                 finished |-> freed, blind |-> blind]
<1>1. LaneTypes /\ LaneHolds /\ EngineTypes /\ SharedTypes /\ RunnerTypes
  BY DEF TypeInv
<1>2. /\ Len(inFlight) < Depth /\ sent < MaxSteps /\ sent' = sent + 1 /\ pendingFree' = {}
      /\ known' = (known \ freed) \cup fresh
      /\ inFlight' = Append(inFlight, c) /\ inQueue' = Append(inQueue, c)
      /\ phase' = [r \in Request |-> IF r \in victims THEN "new"
                                     ELSE IF r \in batch /\ kind = "prefill" THEN "prefill"
                                     ELSE phase[r]]
      /\ UNCHANGED <<mode, discard, profiles, stopped, workQueue, outWork, outQueue,
                     prep, dev, out, sharedVars, runnerVars>>
  BY DEF Send
<1>3. c \in Step
  BY <1>1, <1>2, Bounds_ DEF Step, EngineTypes
<1>4. c.kind = kind /\ c.id = sent + 1 /\ c.reqs = batch /\ c.finished = freed
  OBVIOUS
<1>5. fresh \subseteq Request
  OBVIOUS
<1> HIDE DEF c, fresh
<1>6. inQueue' \in Seq(Command)
  BY <1>1, <1>2, <1>3, AppendFacts DEF LaneTypes, Command
<1>7. inFlight' \in Seq(Step) /\ Len(inFlight') <= Depth
  BY <1>1, <1>2, <1>3, AppendFacts, Bounds_ DEF EngineTypes
<1>8. LaneTypes' /\ LaneHolds'
  BY <1>1, <1>2, <1>6 DEF LaneTypes, LaneHolds
<1>9. EngineTypes'
  BY <1>1, <1>2, <1>5, <1>7, Bounds_ DEF EngineTypes
<1>10. SharedTypes' /\ RunnerTypes'
  BY <1>1, <1>2 DEF SharedTypes, RunnerTypes, sharedVars, runnerVars
<1>11. Sends(c, kind, batch, victims)
  BY <1>2, <1>3, <1>4 DEF Sends
<1> QED
  BY <1>8, <1>9, <1>10, <1>11 DEF TypeInv

LEMMA ControlTypes ==
  ASSUME TypeInv, NEW kind \in {"profile", "shutdown"}, SendControl(kind)
  PROVE  TypeInv' /\ \E c \in Control : inQueue' = Append(inQueue, c)
<1>1. LaneTypes /\ LaneHolds /\ EngineTypes /\ SharedTypes /\ RunnerTypes
  BY DEF TypeInv
<1>2. PICK c \in Control : inQueue' = Append(inQueue, c)
  BY DEF SendControl, Control
<1>3. inQueue' \in Seq(Command)
  BY <1>1, <1>2, AppendFacts DEF LaneTypes, Command
<1>4. LaneTypes' /\ LaneHolds'
  BY <1>1, <1>3 DEF LaneTypes, LaneHolds, SendControl
<1>5. EngineTypes' /\ SharedTypes' /\ RunnerTypes'
  BY <1>1 DEF EngineTypes, SharedTypes, RunnerTypes, SendControl, sharedVars, runnerVars
<1> QED
  BY <1>2, <1>4, <1>5 DEF TypeInv

LEMMA AbortTypes ==
  ASSUME TypeInv, NEW r \in Request, Abort(r)
  PROVE  TypeInv'
<1>1. LaneTypes /\ LaneHolds /\ EngineTypes /\ SharedTypes /\ RunnerTypes
  BY DEF TypeInv
<1>2. LaneTypes' /\ LaneHolds'
  BY <1>1 DEF LaneTypes, LaneHolds, Abort
<1>3. EngineTypes'
  BY <1>1 DEF EngineTypes, Abort
<1>4. SharedTypes' /\ RunnerTypes'
  BY <1>1 DEF SharedTypes, RunnerTypes, Abort, sharedVars, runnerVars
<1> QED
  BY <1>2, <1>3, <1>4 DEF TypeInv

LEMMA DropTypes ==
  ASSUME EngineTypes, NEW ids \in SUBSET Nat, DropPipeline(ids), UNCHANGED <<mode, sent, known>>
  PROVE  EngineTypes'
<1> DEFINE failed == UNION {inFlight[i].reqs : i \in DOMAIN inFlight}
<1>1. failed \subseteq Request
  BY StepFields DEF EngineTypes
<1>2. /\ discard' = discard \cup ids /\ inFlight' = <<>>
      /\ phase' = [r \in Request |-> IF r \in failed THEN "gone" ELSE phase[r]]
      /\ pendingFree' = pendingFree \cup failed
  BY DEF DropPipeline
<1> HIDE DEF failed
<1> QED
  BY <1>1, <1>2, Bounds_ DEF EngineTypes

LEMMA InFlightIdsType == EngineTypes => InFlightIds \subseteq Nat
BY StepFields DEF EngineTypes, InFlightIds

LEMMA ReceiveTypes ==
  ASSUME TypeInv, Receive \/ Timeout,
         Receive /\ Head(outQueue).id \notin discard => inFlight # <<>>
  PROVE  TypeInv'
<1>1. LaneTypes /\ LaneHolds /\ EngineTypes /\ SharedTypes /\ RunnerTypes
  BY DEF TypeInv
<1>2. UNCHANGED <<mode, sent, known, inQueue, workQueue, outWork, prep, dev, out, sharedVars, runnerVars>>
  BY DEF Receive, Timeout
<1>3. outQueue' \in Seq([id : 1 .. MaxSteps, error : BOOLEAN])
  <2>1. CASE Receive
    BY <1>1, <2>1, TailFacts DEF Receive, LaneTypes
  <2>2. CASE Timeout
    BY <1>1, <2>2 DEF Timeout, LaneTypes
  <2> QED
    BY <2>1, <2>2
<1>4. LaneTypes' /\ LaneHolds'
  BY <1>1, <1>2, <1>3 DEF LaneTypes, LaneHolds
<1>5. EngineTypes'
  <2>1. CASE Timeout
    BY <1>1, <1>2, <2>1, DropTypes, InFlightIdsType DEF Timeout
  <2>2. CASE Receive /\ Head(outQueue).id \in discard
    BY <1>1, <1>2, <2>2 DEF Receive, EngineTypes
  <2>3. CASE Receive /\ Head(outQueue).id \notin discard /\ ~Head(outQueue).error
    <3>1. /\ inFlight' = Tail(inFlight) /\ UNCHANGED <<discard, pendingFree>>
          /\ phase' = [r \in Request |-> IF r \in Head(inFlight).reqs /\ phase[r] = "prefill"
                                         THEN "ready" ELSE phase[r]]
      BY <2>3 DEF Receive
    <3>2. inFlight' \in Seq(Step) /\ Len(inFlight') <= Depth
      BY <1>1, <2>3, <3>1, TailFacts, Bounds_ DEF EngineTypes
    <3> QED
      BY <1>1, <1>2, <3>1, <3>2 DEF EngineTypes
  <2>4. CASE Receive /\ Head(outQueue).id \notin discard /\ Head(outQueue).error
    <3>1. DropPipeline(InFlightIds \ {Head(outQueue).id})
      BY <2>4 DEF Receive
    <3> QED
      BY <1>1, <1>2, <3>1, DropTypes, InFlightIdsType
  <2> QED
    BY <2>1, <2>2, <2>3, <2>4
<1>6. SharedTypes' /\ RunnerTypes'
  BY <1>1, <1>2 DEF SharedTypes, RunnerTypes, sharedVars, runnerVars
<1> QED
  BY <1>4, <1>5, <1>6 DEF TypeInv

-----------------------------------------------------------------------------
(***************************************************************************)
(* Device state slots.                                                     *)
(***************************************************************************)
States == [Request -> [slot : 0 .. TailSlots, gen : Nat, ready : BOOLEAN]]

\* The order in which a batch is walked names each of its members once.
LEMMA OrderFacts ==
  ASSUME NEW S, IsFiniteSet(S)
  PROVE  /\ SetToSeq(S) \in [1 .. Cardinality(S) -> S] /\ Cardinality(S) \in Nat
         /\ \A i, j \in 1 .. Cardinality(S) : SetToSeq(S)[i] = SetToSeq(S)[j] => i = j
         /\ \A x \in S : \E i \in 1 .. Cardinality(S) : SetToSeq(S)[i] = x
         /\ SetToSeq(S) \in Seq(S) /\ Len(SetToSeq(S)) = Cardinality(S)
<1> DEFINE D == 1 .. Cardinality(S)
<1>1. Cardinality(S) \in Nat /\ ExistsBijection(D, S)
  BY FS_CardinalityType
<1>2. \E f \in [D -> S] : IsInjective(f)
  BY <1>1 DEF ExistsBijection, Bijection, Injection
<1>3. SetToSeq(S) \in [D -> S] /\ IsInjective(SetToSeq(S))
  BY <1>2 DEF SetToSeq
<1>4. SetToSeq(S) \in Injection(D, S)
  BY <1>3 DEF Injection
<1>5. IsFiniteSet(D) /\ Cardinality(D) = Cardinality(S)
  BY <1>1, FS_Interval
<1>6. SetToSeq(S) \in Surjection(D, S)
  BY <1>4, <1>5, FS_Injection
<1>7. \A x \in S : \E i \in D : SetToSeq(S)[i] = x
  BY <1>6 DEF Surjection
<1>8. SetToSeq(S) \in Seq(S) /\ Len(SetToSeq(S)) = Cardinality(S)
  BY <1>1, <1>3
<1> QED
  BY <1>1, <1>3, <1>7, <1>8 DEF IsInjective

\* _reserve_mtp_request_state: a state that has a slot is kept, and the slots
\* stay divided.
LEMMA ReservedFacts ==
  ASSUME RunnerTypes, SlotsInv, NEW batch \in SUBSET Request
  PROVE  LET R == Reserved(batch)
         IN  /\ R.mtp \in States /\ R.free \in Seq(Tail_) /\ R.gens \in [Tail_ -> Nat]
             /\ \A r \in Request :
                  \/ R.mtp[r] = mtp[r]
                  \/ r \in batch /\ mtp[r].slot = 0 /\ R.mtp[r].slot # 0 /\ R.mtp[r].ready = FALSE
             /\ OneOwner(R.mtp, R.free)
<1> DEFINE need     == {r \in batch : mtp[r].slot = 0}
           order    == SetToSeq(need)
           N        == Len(freeTail)
           n        == IF Len(order) <= Len(freeTail) THEN Len(order) ELSE Len(freeTail)
           Taken(i) == freeTail[Len(freeTail) + 1 - i]
           Turn(r)  == {i \in 1 .. n : order[i] = r}
           State(s) == [slot |-> s, gen |-> NextGen(gens[s]), ready |-> FALSE]
           M        == [r \in Request |-> IF Turn(r) = {} THEN mtp[r]
                                          ELSE State(Taken(CHOOSE i \in Turn(r) : TRUE))]
           F        == SubSeq(freeTail, 1, Len(freeTail) - n)
           G        == [s \in Tail_ |-> IF \E i \in 1 .. n : Taken(i) = s THEN NextGen(gens[s])
                                        ELSE gens[s]]
<1>1. Reserved(batch).mtp = M /\ Reserved(batch).free = F /\ Reserved(batch).gens = G
  BY DEF Reserved
<1>2. IsFiniteSet(need)
  BY Bounds_, FS_Subset
<1>3. /\ order \in Seq(need) /\ Len(order) \in Nat
      /\ \A i, j \in 1 .. Len(order) : order[i] = order[j] => i = j
      /\ \A i \in 1 .. Len(order) : order[i] \in need
  <2>1. /\ order \in [1 .. Cardinality(need) -> need] /\ Cardinality(need) \in Nat
        /\ \A i, j \in 1 .. Cardinality(need) : order[i] = order[j] => i = j
        /\ order \in Seq(need) /\ Len(order) = Cardinality(need)
    BY <1>2, OrderFacts
  <2> QED
    BY <2>1
<1>4. /\ N \in Nat /\ DOMAIN freeTail = 1 .. N /\ freeTail \in Seq(Tail_)
      /\ \A i \in 1 .. N : freeTail[i] \in Tail_ /\ freeTail[i] # 0 /\ freeTail[i] \in 0 .. TailSlots
      /\ mtp \in States
  <2>1. mtp \in States /\ freeTail \in Seq(Tail_)
    BY DEF RunnerTypes, States
  <2>2. \A s \in Tail_ : s # 0 /\ s \in 0 .. TailSlots
    BY Bounds_ DEF Tail_
  <2>3. N \in Nat /\ DOMAIN freeTail = 1 .. N /\ \A i \in 1 .. N : freeTail[i] \in Tail_
    BY <2>1
  <2> QED
    BY <2>1, <2>2, <2>3
<1>5. n \in Nat /\ n <= Len(order) /\ n <= N
  BY <1>3, <1>4
<1>6. \A s \in Tail_ : NextGen(gens[s]) \in Nat
  BY Bounds_ DEF RunnerTypes, NextGen
<1>7. G \in [Tail_ -> Nat]
  BY <1>6 DEF RunnerTypes
<1> HIDE DEF n, order
<1>8. /\ F \in Seq(Tail_) /\ DOMAIN F = 1 .. (N - n) /\ \A i \in 1 .. (N - n) : F[i] = freeTail[i]
  BY <1>4, <1>5
<1>9. /\ \A i \in 1 .. n : N + 1 - i \in 1 .. N /\ Taken(i) \in Tail_ /\ Taken(i) # 0
      /\ \A i \in 1 .. n : \A j \in 1 .. (N - n) : Taken(i) # F[j]
      /\ \A i, j \in 1 .. n : Taken(i) = Taken(j) => i = j
  <2>1. \A i \in 1 .. n : N + 1 - i \in 1 .. N
    BY <1>4, <1>5
  <2>2. \A i, j \in 1 .. N : freeTail[i] = freeTail[j] => i = j
    BY <1>4 DEF SlotsInv, OneOwner
  <2>3. \A i \in 1 .. n : Taken(i) \in Tail_ /\ Taken(i) # 0
    BY <1>4, <2>1
  <2>4. ASSUME NEW i \in 1 .. n, NEW j \in 1 .. (N - n), Taken(i) = F[j] PROVE FALSE
    <3>1. j \in 1 .. N /\ N + 1 - i \in 1 .. N /\ N + 1 - i # j
      BY <1>4, <1>5, <2>1
    <3> QED
      BY <1>8, <2>2, <2>4, <3>1
  <2>5. ASSUME NEW i \in 1 .. n, NEW j \in 1 .. n, Taken(i) = Taken(j) PROVE i = j
    <3>1. N + 1 - i = N + 1 - j
      BY <2>1, <2>2, <2>5
    <3> QED
      BY <1>4, <1>5, <3>1
  <2> QED
    BY <2>1, <2>3, <2>4, <2>5
<1>10. ASSUME NEW r \in Request
       PROVE  \/ M[r] = mtp[r] /\ \A i \in 1 .. n : order[i] # r
              \/ \E i \in 1 .. n : /\ order[i] = r /\ r \in need /\ M[r].slot = Taken(i)
                                  /\ M[r] \in [slot : 0 .. TailSlots, gen : Nat, ready : BOOLEAN]
                                  /\ M[r].ready = FALSE
  <2>1. CASE Turn(r) = {}
    BY <2>1
  <2>2. CASE Turn(r) # {}
    <3> DEFINE i == CHOOSE i \in Turn(r) : TRUE
    <3>1. i \in 1 .. n /\ order[i] = r /\ M[r] = State(Taken(i))
      BY <2>2
    <3>2. r \in need
      BY <1>3, <1>5, <3>1
    <3>3. NextGen(gens[Taken(i)]) \in Nat /\ Taken(i) \in 0 .. TailSlots
      BY <1>4, <1>6, <1>9, <3>1
    <3> QED
      BY <3>1, <3>2, <3>3
  <2> QED
    BY <2>1, <2>2
<1>11. M \in States
  BY <1>4, <1>10, ZenonT(30) DEF States
<1> HIDE DEF M, F, G, Taken, N
<1>12. \A r \in Request : \/ M[r] = mtp[r]
                          \/ r \in batch /\ mtp[r].slot = 0 /\ M[r].slot # 0 /\ M[r].ready = FALSE
  <2>1. ASSUME NEW r \in Request, M[r] # mtp[r]
        PROVE  r \in batch /\ mtp[r].slot = 0 /\ M[r].slot # 0 /\ M[r].ready = FALSE
    <3>1. PICK i \in 1 .. n : r \in need /\ M[r].slot = Taken(i) /\ M[r].ready = FALSE
      BY <1>10, <2>1
    <3> QED
      BY <1>9, <3>1
  <2> QED
    BY <2>1
<1>13. OneOwner(M, F)
  <2>1. ASSUME NEW i \in DOMAIN F, NEW j \in DOMAIN F, F[i] = F[j] PROVE i = j
    <3>1. i \in DOMAIN freeTail /\ j \in DOMAIN freeTail /\ freeTail[i] = freeTail[j]
      BY <1>4, <1>5, <1>8, <2>1
    <3> QED
      BY <3>1 DEF SlotsInv, OneOwner
  <2>2. ASSUME NEW r \in Request, NEW i \in DOMAIN F, M[r].slot = F[i] PROVE FALSE
    <3>1. i \in DOMAIN freeTail /\ freeTail[i] = F[i]
      BY <1>4, <1>5, <1>8
    <3>2. CASE M[r] = mtp[r]
      BY <2>2, <3>1, <3>2 DEF SlotsInv, OneOwner
    <3>3. CASE \E k \in 1 .. n : M[r].slot = Taken(k)
      BY <1>8, <1>9, <2>2, <3>3
    <3> QED
      BY <1>10, <3>2, <3>3
  <2>3. ASSUME NEW r \in Request, NEW i \in 1 .. n, mtp[r].slot = Taken(i) PROVE FALSE
    BY <1>4, <1>9, <2>3 DEF SlotsInv, OneOwner, Taken, N
  <2>4. ASSUME NEW r \in Request, NEW q \in Request, M[r].slot = M[q].slot, M[r].slot # 0 PROVE r = q
    <3>1. CASE M[r] = mtp[r] /\ M[q] = mtp[q]
      BY <2>4, <3>1 DEF SlotsInv, OneOwner
    <3>2. CASE M[r] = mtp[r] /\ \E k \in 1 .. n : M[q].slot = Taken(k)
      BY <2>3, <2>4, <3>2
    <3>3. CASE M[q] = mtp[q] /\ \E k \in 1 .. n : M[r].slot = Taken(k)
      BY <2>3, <2>4, <3>3
    <3>4. CASE /\ \E k \in 1 .. n : order[k] = r /\ M[r].slot = Taken(k)
               /\ \E k \in 1 .. n : order[k] = q /\ M[q].slot = Taken(k)
      BY <1>9, <2>4, <3>4
    <3> QED
      BY <1>10, <3>1, <3>2, <3>3, <3>4
  <2>5. ASSUME NEW s \in Tail_
        PROVE  (\E i \in DOMAIN F : F[i] = s) \/ (\E r \in Request : M[r].slot = s)
    <3>1. CASE \E r \in Request : mtp[r].slot = s
      <4>1. PICK r \in Request : mtp[r].slot = s
        BY <3>1
      <4>2. s # 0
        BY Bounds_ DEF Tail_
      <4> QED
        BY <1>12, <4>1, <4>2
    <3>2. CASE \E j \in DOMAIN freeTail : freeTail[j] = s
      <4>1. PICK j \in DOMAIN freeTail : freeTail[j] = s
        BY <3>2
      <4>2. j \in 1 .. N /\ N \in Nat
        BY <1>4, <4>1
      <4>3. CASE j \in 1 .. (N - n)
        BY <1>8, <4>1, <4>3
      <4>4. CASE j \notin 1 .. (N - n)
        <5>1. N + 1 - j \in 1 .. n /\ N + 1 - (N + 1 - j) = j
          BY <1>5, <4>2, <4>4
        <5>2. Taken(N + 1 - j) = s
          BY <4>1, <5>1 DEF Taken, N
        <5>3. order[N + 1 - j] \in need
          BY <1>3, <1>5, <5>1
        <5>4. order[N + 1 - j] \in Request
          BY <5>3
        <5>5. PICK i \in 1 .. n : order[i] = order[N + 1 - j] /\ M[order[N + 1 - j]].slot = Taken(i)
          BY <1>10, <5>1, <5>4
        <5>6. i = N + 1 - j
          BY <1>3, <1>5, <5>1, <5>5
        <5> QED
          BY <5>2, <5>4, <5>5, <5>6
      <4> QED
        BY <4>3, <4>4
    <3> QED
      BY <3>1, <3>2 DEF SlotsInv, OneOwner
  <2> QED
    BY <2>1, <2>2, <2>4, <2>5 DEF OneOwner
<1> QED
  BY <1>1, <1>7, <1>8, <1>11, <1>12, <1>13

\* release_finished_requests: the states are dropped, the slots free again.
LEMMA ReleasedFacts ==
  ASSUME RunnerTypes, SlotsInv, NEW freed \in SUBSET Request
  PROVE  LET R == ReleasedStates(freed)
         IN  /\ R.mtp \in States /\ R.free \in Seq(Tail_)
             /\ \A r \in freed : R.mtp[r].slot = 0 /\ R.mtp[r].ready = FALSE
             /\ \A r \in Request \ freed : R.mtp[r] = mtp[r]
             /\ OneOwner(R.mtp, R.free)
<1> DEFINE held  == {r \in freed : mtp[r].slot # 0}
           order == SetToSeq(held)
           N     == Len(freeTail)
           back  == [i \in DOMAIN order |-> mtp[order[i]].slot]
           M     == [r \in Request |-> IF r \in freed THEN NoState ELSE mtp[r]]
           F     == freeTail \o back
<1>1. ReleasedStates(freed).mtp = M /\ ReleasedStates(freed).free = F
  BY DEF ReleasedStates
<1>2. IsFiniteSet(held)
  BY Bounds_, FS_Subset
<1>3. /\ Len(order) \in Nat /\ DOMAIN order = 1 .. Len(order)
      /\ \A i, j \in 1 .. Len(order) : order[i] = order[j] => i = j
      /\ \A i \in 1 .. Len(order) : order[i] \in held
      /\ \A r \in held : \E i \in 1 .. Len(order) : order[i] = r
  <2>1. /\ order \in [1 .. Cardinality(held) -> held] /\ Cardinality(held) \in Nat
        /\ \A i, j \in 1 .. Cardinality(held) : order[i] = order[j] => i = j
        /\ \A r \in held : \E i \in 1 .. Cardinality(held) : order[i] = r
        /\ Len(order) = Cardinality(held)
    BY <1>2, OrderFacts
  <2> QED
    BY <2>1
<1> DEFINE L == Len(order)
<1>4. N \in Nat /\ DOMAIN freeTail = 1 .. N /\ freeTail \in Seq(Tail_) /\ mtp \in States
  BY DEF RunnerTypes, States
<1>5. \A s : s \in Tail_ <=> s \in 0 .. TailSlots /\ s # 0
  BY Bounds_ DEF Tail_
<1>6. NoState \in [slot : 0 .. TailSlots, gen : Nat, ready : BOOLEAN] /\ NoState.slot = 0 /\ NoState.ready = FALSE
  BY Bounds_ DEF NoState
<1>7. M \in States /\ \A r \in Request : M[r] = IF r \in freed THEN NoState ELSE mtp[r]
  BY <1>4, <1>6 DEF States
<1>8. \A i \in 1 .. L : mtp[order[i]].slot \in Tail_ /\ order[i] \in freed /\ order[i] \in Request
  <2>1. \A r \in held : mtp[r].slot \in Tail_ /\ r \in freed /\ r \in Request
    BY <1>4, <1>5 DEF States
  <2> QED
    BY <1>3, <2>1
<1> HIDE DEF order
<1>9. back \in Seq(Tail_) /\ Len(back) = L /\ \A i \in 1 .. L : back[i] = mtp[order[i]].slot
  BY <1>3, <1>8
<1> HIDE DEF back
<1>10. /\ F \in Seq(Tail_) /\ DOMAIN F = 1 .. (N + L)
       /\ \A i \in 1 .. N : F[i] = freeTail[i]
       /\ \A i \in (N + 1) .. (N + L) : F[i] = back[i - N]
  <2>1. Len(back) = L /\ Len(freeTail) = N
    BY <1>9
  <2> HIDE DEF L
  <2>2. /\ F \in Seq(Tail_) /\ DOMAIN F = 1 .. (Len(freeTail) + Len(back))
        /\ \A i \in 1 .. Len(freeTail) : F[i] = freeTail[i]
        /\ \A i \in (Len(freeTail) + 1) .. (Len(freeTail) + Len(back)) : F[i] = back[i - Len(freeTail)]
    BY <1>4, <1>9, ConcatFacts
  <2> HIDE DEF F, N
  <2> QED
    BY <2>1, <2>2
<1> HIDE DEF M, F, N
<1>11. ASSUME NEW i \in DOMAIN F
       PROVE  \/ i \in DOMAIN freeTail /\ F[i] = freeTail[i]
              \/ i - N \in 1 .. L /\ F[i] = mtp[order[i - N]].slot
  <2>1. i \in 1 .. N \/ (i \in (N + 1) .. (N + L) /\ i - N \in 1 .. L)
    BY <1>3, <1>4, <1>10
  <2> QED
    BY <1>4, <1>9, <1>10, <2>1
<1>12. ASSUME NEW r \in Request, NEW i \in DOMAIN freeTail PROVE mtp[r].slot # freeTail[i]
  BY DEF SlotsInv, OneOwner
<1>13. ASSUME NEW i \in DOMAIN F, NEW j \in DOMAIN F, F[i] = F[j] PROVE i = j
  <2>1. CASE i \in DOMAIN freeTail /\ F[i] = freeTail[i] /\ j \in DOMAIN freeTail /\ F[j] = freeTail[j]
    BY <1>13, <2>1 DEF SlotsInv, OneOwner
  <2>2. CASE i \in DOMAIN freeTail /\ F[i] = freeTail[i] /\ j - N \in 1 .. L /\ F[j] = mtp[order[j - N]].slot
    BY <1>8, <1>12, <1>13, <2>2
  <2>3. CASE j \in DOMAIN freeTail /\ F[j] = freeTail[j] /\ i - N \in 1 .. L /\ F[i] = mtp[order[i - N]].slot
    BY <1>8, <1>12, <1>13, <2>3
  <2>4. CASE /\ i - N \in 1 .. L /\ F[i] = mtp[order[i - N]].slot
             /\ j - N \in 1 .. L /\ F[j] = mtp[order[j - N]].slot
    <3>1. order[i - N] \in Request /\ order[j - N] \in Request /\ mtp[order[i - N]].slot # 0
      BY <1>5, <1>8, <2>4
    <3>2. order[i - N] = order[j - N]
      <4>1. \A r, q \in Request : mtp[r].slot = mtp[q].slot /\ mtp[r].slot # 0 => r = q
        BY DEF SlotsInv, OneOwner
      <4> QED
        BY <1>13, <2>4, <3>1, <4>1
    <3>3. i - N = j - N
      BY <1>3, <2>4, <3>2
    <3>4. i \in Nat /\ j \in Nat /\ N \in Nat
      BY <1>3, <1>4, <1>10, <1>13
    <3> QED
      BY <3>3, <3>4
  <2> QED
    BY <1>11, <2>1, <2>2, <2>3, <2>4
<1>14. ASSUME NEW r \in Request, NEW i \in DOMAIN F, M[r].slot = F[i] PROVE FALSE
  <2>1. F[i] \in Tail_ /\ F[i] # 0
    <3>1. F[i] \in Tail_
      BY <1>10, <1>14, QueueFacts
    <3> QED
      BY <1>5, <3>1
  <2>2. r \notin freed /\ M[r] = mtp[r]
    BY <1>6, <1>7, <1>14, <2>1
  <2>3. CASE i \in DOMAIN freeTail /\ F[i] = freeTail[i]
    BY <1>12, <1>14, <2>2, <2>3
  <2>4. CASE i - N \in 1 .. L /\ F[i] = mtp[order[i - N]].slot
    <3>1. order[i - N] \in Request /\ order[i - N] \in freed
      BY <1>8, <2>4
    <3>2. order[i - N] = r
      BY <1>14, <2>1, <2>2, <2>4, <3>1 DEF SlotsInv, OneOwner
    <3> QED
      BY <2>2, <3>1, <3>2
  <2> QED
    BY <1>11, <2>3, <2>4
<1>15. ASSUME NEW r \in Request, NEW q \in Request, M[r].slot = M[q].slot, M[r].slot # 0 PROVE r = q
  <2>1. M[r] = mtp[r] /\ M[q] = mtp[q]
    BY <1>6, <1>7, <1>15
  <2> QED
    BY <1>15, <2>1 DEF SlotsInv, OneOwner
<1>16. ASSUME NEW s \in Tail_
       PROVE  (\E i \in DOMAIN F : F[i] = s) \/ (\E r \in Request : M[r].slot = s)
  <2>1. CASE \E i \in DOMAIN freeTail : freeTail[i] = s
    <3>1. PICK i \in DOMAIN freeTail : freeTail[i] = s
      BY <2>1
    <3>2. i \in DOMAIN F /\ F[i] = s
      BY <1>3, <1>4, <1>10, <3>1
    <3> QED
      BY <3>2
  <2>2. CASE \E r \in Request : mtp[r].slot = s
    <3>1. PICK r \in Request : mtp[r].slot = s
      BY <2>2
    <3>2. CASE r \notin freed
      BY <1>7, <3>1, <3>2
    <3>3. CASE r \in freed
      <4>1. PICK i \in 1 .. L : order[i] = r
        BY <1>3, <1>5, <3>1, <3>3
      <4>2. N + i \in DOMAIN F /\ N + i \in (N + 1) .. (N + L) /\ (N + i) - N = i
        BY <1>3, <1>4, <1>10
      <4>3. F[N + i] = s
        BY <1>9, <1>10, <3>1, <4>1, <4>2
      <4> QED
        BY <4>2, <4>3
    <3> QED
      BY <3>2, <3>3
  <2> QED
    BY <2>1, <2>2 DEF SlotsInv, OneOwner
<1>17. OneOwner(M, F)
  BY <1>13, <1>14, <1>15, <1>16 DEF OneOwner
<1> QED
  BY <1>1, <1>6, <1>7, <1>10, <1>17

-----------------------------------------------------------------------------
(***************************************************************************)
(* Types and slots, lane by lane.                                          *)
(***************************************************************************)
LEMMA PrepareGetTypes ==
  ASSUME TypeInv, PrepareGet
  PROVE  TypeInv' /\ prep.cmd = NoCmd /\ prep'.cmd = Head(inQueue) /\ Head(inQueue) \in Command
         /\ prep'.pc = "register"
<1>1. LaneTypes /\ LaneHolds /\ EngineTypes /\ SharedTypes /\ RunnerTypes
  BY DEF TypeInv
<1> DEFINE c == Head(inQueue)
           snap == [r \in Request |-> IF r \in c.finished THEN cache[r] ELSE 0]
<1>2. c \in Command /\ Tail(inQueue) \in Seq(Command)
  BY <1>1, TailFacts DEF LaneTypes, PrepareGet
<1>3. snap \in Snap
  BY <1>1, Bounds_ DEF SharedTypes, Snap
<1>4. prep' = [pc |-> "register", cmd |-> c, work |-> NoWork, snap |-> snap] /\ inQueue' = Tail(inQueue)
  BY DEF PrepareGet
<1> HIDE DEF c, snap
<1>5. /\ prep' \in [pc : {"get", "register", "acquire", "prepare", "put", "exit"},
                   cmd : Command \cup {NoCmd}, snap : Snap, work : Work]
      /\ prep'.pc = "register" /\ prep'.cmd = c
  BY <1>2, <1>3, <1>4, Nothing
<1>6. UNCHANGED <<workQueue, outWork, outQueue, dev, out>>
  BY DEF PrepareGet
<1>7. LaneTypes' /\ LaneHolds'
  BY <1>1, <1>2, <1>4, <1>5, <1>6 DEF LaneTypes, LaneHolds
<1>8. EngineTypes' /\ SharedTypes' /\ RunnerTypes'
  BY <1>1 DEF PrepareGet, EngineTypes, SharedTypes, RunnerTypes, engineVars, sharedVars, runnerVars
<1>9. prep.cmd = NoCmd
  BY <1>1 DEF PrepareGet, LaneHolds
<1> QED
  BY <1>2, <1>5, <1>7, <1>8, <1>9 DEF TypeInv, c

LEMMA PrepareRegisterTypes ==
  ASSUME TypeInv, PrepareRegister
  PROVE  TypeInv' /\ prep'.cmd = prep.cmd
         /\ prep'.pc = IF prep.cmd.kind = "decode" THEN "acquire" ELSE "put"
<1>1. LaneTypes /\ LaneHolds /\ EngineTypes /\ SharedTypes /\ RunnerTypes
  BY DEF TypeInv
<1>2. prep.cmd.id \in 0 .. MaxSteps
  BY <1>1, CommandFields DEF LaneTypes
<1>3. SharedTypes'
  BY <1>1, <1>2 DEF PrepareRegister, SharedTypes, Snap
<1>4. prep'.cmd = prep.cmd /\ prep'.pc = IF prep.cmd.kind = "decode" THEN "acquire" ELSE "put"
  BY <1>1 DEF PrepareRegister, LaneTypes
<1>5. LaneTypes'
  BY <1>1 DEF PrepareRegister, LaneTypes
<1>6. LaneHolds'
  BY <1>1, <1>4 DEF PrepareRegister, LaneHolds
<1>7. EngineTypes' /\ RunnerTypes'
  BY <1>1 DEF PrepareRegister, EngineTypes, RunnerTypes, engineVars, runnerVars
<1> QED
  BY <1>3, <1>4, <1>5, <1>6, <1>7 DEF TypeInv

LEMMA PrepareAcquireTypes ==
  ASSUME TypeInv, PrepareAcquire
  PROVE  TypeInv' /\ prep'.cmd = prep.cmd /\ prep'.pc = "prepare" /\ prep.cmd \in Step /\ prep.cmd.kind = "decode"
<1>1. LaneTypes /\ LaneHolds /\ EngineTypes /\ SharedTypes /\ RunnerTypes
  BY DEF TypeInv
<1>2. prep.cmd \in Command /\ prep.cmd.kind = "decode" /\ prep.cmd \in Step
  BY <1>1, CommandFields DEF PrepareAcquire, LaneHolds
<1>3. SlotOf(prep.cmd) \in Buffer
  BY <1>2, StepFields, Bounds_ DEF SlotOf
<1>4. SharedTypes'
  BY <1>1, <1>3 DEF PrepareAcquire, SharedTypes
<1>5. prep'.cmd = prep.cmd /\ prep'.pc = "prepare" /\ prep.pc = "acquire"
  BY <1>1 DEF PrepareAcquire, LaneTypes
<1>6. LaneTypes'
  BY <1>1 DEF PrepareAcquire, LaneTypes
<1>7. LaneHolds'
  BY <1>1, <1>2, <1>5 DEF PrepareAcquire, LaneHolds
<1>8. EngineTypes' /\ RunnerTypes'
  BY <1>1 DEF PrepareAcquire, EngineTypes, RunnerTypes, engineVars, runnerVars
<1> QED
  BY <1>2, <1>4, <1>5, <1>6, <1>7, <1>8 DEF TypeInv

LEMMA PreparePutTypes ==
  ASSUME TypeInv, PreparePut
  PROVE  /\ TypeInv' /\ prep'.cmd = NoCmd /\ prep'.pc \in {"get", "exit"} /\ prep.cmd \in Command
         /\ [cmd |-> prep.cmd, snap |-> prep.snap, work |-> prep.work]
              \in [cmd : Command, snap : Snap, work : Work]
<1>1. LaneTypes /\ LaneHolds /\ EngineTypes /\ SharedTypes /\ RunnerTypes
  BY DEF TypeInv
<1> DEFINE x == [cmd |-> prep.cmd, snap |-> prep.snap, work |-> prep.work]
<1>2. prep.cmd \in Command /\ prep.snap \in Snap /\ prep.work \in Work
  BY <1>1 DEF PreparePut, LaneHolds, LaneTypes
<1>3. x \in [cmd : Command, snap : Snap, work : Work]
  BY <1>2
<1>4. /\ prep' = [pc |-> IF prep.cmd.kind = "shutdown" THEN "exit" ELSE "get",
                 cmd |-> NoCmd, snap |-> NoSnap, work |-> NoWork]
      /\ workQueue' = Append(workQueue, x) /\ Len(workQueue) < BufferSlots
      /\ UNCHANGED <<inQueue, outWork, outQueue, dev, out>>
  BY DEF PreparePut
<1> HIDE DEF x
<1>5. workQueue' \in Seq([cmd : Command, snap : Snap, work : Work]) /\ Len(workQueue') <= BufferSlots
  BY <1>1, <1>3, <1>4, Bounds_, AppendFacts DEF LaneTypes
<1>6. /\ prep' \in [pc : {"get", "register", "acquire", "prepare", "put", "exit"},
                   cmd : Command \cup {NoCmd}, snap : Snap, work : Work]
      /\ prep'.pc \in {"get", "exit"} /\ prep'.cmd = NoCmd
  BY <1>4, Nothing
<1>7. LaneTypes' /\ LaneHolds'
  BY <1>1, <1>4, <1>5, <1>6 DEF LaneTypes, LaneHolds
<1>8. EngineTypes' /\ SharedTypes' /\ RunnerTypes'
  BY <1>1 DEF PreparePut, EngineTypes, SharedTypes, RunnerTypes, engineVars, sharedVars, runnerVars
<1> QED
  BY <1>2, <1>3, <1>6, <1>7, <1>8 DEF TypeInv, x

LEMMA DeviceGetTypes ==
  ASSUME TypeInv, DeviceGet
  PROVE  /\ TypeInv' /\ dev.cmd = NoCmd /\ dev'.cmd = Head(workQueue).cmd /\ dev'.cmd \in Command
         /\ dev'.work = Head(workQueue).work /\ dev'.pc \in {"control", "release"}
         /\ dev'.cmd \in Step => dev'.pc = "release"
<1>1. LaneTypes /\ LaneHolds /\ EngineTypes /\ SharedTypes /\ RunnerTypes
  BY DEF TypeInv
<1> DEFINE x == Head(workQueue)
<1>2. x \in [cmd : Command, snap : Snap, work : Work]
  BY <1>1, TailFacts DEF LaneTypes, DeviceGet
<1>3. Tail(workQueue) \in Seq([cmd : Command, snap : Snap, work : Work]) /\ Len(Tail(workQueue)) <= BufferSlots
  BY <1>1, TailFacts, Bounds_ DEF LaneTypes, DeviceGet
<1>4. /\ dev' = [pc |-> IF x.cmd.kind \in {"profile", "shutdown"} THEN "control" ELSE "release",
                cmd |-> x.cmd, snap |-> x.snap, work |-> x.work, doomed |-> {}]
      /\ workQueue' = Tail(workQueue) /\ UNCHANGED <<inQueue, outWork, outQueue, prep, out>>
  BY DEF DeviceGet
<1>5. x.cmd \in Step => x.cmd.kind \notin {"profile", "shutdown"}
  BY StepFields
<1>6. x.cmd \in Control => x.cmd.kind \in {"profile", "shutdown"}
  BY ControlFields
<1> HIDE DEF x
<1>7. /\ dev' \in [pc : {"get", "control", "barrier", "release", "drop", "run", "exit"},
                  cmd : Command \cup {NoCmd}, snap : Snap, work : Work, doomed : SUBSET Request]
      /\ dev'.cmd = x.cmd /\ dev'.work = x.work /\ x.cmd \in Command
      /\ dev'.pc = IF x.cmd.kind \in {"profile", "shutdown"} THEN "control" ELSE "release"
  BY <1>2, <1>4
<1>8. /\ dev'.pc \in {"control", "release"} /\ (dev'.pc = "control" => dev'.cmd \in Control)
      /\ (dev'.pc = "release" => dev'.cmd \in Step) /\ (dev'.cmd \in Step => dev'.pc = "release")
  BY <1>5, <1>6, <1>7 DEF Command
<1>9. LaneTypes' /\ LaneHolds'
  BY <1>1, <1>3, <1>4, <1>7, <1>8 DEF LaneTypes, LaneHolds
<1>10. EngineTypes' /\ SharedTypes' /\ RunnerTypes'
  BY <1>1 DEF DeviceGet, EngineTypes, SharedTypes, RunnerTypes, engineVars, sharedVars, runnerVars
<1>11. dev.cmd = NoCmd
  BY <1>1 DEF DeviceGet, LaneHolds
<1> QED
  BY <1>7, <1>8, <1>9, <1>10, <1>11 DEF TypeInv, x

\* The device lane passes its command on and is idle.
LEMMA HandTypes ==
  ASSUME LaneTypes, LaneHolds, NEW x \in Item, x.kind = "pending" => x.cmd.kind = "decode",
         outWork' = Append(outWork, x), dev'.pc \in {"get", "barrier", "exit"},
         dev' = [DeviceIdle EXCEPT !.pc = dev'.pc], UNCHANGED <<inQueue, workQueue, outQueue, prep, out>>
  PROVE  LaneTypes' /\ LaneHolds' /\ dev'.cmd = NoCmd /\ dev'.work = NoWork
<1>1. outWork' \in Seq(Item)
  BY AppendFacts DEF LaneTypes
<1>2. /\ dev' \in [pc : {"get", "control", "barrier", "release", "drop", "run", "exit"},
                  cmd : Command \cup {NoCmd}, snap : Snap, work : Work, doomed : SUBSET Request]
      /\ dev'.cmd = NoCmd /\ dev'.work = NoWork
  BY Nothing DEF DeviceIdle
<1>3. \A i \in DOMAIN outWork' : outWork'[i].kind = "pending" => outWork'[i].cmd.kind = "decode"
  <2>1. outWork \in Seq(Item)
    BY DEF LaneTypes
  <2>2. \A i \in DOMAIN outWork' : outWork'[i] = x \/ \E j \in DOMAIN outWork : outWork'[i] = outWork[j]
    BY <2>1, AppendRange
  <2> QED
    BY <2>2 DEF LaneHolds
<1>4. LaneTypes'
  BY <1>1, <1>2 DEF LaneTypes
<1>5. LaneHolds'
  BY <1>2, <1>3 DEF LaneHolds
<1> QED
  BY <1>2, <1>4, <1>5

LEMMA DeviceControlTypes ==
  ASSUME TypeInv, DeviceControl
  PROVE  /\ TypeInv' /\ dev'.cmd = NoCmd /\ dev'.work = NoWork /\ dev.cmd \in Control
         /\ dev'.pc \in {"barrier", "exit"}
         /\ \E x \in Item : /\ x.cmd = dev.cmd /\ x.kind \notin {"pending", "done"}
                           /\ outWork' = Append(outWork, x) /\ (x.kind = "profile" => dev'.pc = "barrier")
<1>1. LaneTypes /\ LaneHolds /\ EngineTypes /\ SharedTypes /\ RunnerTypes
  BY DEF TypeInv
<1> DEFINE x == [NoItem EXCEPT !.kind = dev.cmd.kind, !.cmd = dev.cmd]
<1>2. dev.cmd \in Control /\ dev.cmd.kind \in {"profile", "shutdown"}
  BY <1>1, ControlFields DEF DeviceControl, LaneHolds
<1>3. x \in Item /\ x.kind = dev.cmd.kind /\ x.cmd = dev.cmd
  BY <1>2, ControlItem
<1>4. /\ outWork' = Append(outWork, x) /\ UNCHANGED <<inQueue, workQueue, outQueue, prep, out>>
      /\ dev' = [DeviceIdle EXCEPT !.pc = IF dev.cmd.kind = "shutdown" THEN "exit" ELSE "barrier"]
  BY DEF DeviceControl
<1> HIDE DEF x
<1>5. /\ dev'.pc \in {"barrier", "exit"} /\ dev' = [DeviceIdle EXCEPT !.pc = dev'.pc]
      /\ dev.cmd.kind = "profile" => dev'.pc = "barrier"
  BY <1>4 DEF DeviceIdle
<1>6. LaneTypes' /\ LaneHolds' /\ dev'.cmd = NoCmd /\ dev'.work = NoWork
  BY <1>1, <1>2, <1>3, <1>4, <1>5, HandTypes
<1>7. EngineTypes' /\ SharedTypes' /\ RunnerTypes'
  BY <1>1 DEF DeviceControl, EngineTypes, SharedTypes, RunnerTypes, engineVars, sharedVars, runnerVars
<1> QED
  BY <1>2, <1>3, <1>4, <1>5, <1>6, <1>7 DEF TypeInv

LEMMA HandedTypes ==
  ASSUME LaneTypes, LaneHolds, NEW k \in {"pending", "done"}, NEW e \in BOOLEAN, dev.pc = "run",
         Hand(k, e), k = "pending" => dev.cmd.kind = "decode", UNCHANGED <<inQueue, workQueue, prep, out>>
  PROVE  /\ LaneTypes' /\ LaneHolds' /\ dev.cmd \in Step /\ dev'.cmd = NoCmd /\ dev'.work = NoWork
         /\ dev'.pc = "get"
         /\ \E x \in Item : x.cmd = dev.cmd /\ x.kind = k /\ outWork' = Append(outWork, x)
<1> DEFINE x == [kind |-> k, cmd |-> dev.cmd, error |-> e, desc |-> dev.work.desc]
<1>1. dev.cmd \in Step /\ dev.work.desc \in Desc
  BY DEF LaneHolds, LaneTypes, Work
<1>2. x \in Item /\ x.kind = k /\ x.cmd = dev.cmd
  BY <1>1, StepItem
<1>3. outWork' = Append(outWork, x) /\ dev' = DeviceIdle /\ UNCHANGED outQueue
  BY DEF Hand
<1> HIDE DEF x
<1>4. dev'.pc = "get" /\ dev' = [DeviceIdle EXCEPT !.pc = dev'.pc]
  BY <1>3 DEF DeviceIdle
<1>5. LaneTypes' /\ LaneHolds' /\ dev'.cmd = NoCmd /\ dev'.work = NoWork
  BY <1>2, <1>3, <1>4, HandTypes
<1> QED
  BY <1>1, <1>2, <1>3, <1>4, <1>5

LEMMA DeviceReleaseTypes ==
  ASSUME TypeInv, SlotsInv, DeviceRelease
  PROVE  TypeInv' /\ SlotsInv' /\ dev'.cmd = dev.cmd /\ dev'.work = dev.work /\ dev'.pc = "drop" /\ dev.cmd \in Step
         /\ mtp' = ReleasedStates(dev.cmd.finished).mtp
<1>1. LaneTypes /\ LaneHolds /\ EngineTypes /\ SharedTypes /\ RunnerTypes
  BY DEF TypeInv
<1>2. dev.cmd \in Step /\ dev.cmd.finished \in SUBSET Request
  BY <1>1, StepFields DEF DeviceRelease, LaneHolds
<1> DEFINE doomed == {r \in dev.cmd.finished : cache[r] = dev.snap[r]}
<1>3. dev' = [dev EXCEPT !.pc = "drop", !.doomed = doomed]
  BY DEF DeviceRelease
<1>4. doomed \in SUBSET Request
  BY <1>2
<1> HIDE DEF doomed
<1>5. /\ dev' \in [pc : {"get", "control", "barrier", "release", "drop", "run", "exit"},
                  cmd : Command \cup {NoCmd}, snap : Snap, work : Work, doomed : SUBSET Request]
      /\ dev'.cmd = dev.cmd /\ dev'.work = dev.work /\ dev'.pc = "drop"
  BY <1>1, <1>3, <1>4 DEF LaneTypes
<1>6. LaneTypes' /\ LaneHolds'
  BY <1>1, <1>2, <1>5, ZenonT(40) DEF DeviceRelease, LaneTypes, LaneHolds
<1> DEFINE R == ReleasedStates(dev.cmd.finished)
<1>7. mtp' = R.mtp /\ freeTail' = R.free
  BY DEF DeviceRelease
<1>8. R.mtp \in States /\ R.free \in Seq(Tail_) /\ OneOwner(R.mtp, R.free)
  BY <1>1, <1>2, ReleasedFacts
<1> HIDE DEF R
<1>9. RunnerTypes' /\ SlotsInv'
  BY <1>1, <1>7, <1>8 DEF DeviceRelease, RunnerTypes, States, SlotsInv, OneOwner
<1>10. EngineTypes' /\ SharedTypes'
  BY <1>1 DEF DeviceRelease, EngineTypes, SharedTypes, engineVars, sharedVars
<1> QED
  BY <1>2, <1>5, <1>6, <1>7, <1>9, <1>10 DEF TypeInv, R

LEMMA DeviceDropTypes ==
  ASSUME TypeInv, DeviceDrop
  PROVE  TypeInv' /\ dev'.cmd = dev.cmd /\ dev'.work = dev.work /\ dev'.pc = "run" /\ dev.cmd \in Step
<1>1. LaneTypes /\ LaneHolds /\ EngineTypes /\ SharedTypes /\ RunnerTypes
  BY DEF TypeInv
<1>2. dev.cmd \in Step /\ dev.cmd.id \in 0 .. MaxSteps
  BY <1>1, StepFields DEF DeviceDrop, LaneHolds
<1>3. dev'.cmd = dev.cmd /\ dev'.work = dev.work /\ dev'.pc = "run"
  BY <1>1 DEF DeviceDrop, LaneTypes
<1>4. LaneTypes'
  BY <1>1 DEF DeviceDrop, LaneTypes
<1>5. LaneHolds'
  BY <1>1, <1>2, <1>3 DEF DeviceDrop, LaneHolds
<1>6. SharedTypes'
  BY <1>1, <1>2, Bounds_ DEF DeviceDrop, SharedTypes, Snap
<1>7. EngineTypes' /\ RunnerTypes'
  BY <1>1 DEF DeviceDrop, EngineTypes, RunnerTypes, engineVars, runnerVars
<1> QED
  BY <1>2, <1>3, <1>4, <1>5, <1>6, <1>7 DEF TypeInv

\* A device lane that ends a step without the runner.
LEMMA DeviceEndsTypes ==
  ASSUME TypeInv, DeviceFails \/ DeviceCleanup \/ DeviceDecode
  PROVE  /\ TypeInv' /\ dev.cmd \in Step /\ dev.pc = "run" /\ dev'.cmd = NoCmd /\ dev'.work = NoWork
         /\ dev'.pc = "get"
         /\ \E x \in Item : x.cmd = dev.cmd /\ x.kind = "done" /\ outWork' = Append(outWork, x)
<1>1. LaneTypes /\ LaneHolds /\ EngineTypes /\ SharedTypes /\ RunnerTypes
  BY DEF TypeInv
<1>2. dev.pc = "run" /\ UNCHANGED <<engineVars, inQueue, workQueue, prep, out, runnerVars>>
  BY DEF DeviceFails, DeviceCleanup, DeviceDecode
<1>3. \E e \in BOOLEAN : Hand("done", e)
  <2> DEFINE ok == Registered /\ ~dev.work.error /\ dev.cmd.blind \subseteq lastTok
  <2>1. CASE DeviceFails \/ DeviceCleanup
    BY <2>1 DEF DeviceFails, DeviceCleanup
  <2>2. CASE DeviceDecode
    <3>1. Hand("done", ~ok)
      BY <2>2 DEF DeviceDecode
    <3>2. (~ok) \in BOOLEAN
      BY Zenon
    <3> QED
      BY <3>1, <3>2
  <2> QED
    BY <2>1, <2>2
<1>4. /\ LaneTypes' /\ LaneHolds' /\ dev.cmd \in Step /\ dev'.cmd = NoCmd /\ dev'.work = NoWork /\ dev'.pc = "get"
      /\ \E x \in Item : x.cmd = dev.cmd /\ x.kind = "done" /\ outWork' = Append(outWork, x)
  BY <1>1, <1>2, <1>3, HandedTypes
<1>5. SharedTypes'
  <2>1. dev.cmd.reqs \subseteq Request
    BY <1>4, StepFields
  <2> QED
    BY <1>1, <2>1 DEF DeviceFails, DeviceCleanup, DeviceDecode, SharedTypes, sharedVars
<1>6. EngineTypes' /\ RunnerTypes'
  BY <1>1, <1>2 DEF EngineTypes, RunnerTypes, engineVars, runnerVars
<1> QED
  BY <1>2, <1>4, <1>5, <1>6 DEF TypeInv

\* A step of the prepare lane that stages a decode step.
LEMMA PrepareInputsFacts ==
  ASSUME RunnerTypes, SlotsInv, NEW batch \in SUBSET Request
  PROVE  LET R == PrepareInputs(batch)
         IN  /\ R.mtp \in States /\ R.free \in Seq(Tail_) /\ R.gens \in [Tail_ -> Nat]
             /\ \A r \in Request :
                  \/ R.mtp[r] = mtp[r]
                  \/ r \in batch /\ mtp[r].slot = 0 /\ R.mtp[r].slot # 0 /\ R.mtp[r].ready = FALSE
             /\ OneOwner(R.mtp, R.free)
<1>1. CASE Fused
  <2>1. PrepareInputs(batch) = Reserved(batch)
    BY <1>1 DEF PrepareInputs
  <2> QED
    BY <2>1, ReservedFacts
<1>2. CASE ~Fused
  <2>1. PrepareInputs(batch) = [mtp |-> mtp, free |-> freeTail, gens |-> gens]
    BY <1>2 DEF PrepareInputs
  <2> QED
    BY <2>1 DEF RunnerTypes, States, SlotsInv
<1> QED
  BY <1>1, <1>2

LEMMA PrepareDecodeTypes ==
  ASSUME TypeInv, SlotsInv, PrepareDecode
  PROVE  /\ TypeInv' /\ SlotsInv' /\ prep'.cmd = prep.cmd /\ prep'.pc = "put" /\ prep.cmd \in Step
         /\ prep.cmd.kind = "decode"
         /\ \A r \in Request : \/ mtp'[r] = mtp[r]
                               \/ r \in prep.cmd.reqs /\ mtp[r].slot = 0 /\ mtp'[r].ready = FALSE
         /\ ~prep'.work.error => staged' = [staged EXCEPT ![SlotOf(prep.cmd)] = prep.cmd.id]
         /\ prep'.work.error => staged' = staged
         /\ Fused /\ ~prep'.work.error =>
              \A r \in prep.cmd.reqs : mtp'[r].slot # 0 /\ prep'.work.desc[r] = <<mtp'[r].slot, mtp'[r].gen>>
<1>1. LaneTypes /\ LaneHolds /\ EngineTypes /\ SharedTypes /\ RunnerTypes
  BY DEF TypeInv
<1> DEFINE cmd == prep.cmd
           ok  == \A r \in cmd.reqs : cache[r] # 0
           batch == IF ok THEN cmd.reqs ELSE {}
           R   == PrepareInputs(batch)
           short == Fused /\ \E r \in cmd.reqs : R.mtp[r].slot = 0
           work == [error |-> ~ok \/ short, desc |-> Descriptors(R.mtp, cmd.reqs)]
<1>2. /\ mtp' = R.mtp /\ freeTail' = R.free /\ gens' = R.gens
      /\ staged' = IF ok /\ ~short THEN [staged EXCEPT ![SlotOf(cmd)] = cmd.id] ELSE staged
      /\ prep' = [prep EXCEPT !.pc = "put", !.work = work]
      /\ prep.pc = "prepare"
  BY DEF PrepareDecode
<1>3. /\ cmd \in Step /\ cmd.kind = "decode" /\ cmd.reqs \subseteq Request /\ cmd.id \in 0 .. MaxSteps
      /\ SlotOf(cmd) \in Buffer
  <2>1. cmd \in Command /\ cmd.kind = "decode"
    BY <1>1, <1>2 DEF LaneHolds
  <2>2. cmd \in Step
    BY <2>1, CommandFields
  <2> QED
    BY <2>1, <2>2, StepFields, Bounds_ DEF SlotOf
<1>4. /\ R.mtp \in States /\ R.free \in Seq(Tail_) /\ R.gens \in [Tail_ -> Nat]
      /\ \A r \in Request :
           \/ R.mtp[r] = mtp[r]
           \/ r \in batch /\ mtp[r].slot = 0 /\ R.mtp[r].slot # 0 /\ R.mtp[r].ready = FALSE
      /\ OneOwner(R.mtp, R.free)
  <2>1. batch \in SUBSET Request
    BY <1>3
  <2> HIDE DEF batch
  <2> QED
    BY <1>1, <2>1, PrepareInputsFacts
<1>5. batch \subseteq cmd.reqs
  OBVIOUS
<1> HIDE DEF R, batch, work
<1>6. RunnerTypes' /\ SlotsInv'
  <2>0. UNCHANGED <<meta, tracked, submitted>>
    BY DEF PrepareDecode
  <2>1. RunnerTypes'
    BY <1>1, <1>2, <1>4, <2>0 DEF RunnerTypes, States
  <2>2. SlotsInv'
    BY <1>2, <1>4 DEF SlotsInv, OneOwner
  <2> QED
    BY <2>1, <2>2
<1>7. Descriptors(R.mtp, cmd.reqs) \in Desc
  <2>1. \A r \in Request : R.mtp[r].slot \in 0 .. TailSlots /\ R.mtp[r].gen \in Nat
    BY <1>4 DEF States
  <2> QED
    BY <2>1, Bounds_ DEF Descriptors, Desc
<1>8. (~ok \/ short) \in BOOLEAN
  BY Zenon
<1>9. work \in Work /\ work.error = (~ok \/ short) /\ work.desc = Descriptors(R.mtp, cmd.reqs)
  BY <1>7, <1>8 DEF Work, work
<1> HIDE DEF ok, short
<1>10. /\ prep' \in [pc : {"get", "register", "acquire", "prepare", "put", "exit"},
                   cmd : Command \cup {NoCmd}, snap : Snap, work : Work]
       /\ prep'.pc = "put" /\ prep'.cmd = cmd /\ prep'.work = work
  BY <1>1, <1>2, <1>9 DEF LaneTypes
<1>11. UNCHANGED <<inQueue, workQueue, outWork, outQueue, dev, out, cache, lastTok, owned, engineVars>>
  BY DEF PrepareDecode
<1>12. LaneTypes' /\ LaneHolds'
  BY <1>1, <1>3, <1>10, <1>11, StepFields DEF LaneTypes, LaneHolds
<1>13. SharedTypes'
  BY <1>1, <1>2, <1>3, <1>11 DEF SharedTypes
<1>14. EngineTypes'
  BY <1>1, <1>11 DEF EngineTypes, engineVars
<1>15. ~prep'.work.error => staged' = [staged EXCEPT ![SlotOf(prep.cmd)] = prep.cmd.id]
  BY <1>2, <1>9, <1>10
<1>16. prep'.work.error => staged' = staged
  BY <1>2, <1>9, <1>10
<1>17. ASSUME Fused, ~prep'.work.error, NEW r \in prep.cmd.reqs
       PROVE  mtp'[r].slot # 0 /\ prep'.work.desc[r] = <<mtp'[r].slot, mtp'[r].gen>>
  <2>1. ~short
    BY <1>9, <1>10, <1>17
  <2>2. R.mtp[r].slot # 0
    BY <1>17, <2>1 DEF short
  <2>3. r \in Request
    BY <1>3, <1>17
  <2>4. Descriptors(R.mtp, cmd.reqs)[r] = <<R.mtp[r].slot, R.mtp[r].gen>>
    BY <1>17, <2>3 DEF Descriptors
  <2> QED
    BY <1>2, <1>9, <1>10, <2>2, <2>4
<1>18. \A r \in Request : \/ mtp'[r] = mtp[r]
                          \/ r \in prep.cmd.reqs /\ mtp[r].slot = 0 /\ mtp'[r].ready = FALSE
  BY <1>2, <1>4, <1>5
<1> QED
  BY <1>3, <1>6, <1>10, <1>12, <1>13, <1>14, <1>15, <1>16, <1>17, <1>18 DEF TypeInv

\* _initialize_mtp_device_state: the row of a slot is written for its owner.
LEMMA SeededFacts ==
  ASSUME RunnerTypes, NEW M \in States, NEW F, OneOwner(M, F), NEW seeded \in SUBSET Request
  PROVE  LET rows == Seeded(M, seeded)
         IN  /\ rows \in [Tail_ -> Nat]
             /\ \A r \in seeded : M[r].slot # 0 /\ ~M[r].ready => rows[M[r].slot] = M[r].gen
             /\ \A r \in Request : /\ M[r].slot # 0
                                   /\ r \notin seeded \/ M[r].ready
                                   => rows[M[r].slot] = meta[M[r].slot]
<1> DEFINE Fresh(s) == \E r \in seeded : M[r].slot = s /\ ~M[r].ready
           Row(s) == CHOOSE st \in {M[r] : r \in seeded} : st.slot = s
           rows == Seeded(M, seeded)
<1>1. rows = [s \in Tail_ |-> IF Fresh(s) THEN Row(s).gen ELSE meta[s]]
  BY DEF Seeded
<1>2. \A r \in Request : M[r].slot \in 0 .. TailSlots /\ M[r].gen \in Nat
  BY DEF States
<1>3. \A r \in Request : M[r].slot # 0 => M[r].slot \in Tail_
  BY <1>2, Bounds_ DEF Tail_
<1>4. \A r, q \in Request : M[r].slot = M[q].slot /\ M[r].slot # 0 => r = q
  BY DEF OneOwner
<1>5. ASSUME NEW s \in Tail_, NEW r \in seeded, M[r].slot = s PROVE Row(s) = M[r]
  <2>1. \E st \in {M[q] : q \in seeded} : st.slot = s
    BY <1>5
  <2>2. Row(s) \in {M[q] : q \in seeded} /\ Row(s).slot = s
    BY <2>1
  <2> HIDE DEF Row
  <2>3. PICK q \in seeded : Row(s) = M[q]
    BY <2>2
  <2>4. s # 0
    BY Bounds_ DEF Tail_
  <2>5. q = r
    BY <1>4, <1>5, <2>2, <2>3, <2>4
  <2> QED
    BY <2>3, <2>5
<1>6. \A s \in Tail_ : Fresh(s) => Row(s).gen \in Nat
  BY <1>2, <1>5
<1>7. rows \in [Tail_ -> Nat]
  BY <1>1, <1>6 DEF RunnerTypes
<1>8. ASSUME NEW r \in seeded, M[r].slot # 0, ~M[r].ready PROVE rows[M[r].slot] = M[r].gen
  <2>1. M[r].slot \in Tail_ /\ Fresh(M[r].slot)
    BY <1>3, <1>8
  <2>2. Row(M[r].slot) = M[r]
    BY <1>5, <2>1
  <2> HIDE DEF Row, Fresh
  <2> QED
    BY <1>1, <2>1, <2>2
<1>9. ASSUME NEW r \in Request, M[r].slot # 0, r \notin seeded \/ M[r].ready
      PROVE  rows[M[r].slot] = meta[M[r].slot]
  <2>1. M[r].slot \in Tail_
    BY <1>3, <1>9
  <2>2. ~Fresh(M[r].slot)
    BY <1>4, <1>9
  <2> HIDE DEF Row, Fresh
  <2> QED
    BY <1>1, <2>1, <2>2
<1> QED
  BY <1>7, <1>8, <1>9

\* A state counts as ready only under the generation in its device row.
ReadyMeansSeeded == \A r \in Request : mtp[r].ready => mtp[r].slot # 0 /\ meta[mtp[r].slot] = mtp[r].gen

LEMMA DevicePrefillTypes ==
  ASSUME TypeInv, SlotsInv, DevicePrefill
  PROVE  /\ TypeInv' /\ SlotsInv' /\ dev.cmd \in Step /\ dev.pc = "run" /\ dev'.cmd = NoCmd /\ dev'.work = NoWork
         /\ dev'.pc = "get"
         /\ \E x \in Item : x.cmd = dev.cmd /\ x.kind = "done" /\ outWork' = Append(outWork, x)
         /\ \A r \in Request :
              \/ mtp'[r].slot = mtp[r].slot /\ mtp'[r].gen = mtp[r].gen
              \/ mtp[r].slot = 0 /\ r \in dev.cmd.reqs
         /\ ReadyMeansSeeded => ReadyMeansSeeded'
         /\ ~Fused => meta' = meta
<1>1. LaneTypes /\ LaneHolds /\ EngineTypes /\ SharedTypes /\ RunnerTypes
  BY DEF TypeInv
<1> DEFINE reqs == dev.cmd.reqs
           R == Drafted(reqs)
           Ok(failed) == ~failed /\ Registered /\ (Fused => \A r \in reqs : R.mtp[r].slot # 0)
<1>2. PICK failed \in {FALSE, "step_error" \in Faults} :
        LET seeded == IF Ok(failed) /\ Fused THEN reqs ELSE {}
        IN  /\ freeTail' = R.free /\ gens' = R.gens
            /\ meta' = Seeded(R.mtp, seeded)
            /\ mtp' = [r \in Request |-> IF r \in seeded THEN [R.mtp[r] EXCEPT !.ready = TRUE]
                                         ELSE R.mtp[r]]
            /\ lastTok' = IF Ok(failed) THEN lastTok \cup reqs ELSE lastTok
            /\ Hand("done", ~Ok(failed))
  BY Zenon DEF DevicePrefill
<1> DEFINE ok == Ok(failed)
           seeded == IF ok /\ Fused THEN reqs ELSE {}
<1>3. /\ freeTail' = R.free /\ gens' = R.gens /\ meta' = Seeded(R.mtp, seeded)
      /\ mtp' = [r \in Request |-> IF r \in seeded THEN [R.mtp[r] EXCEPT !.ready = TRUE] ELSE R.mtp[r]]
      /\ lastTok' = IF ok THEN lastTok \cup reqs ELSE lastTok
      /\ Hand("done", ~ok)
  BY <1>2, Zenon
<1>4. /\ dev.pc = "run" /\ tracked' = IF Fused THEN [s \in Buffer |-> 0] ELSE tracked
      /\ UNCHANGED <<engineVars, inQueue, workQueue, prep, out, cache, owned, staged, submitted>>
  BY DEF DevicePrefill
<1>5. (~ok) \in BOOLEAN
  BY Zenon
<1>6. seeded # {} => seeded = reqs /\ Fused /\ \A r \in reqs : R.mtp[r].slot # 0
  BY DEF Ok
<1>7. ~Fused => seeded = {}
  OBVIOUS
<1>8. seeded \subseteq reqs
  OBVIOUS
<1> HIDE DEF ok, seeded
<1>9. /\ LaneTypes' /\ LaneHolds' /\ dev.cmd \in Step /\ dev'.cmd = NoCmd /\ dev'.work = NoWork /\ dev'.pc = "get"
      /\ \E x \in Item : x.cmd = dev.cmd /\ x.kind = "done" /\ outWork' = Append(outWork, x)
  BY <1>1, <1>3, <1>4, <1>5, HandedTypes
<1>10. reqs \in SUBSET Request /\ seeded \in SUBSET Request
  BY <1>8, <1>9, StepFields
<1>11. R = PrepareInputs(reqs)
  BY DEF Drafted, PrepareInputs
<1>12. /\ R.mtp \in States /\ R.free \in Seq(Tail_) /\ R.gens \in [Tail_ -> Nat]
       /\ \A r \in Request :
            \/ R.mtp[r] = mtp[r]
            \/ r \in reqs /\ mtp[r].slot = 0 /\ R.mtp[r].slot # 0 /\ R.mtp[r].ready = FALSE
       /\ OneOwner(R.mtp, R.free)
  <2> HIDE DEF R, reqs
  <2> QED
    BY <1>1, <1>10, <1>11, PrepareInputsFacts
<1> DEFINE M == R.mtp
           rows == Seeded(M, seeded)
<1> HIDE DEF R, reqs
<1>13. /\ rows \in [Tail_ -> Nat]
       /\ \A r \in seeded : M[r].slot # 0 /\ ~M[r].ready => rows[M[r].slot] = M[r].gen
       /\ \A r \in Request : /\ M[r].slot # 0
                             /\ r \notin seeded \/ M[r].ready
                             => rows[M[r].slot] = meta[M[r].slot]
  <2>1. M \in States /\ OneOwner(M, R.free)
    BY <1>12
  <2> HIDE DEF M
  <2> QED
    BY <1>1, <1>10, <2>1, SeededFacts
<1>14. ASSUME NEW r \in Request
       PROVE  /\ mtp'[r] \in [slot : 0 .. TailSlots, gen : Nat, ready : BOOLEAN]
              /\ mtp'[r].slot = M[r].slot /\ mtp'[r].gen = M[r].gen
              /\ mtp'[r].ready = IF r \in seeded THEN TRUE ELSE M[r].ready
  <2>1. M[r] \in [slot : 0 .. TailSlots, gen : Nat, ready : BOOLEAN]
    BY <1>12 DEF States
  <2>2. mtp'[r] = IF r \in seeded THEN [M[r] EXCEPT !.ready = TRUE] ELSE M[r]
    BY <1>3
  <2> HIDE DEF M
  <2> QED
    BY <2>1, <2>2
<1>15. mtp' \in States
  <2>1. mtp' = [r \in Request |-> mtp'[r]]
    BY <1>3
  <2> QED
    BY <1>14, <2>1 DEF States
<1>16. RunnerTypes'
  <2>1. tracked' \in [Buffer -> 0 .. MaxSteps]
    BY <1>1, <1>4, Bounds_ DEF RunnerTypes
  <2>2. meta' \in [Tail_ -> Nat]
    BY <1>3, <1>13
  <2> QED
    BY <1>1, <1>3, <1>4, <1>12, <1>15, <2>1, <2>2 DEF RunnerTypes, States
<1>17. SlotsInv'
  <2>1. OneOwner(M, R.free) /\ freeTail' = R.free
    BY <1>3, <1>12
  <2>2. \A r \in Request : mtp'[r].slot = M[r].slot
    BY <1>14
  <2> HIDE DEF M
  <2>3. \A i, j \in DOMAIN freeTail' : freeTail'[i] = freeTail'[j] => i = j
    BY <2>1 DEF OneOwner
  <2>4. \A r \in Request : \A i \in DOMAIN freeTail' : mtp'[r].slot # freeTail'[i]
    BY <2>1, <2>2 DEF OneOwner
  <2>5. \A r, q \in Request : mtp'[r].slot = mtp'[q].slot /\ mtp'[r].slot # 0 => r = q
    BY <2>1, <2>2 DEF OneOwner
  <2>6. \A s \in Tail_ : \/ \E i \in DOMAIN freeTail' : freeTail'[i] = s
                        \/ \E r \in Request : mtp'[r].slot = s
    BY <2>1, <2>2 DEF OneOwner
  <2> QED
    BY <2>3, <2>4, <2>5, <2>6 DEF SlotsInv, OneOwner
<1>18. SharedTypes'
  BY <1>1, <1>3, <1>4, <1>10 DEF SharedTypes
<1>19. EngineTypes'
  BY <1>1, <1>4 DEF EngineTypes, engineVars
<1>20. \A r \in Request : \/ mtp'[r].slot = mtp[r].slot /\ mtp'[r].gen = mtp[r].gen
                          \/ mtp[r].slot = 0 /\ r \in reqs
  BY <1>12, <1>14
<1>21. ASSUME ReadyMeansSeeded, NEW r \in Request, mtp'[r].ready
       PROVE  mtp'[r].slot # 0 /\ meta'[mtp'[r].slot] = mtp'[r].gen
  <2>1. CASE r \in seeded /\ ~M[r].ready
    <3>1. M[r].slot # 0
      BY <1>6, <2>1
    <3> QED
      BY <1>3, <1>13, <1>14, <2>1, <3>1
  <2>2. CASE M[r].ready
    <3>1. M[r] = mtp[r]
      BY <1>12, <2>2
    <3>2. M[r].slot # 0 /\ meta[M[r].slot] = M[r].gen
      BY <1>21, <2>2, <3>1 DEF ReadyMeansSeeded
    <3> QED
      BY <1>3, <1>13, <1>14, <2>2, <3>2
  <2>3. CASE r \notin seeded /\ ~M[r].ready
    BY <1>14, <1>21, <2>3
  <2> QED
    BY <2>1, <2>2, <2>3
<1>22. ASSUME ~Fused PROVE meta' = meta
  BY <1>1, <1>3, <1>7, <1>22 DEF Seeded, RunnerTypes
<1> QED
  BY <1>4, <1>9, <1>16, <1>17, <1>18, <1>19, <1>20, <1>21, <1>22 DEF TypeInv, ReadyMeansSeeded, reqs

LEMMA DeviceDispatchTypes ==
  ASSUME TypeInv, DeviceDispatch
  PROVE  /\ TypeInv' /\ dev.cmd \in Step /\ dev.cmd.kind = "decode" /\ dev.pc = "run" /\ dev'.cmd = NoCmd
         /\ dev'.work = NoWork /\ dev'.pc = "get"
         /\ \/ /\ ~dev.work.error /\ \A r \in dev.cmd.reqs : mtp[r].ready
               /\ tracked[SlotOf(dev.cmd)] = 0
               /\ \E x \in Item : x.cmd = dev.cmd /\ x.kind = "pending" /\ outWork' = Append(outWork, x)
               /\ submitted' = Launched(dev.cmd) /\ tracked' = Track(dev.cmd)
            \/ /\ ~dev.work.error /\ \A r \in dev.cmd.reqs : mtp[r].ready
               /\ tracked[SlotOf(dev.cmd)] # 0
               /\ \E x \in Item : x.cmd = dev.cmd /\ x.kind = "done" /\ outWork' = Append(outWork, x)
            \/ /\ \E x \in Item : x.cmd = dev.cmd /\ x.kind = "done" /\ outWork' = Append(outWork, x)
               /\ UNCHANGED <<submitted, tracked>>
         /\ [id |-> dev.cmd.id, cmd |-> dev.cmd, desc |-> dev.work.desc]
              \in [id : 1 .. MaxSteps, cmd : Step, desc : Desc]
<1>1. LaneTypes /\ LaneHolds /\ EngineTypes /\ SharedTypes /\ RunnerTypes
  BY DEF TypeInv
<1> DEFINE launched == ~dev.work.error /\ \A r \in dev.cmd.reqs : mtp[r].ready
           ok == launched /\ tracked[SlotOf(dev.cmd)] = 0
           kind == IF ok THEN "pending" ELSE "done"
<1>2. /\ dev.pc = "run" /\ dev.cmd.kind = "decode"
      /\ submitted' = IF launched THEN Launched(dev.cmd) ELSE submitted
      /\ tracked' = IF ok THEN Track(dev.cmd) ELSE tracked
      /\ Hand(kind, ~ok)
      /\ UNCHANGED <<engineVars, inQueue, workQueue, prep, out, sharedVars, mtp, freeTail, gens, meta>>
  BY DEF DeviceDispatch
<1>3. (~ok) \in BOOLEAN
  BY Zenon
<1>4. kind \in {"pending", "done"} /\ (ok => kind = "pending") /\ (~ok => kind = "done")
  OBVIOUS
<1> HIDE DEF ok, kind
<1>5. /\ LaneTypes' /\ LaneHolds' /\ dev.cmd \in Step /\ dev'.cmd = NoCmd /\ dev'.work = NoWork /\ dev'.pc = "get"
      /\ \E x \in Item : x.cmd = dev.cmd /\ x.kind = kind /\ outWork' = Append(outWork, x)
  BY <1>1, <1>2, <1>3, <1>4, HandedTypes
<1>6. dev.cmd.id \in 1 .. MaxSteps /\ dev.cmd.id \in 0 .. MaxSteps /\ SlotOf(dev.cmd) \in Buffer
  BY <1>5, StepFields, Bounds_ DEF SlotOf
<1>7. dev.work.desc \in Desc
  BY <1>1 DEF LaneTypes, Work
<1>8. [id |-> dev.cmd.id, cmd |-> dev.cmd, desc |-> dev.work.desc]
        \in [id : 1 .. MaxSteps, cmd : Step, desc : Desc]
  BY <1>5, <1>6, <1>7
<1>9. submitted' \in Seq([id : 1 .. MaxSteps, cmd : Step, desc : Desc])
  <2>1. submitted \in Seq([id : 1 .. MaxSteps, cmd : Step, desc : Desc])
    BY <1>1 DEF RunnerTypes
  <2>2. Launched(dev.cmd) \in Seq([id : 1 .. MaxSteps, cmd : Step, desc : Desc])
    BY <1>8, <2>1, AppendFacts DEF Launched
  <2> QED
    BY <1>2, <2>1, <2>2
<1>10. tracked' \in [Buffer -> 0 .. MaxSteps]
  BY <1>1, <1>2, <1>6 DEF Track, RunnerTypes
<1>11. RunnerTypes'
  BY <1>1, <1>2, <1>9, <1>10 DEF RunnerTypes
<1>12. EngineTypes' /\ SharedTypes'
  BY <1>1, <1>2 DEF EngineTypes, SharedTypes, engineVars, sharedVars
<1>13. CASE ok
  BY <1>2, <1>4, <1>5, <1>8, <1>11, <1>12, <1>13 DEF TypeInv, ok
<1>14. CASE ~ok
  BY <1>2, <1>4, <1>5, <1>8, <1>11, <1>12, <1>14 DEF TypeInv, ok
<1> QED
  BY <1>13, <1>14

LEMMA KernelTypes ==
  ASSUME TypeInv, KernelCompletes
  PROVE  TypeInv'
<1>1. LaneTypes /\ LaneHolds /\ EngineTypes /\ SharedTypes /\ RunnerTypes
  BY DEF TypeInv
<1>2. submitted' \in Seq([id : 1 .. MaxSteps, cmd : Step, desc : Desc])
  BY <1>1, TailFacts DEF KernelCompletes, RunnerTypes
<1>3. LaneTypes' /\ LaneHolds'
  BY <1>1 DEF KernelCompletes, LaneTypes, LaneHolds
<1>4. EngineTypes' /\ SharedTypes'
  BY <1>1 DEF KernelCompletes, EngineTypes, SharedTypes, engineVars, sharedVars
<1>5. RunnerTypes'
  BY <1>1, <1>2 DEF KernelCompletes, RunnerTypes
<1> QED
  BY <1>3, <1>4, <1>5 DEF TypeInv

LEMMA OutputGetTypes ==
  ASSUME TypeInv, OutputGet
  PROVE  /\ TypeInv' /\ out.item = NoItem /\ out'.item = Head(outWork) /\ out'.item \in Item
         /\ out'.pc = "reclaim" <=> out'.item.kind = "pending"
<1>1. LaneTypes /\ LaneHolds /\ EngineTypes /\ SharedTypes /\ RunnerTypes
  BY DEF TypeInv
<1> DEFINE x == Head(outWork)
<1>2. outWork \in Seq(Item) /\ outWork # <<>>
  BY <1>1 DEF LaneTypes, OutputGet
<1>3. x \in Item /\ Tail(outWork) \in Seq(Item)
  BY <1>2, TailFacts
<1>4. /\ out' = [pc |-> IF x.kind = "pending" THEN "reclaim" ELSE IF x.kind = "done" THEN "publish" ELSE x.kind,
                item |-> x]
      /\ outWork' = Tail(outWork) /\ UNCHANGED <<inQueue, workQueue, outQueue, prep, dev>> /\ out.pc = "get"
  BY DEF OutputGet
<1>5. x.kind = "pending" => x.cmd.kind = "decode"
  BY <1>1, <1>2, TailRange DEF LaneHolds
<1>6. \A i \in DOMAIN Tail(outWork) : Tail(outWork)[i].kind = "pending" => Tail(outWork)[i].cmd.kind = "decode"
  BY <1>1, <1>2, TailRange DEF LaneHolds
<1>7. /\ x.kind \in {"pending", "done", "profile", "shutdown"}
      /\ x.kind \in {"pending", "done"} => x.cmd \in Step
      /\ x.kind \in {"profile", "shutdown"} => x.cmd \in Control
  BY <1>3, ItemFields
<1> HIDE DEF x
<1>8. /\ out' \in [pc : {"get", "reclaim", "publish", "profile", "shutdown", "exit"}, item : Item \cup {NoItem}]
      /\ out'.item = x
      /\ out'.pc = IF x.kind = "pending" THEN "reclaim" ELSE IF x.kind = "done" THEN "publish" ELSE x.kind
  BY <1>3, <1>4, <1>7
<1>9. LaneTypes'
  BY <1>1, <1>3, <1>4, <1>8 DEF LaneTypes
<1>10. LaneHolds'
  BY <1>1, <1>4, <1>5, <1>6, <1>7, <1>8 DEF LaneHolds
<1>11. EngineTypes' /\ SharedTypes' /\ RunnerTypes'
  BY <1>1 DEF OutputGet, EngineTypes, SharedTypes, RunnerTypes, engineVars, sharedVars, runnerVars
<1>12. out.item = NoItem
  BY <1>1, <1>4 DEF LaneHolds
<1> QED
  BY <1>3, <1>7, <1>8, <1>9, <1>10, <1>11, <1>12 DEF TypeInv, x

LEMMA OutputReclaimTypes ==
  ASSUME TypeInv, OutputReclaim \/ OutputReclaimFails
  PROVE  /\ TypeInv' /\ out.pc = "reclaim" /\ Wait /\ out'.item.cmd = out.item.cmd /\ out'.pc = "publish"
         /\ out.item.cmd \in Step /\ tracked' = Forget(out.item.cmd)
<1>1. LaneTypes /\ LaneHolds /\ EngineTypes /\ SharedTypes /\ RunnerTypes
  BY DEF TypeInv
<1>2. /\ out.pc = "reclaim" /\ Wait /\ tracked' = Forget(out.item.cmd)
      /\ UNCHANGED <<engineVars, inQueue, workQueue, outWork, outQueue, prep, dev, cache, owned,
                     staged, mtp, freeTail, gens, meta, submitted>>
  BY DEF OutputReclaim, OutputReclaimFails, sharedVars
<1>3. out.item.cmd \in Step /\ out.item.cmd.kind = "decode"
  BY <1>1, <1>2 DEF LaneHolds
<1>4. out.item \in [kind : {"pending", "done"}, cmd : Step, error : BOOLEAN, desc : Desc]
  <2>1. out.item \in Item
    BY <1>1, <1>3, StepFields, Nothing DEF LaneTypes
  <2>2. ASSUME NEW c \in Control, out.item = [NoItem EXCEPT !.kind = c.kind, !.cmd = c] PROVE FALSE
    <3>1. out.item.cmd = c
      BY <2>2, ControlItem
    <3> QED
      BY <1>3, <3>1, StepFields
  <2> QED
    BY <2>1, <2>2 DEF Item
<1>5. \E e \in BOOLEAN : out' = [out EXCEPT !.pc = "publish", !.item.error = e]
  <2>1. CASE OutputReclaim
    <3>1. out' = [out EXCEPT !.pc = "publish"] /\ out.item.error \in BOOLEAN
      BY <1>4, <2>1 DEF OutputReclaim
    <3>2. [out EXCEPT !.pc = "publish"] = [out EXCEPT !.pc = "publish", !.item.error = out.item.error]
      BY <1>1, <1>4 DEF LaneTypes
    <3> QED
      BY <3>1, <3>2
  <2>2. CASE OutputReclaimFails
    BY <2>2 DEF OutputReclaimFails
  <2> QED
    BY <2>1, <2>2
<1>6. PICK e \in BOOLEAN : out' = [out EXCEPT !.pc = "publish", !.item.error = e]
  BY <1>5
<1>7. /\ out'.pc = "publish" /\ out'.item = [out.item EXCEPT !.error = e]
      /\ out' = [pc |-> "publish", item |-> [out.item EXCEPT !.error = e]]
  BY <1>1, <1>6 DEF LaneTypes
<1>8. /\ out'.item \in [kind : {"pending", "done"}, cmd : Step, error : BOOLEAN, desc : Desc]
      /\ out'.item.cmd = out.item.cmd
  BY <1>4, <1>7
<1>9. out' \in [pc : {"get", "reclaim", "publish", "profile", "shutdown", "exit"}, item : Item \cup {NoItem}]
  <2>1. out'.item \in Item
    BY <1>8 DEF Item
  <2> QED
    BY <1>7, <2>1
<1>10. LaneTypes'
  BY <1>1, <1>2, <1>9 DEF LaneTypes
<1>11. LaneHolds'
  BY <1>1, <1>2, <1>3, <1>7, <1>8 DEF LaneHolds
<1>12. SharedTypes'
  <2>1. out.item.cmd.reqs \subseteq Request
    BY <1>3, StepFields
  <2>2. lastTok' \subseteq lastTok \cup out.item.cmd.reqs
    BY DEF OutputReclaim, OutputReclaimFails, sharedVars
  <2> QED
    BY <1>1, <1>2, <2>1, <2>2 DEF SharedTypes
<1>13. RunnerTypes'
  <2>1. tracked' \in [Buffer -> 0 .. MaxSteps]
    <3>1. 0 \in 0 .. MaxSteps /\ tracked \in [Buffer -> 0 .. MaxSteps]
      BY <1>1, Bounds_ DEF RunnerTypes
    <3>2. [tracked EXCEPT ![SlotOf(out.item.cmd)] = 0] \in [Buffer -> 0 .. MaxSteps]
      BY <3>1
    <3> QED
      BY <1>2, <3>1, <3>2 DEF Forget
  <2> QED
    BY <1>1, <1>2, <2>1 DEF RunnerTypes
<1>14. EngineTypes'
  BY <1>1, <1>2 DEF EngineTypes, engineVars
<1> QED
  BY <1>2, <1>3, <1>7, <1>8, <1>10, <1>11, <1>12, <1>13, <1>14 DEF TypeInv

LEMMA OutputPublishTypes ==
  ASSUME TypeInv, OutputPublish
  PROVE  /\ TypeInv' /\ out.item.cmd \in Step /\ out'.item = NoItem /\ out'.pc = "get"
         /\ \E x \in [id : 1 .. MaxSteps, error : BOOLEAN] :
              x.id = out.item.cmd.id /\ outQueue' = Append(outQueue, x)
<1>1. LaneTypes /\ LaneHolds /\ EngineTypes /\ SharedTypes /\ RunnerTypes
  BY DEF TypeInv
<1> DEFINE x == [id |-> out.item.cmd.id, error |-> out.item.error]
<1>2. /\ out.pc = "publish" /\ outQueue' = Append(outQueue, x) /\ out' = [pc |-> "get", item |-> NoItem]
      /\ owned' = IF out.item.cmd.kind = "decode" THEN owned \ {SlotOf(out.item.cmd)} ELSE owned
      /\ UNCHANGED <<engineVars, inQueue, workQueue, outWork, prep, dev, cache, lastTok, staged, runnerVars>>
  BY DEF OutputPublish
<1>3. out.item.cmd \in Step /\ out.item.error \in BOOLEAN
  BY <1>1, <1>2, ItemFields DEF LaneHolds, LaneTypes
<1>4. x \in [id : 1 .. MaxSteps, error : BOOLEAN] /\ x.id = out.item.cmd.id
  BY <1>3, StepFields
<1> HIDE DEF x
<1>5. outQueue' \in Seq([id : 1 .. MaxSteps, error : BOOLEAN])
  BY <1>1, <1>2, <1>4, AppendFacts DEF LaneTypes
<1>6. LaneTypes'
  BY <1>1, <1>2, <1>5 DEF LaneTypes
<1>7. LaneHolds'
  BY <1>1, <1>2 DEF LaneHolds
<1>8. EngineTypes' /\ SharedTypes' /\ RunnerTypes'
  BY <1>1, <1>2 DEF EngineTypes, SharedTypes, RunnerTypes, engineVars, runnerVars
<1> QED
  BY <1>2, <1>3, <1>4, <1>6, <1>7, <1>8 DEF TypeInv

LEMMA OutputControlTypes ==
  ASSUME TypeInv, OutputProfile \/ OutputShutdown
  PROVE  /\ TypeInv' /\ out.item.cmd \in Control /\ out'.item = NoItem /\ out'.pc \in {"get", "exit"}
         /\ dev' = dev \/ (dev' = DeviceIdle /\ OutputProfile)
<1>1. LaneTypes /\ LaneHolds /\ EngineTypes /\ SharedTypes /\ RunnerTypes
  BY DEF TypeInv
<1>2. /\ out.pc \in {"profile", "shutdown"} /\ out'.pc \in {"get", "exit"} /\ out' = [pc |-> out'.pc, item |-> NoItem]
      /\ dev' = dev \/ (dev' = DeviceIdle /\ OutputProfile)
      /\ UNCHANGED <<engineVars, inQueue, workQueue, outWork, outQueue, prep, sharedVars, runnerVars>>
  BY DEF OutputProfile, OutputShutdown
<1>3. DeviceIdle \in [pc : {"get", "control", "barrier", "release", "drop", "run", "exit"},
              cmd : Command \cup {NoCmd}, snap : Snap, work : Work, doomed : SUBSET Request]
  BY Nothing DEF DeviceIdle
<1>4. DeviceIdle.pc = "get" /\ DeviceIdle.cmd = NoCmd
  BY DEF DeviceIdle
<1>5. LaneTypes'
  BY <1>1, <1>2, <1>3 DEF LaneTypes
<1>6. LaneHolds'
  BY <1>1, <1>2, <1>4 DEF LaneHolds
<1>7. EngineTypes' /\ SharedTypes' /\ RunnerTypes'
  BY <1>1, <1>2 DEF EngineTypes, SharedTypes, RunnerTypes, engineVars, sharedVars, runnerVars
<1> QED
  BY <1>1, <1>2, <1>5, <1>6, <1>7 DEF TypeInv, LaneHolds

-----------------------------------------------------------------------------
(***************************************************************************)
(* Moves: what each step does to the commands on their way.  NoCmd stands  *)
(* where a lane holds nothing.                                             *)
(***************************************************************************)
OutIds == {outQueue[i].id : i \in DOMAIN outQueue}

\* Nothing moves.
Rests == /\ inQueue' = inQueue /\ workQueue' = workQueue /\ outWork' = outWork /\ outQueue' = outQueue
         /\ prep'.cmd = prep.cmd /\ dev'.cmd = dev.cmd /\ out'.item.cmd = out.item.cmd

LEMMA RestsMoves ==
  ASSUME Rests
  PROVE  /\ InCmds' = InCmds /\ WorkCmds' = WorkCmds /\ OutCmds' = OutCmds /\ OutIds' = OutIds
         /\ FromPrep' = FromPrep /\ FromWork' = FromWork /\ FromDev' = FromDev
         /\ FromOutWork' = FromOutWork /\ FromOut' = FromOut
<1>1. InCmds' = InCmds /\ WorkCmds' = WorkCmds /\ OutCmds' = OutCmds /\ OutIds' = OutIds
  BY DEF Rests, InCmds, WorkCmds, OutCmds, OutIds
<1>2. FromPrep' = FromPrep
  BY <1>1 DEF FromPrep, Rests
<1>3. FromWork' = FromWork
  BY <1>1, <1>2 DEF FromWork
<1>4. FromDev' = FromDev
  BY <1>3 DEF FromDev, Rests
<1>5. FromOutWork' = FromOutWork
  BY <1>1, <1>4 DEF FromOutWork
<1>6. FromOut' = FromOut
  BY <1>5 DEF FromOut, Rests
<1> QED
  BY <1>1, <1>2, <1>3, <1>4, <1>5, <1>6

\* A command comes in.
LEMMA SentMoves ==
  ASSUME inQueue \in Seq(Command), NEW c \in Command, inQueue' = Append(inQueue, c),
         workQueue' = workQueue, outWork' = outWork, outQueue' = outQueue,
         UNCHANGED <<prep, dev, out>>
  PROVE  /\ InCmds' = InCmds \cup {c} /\ WorkCmds' = WorkCmds /\ OutCmds' = OutCmds /\ OutIds' = OutIds
         /\ FromPrep' = FromPrep \cup {c} /\ FromWork' = FromWork \cup {c} /\ FromDev' = FromDev \cup {c}
         /\ FromOutWork' = FromOutWork \cup {c} /\ FromOut' = FromOut \cup {c}
<1>1. WorkCmds' = WorkCmds /\ OutCmds' = OutCmds /\ OutIds' = OutIds
  BY DEF WorkCmds, OutCmds, OutIds
<1>2. InCmds' = InCmds \cup {c}
  <2>1. /\ \A i \in DOMAIN inQueue' : inQueue'[i] = c \/ \E j \in DOMAIN inQueue : inQueue'[i] = inQueue[j]
        /\ \E i \in DOMAIN inQueue' : inQueue'[i] = c
        /\ \A j \in DOMAIN inQueue : \E i \in DOMAIN inQueue' : inQueue'[i] = inQueue[j]
    BY AppendRange, SMTT(30)
  <2> QED
    BY <2>1 DEF InCmds
<1>3. FromPrep' = FromPrep \cup {c}
  BY <1>2 DEF FromPrep
<1>4. FromWork' = FromWork \cup {c}
  BY <1>1, <1>3 DEF FromWork
<1>5. FromDev' = FromDev \cup {c}
  BY <1>4 DEF FromDev
<1>6. FromOutWork' = FromOutWork \cup {c}
  BY <1>1, <1>5 DEF FromOutWork
<1>7. FromOut' = FromOut \cup {c}
  BY <1>6 DEF FromOut
<1> QED
  BY <1>1, <1>2, <1>3, <1>4, <1>5, <1>6, <1>7

LEMMA PrepareGetMoves ==
  ASSUME TypeInv, PrepareGet
  PROVE  /\ prep'.cmd \in InCmds /\ InCmds' \subseteq InCmds /\ InCmds = InCmds' \cup {prep'.cmd}
         /\ WorkCmds' = WorkCmds /\ OutCmds' = OutCmds /\ OutIds' = OutIds
         /\ dev'.cmd = dev.cmd /\ out'.item.cmd = out.item.cmd
         /\ FromPrep = FromPrep' \cup {NoCmd} /\ FromWork = FromWork' \cup {NoCmd}
         /\ FromDev = FromDev' \cup {NoCmd} /\ FromOutWork = FromOutWork' \cup {NoCmd}
         /\ FromOut = FromOut' \cup {NoCmd}
<1>1. /\ inQueue' = Tail(inQueue) /\ inQueue # <<>> /\ UNCHANGED <<workQueue, outWork, outQueue, dev, out>>
  BY DEF PrepareGet
<1>2. inQueue \in Seq(Command) /\ prep.cmd = NoCmd /\ prep'.cmd = Head(inQueue)
  BY PrepareGetTypes DEF TypeInv, LaneTypes
<1>3. /\ prep'.cmd \in InCmds /\ InCmds' \subseteq InCmds /\ InCmds = InCmds' \cup {prep'.cmd}
  BY <1>1, <1>2, TailRange DEF InCmds
<1>4. WorkCmds' = WorkCmds /\ OutCmds' = OutCmds /\ OutIds' = OutIds /\ dev'.cmd = dev.cmd
      /\ out'.item.cmd = out.item.cmd
  BY <1>1 DEF WorkCmds, OutCmds, OutIds
<1>5. FromPrep = FromPrep' \cup {NoCmd}
  BY <1>2, <1>3 DEF FromPrep
<1>6. FromWork = FromWork' \cup {NoCmd}
  BY <1>4, <1>5 DEF FromWork
<1>7. FromDev = FromDev' \cup {NoCmd}
  BY <1>4, <1>6 DEF FromDev
<1>8. FromOutWork = FromOutWork' \cup {NoCmd}
  BY <1>4, <1>7 DEF FromOutWork
<1>9. FromOut = FromOut' \cup {NoCmd}
  BY <1>4, <1>8 DEF FromOut
<1> QED
  BY <1>3, <1>4, <1>5, <1>6, <1>7, <1>8, <1>9

LEMMA PreparePutMoves ==
  ASSUME TypeInv, PreparePut
  PROVE  /\ WorkCmds' = WorkCmds \cup {prep.cmd} /\ InCmds' = InCmds /\ OutCmds' = OutCmds /\ OutIds' = OutIds
         /\ dev'.cmd = dev.cmd /\ out'.item.cmd = out.item.cmd
         /\ FromPrep' = InCmds \cup {NoCmd} /\ FromWork' = FromWork \cup {NoCmd}
         /\ FromDev' = FromDev \cup {NoCmd} /\ FromOutWork' = FromOutWork \cup {NoCmd}
         /\ FromOut' = FromOut \cup {NoCmd}
<1> DEFINE x == [cmd |-> prep.cmd, snap |-> prep.snap, work |-> prep.work]
           T == [cmd : Command, snap : Snap, work : Work]
<1>1. /\ workQueue' = Append(workQueue, x) /\ UNCHANGED <<inQueue, outWork, outQueue, dev, out>>
  BY DEF PreparePut
<1>2. workQueue \in Seq(T) /\ prep'.cmd = NoCmd /\ x \in T /\ x.cmd = prep.cmd
  BY PreparePutTypes DEF TypeInv, LaneTypes
<1> HIDE DEF x, T
<1>3. WorkCmds' = WorkCmds \cup {prep.cmd}
  <2>1. /\ \A i \in DOMAIN workQueue' : workQueue'[i] = x \/ \E j \in DOMAIN workQueue : workQueue'[i] = workQueue[j]
        /\ \E i \in DOMAIN workQueue' : workQueue'[i] = x
        /\ \A j \in DOMAIN workQueue : \E i \in DOMAIN workQueue' : workQueue'[i] = workQueue[j]
    BY <1>1, <1>2, AppendRange
  <2> QED
    BY <1>2, <2>1 DEF WorkCmds
<1>4. InCmds' = InCmds /\ OutCmds' = OutCmds /\ OutIds' = OutIds /\ dev'.cmd = dev.cmd /\ out'.item.cmd = out.item.cmd
  BY <1>1 DEF InCmds, OutCmds, OutIds
<1>5. FromPrep' = InCmds \cup {NoCmd}
  BY <1>2, <1>4 DEF FromPrep
<1>6. FromWork' = FromWork \cup {NoCmd}
  BY <1>3, <1>5 DEF FromWork, FromPrep
<1>7. FromDev' = FromDev \cup {NoCmd}
  BY <1>4, <1>6 DEF FromDev
<1>8. FromOutWork' = FromOutWork \cup {NoCmd}
  BY <1>4, <1>7 DEF FromOutWork
<1>9. FromOut' = FromOut \cup {NoCmd}
  BY <1>4, <1>8 DEF FromOut
<1> QED
  BY <1>3, <1>4, <1>5, <1>6, <1>7, <1>8, <1>9

LEMMA DeviceGetMoves ==
  ASSUME TypeInv, DeviceGet
  PROVE  /\ dev'.cmd \in WorkCmds /\ WorkCmds' \subseteq WorkCmds /\ WorkCmds = WorkCmds' \cup {dev'.cmd}
         /\ InCmds' = InCmds /\ OutCmds' = OutCmds /\ OutIds' = OutIds
         /\ prep'.cmd = prep.cmd /\ out'.item.cmd = out.item.cmd
         /\ FromPrep' = FromPrep /\ FromWork = FromWork' \cup {dev'.cmd}
         /\ FromDev = FromDev' \cup {NoCmd} /\ FromOutWork = FromOutWork' \cup {NoCmd}
         /\ FromOut = FromOut' \cup {NoCmd}
<1> DEFINE T == [cmd : Command, snap : Snap, work : Work]
<1>1. /\ workQueue' = Tail(workQueue) /\ workQueue # <<>> /\ UNCHANGED <<inQueue, outWork, outQueue, prep, out>>
  BY DEF DeviceGet
<1>2. workQueue \in Seq(T) /\ dev.cmd = NoCmd /\ dev'.cmd = Head(workQueue).cmd
  BY DeviceGetTypes DEF TypeInv, LaneTypes
<1> HIDE DEF T
<1>3. dev'.cmd \in WorkCmds /\ WorkCmds' \subseteq WorkCmds /\ WorkCmds = WorkCmds' \cup {dev'.cmd}
  <2>1. /\ \A i \in DOMAIN workQueue' : \E j \in DOMAIN workQueue : workQueue'[i] = workQueue[j]
        /\ \E j \in DOMAIN workQueue : Head(workQueue) = workQueue[j]
        /\ \A j \in DOMAIN workQueue : \/ workQueue[j] = Head(workQueue)
                                       \/ \E i \in DOMAIN workQueue' : workQueue'[i] = workQueue[j]
    BY <1>1, <1>2, TailRange
  <2> QED
    BY <1>2, <2>1 DEF WorkCmds
<1>4. InCmds' = InCmds /\ OutCmds' = OutCmds /\ OutIds' = OutIds /\ prep'.cmd = prep.cmd /\ out'.item.cmd = out.item.cmd
  BY <1>1 DEF InCmds, OutCmds, OutIds
<1>5. FromPrep' = FromPrep
  BY <1>4 DEF FromPrep
<1>6. FromWork = FromWork' \cup {dev'.cmd}
  BY <1>3, <1>5 DEF FromWork
<1>7. FromDev = FromDev' \cup {NoCmd}
  BY <1>2, <1>6 DEF FromDev
<1>8. FromOutWork = FromOutWork' \cup {NoCmd}
  BY <1>4, <1>7 DEF FromOutWork
<1>9. FromOut = FromOut' \cup {NoCmd}
  BY <1>4, <1>8 DEF FromOut
<1> QED
  BY <1>3, <1>4, <1>5, <1>6, <1>7, <1>8, <1>9

\* The device lane hands its command on.
Hands(x) == /\ x \in Item /\ x.cmd = dev.cmd /\ outWork' = Append(outWork, x) /\ dev'.cmd = NoCmd
            /\ UNCHANGED <<inQueue, workQueue, outQueue, prep, out>>

LEMMA HandsMoves ==
  ASSUME TypeInv, NEW x, Hands(x)
  PROVE  /\ OutCmds' = OutCmds \cup {dev.cmd} /\ InCmds' = InCmds /\ WorkCmds' = WorkCmds /\ OutIds' = OutIds
         /\ prep'.cmd = prep.cmd /\ out'.item.cmd = out.item.cmd
         /\ FromPrep' = FromPrep /\ FromWork' = FromWork /\ FromDev' = FromWork \cup {NoCmd}
         /\ FromOutWork' = FromOutWork \cup {NoCmd} /\ FromOut' = FromOut \cup {NoCmd}
<1>1. outWork \in Seq(Item) /\ x \in Item /\ outWork' = Append(outWork, x)
  BY DEF TypeInv, LaneTypes, Hands
<1>2. OutCmds' = OutCmds \cup {dev.cmd}
  <2>1. /\ \A i \in DOMAIN outWork' : outWork'[i] = x \/ \E j \in DOMAIN outWork : outWork'[i] = outWork[j]
        /\ \E i \in DOMAIN outWork' : outWork'[i] = x
        /\ \A j \in DOMAIN outWork : \E i \in DOMAIN outWork' : outWork'[i] = outWork[j]
    BY <1>1, AppendRange, SMTT(30)
  <2> QED
    BY <2>1 DEF OutCmds, Hands
<1>3. InCmds' = InCmds /\ WorkCmds' = WorkCmds /\ OutIds' = OutIds /\ prep'.cmd = prep.cmd /\ out'.item.cmd = out.item.cmd
  BY DEF InCmds, WorkCmds, OutIds, Hands
<1>4. FromPrep' = FromPrep
  BY <1>3 DEF FromPrep
<1>5. FromWork' = FromWork
  BY <1>3, <1>4 DEF FromWork
<1>6. FromDev' = FromWork \cup {NoCmd}
  BY <1>5 DEF FromDev, Hands
<1>7. FromOutWork' = FromOutWork \cup {NoCmd}
  BY <1>2, <1>6 DEF FromOutWork, FromDev
<1>8. FromOut' = FromOut \cup {NoCmd}
  BY <1>3, <1>7 DEF FromOut
<1> QED
  BY <1>2, <1>3, <1>4, <1>5, <1>6, <1>7, <1>8

LEMMA OutputGetMoves ==
  ASSUME TypeInv, OutputGet
  PROVE  /\ out'.item.cmd \in OutCmds /\ OutCmds' \subseteq OutCmds /\ OutCmds = OutCmds' \cup {out'.item.cmd}
         /\ InCmds' = InCmds /\ WorkCmds' = WorkCmds /\ OutIds' = OutIds /\ out.item.cmd = NoCmd
         /\ prep'.cmd = prep.cmd /\ dev'.cmd = dev.cmd
         /\ FromPrep' = FromPrep /\ FromWork' = FromWork /\ FromDev' = FromDev
         /\ FromOutWork = FromOutWork' \cup {out'.item.cmd} /\ FromOut = FromOut' \cup {NoCmd}
<1>1. /\ outWork' = Tail(outWork) /\ outWork # <<>> /\ UNCHANGED <<inQueue, workQueue, outQueue, prep, dev>>
  BY DEF OutputGet
<1>2. outWork \in Seq(Item) /\ out.item.cmd = NoCmd /\ out'.item = Head(outWork)
  BY OutputGetTypes, Nothing DEF TypeInv, LaneTypes
<1>3. out'.item.cmd \in OutCmds /\ OutCmds' \subseteq OutCmds /\ OutCmds = OutCmds' \cup {out'.item.cmd}
  <2>1. /\ \A i \in DOMAIN outWork' : \E j \in DOMAIN outWork : outWork'[i] = outWork[j]
        /\ \E j \in DOMAIN outWork : Head(outWork) = outWork[j]
        /\ \A j \in DOMAIN outWork : \/ outWork[j] = Head(outWork)
                                     \/ \E i \in DOMAIN outWork' : outWork'[i] = outWork[j]
    BY <1>1, <1>2, TailRange
  <2> QED
    BY <1>2, <2>1 DEF OutCmds
<1>4. InCmds' = InCmds /\ WorkCmds' = WorkCmds /\ OutIds' = OutIds /\ prep'.cmd = prep.cmd /\ dev'.cmd = dev.cmd
  BY <1>1 DEF InCmds, WorkCmds, OutIds
<1>5. FromPrep' = FromPrep
  BY <1>4 DEF FromPrep
<1>6. FromWork' = FromWork
  BY <1>4, <1>5 DEF FromWork
<1>7. FromDev' = FromDev
  BY <1>4, <1>6 DEF FromDev
<1>8. FromOutWork = FromOutWork' \cup {out'.item.cmd}
  BY <1>3, <1>7 DEF FromOutWork
<1>9. FromOut = FromOut' \cup {NoCmd}
  BY <1>2, <1>8 DEF FromOut
<1> QED
  BY <1>2, <1>3, <1>4, <1>5, <1>6, <1>7, <1>8, <1>9

\* The output lane is done with its item: published, or a control command.
LEMMA OutputDoneMoves ==
  ASSUME out'.item = NoItem, UNCHANGED <<inQueue, workQueue, outWork, prep>>, dev'.cmd = dev.cmd
  PROVE  /\ InCmds' = InCmds /\ WorkCmds' = WorkCmds /\ OutCmds' = OutCmds /\ out'.item.cmd = NoCmd
         /\ FromPrep' = FromPrep /\ FromWork' = FromWork /\ FromDev' = FromDev
         /\ FromOutWork' = FromOutWork /\ FromOut' = FromOutWork \cup {NoCmd}
<1>1. InCmds' = InCmds /\ WorkCmds' = WorkCmds /\ OutCmds' = OutCmds /\ out'.item.cmd = NoCmd
  BY Nothing DEF InCmds, WorkCmds, OutCmds
<1>2. FromPrep' = FromPrep
  BY <1>1 DEF FromPrep
<1>3. FromWork' = FromWork
  BY <1>1, <1>2 DEF FromWork
<1>4. FromDev' = FromDev
  BY <1>3 DEF FromDev
<1>5. FromOutWork' = FromOutWork
  BY <1>1, <1>4 DEF FromOutWork
<1>6. FromOut' = FromOutWork \cup {NoCmd}
  BY <1>1, <1>5 DEF FromOut
<1> QED
  BY <1>1, <1>2, <1>3, <1>4, <1>5, <1>6

-----------------------------------------------------------------------------
(***************************************************************************)
(* Order.                                                                  *)
(***************************************************************************)
LEMMA SortedTail ==
  ASSUME NEW S, NEW q \in Seq(S), q # <<>>, Sorted(q)
  PROVE  /\ Sorted(Tail(q))
         /\ \A i \in DOMAIN Tail(q) : Head(q).id # 0 /\ Tail(q)[i].id # 0 => Head(q).id < Tail(q)[i].id
<1>1. ASSUME NEW i \in DOMAIN Tail(q), NEW j \in DOMAIN Tail(q), i < j, Tail(q)[i].id # 0, Tail(q)[j].id # 0
      PROVE  Tail(q)[i].id < Tail(q)[j].id
  <2>1. /\ i + 1 \in DOMAIN q /\ Tail(q)[i] = q[i + 1] /\ j + 1 \in DOMAIN q /\ Tail(q)[j] = q[j + 1] /\ i + 1 < j + 1
    BY <1>1, TailFacts
  <2> QED
    BY <1>1, <2>1 DEF Sorted
<1>2. ASSUME NEW i \in DOMAIN Tail(q), Head(q).id # 0, Tail(q)[i].id # 0 PROVE Head(q).id < Tail(q)[i].id
  <2>1. i + 1 \in DOMAIN q /\ Tail(q)[i] = q[i + 1] /\ 1 < i + 1 /\ 1 \in DOMAIN q /\ Head(q) = q[1]
    BY TailFacts
  <2> QED
    BY <1>2, <2>1 DEF Sorted
<1> QED
  BY <1>1, <1>2 DEF Sorted

LEMMA SortedAppend ==
  ASSUME NEW S, NEW q \in Seq(S), NEW x \in S, Sorted(q),
         \A i \in DOMAIN q : q[i].id # 0 /\ x.id # 0 => q[i].id < x.id
  PROVE  Sorted(Append(q, x))
<1> DEFINE a == Append(q, x)
<1>1. ASSUME NEW i \in DOMAIN a, NEW j \in DOMAIN a, i < j, a[i].id # 0, a[j].id # 0
      PROVE  a[i].id < a[j].id
  <2>1. i \in DOMAIN q /\ a[i] = q[i]
    BY <1>1, AppendFacts
  <2>2. (j \in DOMAIN q /\ a[j] = q[j]) \/ a[j] = x
    BY AppendFacts
  <2> HIDE DEF a
  <2> QED
    BY <1>1, <2>1, <2>2 DEF Sorted
<1> QED
  BY <1>1 DEF Sorted

LEMMA ItemsSortedTail ==
  ASSUME NEW S, NEW q \in Seq(S), q # <<>>, ItemsSorted(q)
  PROVE  /\ ItemsSorted(Tail(q))
         /\ \A i \in DOMAIN Tail(q) :
              Head(q).cmd.id # 0 /\ Tail(q)[i].cmd.id # 0 => Head(q).cmd.id < Tail(q)[i].cmd.id
<1>1. ASSUME NEW i \in DOMAIN Tail(q), NEW j \in DOMAIN Tail(q), i < j,
             Tail(q)[i].cmd.id # 0, Tail(q)[j].cmd.id # 0
      PROVE  Tail(q)[i].cmd.id < Tail(q)[j].cmd.id
  <2>1. /\ i + 1 \in DOMAIN q /\ Tail(q)[i] = q[i + 1] /\ j + 1 \in DOMAIN q /\ Tail(q)[j] = q[j + 1] /\ i + 1 < j + 1
    BY <1>1, TailFacts
  <2> QED
    BY <1>1, <2>1 DEF ItemsSorted
<1>2. ASSUME NEW i \in DOMAIN Tail(q), Head(q).cmd.id # 0, Tail(q)[i].cmd.id # 0
      PROVE  Head(q).cmd.id < Tail(q)[i].cmd.id
  <2>1. i + 1 \in DOMAIN q /\ Tail(q)[i] = q[i + 1] /\ 1 < i + 1 /\ 1 \in DOMAIN q /\ Head(q) = q[1]
    BY TailFacts
  <2> QED
    BY <1>2, <2>1 DEF ItemsSorted
<1> QED
  BY <1>1, <1>2 DEF ItemsSorted

LEMMA ItemsSortedAppend ==
  ASSUME NEW S, NEW q \in Seq(S), NEW x \in S, ItemsSorted(q),
         \A i \in DOMAIN q : q[i].cmd.id # 0 /\ x.cmd.id # 0 => q[i].cmd.id < x.cmd.id
  PROVE  ItemsSorted(Append(q, x))
<1> DEFINE a == Append(q, x)
<1>1. ASSUME NEW i \in DOMAIN a, NEW j \in DOMAIN a, i < j, a[i].cmd.id # 0, a[j].cmd.id # 0
      PROVE  a[i].cmd.id < a[j].cmd.id
  <2>1. i \in DOMAIN q /\ a[i] = q[i]
    BY <1>1, AppendFacts
  <2>2. (j \in DOMAIN q /\ a[j] = q[j]) \/ a[j] = x
    BY AppendFacts
  <2> HIDE DEF a
  <2> QED
    BY <1>1, <2>1, <2>2 DEF ItemsSorted
<1> QED
  BY <1>1 DEF ItemsSorted

\* Everything on its way is a command with a natural id.
LEMMA FromTypes ==
  ASSUME TypeInv
  PROVE  /\ FromOut \subseteq Command \cup {NoCmd} /\ \A c \in FromOut : c.id \in Nat
         /\ FromOutWork \subseteq FromOut /\ FromDev \subseteq FromOutWork /\ FromWork \subseteq FromDev
         /\ FromPrep \subseteq FromWork /\ InCmds \subseteq FromPrep /\ WorkCmds \subseteq FromWork
         /\ OutCmds \subseteq FromOutWork /\ prep.cmd \in FromPrep /\ dev.cmd \in FromDev /\ out.item.cmd \in FromOut
         /\ OutIds \subseteq Nat /\ 0 \notin OutIds
<1>1. InCmds \subseteq Command
  BY DEF InCmds, TypeInv, LaneTypes
<1>2. WorkCmds \subseteq Command
  <2>1. \A i \in DOMAIN workQueue : workQueue[i] \in [cmd : Command, snap : Snap, work : Work]
    BY QueueFacts DEF TypeInv, LaneTypes
  <2> QED
    BY <2>1 DEF WorkCmds
<1>3. OutCmds \subseteq Command \cup {NoCmd}
  <2>1. \A i \in DOMAIN outWork : outWork[i] \in Item
    BY DEF TypeInv, LaneTypes
  <2> QED
    BY <2>1, ItemFields DEF OutCmds
<1>4. prep.cmd \in Command \cup {NoCmd} /\ dev.cmd \in Command \cup {NoCmd}
  BY DEF TypeInv, LaneTypes
<1>5. out.item.cmd \in Command \cup {NoCmd}
  BY ItemFields DEF TypeInv, LaneTypes
<1>6. FromOut \subseteq Command \cup {NoCmd}
  BY <1>1, <1>2, <1>3, <1>4, <1>5 DEF FromOut, FromOutWork, FromDev, FromWork, FromPrep
<1>7. \A c \in FromOut : c.id \in Nat
  BY <1>6, CommandFields
<1>8. OutIds \subseteq Nat /\ 0 \notin OutIds
  <2>1. \A i \in DOMAIN outQueue : outQueue[i] \in [id : 1 .. MaxSteps, error : BOOLEAN]
    BY QueueFacts DEF TypeInv, LaneTypes
  <2>2. \A n \in 1 .. MaxSteps : n \in Nat /\ n # 0
    BY Bounds_
  <2> QED
    BY <2>1, <2>2 DEF OutIds
<1> QED
  BY <1>6, <1>7, <1>8 DEF FromOut, FromOutWork, FromDev, FromWork, FromPrep

\* The parts of OrderInv.
LEMMA OrderParts ==
  OrderInv <=>
    /\ Sorted(inQueue) /\ ItemsSorted(workQueue) /\ ItemsSorted(outWork) /\ Sorted(outQueue)
    /\ \A c \in InCmds : prep.cmd.id # 0 /\ c.id # 0 => prep.cmd.id < c.id
    /\ \A a \in WorkCmds : \A b \in FromPrep : a.id # 0 /\ b.id # 0 => a.id < b.id
    /\ \A c \in FromWork : dev.cmd.id # 0 /\ c.id # 0 => dev.cmd.id < c.id
    /\ \A a \in OutCmds : \A b \in FromDev : a.id # 0 /\ b.id # 0 => a.id < b.id
    /\ \A c \in FromOutWork : out.item.cmd.id # 0 /\ c.id # 0 => out.item.cmd.id < c.id
    /\ \A n \in OutIds : \A c \in FromOut : n # 0 /\ c.id # 0 => n < c.id
    /\ \A c \in FromOut : c.id <= sent
BY DEF OrderInv, Precedes, OutIds

LEMMA RestsOrder ==
  ASSUME OrderInv, Rests, sent' = sent
  PROVE  OrderInv'
BY RestsMoves DEF OrderInv, Precedes, Rests, Sorted, ItemsSorted

LEMMA PrepareGetOrder ==
  ASSUME TypeInv, OrderInv, PrepareGet
  PROVE  OrderInv'
<1>1. /\ inQueue \in Seq(Command) /\ inQueue # <<>> /\ inQueue' = Tail(inQueue) /\ prep'.cmd = Head(inQueue)
      /\ UNCHANGED <<workQueue, outWork, outQueue, sent>>
  BY PrepareGetTypes DEF PrepareGet, TypeInv, LaneTypes, engineVars
<1>2. /\ Sorted(Tail(inQueue))
      /\ \A i \in DOMAIN Tail(inQueue) :
           Head(inQueue).id # 0 /\ Tail(inQueue)[i].id # 0 => Head(inQueue).id < Tail(inQueue)[i].id
  BY <1>1, SortedTail DEF OrderInv
<1>3. Sorted(inQueue)' /\ ItemsSorted(workQueue)' /\ ItemsSorted(outWork)' /\ Sorted(outQueue)'
  BY <1>1, <1>2 DEF OrderInv, Sorted, ItemsSorted
<1>4. \A c \in InCmds' : prep'.cmd.id # 0 /\ c.id # 0 => prep'.cmd.id < c.id
  BY <1>1, <1>2 DEF InCmds
<1> QED
  BY <1>1, <1>3, <1>4, PrepareGetMoves DEF OrderInv, Precedes, OutIds

LEMMA PreparePutOrder ==
  ASSUME TypeInv, OrderInv, PreparePut
  PROVE  OrderInv'
<1> DEFINE x == [cmd |-> prep.cmd, snap |-> prep.snap, work |-> prep.work]
           T == [cmd : Command, snap : Snap, work : Work]
<1>1. /\ workQueue \in Seq(T) /\ x \in T /\ x.cmd = prep.cmd /\ workQueue' = Append(workQueue, x)
      /\ UNCHANGED <<inQueue, outWork, outQueue, sent>> /\ prep'.cmd = NoCmd
  BY PreparePutTypes DEF PreparePut, TypeInv, LaneTypes, engineVars
<1> HIDE DEF x, T
<1>2. \A i \in DOMAIN workQueue : workQueue[i].cmd.id # 0 /\ x.cmd.id # 0 => workQueue[i].cmd.id < x.cmd.id
  BY <1>1 DEF OrderInv, Precedes, WorkCmds, FromPrep
<1>3. ItemsSorted(Append(workQueue, x))
  BY <1>1, <1>2, ItemsSortedAppend DEF OrderInv
<1>4. Sorted(inQueue)' /\ ItemsSorted(workQueue)' /\ ItemsSorted(outWork)' /\ Sorted(outQueue)'
  BY <1>1, <1>3 DEF OrderInv, Sorted, ItemsSorted
<1>5. NoCmd.id = 0 /\ sent \in Nat
  BY Nothing DEF TypeInv, EngineTypes
<1> QED
  BY <1>1, <1>4, <1>5, PreparePutMoves DEF OrderInv, Precedes, OutIds, FromPrep

LEMMA DeviceGetOrder ==
  ASSUME TypeInv, OrderInv, DeviceGet
  PROVE  OrderInv'
<1> DEFINE T == [cmd : Command, snap : Snap, work : Work]
<1>1. /\ workQueue \in Seq(T) /\ workQueue # <<>> /\ workQueue' = Tail(workQueue) /\ dev'.cmd = Head(workQueue).cmd
      /\ UNCHANGED <<inQueue, outWork, outQueue, sent>>
  BY DeviceGetTypes DEF DeviceGet, TypeInv, LaneTypes, engineVars
<1> HIDE DEF T
<1>2. /\ ItemsSorted(Tail(workQueue))
      /\ \A i \in DOMAIN Tail(workQueue) : Head(workQueue).cmd.id # 0 /\ Tail(workQueue)[i].cmd.id # 0
           => Head(workQueue).cmd.id < Tail(workQueue)[i].cmd.id
  BY <1>1, ItemsSortedTail DEF OrderInv
<1>3. Sorted(inQueue)' /\ ItemsSorted(workQueue)' /\ ItemsSorted(outWork)' /\ Sorted(outQueue)'
  BY <1>1, <1>2 DEF OrderInv, Sorted, ItemsSorted
<1>4. \A c \in WorkCmds' : dev'.cmd.id # 0 /\ c.id # 0 => dev'.cmd.id < c.id
  BY <1>1, <1>2 DEF WorkCmds
<1>5. \A c \in FromPrep' : dev'.cmd.id # 0 /\ c.id # 0 => dev'.cmd.id < c.id
  BY DeviceGetMoves DEF OrderInv, Precedes
<1>6. \A c \in FromWork' : dev'.cmd.id # 0 /\ c.id # 0 => dev'.cmd.id < c.id
  BY <1>4, <1>5 DEF FromWork
<1> QED
  BY <1>1, <1>3, <1>6, DeviceGetMoves DEF OrderInv, Precedes, OutIds

LEMMA HandsOrder ==
  ASSUME TypeInv, OrderInv, NEW x, Hands(x), sent' = sent
  PROVE  OrderInv'
<1>1. /\ outWork \in Seq(Item) /\ x \in Item /\ x.cmd = dev.cmd /\ outWork' = Append(outWork, x)
      /\ UNCHANGED <<inQueue, workQueue, outQueue>> /\ dev'.cmd = NoCmd
  BY DEF Hands, TypeInv, LaneTypes
<1>2. \A i \in DOMAIN outWork : outWork[i].cmd.id # 0 /\ x.cmd.id # 0 => outWork[i].cmd.id < x.cmd.id
  BY <1>1 DEF OrderInv, Precedes, OutCmds, FromDev
<1>3. ItemsSorted(Append(outWork, x))
  BY <1>1, <1>2, ItemsSortedAppend DEF OrderInv
<1>4. Sorted(inQueue)' /\ ItemsSorted(workQueue)' /\ ItemsSorted(outWork)' /\ Sorted(outQueue)'
  BY <1>1, <1>3 DEF OrderInv, Sorted, ItemsSorted
<1>5. NoCmd.id = 0 /\ sent \in Nat
  BY Nothing DEF TypeInv, EngineTypes
<1> QED
  BY <1>1, <1>4, <1>5, HandsMoves DEF OrderInv, Precedes, OutIds, FromDev

LEMMA OutputGetOrder ==
  ASSUME TypeInv, OrderInv, OutputGet
  PROVE  OrderInv'
<1>1. /\ outWork \in Seq(Item) /\ outWork # <<>> /\ outWork' = Tail(outWork) /\ out'.item = Head(outWork)
      /\ UNCHANGED <<inQueue, workQueue, outQueue, sent>>
  BY OutputGetTypes DEF OutputGet, TypeInv, LaneTypes, engineVars
<1>2. /\ ItemsSorted(Tail(outWork))
      /\ \A i \in DOMAIN Tail(outWork) : Head(outWork).cmd.id # 0 /\ Tail(outWork)[i].cmd.id # 0
           => Head(outWork).cmd.id < Tail(outWork)[i].cmd.id
  BY <1>1, ItemsSortedTail DEF OrderInv
<1>3. Sorted(inQueue)' /\ ItemsSorted(workQueue)' /\ ItemsSorted(outWork)' /\ Sorted(outQueue)'
  BY <1>1, <1>2 DEF OrderInv, Sorted, ItemsSorted
<1>4. \A c \in OutCmds' : out'.item.cmd.id # 0 /\ c.id # 0 => out'.item.cmd.id < c.id
  BY <1>1, <1>2 DEF OutCmds
<1>5. \A c \in FromDev' : out'.item.cmd.id # 0 /\ c.id # 0 => out'.item.cmd.id < c.id
  BY OutputGetMoves DEF OrderInv, Precedes
<1>6. \A c \in FromOutWork' : out'.item.cmd.id # 0 /\ c.id # 0 => out'.item.cmd.id < c.id
  BY <1>4, <1>5 DEF FromOutWork
<1> QED
  BY <1>1, <1>3, <1>6, OutputGetMoves DEF OrderInv, Precedes, OutIds

LEMMA OutputPublishMoves ==
  ASSUME TypeInv, OutputPublish
  PROVE  /\ OutIds' = OutIds \cup {out.item.cmd.id} /\ out.item.cmd \in Step
         /\ InCmds' = InCmds /\ WorkCmds' = WorkCmds /\ OutCmds' = OutCmds /\ out'.item.cmd = NoCmd
         /\ FromPrep' = FromPrep /\ FromWork' = FromWork /\ FromDev' = FromDev
         /\ FromOutWork' = FromOutWork /\ FromOut' = FromOutWork \cup {NoCmd}
<1>1. UNCHANGED <<inQueue, workQueue, outWork, prep, dev>>
  BY DEF OutputPublish
<1>2. out.item.cmd \in Step /\ out'.item = NoItem
  BY OutputPublishTypes
<1> DEFINE T == [id : 1 .. MaxSteps, error : BOOLEAN]
<1>3. PICK x \in T : x.id = out.item.cmd.id /\ outQueue' = Append(outQueue, x)
  BY OutputPublishTypes
<1>4. outQueue \in Seq(T)
  BY DEF TypeInv, LaneTypes
<1> HIDE DEF T
<1>5. OutIds' = OutIds \cup {out.item.cmd.id}
  <2>1. /\ \A i \in DOMAIN outQueue' : outQueue'[i] = x \/ \E j \in DOMAIN outQueue : outQueue'[i] = outQueue[j]
        /\ \E i \in DOMAIN outQueue' : outQueue'[i] = x
        /\ \A j \in DOMAIN outQueue : \E i \in DOMAIN outQueue' : outQueue'[i] = outQueue[j]
    BY <1>3, <1>4, AppendRange
  <2> QED
    BY <1>3, <2>1 DEF OutIds
<1> QED
  BY <1>1, <1>2, <1>5, OutputDoneMoves

LEMMA OutputPublishOrder ==
  ASSUME TypeInv, OrderInv, OutputPublish
  PROVE  OrderInv'
<1> DEFINE T == [id : 1 .. MaxSteps, error : BOOLEAN]
<1>1. UNCHANGED <<inQueue, workQueue, outWork, prep, dev, sent>> /\ outQueue \in Seq(T)
  BY DEF OutputPublish, TypeInv, LaneTypes, engineVars
<1>2. PICK x \in T : x.id = out.item.cmd.id /\ outQueue' = Append(outQueue, x)
  BY OutputPublishTypes
<1> HIDE DEF T
<1>3. \A i \in DOMAIN outQueue : outQueue[i].id # 0 /\ x.id # 0 => outQueue[i].id < x.id
  BY <1>2 DEF OrderInv, Precedes, FromOut
<1>4. Sorted(Append(outQueue, x))
  BY <1>1, <1>2, <1>3, SortedAppend DEF OrderInv
<1>5. Sorted(inQueue)' /\ ItemsSorted(workQueue)' /\ ItemsSorted(outWork)' /\ Sorted(outQueue)'
  BY <1>1, <1>2, <1>4 DEF OrderInv, Sorted, ItemsSorted
<1>6. NoCmd.id = 0 /\ sent \in Nat /\ FromOutWork \subseteq FromOut
  BY Nothing, FromTypes DEF TypeInv, EngineTypes
<1>7. \A n \in OutIds' : \A c \in FromOut' : n # 0 /\ c.id # 0 => n < c.id
  BY <1>6, OutputPublishMoves DEF OrderInv, Precedes, OutIds
<1>8. \A a \in {outQueue'[i] : i \in DOMAIN outQueue'} : \A c \in FromOut' : a.id # 0 /\ c.id # 0 => a.id < c.id
  BY <1>7 DEF OutIds
<1> QED
  BY <1>1, <1>5, <1>6, <1>8, OutputPublishMoves DEF OrderInv, Precedes

LEMMA OutputControlMoves ==
  ASSUME TypeInv, AtBarrier, OutputProfile \/ OutputShutdown
  PROVE  /\ OutIds' = OutIds /\ out.item.cmd.id = 0 /\ dev'.cmd = dev.cmd
         /\ InCmds' = InCmds /\ WorkCmds' = WorkCmds /\ OutCmds' = OutCmds /\ out'.item.cmd = NoCmd
         /\ FromPrep' = FromPrep /\ FromWork' = FromWork /\ FromDev' = FromDev
         /\ FromOutWork' = FromOutWork /\ FromOut' = FromOutWork \cup {NoCmd}
<1>1. UNCHANGED <<inQueue, workQueue, outWork, outQueue, prep>>
  BY DEF OutputProfile, OutputShutdown
<1>2. out.item.cmd.id = 0 /\ out'.item = NoItem
  BY OutputControlTypes, ControlFields
<1>3. dev'.cmd = dev.cmd
  <2>1. CASE OutputProfile
    BY <2>1 DEF OutputProfile, AtBarrier, TypeInv, LaneHolds, DeviceIdle
  <2>2. CASE OutputShutdown
    BY <2>2 DEF OutputShutdown
  <2> QED
    BY <2>1, <2>2
<1>4. OutIds' = OutIds
  BY <1>1 DEF OutIds
<1> QED
  BY <1>1, <1>2, <1>3, <1>4, OutputDoneMoves

LEMMA OutputControlOrder ==
  ASSUME TypeInv, AtBarrier, OrderInv, OutputProfile \/ OutputShutdown
  PROVE  OrderInv'
<1>1. UNCHANGED <<inQueue, workQueue, outWork, outQueue, prep, sent>>
  BY DEF OutputProfile, OutputShutdown, engineVars
<1>2. Sorted(inQueue)' /\ ItemsSorted(workQueue)' /\ ItemsSorted(outWork)' /\ Sorted(outQueue)'
  BY <1>1 DEF OrderInv, Sorted, ItemsSorted
<1>3. NoCmd.id = 0 /\ sent \in Nat /\ FromOutWork \subseteq FromOut
  BY Nothing, FromTypes DEF TypeInv, EngineTypes
<1> QED
  BY <1>1, <1>2, <1>3, OutputControlMoves DEF OrderInv, Precedes, OutIds

\* A step comes in: it is the youngest.
LEMMA SentOrder ==
  ASSUME TypeInv, OrderInv, NEW c \in Command, inQueue' = Append(inQueue, c),
         UNCHANGED <<workQueue, outWork, outQueue, prep, dev, out>>,
         \/ c.id = 0 /\ sent' = sent
         \/ c.id = sent + 1 /\ sent' = sent + 1,
         \A n \in OutIds : n <= sent
  PROVE  OrderInv'
<1>1. inQueue \in Seq(Command) /\ sent \in Nat
  BY Bounds_ DEF TypeInv, LaneTypes, EngineTypes
<1>2. /\ InCmds' = InCmds \cup {c} /\ WorkCmds' = WorkCmds /\ OutCmds' = OutCmds /\ OutIds' = OutIds
      /\ FromPrep' = FromPrep \cup {c} /\ FromWork' = FromWork \cup {c} /\ FromDev' = FromDev \cup {c}
      /\ FromOutWork' = FromOutWork \cup {c} /\ FromOut' = FromOut \cup {c}
  BY <1>1, SentMoves
<1>3. \A b \in FromOut : b.id \in Nat /\ b.id <= sent /\ (c.id # 0 => b.id < c.id)
  BY <1>1, FromTypes DEF OrderInv
<1>4. \A n \in OutIds : n \in Nat /\ (c.id # 0 => n < c.id)
  BY <1>1, FromTypes
<1>5. c.id \in Nat /\ sent' \in Nat /\ sent <= sent' /\ c.id <= sent'
  BY <1>1
<1>6. \A i \in DOMAIN inQueue : inQueue[i].id # 0 /\ c.id # 0 => inQueue[i].id < c.id
  BY <1>3, FromTypes DEF InCmds
<1>7. Sorted(Append(inQueue, c))
  BY <1>1, <1>6, SortedAppend DEF OrderInv
<1>8. Sorted(inQueue)' /\ ItemsSorted(workQueue)' /\ ItemsSorted(outWork)' /\ Sorted(outQueue)'
  BY <1>7 DEF OrderInv, Sorted, ItemsSorted
<1>9. /\ FromOutWork \subseteq FromOut /\ FromDev \subseteq FromOut /\ WorkCmds \subseteq FromOut
      /\ OutCmds \subseteq FromOut /\ InCmds \subseteq FromOut
      /\ prep.cmd \in FromOut /\ dev.cmd \in FromOut /\ out.item.cmd \in FromOut
  BY FromTypes
<1>10. Precedes({prep.cmd}, InCmds)' /\ Precedes(WorkCmds, FromPrep)'
  BY <1>2, <1>3, <1>9 DEF OrderInv, Precedes
<1>11. Precedes({dev.cmd}, FromWork)' /\ Precedes(OutCmds, FromDev)'
  BY <1>2, <1>3, <1>9 DEF OrderInv, Precedes
<1>12. Precedes({out.item.cmd}, FromOutWork)'
  BY <1>2, <1>3, <1>9 DEF OrderInv, Precedes
<1>13. Precedes({outQueue[i] : i \in DOMAIN outQueue}, FromOut)'
  BY <1>2, <1>4 DEF OrderInv, Precedes, OutIds
<1>14. \A b \in FromOut' : b.id <= sent'
  BY <1>1, <1>2, <1>3, <1>5
<1> QED
  BY <1>8, <1>10, <1>11, <1>12, <1>13, <1>14 DEF OrderInv

\* The engine takes a result.
LEMMA ReceiveMoves ==
  ASSUME TypeInv, OrderInv, Receive
  PROVE  /\ outQueue # <<>> /\ outQueue' = Tail(outQueue) /\ Head(outQueue).id \in OutIds
         /\ OutIds' = OutIds \ {Head(outQueue).id}
         /\ \A n \in OutIds : Head(outQueue).id <= n
         /\ InCmds' = InCmds /\ WorkCmds' = WorkCmds /\ OutCmds' = OutCmds
         /\ FromPrep' = FromPrep /\ FromWork' = FromWork /\ FromDev' = FromDev
         /\ FromOutWork' = FromOutWork /\ FromOut' = FromOut
<1> DEFINE T == [id : 1 .. MaxSteps, error : BOOLEAN]
<1>1. /\ outQueue # <<>> /\ outQueue' = Tail(outQueue) /\ outQueue \in Seq(T)
      /\ UNCHANGED <<inQueue, workQueue, outWork, prep, dev, out>>
  BY DEF Receive, TypeInv, LaneTypes
<1> HIDE DEF T
<1>2. /\ \A i \in DOMAIN outQueue' : \E j \in DOMAIN outQueue : outQueue'[i] = outQueue[j]
      /\ \E j \in DOMAIN outQueue : Head(outQueue) = outQueue[j]
      /\ \A j \in DOMAIN outQueue : \/ outQueue[j] = Head(outQueue)
                                    \/ \E i \in DOMAIN outQueue' : outQueue'[i] = outQueue[j]
  BY <1>1, TailRange
<1>3. \A i \in DOMAIN outQueue' :
        Head(outQueue).id # 0 /\ outQueue'[i].id # 0 => Head(outQueue).id < outQueue'[i].id
  BY <1>1, SortedTail DEF OrderInv
<1>4. \A n \in OutIds : n \in Nat /\ n # 0
  BY FromTypes
<1>5. Head(outQueue).id \in OutIds
  BY <1>2 DEF OutIds
<1>6. \A n \in OutIds' : n \in OutIds /\ Head(outQueue).id < n
  BY <1>2, <1>3, <1>4, <1>5 DEF OutIds
<1>7. \A n \in OutIds : n = Head(outQueue).id \/ n \in OutIds'
  BY <1>2 DEF OutIds
<1>8. OutIds' = OutIds \ {Head(outQueue).id} /\ \A n \in OutIds : Head(outQueue).id <= n
  <2> DEFINE h == Head(outQueue).id
  <2>1. h \in Nat /\ \A n \in OutIds : n \in Nat
    BY <1>4, <1>5
  <2> HIDE DEF h
  <2>2. \A n \in OutIds' : n \in OutIds /\ h < n
    BY <1>6 DEF h
  <2>3. \A n \in OutIds : n = h \/ n \in OutIds'
    BY <1>7 DEF h
  <2>4. OutIds' = OutIds \ {h}
    BY <2>1, <2>2, <2>3
  <2>5. \A n \in OutIds : h <= n
    BY <2>1, <2>2, <2>3
  <2> QED
    BY <2>4, <2>5 DEF h
<1>9. InCmds' = InCmds /\ WorkCmds' = WorkCmds /\ OutCmds' = OutCmds
  BY <1>1 DEF InCmds, WorkCmds, OutCmds
<1>10. FromPrep' = FromPrep
  BY <1>1, <1>9 DEF FromPrep
<1>11. FromWork' = FromWork
  BY <1>9, <1>10 DEF FromWork
<1>12. FromDev' = FromDev
  BY <1>1, <1>11 DEF FromDev
<1>13. FromOutWork' = FromOutWork
  BY <1>9, <1>12 DEF FromOutWork
<1>14. FromOut' = FromOut
  BY <1>1, <1>13 DEF FromOut
<1> QED
  BY <1>1, <1>5, <1>8, <1>9, <1>10, <1>11, <1>12, <1>13, <1>14

LEMMA ReceiveOrder ==
  ASSUME TypeInv, OrderInv, Receive
  PROVE  OrderInv'
<1> DEFINE T == [id : 1 .. MaxSteps, error : BOOLEAN]
<1>1. /\ outQueue # <<>> /\ outQueue' = Tail(outQueue) /\ outQueue \in Seq(T)
      /\ UNCHANGED <<inQueue, workQueue, outWork, prep, dev, out, sent>>
  BY DEF Receive, TypeInv, LaneTypes
<1> HIDE DEF T
<1>2. Sorted(Tail(outQueue))
  BY <1>1, SortedTail DEF OrderInv
<1>3. Sorted(inQueue)' /\ ItemsSorted(workQueue)' /\ ItemsSorted(outWork)' /\ Sorted(outQueue)'
  BY <1>1, <1>2 DEF OrderInv, Sorted, ItemsSorted
<1>4. \A i \in DOMAIN outQueue' : \E j \in DOMAIN outQueue : outQueue'[i] = outQueue[j]
  BY <1>1, TailRange
<1>5. Precedes({outQueue[i] : i \in DOMAIN outQueue}, FromOut)'
  BY <1>4, ReceiveMoves DEF OrderInv, Precedes
<1> QED
  BY <1>1, <1>3, <1>5, ReceiveMoves DEF OrderInv, Precedes

-----------------------------------------------------------------------------
(***************************************************************************)
(* Account: what the engine waits for or discards is what is on its way.   *)
(***************************************************************************)
LEMMA TransitFacts ==
  /\ \A n : n \in InTransit <=> n \in OutIds \/ \E c \in FromOut : c.id = n
  /\ \A n : n \in InFlightIds <=> \E i \in DOMAIN inFlight : inFlight[i].id = n
BY DEF InTransit, InFlightIds, OutIds

\* What AccountInv says of single ids.
LEMMA AccountParts ==
  ASSUME TypeInv, OrderInv, AccountInv
  PROVE  /\ \A n \in OutIds : n <= sent
         /\ \A n \in InTransit : n \in Nat /\ n <= sent
         /\ \A n \in InTransit : n # 0 => n \in discard \/ n \in InFlightIds
         /\ \A n \in discard : n \in InTransit /\ n # 0 /\ n \notin InFlightIds
         /\ \A n \in InFlightIds : n \in InTransit /\ n # 0 /\ n \in Nat
<1>1. \A n \in OutIds : n <= sent
  BY DEF AccountInv, OutIds
<1>2. \A n \in InTransit : n \in Nat /\ n <= sent
  BY <1>1, TransitFacts, FromTypes DEF OrderInv
<1>3. \A n : n \in InTransit /\ n # 0 <=> n \in discard \/ n \in InFlightIds
  BY DEF AccountInv
<1>4. \A n \in InFlightIds : n \in Nat
  BY <1>2, <1>3
<1>5. \A n \in discard : n \notin InFlightIds
  <2>1. ASSUME NEW n \in discard, NEW i \in DOMAIN inFlight, inFlight[i].id = n PROVE FALSE
    <3>1. n < n /\ n \in Nat
      BY <1>2, <1>3, <2>1 DEF AccountInv
    <3> QED
      BY <3>1
  <2> QED
    BY <2>1, TransitFacts
<1> QED
  BY <1>1, <1>2, <1>3, <1>4, <1>5

\* A move inside the worker.
LEMMA MoveAccount ==
  ASSUME AccountInv, UNCHANGED <<sent, inFlight, discard>>,
         \A n \in OutIds' : n <= sent,
         OutIds \subseteq OutIds', \A n \in OutIds' : n \in InTransit,
         \A c \in FromOut' : c.id = 0 \/ c.id \in InTransit,
         \A c \in FromOut : c.id = 0 \/ c.id \in OutIds' \/ \E b \in FromOut' : b.id = c.id
  PROVE  AccountInv'
<1>1. \A i \in DOMAIN outQueue' : outQueue'[i].id <= sent'
  BY DEF OutIds
<1>2. \A n : n \in InTransit' <=> n \in OutIds' \/ \E c \in FromOut' : c.id = n
  BY DEF InTransit, OutIds
<1>3. InFlightIds' = InFlightIds
  BY DEF InFlightIds
<1>4. \A n : n # 0 => (n \in InTransit' <=> n \in InTransit)
  BY <1>2, TransitFacts
<1>5. (InTransit \ {0})' = discard' \cup InFlightIds'
  BY <1>3, <1>4 DEF AccountInv
<1> QED
  BY <1>1, <1>5 DEF AccountInv, Sorted

LEMMA RestsAccount ==
  ASSUME AccountInv, Rests, UNCHANGED <<sent, inFlight, discard>>
  PROVE  AccountInv'
<1>1. FromOut' = FromOut /\ OutIds' = OutIds
  BY RestsMoves
<1>2. \A n \in OutIds : n <= sent
  BY DEF AccountInv, OutIds
<1> QED
  BY <1>1, <1>2, MoveAccount, TransitFacts

LEMMA LaneAccount ==
  ASSUME TypeInv, AtBarrier, OrderInv, AccountInv, UNCHANGED engineVars,
         \/ PrepareGet \/ PreparePut \/ DeviceGet \/ OutputGet \/ OutputPublish
         \/ OutputProfile \/ OutputShutdown \/ \E x : Hands(x)
  PROVE  AccountInv'
<1>1. UNCHANGED <<sent, inFlight, discard>>
  BY DEF engineVars
<1>2. NoCmd.id = 0 /\ \A n \in OutIds : n <= sent
  BY Nothing, AccountParts
<1>3. CASE FromOut = FromOut' \cup {NoCmd} /\ OutIds' = OutIds
  BY <1>1, <1>2, <1>3, MoveAccount, TransitFacts
<1>4. CASE FromOut' = FromOut \cup {NoCmd} /\ OutIds' = OutIds
  BY <1>1, <1>2, <1>4, MoveAccount, TransitFacts
<1>5. CASE OutputPublish
  <2>1. /\ OutIds' = OutIds \cup {out.item.cmd.id} /\ FromOut' = FromOutWork \cup {NoCmd}
        /\ FromOut = FromOutWork \cup {out.item.cmd}
    BY <1>5, OutputPublishMoves DEF FromOut
  <2>2. out.item.cmd.id <= sent
    BY <2>1 DEF OrderInv
  <2> QED
    BY <1>1, <1>2, <2>1, <2>2, MoveAccount, TransitFacts
<1>6. CASE OutputProfile \/ OutputShutdown
  <2>1. /\ OutIds' = OutIds /\ FromOut' = FromOutWork \cup {NoCmd} /\ out.item.cmd.id = 0
        /\ FromOut = FromOutWork \cup {out.item.cmd}
    BY <1>6, OutputControlMoves DEF FromOut
  <2> QED
    BY <1>1, <1>2, <2>1, MoveAccount, TransitFacts
<1>7. CASE PrepareGet
  BY <1>3, <1>7, PrepareGetMoves
<1>8. CASE PreparePut
  BY <1>4, <1>8, PreparePutMoves
<1>9. CASE DeviceGet
  BY <1>3, <1>9, DeviceGetMoves
<1>10. CASE OutputGet
  BY <1>3, <1>10, OutputGetMoves
<1>11. CASE \E x : Hands(x)
  BY <1>4, <1>11, HandsMoves
<1> QED
  BY <1>5, <1>6, <1>7, <1>8, <1>9, <1>10, <1>11

LEMMA SentAccount ==
  ASSUME TypeInv, OrderInv, AccountInv, NEW c \in Step, c.id = sent + 1, sent' = sent + 1,
         inQueue' = Append(inQueue, c), inFlight' = Append(inFlight, c), discard' = discard,
         UNCHANGED <<workQueue, outWork, outQueue, prep, dev, out>>
  PROVE  AccountInv'
<1>1. inQueue \in Seq(Command) /\ sent \in Nat /\ inFlight \in Seq(Step) /\ c \in Command
  BY Bounds_ DEF TypeInv, LaneTypes, EngineTypes, Command
<1>2. OutIds' = OutIds /\ FromOut' = FromOut \cup {c}
  BY <1>1, SentMoves
<1>3. \A n : n \in InTransit' <=> n \in InTransit \/ n = c.id
  <2>1. \A n : n \in InTransit' <=> n \in OutIds' \/ \E b \in FromOut' : b.id = n
    BY DEF InTransit, OutIds
  <2> QED
    BY <1>2, <2>1, TransitFacts
<1>4. \A n : n \in InFlightIds' <=> n \in InFlightIds \/ n = c.id
  <2>1. /\ \A i \in DOMAIN inFlight' : inFlight'[i] = c \/ \E j \in DOMAIN inFlight : inFlight'[i] = inFlight[j]
        /\ \E i \in DOMAIN inFlight' : inFlight'[i] = c
        /\ \A j \in DOMAIN inFlight : \E i \in DOMAIN inFlight' : inFlight'[i] = inFlight[j]
    <3> DEFINE a == Append(inFlight, c)
    <3>1. inFlight \in Seq(Step)
      BY <1>1
    <3>2. \A i \in DOMAIN a : a[i] = c \/ \E j \in DOMAIN inFlight : a[i] = inFlight[j]
      BY <3>1, AppendRange
    <3>3. \E i \in DOMAIN a : a[i] = c
      BY <3>1, AppendRange
    <3>4. \A j \in DOMAIN inFlight : \E i \in DOMAIN a : a[i] = inFlight[j]
      BY <3>1, AppendRange
    <3> QED
      BY <3>2, <3>3, <3>4
  <2> QED
    BY <2>1 DEF InFlightIds
<1>5. c.id \in Nat /\ c.id # 0
  BY <1>1
<1>6. \A n : n \in InTransit' /\ n # 0 <=> n \in discard \/ n \in InFlightIds'
  BY <1>3, <1>4, <1>5, AccountParts
<1>7. (InTransit \ {0})' = discard' \cup InFlightIds'
  BY <1>6
<1>8. \A i \in DOMAIN outQueue' : outQueue'[i].id <= sent'
  <2>1. \A n \in OutIds : n \in Nat /\ n <= sent
    BY AccountParts, FromTypes
  <2>2. ASSUME NEW i \in DOMAIN outQueue PROVE outQueue[i].id <= sent + 1
    <3>1. outQueue[i].id \in Nat /\ outQueue[i].id <= sent
      BY <2>1 DEF OutIds
    <3> QED
      BY <1>1, <3>1
  <2> QED
    BY <2>2
<1>9. \A n \in InFlightIds : n < c.id
  BY <1>1, AccountParts
<1>10. Sorted(Append(inFlight, c))
  BY <1>1, <1>9, SortedAppend DEF AccountInv, InFlightIds
<1>11. \A n \in discard' : \A i \in DOMAIN inFlight' : n < inFlight'[i].id
  <2>1. ASSUME NEW n \in discard, NEW i \in DOMAIN inFlight' PROVE n < inFlight'[i].id
    <3>1. n \in Nat /\ n <= sent
      BY AccountParts
    <3>2. inFlight'[i] = c \/ \E j \in DOMAIN inFlight : inFlight'[i] = inFlight[j]
      BY <1>1, AppendRange, SMTT(30)
    <3> QED
      BY <1>1, <3>1, <3>2 DEF AccountInv
  <2> QED
    BY <2>1
<1> QED
  BY <1>7, <1>8, <1>10, <1>11 DEF AccountInv, Sorted

LEMMA ControlAccount ==
  ASSUME TypeInv, OrderInv, AccountInv, NEW c \in Control, inQueue' = Append(inQueue, c),
         UNCHANGED <<workQueue, outWork, outQueue, prep, dev, out, sent, inFlight, discard>>
  PROVE  AccountInv'
<1>1. inQueue \in Seq(Command) /\ c \in Command /\ c.id = 0
  BY ControlFields DEF TypeInv, LaneTypes
<1>2. OutIds' = OutIds /\ FromOut' = FromOut \cup {c}
  BY <1>1, SentMoves
<1> QED
  BY <1>1, <1>2, MoveAccount, TransitFacts, AccountParts

\* A result that is not discarded is that of the oldest step in flight, and
\* every step still in the worker is younger.
LEMMA ReceiveHead ==
  ASSUME TypeInv, OrderInv, AccountInv, Receive
  PROVE  /\ \A c \in FromOut : c.id # 0 => Head(outQueue).id < c.id
         /\ Head(outQueue).id \notin discard =>
              inFlight # <<>> /\ Head(inFlight).id = Head(outQueue).id /\ Head(inFlight) \in Step
<1> DEFINE h == Head(outQueue).id
<1>1. h \in OutIds /\ \A n \in OutIds : h <= n
  BY ReceiveMoves
<1>2. h \in Nat /\ h # 0
  BY <1>1, FromTypes
<1>3. \A c \in FromOut : c.id # 0 => h < c.id
  BY <1>1, <1>2 DEF OrderInv, Precedes, OutIds
<1> HIDE DEF h
<1>4. ASSUME NEW n \in InTransit, n # 0 PROVE h <= n
  <2>1. CASE n \in OutIds
    BY <1>1, <2>1
  <2>2. CASE \E c \in FromOut : c.id = n
    <3>1. n \in Nat /\ h < n
      BY <1>3, <1>4, <2>2, FromTypes
    <3> QED
      BY <1>2, <3>1
  <2> QED
    BY <2>1, <2>2, TransitFacts
<1>5. ASSUME h \notin discard PROVE inFlight # <<>> /\ Head(inFlight).id = h /\ Head(inFlight) \in Step
  <2>1. h \in InFlightIds
    BY <1>1, <1>2, <1>5, AccountParts, TransitFacts
  <2>2. PICK j \in DOMAIN inFlight : inFlight[j].id = h
    BY <2>1, TransitFacts
  <2>3. inFlight \in Seq(Step) /\ inFlight # <<>>
    BY <2>2 DEF TypeInv, EngineTypes
  <2>4. Head(inFlight) = inFlight[1] /\ 1 \in DOMAIN inFlight /\ Head(inFlight) \in Step /\ DOMAIN inFlight \subseteq Nat
        /\ \A i \in DOMAIN inFlight : 1 <= i
    BY <2>3, TailFacts
  <2>5. inFlight[1].id \in InTransit /\ inFlight[1].id # 0 /\ inFlight[1].id \in Nat
    BY <2>4, AccountParts, TransitFacts
  <2>6. h <= inFlight[1].id
    BY <1>4, <2>5
  <2>7. j = 1 \/ inFlight[1].id < h
    BY <1>2, <2>2, <2>4, <2>5 DEF AccountInv, Sorted
  <2>8. inFlight[1].id = h
    BY <1>2, <2>2, <2>5, <2>6, <2>7
  <2> QED
    BY <2>3, <2>4, <2>8
<1> QED
  BY <1>3, <1>5 DEF h

LEMMA ReceiveAccount ==
  ASSUME TypeInv, OrderInv, AccountInv, Receive
  PROVE  AccountInv'
<1> DEFINE h == Head(outQueue).id
<1>1. /\ OutIds' = OutIds \ {h} /\ FromOut' = FromOut /\ sent' = sent /\ h \in OutIds
  BY ReceiveMoves DEF Receive
<1>2. h \in Nat /\ h # 0 /\ \A c \in FromOut : c.id # h
  <2>1. h \in Nat /\ h # 0
    BY <1>1, FromTypes
  <2>2. \A c \in FromOut : c.id # 0 => h < c.id
    BY ReceiveHead
  <2> QED
    BY <2>1, <2>2
<1>3. \A n : n \in InTransit' <=> n \in InTransit /\ n # h
  <2>1. \A n : n \in InTransit' <=> n \in OutIds' \/ \E b \in FromOut' : b.id = n
    BY DEF InTransit, OutIds
  <2> QED
    BY <1>1, <1>2, <2>1, TransitFacts
<1>4. \A i \in DOMAIN outQueue' : outQueue'[i].id <= sent'
  <2>1. \A n \in OutIds' : n <= sent'
    BY <1>1, AccountParts
  <2> QED
    BY <2>1 DEF OutIds
<1>5. CASE h \in discard
  <2>1. discard' = discard \ {h} /\ inFlight' = inFlight
    BY <1>5 DEF Receive
  <2>2. InFlightIds' = InFlightIds
    BY <2>1 DEF InFlightIds
  <2>3. (InTransit \ {0})' = discard' \cup InFlightIds'
    BY <1>3, <1>5, <2>1, <2>2, AccountParts
  <2> QED
    BY <1>4, <2>1, <2>3 DEF AccountInv, Sorted
<1>6. CASE h \notin discard /\ Head(outQueue).error
  <2>1. discard' = discard \cup (InFlightIds \ {h}) /\ inFlight' = <<>>
    BY <1>6 DEF Receive, DropPipeline
  <2>2. InFlightIds' = {}
    BY <2>1 DEF InFlightIds
  <2>3. (InTransit \ {0})' = discard' \cup InFlightIds'
    BY <1>3, <1>6, <2>1, <2>2, AccountParts
  <2> QED
    BY <1>4, <2>1, <2>3 DEF AccountInv, Sorted
<1>7. CASE h \notin discard /\ ~Head(outQueue).error
  <2>1. discard' = discard /\ inFlight' = Tail(inFlight)
    BY <1>7 DEF Receive
  <2>2. inFlight \in Seq(Step) /\ inFlight # <<>> /\ Head(inFlight).id = h
    BY <1>7, ReceiveHead DEF TypeInv, EngineTypes
  <2>3. /\ Sorted(Tail(inFlight))
        /\ \A i \in DOMAIN Tail(inFlight) :
             Head(inFlight).id # 0 /\ Tail(inFlight)[i].id # 0 => Head(inFlight).id < Tail(inFlight)[i].id
    BY <2>2, SortedTail DEF AccountInv
  <2>4. /\ \A i \in DOMAIN inFlight' : \E j \in DOMAIN inFlight : inFlight'[i] = inFlight[j]
        /\ \A j \in DOMAIN inFlight : \/ inFlight[j] = Head(inFlight)
                                      \/ \E i \in DOMAIN inFlight' : inFlight'[i] = inFlight[j]
    BY <2>1, <2>2, TailRange
  <2>5. ASSUME NEW i \in DOMAIN inFlight' PROVE inFlight'[i].id # h
    <3>1. inFlight'[i].id \in Nat /\ inFlight'[i].id # 0
      BY <2>4, AccountParts, TransitFacts
    <3> QED
      BY <1>2, <2>1, <2>2, <2>3, <3>1
  <2>6. \A n : n \in InFlightIds' <=> n \in InFlightIds /\ n # h
    BY <2>2, <2>4, <2>5 DEF InFlightIds
  <2>7. (InTransit \ {0})' = discard' \cup InFlightIds'
    BY <1>3, <1>7, <2>1, <2>6, AccountParts
  <2>8. \A n \in discard' : \A i \in DOMAIN inFlight' : n < inFlight'[i].id
    BY <2>1, <2>4 DEF AccountInv
  <2> QED
    BY <1>4, <2>1, <2>3, <2>7, <2>8 DEF AccountInv, Sorted
<1> QED
  BY <1>5, <1>6, <1>7

LEMMA TimeoutAccount ==
  ASSUME TypeInv, OrderInv, AccountInv, Timeout
  PROVE  AccountInv' /\ Rests
<1>1. Rests /\ sent' = sent /\ discard' = discard \cup InFlightIds /\ inFlight' = <<>>
  BY DEF Timeout, Rests, DropPipeline
<1>2. InFlightIds' = {}
  BY <1>1 DEF InFlightIds
<1>3. \A n : n \in InTransit' <=> n \in InTransit
  <2>1. \A n : n \in InTransit' <=> n \in OutIds' \/ \E b \in FromOut' : b.id = n
    BY DEF InTransit, OutIds
  <2> QED
    BY <1>1, <2>1, TransitFacts, RestsMoves
<1>4. (InTransit \ {0})' = discard' \cup InFlightIds'
  BY <1>1, <1>2, <1>3 DEF AccountInv
<1> QED
  BY <1>1, <1>4 DEF AccountInv, Sorted, Rests

-----------------------------------------------------------------------------
(***************************************************************************)
(* The pipeline: types, slots, barrier, order and account together.        *)
(***************************************************************************)
RestAction == \/ PrepareRegister \/ PrepareAcquire \/ PrepareDecode \/ DeviceRelease \/ DeviceDrop
              \/ KernelCompletes \/ OutputReclaim \/ OutputReclaimFails

HandAction == \/ DeviceControl \/ DeviceFails \/ DeviceCleanup \/ DeviceDecode
              \/ DevicePrefill \/ DeviceDispatch

LEMMA RestActionMoves ==
  ASSUME TypeInv, SlotsInv, RestAction
  PROVE  /\ Rests /\ UNCHANGED engineVars /\ (dev.pc = "barrier" => dev'.pc = "barrier")
         /\ out'.pc = out.pc \/ out'.pc = "publish"
<1>1. CASE PrepareRegister
  BY <1>1, PrepareRegisterTypes DEF PrepareRegister, Rests
<1>2. CASE PrepareAcquire
  BY <1>2, PrepareAcquireTypes DEF PrepareAcquire, Rests
<1>3. CASE PrepareDecode
  <2>1. UNCHANGED <<engineVars, inQueue, workQueue, outWork, outQueue, dev, out>>
    BY <1>3 DEF PrepareDecode
  <2> QED
    BY <1>3, <2>1, PrepareDecodeTypes DEF Rests
<1>4. CASE DeviceRelease
  BY <1>4, DeviceReleaseTypes DEF DeviceRelease, Rests
<1>5. CASE DeviceDrop
  BY <1>5, DeviceDropTypes DEF DeviceDrop, Rests
<1>6. CASE KernelCompletes
  BY <1>6 DEF KernelCompletes, Rests
<1>7. CASE OutputReclaim \/ OutputReclaimFails
  <2>1. UNCHANGED <<engineVars, inQueue, workQueue, outWork, outQueue, prep, dev>>
    BY <1>7 DEF OutputReclaim, OutputReclaimFails
  <2> QED
    BY <1>7, <2>1, OutputReclaimTypes DEF Rests
<1> QED
  BY <1>1, <1>2, <1>3, <1>4, <1>5, <1>6, <1>7 DEF RestAction

LEMMA HandActionMoves ==
  ASSUME TypeInv, SlotsInv, HandAction
  PROVE  /\ TypeInv' /\ UNCHANGED engineVars /\ dev.pc \in {"control", "run"}
         /\ \E x \in Item : Hands(x) /\ (x.kind = "profile" => dev'.pc = "barrier")
<1>1. UNCHANGED <<engineVars, inQueue, workQueue, outQueue, prep, out>> /\ dev.pc \in {"control", "run"}
  <2>1. CASE DeviceControl
    BY <2>1 DEF DeviceControl
  <2>2. CASE DeviceFails \/ DeviceCleanup
    BY <2>2 DEF DeviceFails, DeviceCleanup, Hand
  <2>3. CASE DeviceDecode
    BY <2>3 DEF DeviceDecode, Hand
  <2>4. CASE DevicePrefill
    BY <2>4 DEF DevicePrefill, Hand
  <2>5. CASE DeviceDispatch
    BY <2>5 DEF DeviceDispatch, Hand
  <2> QED
    BY <2>1, <2>2, <2>3, <2>4, <2>5 DEF HandAction
<1>3. /\ TypeInv' /\ dev'.cmd = NoCmd
      /\ \E x \in Item : /\ x.cmd = dev.cmd /\ outWork' = Append(outWork, x)
                         /\ x.kind = "profile" => dev'.pc = "barrier"
  <2>1. CASE DeviceControl
    BY <2>1, DeviceControlTypes
  <2>2. CASE DeviceFails \/ DeviceCleanup \/ DeviceDecode
    BY <2>2, DeviceEndsTypes
  <2>3. CASE DevicePrefill
    BY <2>3, DevicePrefillTypes
  <2>4. CASE DeviceDispatch
    BY <2>4, DeviceDispatchTypes
  <2> QED
    BY <2>1, <2>2, <2>3, <2>4 DEF HandAction
<1>4. PICK x \in Item : /\ x.cmd = dev.cmd /\ outWork' = Append(outWork, x)
                        /\ x.kind = "profile" => dev'.pc = "barrier"
  BY <1>3
<1>5. Hands(x)
  BY <1>1, <1>3, <1>4 DEF Hands
<1> QED
  BY <1>1, <1>3, <1>4, <1>5

LEMMA HandBarrier ==
  ASSUME TypeInv, AtBarrier, SlotsInv, HandAction
  PROVE  AtBarrier'
<1>1. PICK x \in Item : Hands(x) /\ (x.kind = "profile" => dev'.pc = "barrier")
  BY HandActionMoves
<1>2. outWork \in Seq(Item) /\ outWork' = Append(outWork, x) /\ out' = out
  BY <1>1 DEF Hands, TypeInv, LaneTypes
<1>3. dev.pc # "barrier"
  BY HandActionMoves
<1>4. /\ Len(outWork') = Len(outWork) + 1 /\ Len(outWork) \in Nat
      /\ DOMAIN outWork = 1 .. Len(outWork) /\ DOMAIN outWork' = 1 .. (Len(outWork) + 1)
      /\ \A i \in DOMAIN outWork : outWork'[i] = outWork[i]
      /\ outWork'[Len(outWork) + 1] = x
  BY <1>2, AppendFacts
<1>5. ASSUME NEW i \in DOMAIN outWork', outWork'[i].kind = "profile"
      PROVE  dev'.pc = "barrier" /\ i = Len(outWork')
  <2>1. i \notin DOMAIN outWork
    BY <1>3, <1>4, <1>5 DEF AtBarrier
  <2>2. i = Len(outWork) + 1
    BY <1>4, <2>1
  <2> QED
    BY <1>1, <1>4, <1>5, <2>2
<1> QED
  BY <1>2, <1>3, <1>5 DEF AtBarrier

LEMMA OutputGetBarrier ==
  ASSUME TypeInv, AtBarrier, OutputGet
  PROVE  AtBarrier'
<1>1. /\ outWork \in Seq(Item) /\ outWork # <<>> /\ outWork' = Tail(outWork) /\ out'.item = Head(outWork) /\ dev' = dev
  BY OutputGetTypes DEF OutputGet, TypeInv, LaneTypes
<1>2. out'.pc = "profile" => Head(outWork).kind = "profile"
  BY DEF OutputGet
<1>3. /\ Head(outWork) = outWork[1] /\ Len(Tail(outWork)) = Len(outWork) - 1 /\ Tail(outWork) \in Seq(Item)
      /\ Len(outWork) \in Nat \ {0} /\ DOMAIN outWork = 1 .. Len(outWork)
      /\ DOMAIN Tail(outWork) = 1 .. (Len(outWork) - 1)
      /\ \A i \in DOMAIN Tail(outWork) : i + 1 \in DOMAIN outWork /\ Tail(outWork)[i] = outWork[i + 1]
  BY <1>1, TailFacts
<1>4. ASSUME out'.pc = "profile" PROVE dev'.pc = "barrier" /\ outWork' = <<>>
  <2>1. dev.pc = "barrier" /\ 1 = Len(outWork)
    BY <1>2, <1>3, <1>4 DEF AtBarrier
  <2>2. Tail(outWork) = <<>>
    <3>1. Len(Tail(outWork)) = 0
      <4>1. Len(Tail(outWork)) = Len(outWork) - 1
        BY <1>3
      <4> QED
        BY <2>1, <4>1
    <3> QED
      BY <1>3, <3>1, EmptySeq
  <2> QED
    BY <1>1, <2>1, <2>2
<1>5. ASSUME NEW i \in DOMAIN outWork', outWork'[i].kind = "profile"
      PROVE  dev'.pc = "barrier" /\ i = Len(outWork')
  <2>1. i + 1 \in DOMAIN outWork /\ outWork[i + 1].kind = "profile" /\ i \in Nat
    BY <1>1, <1>3, <1>5
  <2>2. dev.pc = "barrier" /\ i + 1 = Len(outWork)
    BY <2>1 DEF AtBarrier
  <2> QED
    BY <1>1, <1>3, <2>1, <2>2
<1> QED
  BY <1>4, <1>5 DEF AtBarrier

Pipeline == TypeInv /\ AtBarrier /\ SlotsInv /\ OrderInv /\ AccountInv

LEMMA PipelineInitially == Init => Pipeline
<1> SUFFICES ASSUME Init PROVE Pipeline
  OBVIOUS
<1>1. TypeInv
  BY TypesInitially
<1>2. AtBarrier
  BY DEF Init, AtBarrier
<1>3. SlotsInv
  <2>1. \A r \in Request : mtp[r].slot = 0
    BY DEF Init, NoState
  <2>2. DOMAIN freeTail = 1 .. TailSlots /\ \A i \in 1 .. TailSlots : freeTail[i] = TailSlots + 1 - i
    BY DEF Init, Tail_
  <2>3. \A i, j \in DOMAIN freeTail : freeTail[i] = freeTail[j] => i = j
    BY <2>2, Bounds_
  <2>4. \A r \in Request : \A i \in DOMAIN freeTail : mtp[r].slot # freeTail[i]
    BY <2>1, <2>2, Bounds_
  <2>5. ASSUME NEW s \in Tail_ PROVE \E i \in DOMAIN freeTail : freeTail[i] = s
    <3>1. s \in 1 .. TailSlots /\ TailSlots + 1 - s \in 1 .. TailSlots
      BY Bounds_ DEF Tail_
    <3>2. freeTail[TailSlots + 1 - s] = s
      BY <2>2, <3>1, Bounds_
    <3> QED
      BY <2>2, <3>1, <3>2
  <2> QED
    BY <2>1, <2>3, <2>4, <2>5 DEF SlotsInv, OneOwner
<1>4. /\ inQueue = <<>> /\ workQueue = <<>> /\ outWork = <<>> /\ outQueue = <<>> /\ inFlight = <<>>
      /\ prep.cmd = NoCmd /\ dev.cmd = NoCmd /\ out.item.cmd = NoCmd /\ sent = 0 /\ discard = {}
  BY Nothing DEF Init
<1>5. FromOut = {NoCmd} /\ OutIds = {} /\ InCmds = {} /\ WorkCmds = {} /\ OutCmds = {}
  BY <1>4 DEF FromOut, FromOutWork, FromDev, FromWork, FromPrep, InCmds, WorkCmds, OutCmds, OutIds
<1>6. FromOutWork \subseteq {NoCmd} /\ FromDev \subseteq {NoCmd} /\ FromWork \subseteq {NoCmd} /\ FromPrep \subseteq {NoCmd}
  BY <1>1, <1>5, FromTypes
<1>7. OrderInv
  BY <1>4, <1>5, <1>6, Nothing DEF OrderInv, Precedes, Sorted, ItemsSorted
<1>8. AccountInv
  <2>1. InFlightIds = {}
    BY <1>4 DEF InFlightIds
  <2>2. InTransit \ {0} = {}
    BY <1>5, Nothing DEF InTransit, OutIds
  <2> QED
    BY <1>4, <2>1, <2>2 DEF AccountInv, Sorted
<1> QED
  BY <1>1, <1>2, <1>3, <1>7, <1>8 DEF Pipeline

LEMMA SendPipeline ==
  ASSUME Pipeline, NEW kind \in {"prefill", "decode", "cleanup"},
         NEW batch \in SUBSET Request, NEW victims \in SUBSET Request, Send(kind, batch, victims)
  PROVE  Pipeline'
<1>1. TypeInv /\ AtBarrier /\ SlotsInv /\ OrderInv /\ AccountInv
  BY DEF Pipeline
<1>s. PICK c : Sends(c, kind, batch, victims)
  BY <1>1, SendTypes
<1>2. /\ c \in Step /\ c.kind = kind /\ c.id = sent + 1 /\ c.reqs = batch
      /\ c.finished = pendingFree \cup victims
      /\ inFlight' = Append(inFlight, c) /\ inQueue' = Append(inQueue, c)
  BY <1>s DEF Sends
<1>3. TypeInv'
  BY <1>1, SendTypes
<1>4. sent' = sent + 1 /\ UNCHANGED <<discard, workQueue, outWork, outQueue, prep, dev, out, runnerVars>>
  BY DEF Send
<1>5. c \in Command /\ \A n \in OutIds : n <= sent
  BY <1>1, <1>2, AccountParts DEF Command
<1>6. OrderInv'
  BY <1>1, <1>2, <1>4, <1>5, SentOrder
<1>7. AccountInv'
  BY <1>1, <1>2, <1>4, SentAccount
<1>8. AtBarrier' /\ SlotsInv'
  BY <1>1, <1>4 DEF AtBarrier, SlotsInv, OneOwner, runnerVars
<1> QED
  BY <1>3, <1>6, <1>7, <1>8 DEF Pipeline

LEMMA EnginePipeline ==
  ASSUME Pipeline, Engine
  PROVE  Pipeline'
<1>1. TypeInv /\ AtBarrier /\ SlotsInv /\ OrderInv /\ AccountInv
  BY DEF Pipeline
<1>2. ASSUME NEW batch \in SUBSET Request, NEW victims \in SUBSET Request,
             SendPrefill(batch, victims) \/ SendDecode(batch, victims)
      PROVE  Pipeline'
  BY <1>2, SendPipeline DEF SendPrefill, SendDecode
<1>3. CASE SendCleanup
  <2>1. Send("cleanup", {}, {}) /\ {} \in SUBSET Request
    BY <1>3 DEF SendCleanup
  <2> QED
    BY <2>1, SendPipeline
<1>4. CASE SendProfile \/ SendShutdown
  <2>1. PICK kind \in {"profile", "shutdown"} : SendControl(kind)
    BY <1>4 DEF SendProfile, SendShutdown
  <2>2. TypeInv'
    BY <1>1, <2>1, ControlTypes
  <2>3. PICK c \in Control : inQueue' = Append(inQueue, c)
    BY <1>1, <2>1, ControlTypes
  <2>4. UNCHANGED <<sent, inFlight, discard, workQueue, outWork, outQueue, prep, dev, out, runnerVars>>
    BY <2>1 DEF SendControl
  <2>5. c \in Command /\ c.id = 0 /\ \A n \in OutIds : n <= sent
    BY <1>1, ControlFields, AccountParts
  <2>6. OrderInv'
    BY <1>1, <2>3, <2>4, <2>5, SentOrder
  <2>7. AccountInv'
    BY <1>1, <2>3, <2>4, ControlAccount
  <2>8. AtBarrier' /\ SlotsInv'
    BY <1>1, <2>4 DEF AtBarrier, SlotsInv, OneOwner, runnerVars
  <2> QED
    BY <2>2, <2>6, <2>7, <2>8 DEF Pipeline
<1>5. ASSUME NEW r \in Request, Abort(r) PROVE Pipeline'
  <2>1. Rests /\ UNCHANGED <<sent, inFlight, discard, outWork, dev, out, runnerVars>>
    BY <1>5 DEF Abort, Rests
  <2>2. AtBarrier' /\ SlotsInv'
    BY <1>1, <2>1 DEF AtBarrier, SlotsInv, OneOwner, runnerVars
  <2> QED
    BY <1>1, <1>5, <2>1, <2>2, AbortTypes, RestsOrder, RestsAccount DEF Pipeline
<1>6. CASE Receive
  <2>1. Head(outQueue).id \notin discard => inFlight # <<>>
    BY <1>1, <1>6, ReceiveHead
  <2>2. TypeInv'
    BY <1>1, <1>6, <2>1, ReceiveTypes
  <2>3. AtBarrier' /\ SlotsInv'
    BY <1>1, <1>6 DEF Receive, AtBarrier, SlotsInv, OneOwner, runnerVars
  <2> QED
    BY <1>1, <1>6, <2>2, <2>3, ReceiveOrder, ReceiveAccount DEF Pipeline
<1>7. CASE Timeout
  <2>1. TypeInv'
    <3>1. ~Receive
      <4>1. outQueue = <<>>
        BY <1>7 DEF Timeout
      <4> QED
        BY <4>1 DEF Receive
    <3> QED
      BY <1>1, <1>7, <3>1, ReceiveTypes
  <2>2. sent' = sent /\ AtBarrier' /\ SlotsInv'
    BY <1>1, <1>7 DEF Timeout, AtBarrier, SlotsInv, OneOwner, runnerVars
  <2> QED
    BY <1>1, <1>7, <2>1, <2>2, TimeoutAccount, RestsOrder DEF Pipeline
<1> QED
  BY <1>2, <1>3, <1>4, <1>5, <1>6, <1>7 DEF Engine

LEMMA RestPipeline ==
  ASSUME Pipeline, RestAction
  PROVE  Pipeline'
<1>1. TypeInv /\ AtBarrier /\ SlotsInv /\ OrderInv /\ AccountInv
  BY DEF Pipeline
<1>2. /\ Rests /\ UNCHANGED engineVars /\ (dev.pc = "barrier" => dev'.pc = "barrier")
      /\ out'.pc = out.pc \/ out'.pc = "publish"
  BY <1>1, RestActionMoves
<1>3. OrderInv' /\ AccountInv'
  BY <1>1, <1>2, RestsOrder, RestsAccount DEF engineVars
<1>4. AtBarrier'
  BY <1>1, <1>2 DEF AtBarrier, Rests
<1>5. TypeInv' /\ SlotsInv'
  <2>1. CASE PrepareRegister
    BY <1>1, <2>1, PrepareRegisterTypes DEF PrepareRegister, SlotsInv, OneOwner, runnerVars
  <2>2. CASE PrepareAcquire
    BY <1>1, <2>2, PrepareAcquireTypes DEF PrepareAcquire, SlotsInv, OneOwner, runnerVars
  <2>3. CASE PrepareDecode
    BY <1>1, <2>3, PrepareDecodeTypes
  <2>4. CASE DeviceRelease
    BY <1>1, <2>4, DeviceReleaseTypes
  <2>5. CASE DeviceDrop
    BY <1>1, <2>5, DeviceDropTypes DEF DeviceDrop, SlotsInv, OneOwner, runnerVars
  <2>6. CASE KernelCompletes
    BY <1>1, <2>6, KernelTypes DEF KernelCompletes, SlotsInv, OneOwner
  <2>7. CASE OutputReclaim \/ OutputReclaimFails
    BY <1>1, <2>7, OutputReclaimTypes DEF OutputReclaim, OutputReclaimFails, SlotsInv, OneOwner
  <2> QED
    BY <2>1, <2>2, <2>3, <2>4, <2>5, <2>6, <2>7 DEF RestAction
<1> QED
  BY <1>3, <1>4, <1>5 DEF Pipeline

LEMMA HandPipeline ==
  ASSUME Pipeline, HandAction
  PROVE  Pipeline'
<1>1. TypeInv /\ AtBarrier /\ SlotsInv /\ OrderInv /\ AccountInv
  BY DEF Pipeline
<1>2. PICK x \in Item : Hands(x)
  BY <1>1, HandActionMoves
<1>3. TypeInv' /\ UNCHANGED engineVars /\ sent' = sent
  BY <1>1, HandActionMoves DEF engineVars
<1>4. OrderInv' /\ AccountInv'
  BY <1>1, <1>2, <1>3, HandsOrder, LaneAccount
<1>5. AtBarrier'
  BY <1>1, HandBarrier
<1>6. SlotsInv'
  <2>1. CASE DevicePrefill
    BY <1>1, <2>1, DevicePrefillTypes
  <2>2. CASE DeviceControl \/ DeviceFails \/ DeviceCleanup \/ DeviceDecode \/ DeviceDispatch
    <3>1. mtp' = mtp /\ freeTail' = freeTail
      BY <2>2 DEF DeviceControl, DeviceFails, DeviceCleanup, DeviceDecode, DeviceDispatch, runnerVars
    <3> QED
      BY <1>1, <3>1 DEF SlotsInv, OneOwner
  <2> QED
    BY <2>1, <2>2 DEF HandAction
<1> QED
  BY <1>3, <1>4, <1>5, <1>6 DEF Pipeline

GetAction == PrepareGet \/ PreparePut \/ DeviceGet \/ OutputGet \/ OutputPublish \/ OutputProfile \/ OutputShutdown

LEMMA GetPipeline ==
  ASSUME Pipeline, GetAction
  PROVE  Pipeline'
<1>1. TypeInv /\ AtBarrier /\ SlotsInv /\ OrderInv /\ AccountInv
  BY DEF Pipeline
<1>2. UNCHANGED <<engineVars, runnerVars>>
  BY DEF GetAction, PrepareGet, PreparePut, DeviceGet, OutputGet, OutputPublish, OutputProfile, OutputShutdown
<1>3. SlotsInv'
  BY <1>1, <1>2 DEF SlotsInv, OneOwner, runnerVars
<1>4. AccountInv'
  BY <1>1, <1>2, LaneAccount DEF GetAction
<1>5. CASE PrepareGet
  BY <1>1, <1>3, <1>4, <1>5, PrepareGetTypes, PrepareGetOrder DEF Pipeline, PrepareGet, AtBarrier
<1>6. CASE PreparePut
  BY <1>1, <1>3, <1>4, <1>6, PreparePutTypes, PreparePutOrder DEF Pipeline, PreparePut, AtBarrier
<1>7. CASE DeviceGet
  BY <1>1, <1>3, <1>4, <1>7, DeviceGetTypes, DeviceGetOrder DEF Pipeline, DeviceGet, AtBarrier
<1>8. CASE OutputGet
  BY <1>1, <1>3, <1>4, <1>8, OutputGetTypes, OutputGetOrder, OutputGetBarrier DEF Pipeline
<1>9. CASE OutputPublish
  BY <1>1, <1>3, <1>4, <1>9, OutputPublishTypes, OutputPublishOrder DEF Pipeline, OutputPublish, AtBarrier
<1>10. CASE OutputProfile
  BY <1>1, <1>3, <1>4, <1>10, OutputControlTypes, OutputControlOrder DEF Pipeline, OutputProfile, AtBarrier
<1>11. CASE OutputShutdown
  BY <1>1, <1>3, <1>4, <1>11, OutputControlTypes, OutputControlOrder DEF Pipeline, OutputShutdown, AtBarrier
<1> QED
  BY <1>5, <1>6, <1>7, <1>8, <1>9, <1>10, <1>11 DEF GetAction

\* Every step of the worker is one of these.
LEMMA StepCases ==
  ASSUME Next
  PROVE  Engine \/ RestAction \/ HandAction \/ GetAction \/ UNCHANGED vars
BY DEF Next, PrepareLane, DeviceLane, OutputLane, Exited, RestAction, HandAction, GetAction

LEMMA StutterPipeline ==
  ASSUME Pipeline, UNCHANGED vars
  PROVE  Pipeline'
<1>1. TypeInv /\ AtBarrier /\ SlotsInv /\ OrderInv /\ AccountInv
  BY DEF Pipeline
<1>2. UNCHANGED <<engineVars, inQueue, workQueue, outWork, outQueue, prep, dev, out, sharedVars, runnerVars>>
  BY DEF vars
<1>3. Rests /\ UNCHANGED <<sent, inFlight, discard>>
  BY <1>2 DEF Rests, engineVars
<1>4. LaneTypes' /\ LaneHolds'
  BY <1>1, <1>2 DEF TypeInv, LaneTypes, LaneHolds
<1>5. EngineTypes' /\ SharedTypes' /\ RunnerTypes'
  BY <1>1, <1>2 DEF TypeInv, EngineTypes, SharedTypes, RunnerTypes, engineVars, sharedVars, runnerVars
<1>6. AtBarrier' /\ SlotsInv'
  BY <1>1, <1>2 DEF AtBarrier, SlotsInv, OneOwner, runnerVars
<1> QED
  BY <1>1, <1>3, <1>4, <1>5, <1>6, RestsOrder, RestsAccount DEF Pipeline, TypeInv

LEMMA PipelineStep ==
  ASSUME Pipeline, [Next]_vars
  PROVE  Pipeline'
BY StepCases, EnginePipeline, RestPipeline, HandPipeline, GetPipeline, StutterPipeline

-----------------------------------------------------------------------------
(***************************************************************************)
(* Buffers.                                                                *)
(***************************************************************************)
LEMMA SlotInBuffer == \A n \in Nat : n % BufferSlots \in Buffer
BY DEF Buffer, BufferSlots

LEMMA BufferIds ==
  /\ \A n : n \in HolderIds <=>
       \/ \E c \in {out.item.cmd, dev.cmd} \cup OutCmds \cup WorkCmds : c.kind = "decode" /\ c.id = n
       \/ prep.pc \in {"prepare", "put"} /\ prep.cmd.kind = "decode" /\ prep.cmd.id = n
  /\ \A n : n \in PendingIds <=>
       \/ \E i \in DOMAIN outWork : outWork[i].kind = "pending" /\ outWork[i].cmd.id = n
       \/ out.pc = "reclaim" /\ out.item.cmd.id = n
  /\ \A n : n \in StagedIds <=>
       \/ n \in PendingIds
       \/ dev.cmd.kind = "decode" /\ ~dev.work.error /\ dev.cmd.id = n
       \/ \E i \in DOMAIN workQueue : /\ workQueue[i].cmd.kind = "decode" /\ ~workQueue[i].work.error
                                      /\ workQueue[i].cmd.id = n
       \/ prep.pc = "put" /\ prep.cmd.kind = "decode" /\ ~prep.work.error /\ prep.cmd.id = n
<1>1. \A n : n \in HolderIds <=>
       \/ \E c \in {out.item.cmd, dev.cmd} \cup OutCmds \cup WorkCmds : c.kind = "decode" /\ c.id = n
       \/ prep.pc \in {"prepare", "put"} /\ prep.cmd.kind = "decode" /\ prep.cmd.id = n
  BY DEF HolderIds
<1>2. \A n : n \in PendingIds <=>
       \/ \E i \in DOMAIN outWork : outWork[i].kind = "pending" /\ outWork[i].cmd.id = n
       \/ out.pc = "reclaim" /\ out.item.cmd.id = n
  BY DEF PendingIds
<1>3. \A n : n \in StagedIds <=>
       \/ n \in PendingIds
       \/ dev.cmd.kind = "decode" /\ ~dev.work.error /\ dev.cmd.id = n
       \/ \E i \in DOMAIN workQueue : /\ workQueue[i].cmd.kind = "decode" /\ ~workQueue[i].work.error
                                      /\ workQueue[i].cmd.id = n
       \/ prep.pc = "put" /\ prep.cmd.kind = "decode" /\ ~prep.work.error /\ prep.cmd.id = n
  BY DEF StagedIds
<1> QED
  BY <1>1, <1>2, <1>3

LEMMA BufferIdsNext ==
  /\ \A n : n \in HolderIds' <=>
       \/ \E c \in {out'.item.cmd, dev'.cmd} \cup OutCmds' \cup WorkCmds' : c.kind = "decode" /\ c.id = n
       \/ prep'.pc \in {"prepare", "put"} /\ prep'.cmd.kind = "decode" /\ prep'.cmd.id = n
  /\ \A n : n \in PendingIds' <=>
       \/ \E i \in DOMAIN outWork' : outWork'[i].kind = "pending" /\ outWork'[i].cmd.id = n
       \/ out'.pc = "reclaim" /\ out'.item.cmd.id = n
  /\ \A n : n \in StagedIds' <=>
       \/ n \in PendingIds'
       \/ dev'.cmd.kind = "decode" /\ ~dev'.work.error /\ dev'.cmd.id = n
       \/ \E i \in DOMAIN workQueue' : /\ workQueue'[i].cmd.kind = "decode" /\ ~workQueue'[i].work.error
                                       /\ workQueue'[i].cmd.id = n
       \/ prep'.pc = "put" /\ prep'.cmd.kind = "decode" /\ ~prep'.work.error /\ prep'.cmd.id = n
<1>1. \A n : n \in HolderIds' <=>
       \/ \E c \in {out'.item.cmd, dev'.cmd} \cup OutCmds' \cup WorkCmds' : c.kind = "decode" /\ c.id = n
       \/ prep'.pc \in {"prepare", "put"} /\ prep'.cmd.kind = "decode" /\ prep'.cmd.id = n
  BY DEF HolderIds
<1>2. \A n : n \in PendingIds' <=>
       \/ \E i \in DOMAIN outWork' : outWork'[i].kind = "pending" /\ outWork'[i].cmd.id = n
       \/ out'.pc = "reclaim" /\ out'.item.cmd.id = n
  BY DEF PendingIds
<1>3. \A n : n \in StagedIds' <=>
       \/ n \in PendingIds'
       \/ dev'.cmd.kind = "decode" /\ ~dev'.work.error /\ dev'.cmd.id = n
       \/ \E i \in DOMAIN workQueue' : /\ workQueue'[i].cmd.kind = "decode" /\ ~workQueue'[i].work.error
                                       /\ workQueue'[i].cmd.id = n
       \/ prep'.pc = "put" /\ prep'.cmd.kind = "decode" /\ ~prep'.work.error /\ prep'.cmd.id = n
  BY DEF StagedIds
<1> QED
  BY <1>1, <1>2, <1>3

\* Staged steps hold their slots; ids are numbers.
LEMMA BufferSets ==
  ASSUME TypeInv
  PROVE  /\ PendingIds \subseteq StagedIds /\ StagedIds \subseteq HolderIds
         /\ HolderIds \subseteq Nat /\ 0 \notin HolderIds
<1>1. LaneTypes /\ LaneHolds
  BY DEF TypeInv
<1>2. ASSUME NEW c \in {out.item.cmd, dev.cmd, prep.cmd} \cup OutCmds \cup WorkCmds
      PROVE  c.id \in Nat /\ (c.kind = "decode" => c.id # 0)
  <2>1. c \in FromOut
    BY <1>2, FromTypes
  <2>2. c \in Command \cup {NoCmd}
    BY <2>1, FromTypes
  <2> QED
    BY <2>2, CommandFields
<1>3. HolderIds \subseteq Nat /\ 0 \notin HolderIds
  BY <1>2, BufferIds
<1>4. ASSUME NEW n \in PendingIds PROVE n \in HolderIds
  <2>1. CASE out.pc = "reclaim" /\ out.item.cmd.id = n
    <3>1. out.item.cmd.kind = "decode"
      BY <1>1, <2>1 DEF LaneHolds
    <3> QED
      BY <2>1, <3>1, BufferIds
  <2>2. ASSUME NEW i \in DOMAIN outWork, outWork[i].kind = "pending", outWork[i].cmd.id = n
        PROVE  n \in HolderIds
    <3>1. outWork[i].cmd.kind = "decode" /\ outWork[i].cmd \in OutCmds
      BY <1>1, <2>2 DEF LaneHolds, OutCmds
    <3> QED
      BY <2>2, <3>1, BufferIds
  <2> QED
    BY <2>1, <2>2, BufferIds
<1>5. \A i \in DOMAIN workQueue : workQueue[i].cmd \in WorkCmds
  BY DEF WorkCmds
<1>6. ASSUME NEW n \in StagedIds PROVE n \in HolderIds
  BY <1>4, <1>5, BufferIds
<1>7. PendingIds \subseteq StagedIds
  BY BufferIds
<1> QED
  BY <1>3, <1>6, <1>7

LEMMA SubmittedFields ==
  ASSUME TypeInv
  PROVE  \A i \in DOMAIN submitted :
           /\ submitted[i].id \in Nat /\ submitted[i].id # 0 /\ submitted[i].cmd \in Step
           /\ submitted[i].desc \in Desc
<1> SUFFICES ASSUME NEW i \in DOMAIN submitted
             PROVE  /\ submitted[i].id \in Nat /\ submitted[i].id # 0 /\ submitted[i].cmd \in Step
                    /\ submitted[i].desc \in Desc
  OBVIOUS
<1>1. submitted \in Seq([id : 1 .. MaxSteps, cmd : Step, desc : Desc])
  BY DEF TypeInv, RunnerTypes
<1>2. submitted[i] \in [id : 1 .. MaxSteps, cmd : Step, desc : Desc]
  BY <1>1, QueueFacts
<1>3. submitted[i].id \in 1 .. MaxSteps /\ submitted[i].cmd \in Step /\ submitted[i].desc \in Desc
  BY <1>2
<1> QED
  BY <1>3, Bounds_

HoldersOk == /\ \A n \in HolderIds : n % BufferSlots \in owned
             /\ \A m, n \in HolderIds : m % BufferSlots = n % BufferSlots => m = n
             /\ \A n \in StagedIds : staged[n % BufferSlots] = n

TrackOk == /\ \A i \in DOMAIN submitted :
                /\ submitted[i].id = submitted[i].cmd.id /\ submitted[i].id \in PendingIds
                /\ tracked[submitted[i].id % BufferSlots] = submitted[i].id
           /\ \A s \in Buffer : tracked[s] # 0 => tracked[s] % BufferSlots = s /\ tracked[s] \in PendingIds

LEMMA BuffersSplit == BuffersInv <=> HoldersOk /\ TrackOk
BY DEF BuffersInv, HoldersOk, TrackOk

LEMMA HoldersMove ==
  ASSUME HoldersOk, UNCHANGED <<owned, staged>>, HolderIds' \subseteq HolderIds, StagedIds' \subseteq StagedIds
  PROVE  HoldersOk'
BY DEF HoldersOk

LEMMA TrackMove ==
  ASSUME TrackOk, UNCHANGED <<tracked, submitted>>, PendingIds \subseteq PendingIds'
  PROVE  TrackOk'
BY DEF TrackOk

LEMMA BuffersMove ==
  ASSUME BuffersInv, UNCHANGED <<owned, staged, tracked, submitted>>,
         HolderIds' \subseteq HolderIds, StagedIds' \subseteq StagedIds, PendingIds \subseteq PendingIds'
  PROVE  BuffersInv'
<1>1. HoldersOk /\ TrackOk
  BY BuffersSplit
<1>2. HoldersOk'
  BY <1>1, HoldersMove
<1>3. TrackOk'
  BY <1>1, TrackMove
<1> QED
  BY <1>2, <1>3 DEF BuffersInv, HoldersOk, TrackOk

LEMMA RestsBuffers ==
  ASSUME workQueue' = workQueue, outWork' = outWork, out' = out, dev'.cmd = dev.cmd, dev'.work = dev.work,
         prep'.pc \in {"prepare", "put"} /\ prep'.cmd.kind = "decode" => prep' = prep
  PROVE  HolderIds' \subseteq HolderIds /\ StagedIds' \subseteq StagedIds /\ PendingIds \subseteq PendingIds'
<1>1. OutCmds' = OutCmds /\ WorkCmds' = WorkCmds
  BY DEF OutCmds, WorkCmds
<1>2. PendingIds' = PendingIds
  BY DEF PendingIds
<1>3. ASSUME NEW n \in HolderIds' PROVE n \in HolderIds
  BY <1>1, BufferIds, BufferIdsNext
<1>4. ASSUME NEW n \in StagedIds' PROVE n \in StagedIds
  BY <1>2, BufferIds, BufferIdsNext
<1> QED
  BY <1>2, <1>3, <1>4

LEMMA PreparePutBuffers ==
  ASSUME TypeInv, BuffersInv, PreparePut
  PROVE  BuffersInv'
<1> DEFINE x == [cmd |-> prep.cmd, snap |-> prep.snap, work |-> prep.work]
<1>1. /\ x \in [cmd : Command, snap : Snap, work : Work] /\ prep'.pc \in {"get", "exit"} /\ prep'.cmd = NoCmd
      /\ WorkCmds' = WorkCmds \cup {prep.cmd} /\ OutCmds' = OutCmds
  BY PreparePutTypes, PreparePutMoves
<1>2. /\ workQueue' = Append(workQueue, x) /\ prep.pc = "put" /\ x.cmd = prep.cmd /\ x.work = prep.work
      /\ UNCHANGED <<outWork, out, dev, owned, staged, tracked, submitted>>
  BY DEF PreparePut, sharedVars, runnerVars
<1>3. workQueue \in Seq([cmd : Command, snap : Snap, work : Work])
  BY DEF TypeInv, LaneTypes
<1> HIDE DEF x
<1>4. \A i \in DOMAIN workQueue' : workQueue'[i] = x \/ \E j \in DOMAIN workQueue : workQueue'[i] = workQueue[j]
  BY <1>1, <1>2, <1>3, AppendRange
<1>5. PendingIds' = PendingIds
  BY <1>2 DEF PendingIds
<1>6. ASSUME NEW n \in HolderIds' PROVE n \in HolderIds
  BY <1>1, <1>2, BufferIds, BufferIdsNext
<1>7. ASSUME NEW n \in StagedIds' PROVE n \in StagedIds
  BY <1>1, <1>2, <1>4, <1>5, BufferIds, BufferIdsNext
<1> QED
  BY <1>2, <1>5, <1>6, <1>7, BuffersMove

LEMMA DeviceGetBuffers ==
  ASSUME TypeInv, BuffersInv, DeviceGet
  PROVE  BuffersInv'
<1>1. /\ dev'.cmd = Head(workQueue).cmd /\ dev'.work = Head(workQueue).work
      /\ dev'.cmd \in WorkCmds /\ WorkCmds' \subseteq WorkCmds /\ OutCmds' = OutCmds
  BY DeviceGetTypes, DeviceGetMoves
<1>2. /\ workQueue # <<>> /\ workQueue' = Tail(workQueue)
      /\ UNCHANGED <<outWork, out, prep, owned, staged, tracked, submitted>>
  BY DEF DeviceGet, sharedVars, runnerVars
<1>3. workQueue \in Seq([cmd : Command, snap : Snap, work : Work])
  BY DEF TypeInv, LaneTypes
<1>4. /\ \A i \in DOMAIN workQueue' : \E j \in DOMAIN workQueue : workQueue'[i] = workQueue[j]
      /\ \E j \in DOMAIN workQueue : Head(workQueue) = workQueue[j]
  BY <1>2, <1>3, TailRange
<1>5. PendingIds' = PendingIds
  BY <1>2 DEF PendingIds
<1>6. ASSUME NEW n \in HolderIds' PROVE n \in HolderIds
  BY <1>1, <1>2, BufferIds, BufferIdsNext
<1>7. ASSUME NEW n \in StagedIds' PROVE n \in StagedIds
  BY <1>1, <1>2, <1>4, <1>5, BufferIds, BufferIdsNext
<1> QED
  BY <1>2, <1>5, <1>6, <1>7, BuffersMove

LEMMA OutputGetBuffers ==
  ASSUME TypeInv, BuffersInv, OutputGet
  PROVE  BuffersInv'
<1>1. /\ out.item = NoItem /\ out'.item = Head(outWork) /\ out'.item.cmd \in OutCmds
      /\ out'.pc = "reclaim" <=> out'.item.kind = "pending"
      /\ OutCmds' \subseteq OutCmds /\ WorkCmds' = WorkCmds
  BY OutputGetTypes, OutputGetMoves
<1>2. /\ outWork # <<>> /\ outWork' = Tail(outWork) /\ out.pc = "get"
      /\ UNCHANGED <<workQueue, dev, prep, owned, staged, tracked, submitted>>
  BY DEF OutputGet, sharedVars, runnerVars
<1>3. outWork \in Seq(Item)
  BY DEF TypeInv, LaneTypes
<1>4. /\ \A i \in DOMAIN outWork' : \E j \in DOMAIN outWork : outWork'[i] = outWork[j]
      /\ \E j \in DOMAIN outWork : Head(outWork) = outWork[j]
      /\ \A j \in DOMAIN outWork : outWork[j] = Head(outWork) \/ \E i \in DOMAIN outWork' : outWork'[i] = outWork[j]
  BY <1>2, <1>3, TailRange
<1>5. ASSUME NEW n PROVE n \in PendingIds' <=> n \in PendingIds
  BY <1>1, <1>2, <1>4, BufferIds, BufferIdsNext
<1>6. ASSUME NEW n \in HolderIds' PROVE n \in HolderIds
  BY <1>1, <1>2, BufferIds, BufferIdsNext
<1>7. ASSUME NEW n \in StagedIds' PROVE n \in StagedIds
  BY <1>2, <1>5, BufferIds, BufferIdsNext
<1> QED
  BY <1>2, <1>5, <1>6, <1>7, BuffersMove

\* What the device lane hands on keeps its buffer; it is pending when submitted.
LEMMA HandsBuffers ==
  ASSUME TypeInv, NEW x, Hands(x)
  PROVE  /\ HolderIds' \subseteq HolderIds
         /\ \A n : n \in PendingIds' <=> n \in PendingIds \/ (x.kind = "pending" /\ n = dev.cmd.id)
         /\ (x.kind = "pending" => dev.cmd.kind = "decode" /\ ~dev.work.error) => StagedIds' \subseteq StagedIds
<1>1. /\ OutCmds' = OutCmds \cup {dev.cmd} /\ WorkCmds' = WorkCmds
      /\ x \in Item /\ x.cmd = dev.cmd /\ outWork' = Append(outWork, x) /\ dev'.cmd = NoCmd
      /\ UNCHANGED <<workQueue, prep, out>> /\ dev'.cmd.kind = "none"
  BY HandsMoves, Nothing DEF Hands
<1>2. outWork \in Seq(Item)
  BY DEF TypeInv, LaneTypes
<1>3. /\ \A i \in DOMAIN outWork' : outWork'[i] = x \/ \E j \in DOMAIN outWork : outWork'[i] = outWork[j]
      /\ \E i \in DOMAIN outWork' : outWork'[i] = x
      /\ \A j \in DOMAIN outWork : \E i \in DOMAIN outWork' : outWork'[i] = outWork[j]
  BY <1>1, <1>2, AppendRange
<1>4. ASSUME NEW n PROVE n \in PendingIds' <=> n \in PendingIds \/ (x.kind = "pending" /\ n = dev.cmd.id)
  BY <1>1, <1>3, BufferIds, BufferIdsNext
<1>5. ASSUME NEW n \in HolderIds' PROVE n \in HolderIds
  BY <1>1, BufferIds, BufferIdsNext
<1>6. ASSUME x.kind = "pending" => dev.cmd.kind = "decode" /\ ~dev.work.error, NEW n \in StagedIds'
      PROVE  n \in StagedIds
  BY <1>1, <1>4, <1>6, BufferIds, BufferIdsNext
<1> QED
  BY <1>4, <1>5, <1>6

LEMMA DeviceEndsBuffers ==
  ASSUME TypeInv, BuffersInv, NEW x, Hands(x), x.kind # "pending", UNCHANGED <<owned, staged, tracked, submitted>>
  PROVE  BuffersInv'
BY HandsBuffers, BuffersMove

\* Behind the fence nothing is submitted.
LEMMA FenceEmpties ==
  ASSUME TypeInv, BuffersInv, PrefillFence
  PROVE  DOMAIN submitted = {}
<1> SUFFICES ASSUME NEW i \in DOMAIN submitted PROVE FALSE
  OBVIOUS
<1>1. tracked[submitted[i].id % BufferSlots] = submitted[i].id
  BY BuffersSplit DEF TrackOk
<1>2. submitted[i].id \in Nat
  BY SubmittedFields
<1> QED
  BY <1>1, <1>2, SlotInBuffer DEF PrefillFence

LEMMA DevicePrefillBuffers ==
  ASSUME TypeInv, BuffersInv, NEW x, Hands(x), x.kind # "pending", DevicePrefill
  PROVE  BuffersInv'
<1>1. HoldersOk /\ TrackOk
  BY BuffersSplit
<1>2. UNCHANGED <<owned, staged, submitted>> /\ tracked' = IF Fused THEN [s \in Buffer |-> 0] ELSE tracked
  BY DEF DevicePrefill
<1>3. CASE ~Fused
  BY <1>2, <1>3, DeviceEndsBuffers
<1>4. CASE Fused
  <2>1. PrefillFence
    BY <1>4 DEF DevicePrefill
  <2>2. DOMAIN submitted = {}
    BY <2>1, FenceEmpties
  <2>3. TrackOk'
    BY <1>2, <1>4, <2>2 DEF TrackOk
  <2>4. HoldersOk'
    BY <1>1, <1>2, HandsBuffers, HoldersMove
  <2> QED
    BY <2>3, <2>4 DEF BuffersInv, HoldersOk, TrackOk
<1> QED
  BY <1>3, <1>4

\* A pending step comes before the one at the device lane.
LEMMA PendingFirst ==
  ASSUME TypeInv, OrderInv, dev.cmd.id # 0
  PROVE  \A n \in PendingIds : n < dev.cmd.id
<1> SUFFICES ASSUME NEW n \in PendingIds PROVE n < dev.cmd.id
  OBVIOUS
<1>1. n # 0
  BY BufferSets
<1>2. dev.cmd \in FromDev /\ dev.cmd \in FromOutWork
  BY FromTypes
<1>3. CASE out.pc = "reclaim" /\ out.item.cmd.id = n
  BY <1>1, <1>2, <1>3, OrderParts
<1>4. ASSUME NEW i \in DOMAIN outWork, outWork[i].cmd.id = n PROVE n < dev.cmd.id
  <2>1. outWork[i].cmd \in OutCmds
    BY DEF OutCmds
  <2> QED
    BY <1>1, <1>2, <1>4, <2>1, OrderParts
<1> QED
  BY <1>3, <1>4, BufferIds

LEMMA DispatchUntracked ==
  ASSUME TypeInv, OrderInv, BuffersInv, dev.cmd \in Step, dev.cmd.kind = "decode"
  PROVE  tracked[SlotOf(dev.cmd)] = 0
<1> DEFINE s == dev.cmd.id % BufferSlots
<1>1. dev.cmd.id \in Nat /\ dev.cmd.id # 0 /\ s \in Buffer
  BY StepFields, SlotInBuffer
<1>2. dev.cmd.id \in HolderIds
  BY BufferIds
<1> SUFFICES ASSUME tracked[s] # 0 PROVE FALSE
  BY DEF SlotOf
<1> HIDE DEF s
<1>3. tracked[s] % BufferSlots = s /\ tracked[s] \in PendingIds
  BY <1>1, BuffersSplit DEF TrackOk
<1>4. tracked[s] \in HolderIds
  BY <1>3, BufferSets
<1>5. tracked[s] = dev.cmd.id
  BY <1>2, <1>3, <1>4, BuffersSplit DEF HoldersOk, s
<1>6. tracked[s] < dev.cmd.id
  BY <1>1, <1>3, PendingFirst
<1> QED
  BY <1>1, <1>5, <1>6

LEMMA DeviceDispatchBuffers ==
  ASSUME TypeInv, OrderInv, BuffersInv, DeviceDispatch
  PROVE  BuffersInv'
<1> DEFINE s == dev.cmd.id % BufferSlots
           e == [id |-> dev.cmd.id, cmd |-> dev.cmd, desc |-> dev.work.desc]
<1>1. HoldersOk /\ TrackOk
  BY BuffersSplit
<1>2. /\ dev.cmd \in Step /\ dev.cmd.kind = "decode" /\ dev'.cmd = NoCmd
      /\ e \in [id : 1 .. MaxSteps, cmd : Step, desc : Desc]
  BY DeviceDispatchTypes
<1>3. UNCHANGED <<inQueue, workQueue, outQueue, prep, out, owned, staged>>
  BY DEF DeviceDispatch, Hand, sharedVars
<1>4. tracked[s] = 0
  BY <1>2, DispatchUntracked DEF SlotOf
<1>5. dev.cmd.id \in Nat /\ dev.cmd.id # 0 /\ s \in Buffer
  BY <1>2, StepFields, SlotInBuffer
<1>6. CASE /\ \E x \in Item : x.cmd = dev.cmd /\ x.kind = "done" /\ outWork' = Append(outWork, x)
           /\ UNCHANGED <<submitted, tracked>>
  <2>1. PICK x \in Item : x.cmd = dev.cmd /\ x.kind = "done" /\ outWork' = Append(outWork, x)
    BY <1>6
  <2>2. Hands(x)
    BY <1>2, <1>3, <2>1 DEF Hands
  <2> QED
    BY <1>3, <1>6, <2>1, <2>2, DeviceEndsBuffers
<1>7. CASE /\ ~dev.work.error
           /\ \E x \in Item : x.cmd = dev.cmd /\ x.kind = "pending" /\ outWork' = Append(outWork, x)
           /\ submitted' = Launched(dev.cmd) /\ tracked' = Track(dev.cmd)
  <2>1. PICK x \in Item : x.cmd = dev.cmd /\ x.kind = "pending" /\ outWork' = Append(outWork, x)
    BY <1>7
  <2>2. Hands(x)
    BY <1>2, <1>3, <2>1 DEF Hands
  <2>3. /\ HolderIds' \subseteq HolderIds /\ StagedIds' \subseteq StagedIds
        /\ \A n : n \in PendingIds' <=> n \in PendingIds \/ n = dev.cmd.id
    BY <1>2, <1>7, <2>1, <2>2, HandsBuffers
  <2>4. HoldersOk'
    BY <1>1, <1>3, <2>3, HoldersMove
  <2>5. submitted \in Seq([id : 1 .. MaxSteps, cmd : Step, desc : Desc]) /\ tracked \in [Buffer -> 0 .. MaxSteps]
    BY DEF TypeInv, RunnerTypes
  <2>6. submitted' = Append(submitted, e) /\ e.id = dev.cmd.id /\ e.cmd = dev.cmd
        /\ tracked' = [tracked EXCEPT ![s] = dev.cmd.id]
    BY <1>7 DEF Launched, Track, SlotOf
  <2> HIDE DEF e, s
  <2>7. \A i \in DOMAIN submitted' : submitted'[i] = e \/ \E j \in DOMAIN submitted : submitted'[i] = submitted[j]
    BY <1>2, <2>5, <2>6, AppendRange
  <2>8. tracked'[s] = dev.cmd.id /\ \A q \in Buffer \ {s} : tracked'[q] = tracked[q]
    BY <1>5, <2>5, <2>6
  <2>9. ASSUME NEW j \in DOMAIN submitted
        PROVE  /\ submitted[j].id = submitted[j].cmd.id /\ submitted[j].id \in PendingIds'
               /\ tracked'[submitted[j].id % BufferSlots] = submitted[j].id
    <3>1. /\ submitted[j].id = submitted[j].cmd.id /\ submitted[j].id \in PendingIds
          /\ tracked[submitted[j].id % BufferSlots] = submitted[j].id
      BY <1>1 DEF TrackOk
    <3>2. submitted[j].id \in Nat /\ submitted[j].id # 0 /\ submitted[j].id % BufferSlots \in Buffer
      BY SubmittedFields, SlotInBuffer
    <3>3. submitted[j].id % BufferSlots # s
      BY <1>4, <3>1, <3>2
    <3> QED
      BY <2>3, <2>8, <3>1, <3>2, <3>3
  <2>10. /\ e.id = e.cmd.id /\ e.id \in PendingIds' /\ tracked'[e.id % BufferSlots] = e.id
    BY <2>3, <2>6, <2>8 DEF s
  <2>11. \A i \in DOMAIN submitted' :
           /\ submitted'[i].id = submitted'[i].cmd.id /\ submitted'[i].id \in PendingIds'
           /\ tracked'[submitted'[i].id % BufferSlots] = submitted'[i].id
    BY <2>7, <2>9, <2>10
  <2>12. \A q \in Buffer : tracked'[q] # 0 => tracked'[q] % BufferSlots = q /\ tracked'[q] \in PendingIds'
    <3> SUFFICES ASSUME NEW q \in Buffer, tracked'[q] # 0
                 PROVE  tracked'[q] % BufferSlots = q /\ tracked'[q] \in PendingIds'
      OBVIOUS
    <3>1. CASE q = s
      BY <2>3, <2>8, <3>1 DEF s
    <3>2. CASE q # s
      BY <1>1, <2>3, <2>8, <3>2 DEF TrackOk
    <3> QED
      BY <3>1, <3>2
  <2>13. TrackOk'
    BY <2>11, <2>12 DEF TrackOk
  <2> QED
    BY <2>4, <2>13 DEF BuffersInv, HoldersOk, TrackOk
<1> QED
  BY <1>4, <1>6, <1>7, DeviceDispatchTypes DEF SlotOf

LEMMA PrepareAcquireBuffers ==
  ASSUME TypeInv, BuffersInv, PrepareAcquire
  PROVE  BuffersInv'
<1> DEFINE s == prep.cmd.id % BufferSlots
<1>1. HoldersOk /\ TrackOk
  BY BuffersSplit
<1>2. prep'.cmd = prep.cmd /\ prep'.pc = "prepare" /\ prep.cmd \in Step /\ prep.cmd.kind = "decode"
  BY PrepareAcquireTypes
<1>3. /\ prep.pc = "acquire" /\ s \notin owned /\ owned' = owned \cup {s}
      /\ UNCHANGED <<workQueue, outWork, dev, out, staged, tracked, submitted>>
  BY DEF PrepareAcquire, runnerVars, SlotOf
<1>4. OutCmds' = OutCmds /\ WorkCmds' = WorkCmds /\ PendingIds' = PendingIds
  BY <1>3 DEF OutCmds, WorkCmds, PendingIds
<1>5. ASSUME NEW n \in HolderIds' PROVE n \in HolderIds \/ n = prep.cmd.id
  BY <1>2, <1>3, <1>4, BufferIds, BufferIdsNext
<1>6. ASSUME NEW n \in StagedIds' PROVE n \in StagedIds
  BY <1>2, <1>3, <1>4, BufferIds, BufferIdsNext
<1>7. \A n \in HolderIds' : n % BufferSlots \in owned'
  BY <1>1, <1>3, <1>5 DEF HoldersOk
<1>8. \A m, n \in HolderIds' : m % BufferSlots = n % BufferSlots => m = n
  BY <1>1, <1>3, <1>5 DEF HoldersOk
<1>9. \A n \in StagedIds' : staged'[n % BufferSlots] = n
  BY <1>1, <1>3, <1>6 DEF HoldersOk
<1>10. TrackOk'
  BY <1>1, <1>3, <1>4, TrackMove
<1> QED
  BY <1>7, <1>8, <1>9, <1>10 DEF BuffersInv, TrackOk

LEMMA PrepareDecodeBuffers ==
  ASSUME TypeInv, SlotsInv, BuffersInv, PrepareDecode
  PROVE  BuffersInv'
<1> DEFINE s == prep.cmd.id % BufferSlots
<1>1. HoldersOk /\ TrackOk
  BY BuffersSplit
<1>2. /\ prep'.cmd = prep.cmd /\ prep'.pc = "put" /\ prep.cmd \in Step /\ prep.cmd.kind = "decode"
      /\ ~prep'.work.error => staged' = [staged EXCEPT ![s] = prep.cmd.id]
      /\ prep'.work.error => staged' = staged
  BY PrepareDecodeTypes DEF SlotOf
<1>3. prep.pc = "prepare" /\ UNCHANGED <<workQueue, outWork, dev, out, owned, tracked, submitted>>
  BY DEF PrepareDecode
<1>4. OutCmds' = OutCmds /\ WorkCmds' = WorkCmds /\ PendingIds' = PendingIds
  BY <1>3 DEF OutCmds, WorkCmds, PendingIds
<1>5. ASSUME NEW n \in HolderIds' PROVE n \in HolderIds
  BY <1>2, <1>3, <1>4, BufferIds, BufferIdsNext
<1>6. ASSUME NEW n \in StagedIds'
      PROVE  n \in StagedIds \/ (n = prep.cmd.id /\ ~prep'.work.error)
  BY <1>2, <1>3, <1>4, BufferIds, BufferIdsNext
<1>7. prep.cmd.id \in HolderIds
  BY <1>2, <1>3, BufferIds
<1>8. staged \in [Buffer -> 0 .. MaxSteps] /\ s \in Buffer
  BY <1>2, StepFields, SlotInBuffer DEF TypeInv, SharedTypes
<1>9. ASSUME NEW n \in StagedIds' PROVE staged'[n % BufferSlots] = n
  <2>1. n \in HolderIds /\ n % BufferSlots \in Buffer
    BY <1>6, <1>7, BufferSets, SlotInBuffer
  <2>2. n % BufferSlots = s => n = prep.cmd.id
    BY <1>1, <1>7, <2>1 DEF HoldersOk
  <2>3. n \in StagedIds => staged[n % BufferSlots] = n
    BY <1>1 DEF HoldersOk
  <2> HIDE DEF s
  <2>4. CASE prep'.work.error
    BY <1>2, <1>6, <2>3, <2>4
  <2>5. CASE ~prep'.work.error
    <3>1. staged' = [staged EXCEPT ![s] = prep.cmd.id]
      BY <1>2, <2>5
    <3>2. CASE n % BufferSlots = s
      BY <1>8, <2>2, <3>1, <3>2
    <3>3. CASE n % BufferSlots # s
      <4>1. n # prep.cmd.id
        BY <3>3 DEF s
      <4> QED
        BY <1>6, <1>8, <2>1, <2>3, <3>1, <3>3, <4>1
    <3> QED
      BY <3>2, <3>3
  <2> QED
    BY <2>4, <2>5
<1>10. HoldersOk'
  BY <1>1, <1>3, <1>5, <1>9 DEF HoldersOk
<1>11. TrackOk'
  BY <1>1, <1>3, <1>4, TrackMove
<1> QED
  BY <1>10, <1>11 DEF BuffersInv, HoldersOk, TrackOk

LEMMA KernelBuffers ==
  ASSUME TypeInv, BuffersInv, KernelCompletes
  PROVE  BuffersInv'
<1>1. HoldersOk /\ TrackOk
  BY BuffersSplit
<1>2. /\ submitted # <<>> /\ submitted' = Tail(submitted)
      /\ UNCHANGED <<workQueue, outWork, prep, dev, out, owned, staged, tracked>>
  BY DEF KernelCompletes, sharedVars
<1>3. HolderIds' = HolderIds /\ StagedIds' = StagedIds /\ PendingIds' = PendingIds
  BY <1>2 DEF HolderIds, StagedIds, PendingIds, OutCmds, WorkCmds
<1>4. submitted \in Seq([id : 1 .. MaxSteps, cmd : Step, desc : Desc])
  BY DEF TypeInv, RunnerTypes
<1>5. \A i \in DOMAIN submitted' : \E j \in DOMAIN submitted : submitted'[i] = submitted[j]
  BY <1>2, <1>4, TailRange
<1>6. TrackOk'
  BY <1>1, <1>2, <1>3, <1>5 DEF TrackOk
<1>7. HoldersOk'
  BY <1>1, <1>2, <1>3, HoldersMove
<1> QED
  BY <1>6, <1>7 DEF BuffersInv, HoldersOk, TrackOk

LEMMA OutputReclaimBuffers ==
  ASSUME TypeInv, BuffersInv, OutputReclaim \/ OutputReclaimFails
  PROVE  BuffersInv'
<1> DEFINE id == out.item.cmd.id
           s  == id % BufferSlots
<1>1. HoldersOk /\ TrackOk
  BY BuffersSplit
<1>2. /\ out.pc = "reclaim" /\ Wait /\ out'.item.cmd = out.item.cmd /\ out'.pc = "publish"
      /\ out.item.cmd \in Step /\ tracked' = IF tracked[s] = id THEN [tracked EXCEPT ![s] = 0] ELSE tracked
  BY OutputReclaimTypes DEF Forget, SlotOf
<1>3. UNCHANGED <<workQueue, outWork, prep, dev, owned, staged, submitted>>
  BY DEF OutputReclaim, OutputReclaimFails, sharedVars
<1>4. OutCmds' = OutCmds /\ WorkCmds' = WorkCmds
  BY <1>3 DEF OutCmds, WorkCmds
<1>5. id \in Nat /\ id # 0 /\ s \in Buffer /\ tracked \in [Buffer -> 0 .. MaxSteps]
  BY <1>2, StepFields, SlotInBuffer DEF TypeInv, RunnerTypes
<1>6. ASSUME NEW n \in HolderIds' PROVE n \in HolderIds
  BY <1>2, <1>3, <1>4, BufferIds, BufferIdsNext
<1>7. ASSUME NEW n \in PendingIds' PROVE n \in PendingIds
  BY <1>2, <1>3, BufferIds, BufferIdsNext
<1>8. ASSUME NEW n \in PendingIds, n # id PROVE n \in PendingIds'
  BY <1>2, <1>3, <1>8, BufferIds, BufferIdsNext
<1>9. ASSUME NEW n \in StagedIds' PROVE n \in StagedIds
  BY <1>3, <1>7, BufferIds, BufferIdsNext
<1>10. HoldersOk'
  BY <1>1, <1>3, <1>6, <1>9, HoldersMove
<1>11. \A i \in DOMAIN submitted : submitted[i].id # id
  BY <1>2 DEF Wait
<1> HIDE DEF id, s
<1>12. ASSUME NEW i \in DOMAIN submitted
       PROVE  /\ submitted[i].id = submitted[i].cmd.id /\ submitted[i].id \in PendingIds'
              /\ tracked'[submitted[i].id % BufferSlots] = submitted[i].id
  <2>1. /\ submitted[i].id = submitted[i].cmd.id /\ submitted[i].id \in PendingIds
        /\ tracked[submitted[i].id % BufferSlots] = submitted[i].id
    BY <1>1 DEF TrackOk
  <2>2. submitted[i].id \in Nat /\ submitted[i].id % BufferSlots \in Buffer /\ submitted[i].id # id
    BY <1>11, SubmittedFields, SlotInBuffer
  <2>3. tracked'[submitted[i].id % BufferSlots] = tracked[submitted[i].id % BufferSlots]
    BY <1>2, <1>5, <2>1, <2>2
  <2> QED
    BY <1>8, <2>1, <2>2, <2>3
<1>13. ASSUME NEW q \in Buffer, tracked'[q] # 0
       PROVE  tracked'[q] % BufferSlots = q /\ tracked'[q] \in PendingIds'
  <2>1. tracked'[q] = tracked[q] /\ (q = s => tracked[s] # id)
    BY <1>2, <1>5, <1>13
  <2>2. tracked[q] % BufferSlots = q /\ tracked[q] \in PendingIds
    BY <1>1, <1>13, <2>1 DEF TrackOk
  <2>3. tracked[q] # id
    BY <2>1, <2>2 DEF s
  <2> QED
    BY <1>8, <2>1, <2>2, <2>3
<1>14. TrackOk'
  BY <1>3, <1>12, <1>13 DEF TrackOk
<1> QED
  BY <1>10, <1>14 DEF BuffersInv, HoldersOk, TrackOk

LEMMA OutputPublishBuffers ==
  ASSUME TypeInv, OrderInv, BuffersInv, OutputPublish
  PROVE  BuffersInv'
<1> DEFINE id == out.item.cmd.id
<1>1. HoldersOk /\ TrackOk
  BY BuffersSplit
<1>2. /\ out.item.cmd \in Step /\ out'.pc = "get" /\ out'.item.cmd = NoCmd /\ out'.item.cmd.kind = "none"
      /\ OutCmds' = OutCmds /\ WorkCmds' = WorkCmds
  BY OutputPublishTypes, OutputPublishMoves, Nothing
<1>3. /\ out.pc = "publish" /\ UNCHANGED <<workQueue, outWork, prep, dev, staged, tracked, submitted>>
      /\ owned' = IF out.item.cmd.kind = "decode" THEN owned \ {id % BufferSlots} ELSE owned
  BY DEF OutputPublish, runnerVars, SlotOf
<1>4. id # 0 /\ id \in Nat
  BY <1>2, StepFields
<1>5. PendingIds' = PendingIds
  BY <1>2, <1>3 DEF PendingIds
<1>6. ASSUME NEW n \in HolderIds' PROVE n \in HolderIds /\ n # id
  <2>1. n \in HolderIds
    BY <1>2, <1>3, BufferIds, BufferIdsNext
  <2>2. \E c \in {dev.cmd, prep.cmd} \cup OutCmds \cup WorkCmds : c.id = n
    BY <1>2, <1>3, BufferIdsNext
  <2>3. PICK c \in FromOutWork : c.id = n
    BY <2>2, FromTypes
  <2>4. n # 0 /\ n \in Nat
    BY <2>1, BufferSets
  <2>5. id < n
    BY <1>4, <2>3, <2>4, OrderParts
  <2> QED
    BY <1>4, <2>1, <2>4, <2>5
<1>7. ASSUME NEW n \in StagedIds' PROVE n \in StagedIds
  BY <1>3, <1>5, BufferIds, BufferIdsNext
<1>8. ASSUME NEW n \in HolderIds' PROVE n % BufferSlots \in owned'
  <2>1. n \in HolderIds /\ n # id /\ n % BufferSlots \in owned
    BY <1>1, <1>6 DEF HoldersOk
  <2>2. CASE out.item.cmd.kind = "decode"
    <3>1. id \in HolderIds
      BY <2>2, BufferIds
    <3>2. n % BufferSlots # id % BufferSlots
      BY <1>1, <2>1, <3>1 DEF HoldersOk
    <3> QED
      BY <1>3, <2>1, <3>2
  <2> QED
    BY <1>3, <2>1, <2>2
<1>9. HoldersOk'
  BY <1>1, <1>3, <1>6, <1>7, <1>8 DEF HoldersOk
<1>10. TrackOk'
  BY <1>1, <1>3, <1>5, TrackMove
<1> QED
  BY <1>9, <1>10 DEF BuffersInv, HoldersOk, TrackOk

LEMMA EngineKeepsLanes ==
  ASSUME Engine
  PROVE  UNCHANGED <<mode, workQueue, outWork, prep, dev, out, sharedVars, runnerVars>>
<1>1. ASSUME NEW batch, NEW victims, SendPrefill(batch, victims) \/ SendDecode(batch, victims)
      PROVE  UNCHANGED <<mode, workQueue, outWork, prep, dev, out, sharedVars, runnerVars>>
  BY <1>1 DEF SendPrefill, SendDecode, Send
<1>2. CASE SendCleanup \/ SendProfile \/ SendShutdown
  BY <1>2 DEF SendCleanup, SendProfile, SendShutdown, Send, SendControl
<1>3. CASE Receive \/ Timeout \/ \E r \in Request : Abort(r)
  BY <1>3 DEF Receive, Timeout, Abort
<1> QED
  BY <1>1, <1>2, <1>3 DEF Engine

LEMMA BuffersInitially == Init => BuffersInv
<1> SUFFICES ASSUME Init PROVE BuffersInv
  OBVIOUS
<1>1. /\ workQueue = <<>> /\ outWork = <<>> /\ submitted = <<>> /\ tracked = [s \in Buffer |-> 0]
      /\ prep.pc = "get" /\ dev.cmd = NoCmd /\ out.item.cmd = NoCmd /\ out.pc = "get" /\ NoCmd.kind = "none"
  BY Nothing DEF Init
<1>2. OutCmds = {} /\ WorkCmds = {}
  BY <1>1 DEF OutCmds, WorkCmds
<1>3. HolderIds = {} /\ PendingIds = {} /\ StagedIds = {}
  BY <1>1, <1>2, BufferIds
<1> QED
  BY <1>1, <1>3 DEF BuffersInv

LEMMA HandedBuffers ==
  ASSUME TypeInv, SlotsInv, OrderInv, BuffersInv, HandAction
  PROVE  BuffersInv'
<1>1. PICK x \in Item : Hands(x)
  BY HandActionMoves
<1>2. CASE DeviceDispatch
  BY <1>2, DeviceDispatchBuffers
<1>3. CASE DevicePrefill
  <2>1. PICK y \in Item : y.cmd = dev.cmd /\ y.kind = "done" /\ outWork' = Append(outWork, y)
    BY <1>3, DevicePrefillTypes
  <2>2. Hands(y)
    BY <1>1, <2>1 DEF Hands
  <2> QED
    BY <1>3, <2>1, <2>2, DevicePrefillBuffers
<1>4. CASE DeviceControl \/ DeviceFails \/ DeviceCleanup \/ DeviceDecode
  <2>1. UNCHANGED <<owned, staged, tracked, submitted>>
    BY <1>4 DEF DeviceControl, DeviceFails, DeviceCleanup, DeviceDecode, sharedVars, runnerVars
  <2>2. PICK y \in Item : y.cmd = dev.cmd /\ y.kind # "pending" /\ outWork' = Append(outWork, y)
    BY <1>4, DeviceControlTypes, DeviceEndsTypes
  <2>3. Hands(y)
    BY <1>1, <2>2 DEF Hands
  <2> QED
    BY <2>1, <2>2, <2>3, DeviceEndsBuffers
<1> QED
  BY <1>2, <1>3, <1>4 DEF HandAction

LEMMA BuffersStep ==
  ASSUME Pipeline, BuffersInv, [Next]_vars
  PROVE  BuffersInv'
<1>1. TypeInv /\ AtBarrier /\ SlotsInv /\ OrderInv /\ AccountInv
  BY DEF Pipeline
<1>2. ASSUME UNCHANGED <<workQueue, outWork, prep, dev, out, sharedVars, runnerVars>> PROVE BuffersInv'
  BY <1>2, RestsBuffers, BuffersMove DEF sharedVars, runnerVars
<1>3. CASE Engine
  BY <1>2, <1>3, EngineKeepsLanes
<1>4. CASE HandAction
  BY <1>1, <1>4, HandedBuffers
<1>5. CASE PrepareGet \/ PrepareRegister
  <2>1. prep'.pc \in {"prepare", "put"} => prep'.cmd.kind # "decode"
    BY <1>1, <1>5, PrepareGetTypes, PrepareRegisterTypes
  <2>2. UNCHANGED <<workQueue, outWork, out, dev, owned, staged, tracked, submitted>>
    BY <1>5 DEF PrepareGet, PrepareRegister, sharedVars, runnerVars
  <2> QED
    BY <2>1, <2>2, RestsBuffers, BuffersMove
<1>6. CASE DeviceRelease \/ DeviceDrop
  <2>1. dev'.cmd = dev.cmd /\ dev'.work = dev.work
    BY <1>1, <1>6, DeviceReleaseTypes, DeviceDropTypes
  <2>2. UNCHANGED <<workQueue, outWork, out, prep, owned, staged, tracked, submitted>>
    BY <1>6 DEF DeviceRelease, DeviceDrop, sharedVars, runnerVars
  <2> QED
    BY <2>1, <2>2, RestsBuffers, BuffersMove
<1>7. CASE OutputProfile \/ OutputShutdown
  <2>1. /\ dev'.cmd = dev.cmd /\ OutCmds' = OutCmds /\ WorkCmds' = WorkCmds /\ out'.item.cmd = NoCmd
        /\ out'.pc \in {"get", "exit"} /\ NoCmd.kind = "none"
    BY <1>1, <1>7, OutputControlMoves, OutputControlTypes, Nothing
  <2>2. UNCHANGED <<workQueue, outWork, prep, owned, staged, tracked, submitted>> /\ out.pc \in {"profile", "shutdown"}
    BY <1>7 DEF OutputProfile, OutputShutdown, sharedVars, runnerVars
  <2>3. dev'.work = dev.work \/ dev'.cmd.kind # "decode"
    <3>1. CASE dev' = dev
      BY <3>1
    <3>2. CASE dev' = DeviceIdle
      BY <3>2, Nothing DEF DeviceIdle
    <3> QED
      BY <1>1, <1>7, <3>1, <3>2, OutputControlTypes
  <2>4. ASSUME NEW n PROVE n \in PendingIds' <=> n \in PendingIds
    BY <2>1, <2>2, BufferIds, BufferIdsNext
  <2>5. ASSUME NEW n \in HolderIds' PROVE n \in HolderIds
    BY <2>1, <2>2, BufferIds, BufferIdsNext
  <2>6. ASSUME NEW n \in StagedIds' PROVE n \in StagedIds
    BY <2>1, <2>2, <2>3, <2>4, BufferIds, BufferIdsNext
  <2> QED
    BY <2>2, <2>4, <2>5, <2>6, BuffersMove
<1>8. CASE UNCHANGED vars
  BY <1>2, <1>8 DEF vars
<1>9. CASE RestAction
  BY <1>1, <1>5, <1>6, <1>9, PrepareAcquireBuffers, PrepareDecodeBuffers, KernelBuffers, OutputReclaimBuffers
     DEF RestAction
<1>10. CASE GetAction
  BY <1>1, <1>5, <1>7, <1>10, PreparePutBuffers, DeviceGetBuffers, OutputGetBuffers, OutputPublishBuffers
     DEF GetAction
<1> QED
  BY <1>3, <1>4, <1>8, <1>9, <1>10, StepCases

-----------------------------------------------------------------------------
(***************************************************************************)
(* Releases.                                                               *)
(***************************************************************************)
LEMMA ReleaseInitially == Init => ReleaseInv
<1> SUFFICES ASSUME Init PROVE ReleaseInv
  OBVIOUS
<1>1. /\ inQueue = <<>> /\ workQueue = <<>> /\ prep.cmd = NoCmd /\ dev.cmd = NoCmd /\ pendingFree = {}
      /\ NoCmd.finished = {} /\ NoCmd.kind = "none" /\ \A r \in Request : phase[r] = "new"
  BY Nothing DEF Init
<1>2. FromDev = {NoCmd}
  BY <1>1 DEF FromDev, FromWork, FromPrep, InCmds, WorkCmds
<1> QED
  BY <1>1, <1>2 DEF ReleaseInv

LEMMA ReleaseMove ==
  ASSUME ReleaseInv, UNCHANGED <<mode, pendingFree, phase, inFlight>>,
         \A c \in FromDev' : c \in FromDev \/ (c.finished = {} /\ c.kind # "decode")
  PROVE  ReleaseInv'
<1>1. \A r \in pendingFree' : phase'[r] = "gone"
  BY DEF ReleaseInv
<1>2. ASSUME Fused', NEW r \in Request, phase'[r] = "ready", NEW c \in FromDev' PROVE r \notin c.finished
  BY <1>2 DEF ReleaseInv, Fused
<1>3. ASSUME Fused', NEW r \in Request, phase'[r] = "prefill", NEW i \in DOMAIN inFlight', r \in inFlight'[i].reqs,
             NEW c \in FromDev', c.id > inFlight'[i].id
      PROVE  r \notin c.finished
  BY <1>3 DEF ReleaseInv, Fused
<1>4. ASSUME Fused', NEW r \in Request, NEW d \in FromDev', d.kind = "decode", r \in d.reqs,
             NEW c \in FromDev', c.id <= d.id
      PROVE  r \notin c.finished
  BY <1>4 DEF ReleaseInv, Fused
<1> QED
  BY <1>1, <1>2, <1>3, <1>4 DEF ReleaseInv

LEMMA SendRelease ==
  ASSUME TypeInv, OrderInv, ReleaseInv, NEW kind \in {"prefill", "decode", "cleanup"},
         NEW batch \in SUBSET Request, NEW victims \in SUBSET Request, Send(kind, batch, victims),
         kind = "prefill" => \A r \in batch : ~BusyWith(r),
         kind = "decode" /\ Fused => \A r \in batch : phase[r] = "ready"
  PROVE  ReleaseInv'
<1>1. PICK c : Sends(c, kind, batch, victims)
  BY SendTypes
<1>2. /\ c \in Step /\ c.kind = kind /\ c.id = sent + 1 /\ c.reqs = batch
      /\ c.finished = pendingFree \cup victims
      /\ inFlight' = Append(inFlight, c) /\ inQueue' = Append(inQueue, c)
  BY <1>1 DEF Sends
<1>3. /\ pendingFree' = {} /\ UNCHANGED <<mode, workQueue, outWork, outQueue, prep, dev, out>>
      /\ phase' = [r \in Request |-> IF r \in victims THEN "new"
                                     ELSE IF r \in batch /\ kind = "prefill" THEN "prefill"
                                     ELSE phase[r]]
      /\ \A r \in victims : r \notin batch
  BY DEF Send
<1>4. FromDev' = FromDev \cup {c}
  BY <1>2, <1>3, SentMoves, StepFields DEF TypeInv, LaneTypes
<1>5. \A d \in FromDev : d.id \in Nat /\ d.id <= sent
  BY FromTypes, OrderParts
<1>6. sent \in Nat /\ inFlight \in Seq(Step)
  BY Bounds_ DEF TypeInv, EngineTypes
<1>7. \A i \in DOMAIN inFlight' : inFlight'[i] = c \/ \E j \in DOMAIN inFlight : inFlight'[i] = inFlight[j]
  BY <1>2, <1>6, AppendRange
<1>8. ASSUME NEW r \in Request, r \notin victims, phase[r] # "gone" PROVE r \notin c.finished
  BY <1>2, <1>8 DEF ReleaseInv
<1>9. ASSUME Fused', NEW r \in Request, phase'[r] = "ready", NEW b \in FromDev' PROVE r \notin b.finished
  <2>1. phase[r] = "ready" /\ r \notin victims /\ Fused
    BY <1>3, <1>9 DEF Fused
  <2> QED
    BY <1>4, <1>8, <2>1 DEF ReleaseInv
<1>10. ASSUME Fused', NEW r \in Request, phase'[r] = "prefill", NEW i \in DOMAIN inFlight', r \in inFlight'[i].reqs,
              NEW b \in FromDev', b.id > inFlight'[i].id
       PROVE  r \notin b.finished
  <2>1. inFlight'[i] # c
    BY <1>2, <1>4, <1>5, <1>6, <1>10
  <2>2. PICK j \in DOMAIN inFlight : inFlight'[i] = inFlight[j]
    BY <1>7, <2>1
  <2>3. BusyWith(r)
    BY <1>10, <2>2 DEF BusyWith
  <2>4. phase[r] = "prefill" /\ r \notin victims /\ Fused
    BY <1>3, <1>10, <2>3 DEF Fused
  <2>5. CASE b = c
    BY <1>8, <2>4, <2>5
  <2>6. CASE b \in FromDev
    BY <1>10, <2>2, <2>4, <2>6 DEF ReleaseInv
  <2> QED
    BY <1>4, <2>5, <2>6
<1>11. ASSUME Fused', NEW r \in Request, NEW d \in FromDev', d.kind = "decode", r \in d.reqs,
              NEW b \in FromDev', b.id <= d.id
       PROVE  r \notin b.finished
  <2>1. Fused
    BY <1>3, <1>11 DEF Fused
  <2>2. CASE d = c
    <3>1. phase[r] = "ready" /\ r \notin victims
      BY <1>2, <1>3, <1>11, <2>1, <2>2
    <3> QED
      BY <1>4, <1>8, <2>1, <3>1 DEF ReleaseInv
  <2>3. CASE d \in FromDev /\ b = c
    BY <1>2, <1>5, <1>6, <1>11, <2>3
  <2>4. CASE d \in FromDev /\ b \in FromDev
    BY <1>11, <2>1, <2>4 DEF ReleaseInv
  <2> QED
    BY <1>4, <2>2, <2>3, <2>4
<1> QED
  BY <1>3, <1>9, <1>10, <1>11 DEF ReleaseInv

LEMMA DropRelease ==
  ASSUME TypeInv, ReleaseInv, NEW ids, DropPipeline(ids), mode' = mode, FromDev' = FromDev
  PROVE  ReleaseInv'
<1> DEFINE failed == UNION {inFlight[i].reqs : i \in DOMAIN inFlight}
<1>1. /\ inFlight' = <<>> /\ pendingFree' = pendingFree \cup failed
      /\ phase' = [r \in Request |-> IF r \in failed THEN "gone" ELSE phase[r]]
  BY DEF DropPipeline
<1>2. failed \subseteq Request /\ pendingFree \subseteq Request
  <2>1. inFlight \in Seq(Step) /\ pendingFree \subseteq Request
    BY DEF TypeInv, EngineTypes
  <2>2. ASSUME NEW i \in DOMAIN inFlight PROVE inFlight[i].reqs \subseteq Request
    <3>1. inFlight[i] \in Step
      BY <2>1, QueueFacts
    <3> QED
      BY <3>1, StepFields
  <2> QED
    BY <2>1, <2>2
<1> HIDE DEF failed
<1>3. \A r \in Request : phase'[r] = IF r \in failed THEN "gone" ELSE phase[r]
  BY <1>1
<1>4. \A r \in pendingFree' : phase'[r] = "gone"
  BY <1>1, <1>2, <1>3 DEF ReleaseInv
<1>5. ASSUME Fused', NEW r \in Request, phase'[r] = "ready", NEW c \in FromDev' PROVE r \notin c.finished
  BY <1>3, <1>5 DEF ReleaseInv, Fused
<1>6. ASSUME Fused', NEW r \in Request, NEW d \in FromDev', d.kind = "decode", r \in d.reqs,
             NEW c \in FromDev', c.id <= d.id
      PROVE  r \notin c.finished
  BY <1>6 DEF ReleaseInv, Fused
<1> QED
  BY <1>1, <1>4, <1>5, <1>6 DEF ReleaseInv

LEMMA ReceiveRelease ==
  ASSUME TypeInv, OrderInv, AccountInv, ReleaseInv, Receive
  PROVE  ReleaseInv'
<1>1. FromDev' = FromDev /\ mode' = mode
  BY ReceiveMoves DEF Receive
<1>2. CASE UNCHANGED <<inFlight, phase, pendingFree>>
  BY <1>1, <1>2, ReleaseMove
<1>3. CASE DropPipeline(InFlightIds \ {Head(outQueue).id})
  BY <1>1, <1>3, DropRelease
<1>4. CASE /\ Head(outQueue).id \notin discard
           /\ inFlight' = Tail(inFlight) /\ pendingFree' = pendingFree
           /\ phase' = [r \in Request |-> IF r \in Head(inFlight).reqs /\ phase[r] = "prefill"
                                          THEN "ready" ELSE phase[r]]
  <2>1. inFlight # <<>> /\ \A c \in FromDev : c.id # 0 => Head(inFlight).id < c.id
    BY <1>4, ReceiveHead, FromTypes
  <2>2. inFlight \in Seq(Step) /\ pendingFree \subseteq Request
    BY DEF TypeInv, EngineTypes
  <2>3. /\ \A i \in DOMAIN inFlight' : \E j \in DOMAIN inFlight : inFlight'[i] = inFlight[j]
        /\ \E j \in DOMAIN inFlight : Head(inFlight) = inFlight[j]
    BY <1>4, <2>1, <2>2, TailRange
  <2>4. \A c \in FromDev : c.id = 0 => c.finished = {}
    BY FromTypes, CommandFields
  <2>5. PICK j \in DOMAIN inFlight : Head(inFlight) = inFlight[j]
    BY <2>3
  <2>6. Head(inFlight).id \in Nat /\ \A c \in FromDev : c.id \in Nat
    <3>1. Head(inFlight) \in Step
      BY <2>2, <2>5, QueueFacts
    <3> QED
      BY <3>1, StepFields, FromTypes
  <2>7. \A r \in pendingFree' : phase'[r] = "gone"
    BY <1>4, <2>2 DEF ReleaseInv
  <2>8. ASSUME Fused', NEW r \in Request, phase'[r] = "ready", NEW c \in FromDev' PROVE r \notin c.finished
    <3>1. CASE phase[r] = "ready"
      BY <1>1, <2>8, <3>1 DEF ReleaseInv, Fused
    <3>2. CASE phase[r] = "prefill" /\ r \in Head(inFlight).reqs
      <4>1. CASE c.id = 0
        BY <1>1, <2>4, <4>1
      <4>2. CASE c.id # 0
        <5>1. c \in FromDev /\ c.id > inFlight[j].id /\ r \in inFlight[j].reqs
          BY <1>1, <2>1, <2>5, <2>6, <3>2, <4>2
        <5> QED
          BY <1>1, <2>8, <3>2, <5>1 DEF ReleaseInv, Fused
      <4> QED
        BY <4>1, <4>2
    <3> QED
      BY <1>4, <2>8, <3>1, <3>2
  <2>9. ASSUME Fused', NEW r \in Request, phase'[r] = "prefill", NEW i \in DOMAIN inFlight', r \in inFlight'[i].reqs,
               NEW c \in FromDev', c.id > inFlight'[i].id
        PROVE  r \notin c.finished
    <3>1. phase[r] = "prefill" /\ Fused
      BY <1>1, <1>4, <2>9 DEF Fused
    <3>2. PICK k \in DOMAIN inFlight : inFlight'[i] = inFlight[k]
      BY <2>3
    <3> QED
      BY <1>1, <2>9, <3>1, <3>2 DEF ReleaseInv
  <2>10. ASSUME Fused', NEW r \in Request, NEW d \in FromDev', d.kind = "decode", r \in d.reqs,
                NEW c \in FromDev', c.id <= d.id
         PROVE  r \notin c.finished
    BY <1>1, <2>10 DEF ReleaseInv, Fused
  <2> QED
    BY <2>7, <2>8, <2>9, <2>10 DEF ReleaseInv
<1> QED
  BY <1>2, <1>3, <1>4 DEF Receive

LEMMA EngineRelease ==
  ASSUME Pipeline, ReleaseInv, Engine
  PROVE  ReleaseInv'
<1>1. TypeInv /\ AtBarrier /\ SlotsInv /\ OrderInv /\ AccountInv
  BY DEF Pipeline
<1>2. ASSUME NEW batch \in SUBSET Request, NEW victims \in SUBSET Request, SendPrefill(batch, victims)
      PROVE  ReleaseInv'
  BY <1>1, <1>2, SendRelease DEF SendPrefill
<1>3. ASSUME NEW batch \in SUBSET Request, NEW victims \in SUBSET Request, SendDecode(batch, victims)
      PROVE  ReleaseInv'
  <2>1. Fused => \A r \in batch : phase[r] = "ready"
    BY <1>3 DEF SendDecode, Decodable
  <2>2. Send("decode", batch, victims)
    BY <1>3 DEF SendDecode
  <2> QED
    BY <1>1, <2>1, <2>2, SendRelease
<1>4. CASE SendCleanup
  <2>1. Send("cleanup", {}, {}) /\ {} \in SUBSET Request
    BY <1>4 DEF SendCleanup
  <2> QED
    BY <1>1, <2>1, SendRelease
<1>5. CASE SendProfile \/ SendShutdown
  <2>1. PICK kind \in {"profile", "shutdown"} : SendControl(kind)
    BY <1>5 DEF SendProfile, SendShutdown
  <2>2. PICK c \in Control : inQueue' = Append(inQueue, c)
    BY <1>1, <2>1, ControlTypes
  <2>3. UNCHANGED <<mode, pendingFree, phase, inFlight, workQueue, outWork, outQueue, prep, dev, out>>
    BY <2>1 DEF SendControl
  <2>4. inQueue \in Seq(Command) /\ c \in Command /\ c.finished = {} /\ c.kind # "decode"
    BY <1>1, ControlFields DEF TypeInv, LaneTypes
  <2>5. FromDev' = FromDev \cup {c}
    BY <2>2, <2>3, <2>4, SentMoves
  <2> QED
    BY <2>3, <2>4, <2>5, ReleaseMove
<1>6. ASSUME NEW r \in Request, Abort(r) PROVE ReleaseInv'
  <2>1. Rests /\ UNCHANGED <<mode, inFlight>> /\ phase' = [phase EXCEPT ![r] = "gone"] /\ pendingFree' = pendingFree \cup {r}
    BY <1>6 DEF Abort, Rests
  <2>2. FromDev' = FromDev
    BY <2>1, RestsMoves
  <2>3. phase \in [Request -> {"new", "prefill", "ready", "gone"}] /\ pendingFree \subseteq Request
    BY <1>1 DEF TypeInv, EngineTypes
  <2>4. \A q \in Request : phase'[q] = IF q = r THEN "gone" ELSE phase[q]
    BY <2>1, <2>3
  <2>5. \A q \in pendingFree' : phase'[q] = "gone"
    BY <2>1, <2>3, <2>4 DEF ReleaseInv
  <2>6. ASSUME Fused', NEW q \in Request
        PROVE  /\ phase'[q] = "ready" => \A c \in FromDev' : q \notin c.finished
               /\ phase'[q] = "prefill" =>
                    \A i \in DOMAIN inFlight' : q \in inFlight'[i].reqs =>
                      \A c \in FromDev' : c.id > inFlight'[i].id => q \notin c.finished
               /\ \A d \in FromDev' : d.kind = "decode" /\ q \in d.reqs =>
                    \A c \in FromDev' : c.id <= d.id => q \notin c.finished
    BY <2>1, <2>2, <2>4, <2>6 DEF ReleaseInv, Fused
  <2> QED
    BY <2>5, <2>6 DEF ReleaseInv
<1>7. CASE Receive
  BY <1>1, <1>7, ReceiveRelease
<1>8. CASE Timeout
  <2>1. DropPipeline(InFlightIds) /\ mode' = mode
    BY <1>8 DEF Timeout
  <2>2. FromDev' = FromDev
    BY <1>1, <1>8, TimeoutAccount, RestsMoves
  <2> QED
    BY <1>1, <2>1, <2>2, DropRelease
<1> QED
  BY <1>2, <1>3, <1>4, <1>5, <1>6, <1>7, <1>8 DEF Engine

\* The lanes only pass commands on.
LEMMA LaneKeepsFrom ==
  ASSUME Pipeline, RestAction \/ HandAction \/ GetAction \/ UNCHANGED vars
  PROVE  UNCHANGED engineVars /\ \A c \in FromDev' : c \in FromDev \/ c = NoCmd
<1>1. TypeInv /\ AtBarrier /\ SlotsInv /\ OrderInv /\ AccountInv
  BY DEF Pipeline
<1>2. CASE RestAction
  BY <1>1, <1>2, RestActionMoves, RestsMoves
<1>3. CASE HandAction
  <2>1. PICK x \in Item : Hands(x)
    BY <1>1, <1>3, HandActionMoves
  <2> QED
    BY <1>1, <1>3, <2>1, HandActionMoves, HandsMoves, FromTypes
<1>4. CASE GetAction
  <2>1. UNCHANGED engineVars
    BY <1>4 DEF GetAction, PrepareGet, PreparePut, DeviceGet, OutputGet, OutputPublish, OutputProfile, OutputShutdown
  <2>2. \A c \in FromDev' : c \in FromDev \/ c = NoCmd
    BY <1>1, <1>4, PrepareGetMoves, PreparePutMoves, DeviceGetMoves, OutputGetMoves, OutputPublishMoves,
       OutputControlMoves DEF GetAction
  <2> QED
    BY <2>1, <2>2
<1>5. CASE UNCHANGED vars
  BY <1>5 DEF vars, FromDev, FromWork, FromPrep, InCmds, WorkCmds
<1> QED
  BY <1>2, <1>3, <1>4, <1>5

LEMMA ReleaseStep ==
  ASSUME Pipeline, ReleaseInv, [Next]_vars
  PROVE  ReleaseInv'
<1>1. CASE Engine
  BY <1>1, EngineRelease
<1>2. CASE RestAction \/ HandAction \/ GetAction \/ UNCHANGED vars
  <2>1. UNCHANGED engineVars /\ \A c \in FromDev' : c \in FromDev \/ c = NoCmd
    BY <1>2, LaneKeepsFrom
  <2> QED
    BY <2>1, ReleaseMove, Nothing DEF engineVars
<1> QED
  BY <1>1, <1>2, StepCases

-----------------------------------------------------------------------------
(***************************************************************************)
(* States.                                                                 *)
(***************************************************************************)
Prepared ==
  {[cmd |-> dev.cmd, work |-> dev.work]}
    \cup {[cmd |-> workQueue[i].cmd, work |-> workQueue[i].work] : i \in DOMAIN workQueue}
    \cup (IF prep.pc = "put" THEN {[cmd |-> prep.cmd, work |-> prep.work]} ELSE {})

PreparedOk ==
  Fused => \A p \in Prepared : p.cmd.kind = "decode" /\ ~p.work.error =>
    \A r \in p.cmd.reqs : mtp[r].slot # 0 /\ p.work.desc[r] = <<mtp[r].slot, mtp[r].gen>>

LEMMA PreparedFrom == \A p \in Prepared : p.cmd = dev.cmd \/ p.cmd \in FromWork
<1> SUFFICES ASSUME NEW p \in Prepared PROVE p.cmd = dev.cmd \/ p.cmd \in FromWork
  OBVIOUS
<1>1. \/ p.cmd = dev.cmd \/ p.cmd = prep.cmd
      \/ \E i \in DOMAIN workQueue : p.cmd = workQueue[i].cmd
  BY DEF Prepared
<1> QED
  BY <1>1 DEF FromWork, FromPrep, WorkCmds

LEMMA StatesSplit == StatesInv => ReadyMeansSeeded /\ PreparedOk /\ DescriptorsCurrent
<1> SUFFICES ASSUME StatesInv PROVE ReadyMeansSeeded /\ PreparedOk /\ DescriptorsCurrent
  OBVIOUS
<1>1. ReadyMeansSeeded /\ DescriptorsCurrent
  BY DEF StatesInv, ReadyMeansSeeded
<1>2. ASSUME Fused, NEW p \in Prepared, p.cmd.kind = "decode", ~p.work.error, NEW r \in p.cmd.reqs
      PROVE  mtp[r].slot # 0 /\ p.work.desc[r] = <<mtp[r].slot, mtp[r].gen>>
  <2>1. CASE p = [cmd |-> dev.cmd, work |-> dev.work]
    <3>1. p.cmd = dev.cmd /\ p.work = dev.work /\ BoundTo(dev.cmd, dev.work)
      BY <1>2, <2>1 DEF StatesInv
    <3> QED
      BY <1>2, <3>1 DEF BoundTo
  <2>2. CASE prep.pc = "put" /\ p = [cmd |-> prep.cmd, work |-> prep.work]
    <3>1. p.cmd = prep.cmd /\ p.work = prep.work /\ BoundTo(prep.cmd, prep.work)
      BY <1>2, <2>2 DEF StatesInv
    <3> QED
      BY <1>2, <3>1 DEF BoundTo
  <2>3. ASSUME NEW i \in DOMAIN workQueue, p = [cmd |-> workQueue[i].cmd, work |-> workQueue[i].work]
        PROVE  mtp[r].slot # 0 /\ p.work.desc[r] = <<mtp[r].slot, mtp[r].gen>>
    <3>1. p.cmd = workQueue[i].cmd /\ p.work = workQueue[i].work /\ BoundTo(workQueue[i].cmd, workQueue[i].work)
      BY <1>2, <2>3 DEF StatesInv
    <3> QED
      BY <1>2, <3>1 DEF BoundTo
  <2> QED
    BY <2>1, <2>2, <2>3 DEF Prepared
<1>3. PreparedOk
  BY <1>2 DEF PreparedOk
<1> QED
  BY <1>1, <1>3

LEMMA StatesJoin ==
  ASSUME ReadyMeansSeeded', PreparedOk', DescriptorsCurrent'
  PROVE  StatesInv'
<1>1. ASSUME Fused', NEW p \in Prepared', p.cmd.kind = "decode", ~p.work.error, NEW r \in p.cmd.reqs
      PROVE  mtp'[r].slot # 0 /\ p.work.desc[r] = <<mtp'[r].slot, mtp'[r].gen>>
  BY <1>1 DEF PreparedOk
<1>2. ASSUME Fused' PROVE BoundTo(dev.cmd, dev.work)'
  <2> DEFINE p == [cmd |-> dev'.cmd, work |-> dev'.work]
  <2>1. p \in Prepared' /\ p.cmd = dev'.cmd /\ p.work = dev'.work
    BY DEF Prepared
  <2> HIDE DEF p
  <2> QED
    BY <1>1, <1>2, <2>1 DEF BoundTo
<1>3. ASSUME Fused', prep'.pc = "put" PROVE BoundTo(prep.cmd, prep.work)'
  <2> DEFINE p == [cmd |-> prep'.cmd, work |-> prep'.work]
  <2>1. p \in Prepared' /\ p.cmd = prep'.cmd /\ p.work = prep'.work
    BY <1>3 DEF Prepared
  <2> HIDE DEF p
  <2> QED
    BY <1>1, <1>3, <2>1 DEF BoundTo
<1>4. ASSUME Fused', NEW i \in DOMAIN workQueue'
      PROVE  workQueue'[i].cmd.kind = "decode" /\ ~workQueue'[i].work.error =>
               \A r \in workQueue'[i].cmd.reqs :
                 mtp'[r].slot # 0 /\ workQueue'[i].work.desc[r] = <<mtp'[r].slot, mtp'[r].gen>>
  <2> DEFINE p == [cmd |-> workQueue'[i].cmd, work |-> workQueue'[i].work]
  <2>1. p \in Prepared' /\ p.cmd = workQueue'[i].cmd /\ p.work = workQueue'[i].work
    BY DEF Prepared
  <2> HIDE DEF p
  <2> QED
    BY <1>1, <1>4, <2>1
<1> QED
  BY <1>2, <1>3, <1>4 DEF StatesInv, ReadyMeansSeeded, BoundTo

LEMMA PreparedMove ==
  ASSUME PreparedOk, UNCHANGED <<mode, mtp>>, \A p \in Prepared' : p \in Prepared \/ p.cmd.kind # "decode"
  PROVE  PreparedOk'
BY DEF PreparedOk, Fused

LEMMA StatesMove ==
  ASSUME StatesInv, UNCHANGED <<mode, mtp, meta, submitted>>,
         \A p \in Prepared' : p \in Prepared \/ p.cmd.kind # "decode"
  PROVE  StatesInv'
<1>1. ReadyMeansSeeded /\ PreparedOk /\ DescriptorsCurrent
  BY StatesSplit
<1>2. PreparedOk'
  BY <1>1, PreparedMove
<1>3. ReadyMeansSeeded' /\ DescriptorsCurrent'
  BY <1>1 DEF ReadyMeansSeeded, DescriptorsCurrent
<1> QED
  BY <1>2, <1>3, StatesJoin

\* What is prepared stays so, apart from what PrepareDecode adds.
LEMMA PreparedKept ==
  ASSUME TypeInv, AtBarrier, SlotsInv, RestAction \/ HandAction \/ GetAction, ~PrepareDecode
  PROVE  \A p \in Prepared' : p \in Prepared \/ p.cmd.kind # "decode"
<1>0. workQueue \in Seq([cmd : Command, snap : Snap, work : Work]) /\ NoCmd.kind = "none"
  BY Nothing DEF TypeInv, LaneTypes
<1>1. CASE /\ workQueue' = workQueue /\ (dev'.cmd = NoCmd \/ (dev'.cmd = dev.cmd /\ dev'.work = dev.work))
           /\ (prep' = prep \/ prep'.pc # "put" \/ prep'.cmd.kind # "decode")
  BY <1>0, <1>1 DEF Prepared
<1>2. CASE HandAction
  <2>1. PICK x \in Item : Hands(x)
    BY <1>2, HandActionMoves
  <2> QED
    BY <1>1, <2>1 DEF Hands
<1>3. CASE PrepareGet \/ PrepareRegister \/ PrepareAcquire
  <2>1. prep'.pc # "put" \/ prep'.cmd.kind # "decode"
    BY <1>3, PrepareGetTypes, PrepareRegisterTypes, PrepareAcquireTypes
  <2>2. workQueue' = workQueue /\ dev' = dev
    BY <1>3 DEF PrepareGet, PrepareRegister, PrepareAcquire
  <2> QED
    BY <1>1, <2>1, <2>2
<1>4. CASE DeviceRelease \/ DeviceDrop
  <2>1. dev'.cmd = dev.cmd /\ dev'.work = dev.work
    BY <1>4, DeviceReleaseTypes, DeviceDropTypes
  <2>2. workQueue' = workQueue /\ prep' = prep
    BY <1>4 DEF DeviceRelease, DeviceDrop
  <2> QED
    BY <1>1, <2>1, <2>2
<1>5. CASE KernelCompletes \/ OutputReclaim \/ OutputReclaimFails \/ OutputGet \/ OutputPublish \/ OutputShutdown
  BY <1>1, <1>5 DEF KernelCompletes, OutputReclaim, OutputReclaimFails, OutputGet, OutputPublish, OutputShutdown
<1>6. CASE OutputProfile
  <2>1. workQueue' = workQueue /\ prep' = prep /\ dev' = DeviceIdle
    BY <1>6 DEF OutputProfile
  <2> QED
    BY <1>1, <2>1 DEF DeviceIdle
<1>7. CASE PreparePut
  <2> DEFINE x == [cmd |-> prep.cmd, snap |-> prep.snap, work |-> prep.work]
  <2>1. prep.pc = "put" /\ workQueue' = Append(workQueue, x) /\ dev' = dev /\ prep'.pc # "put"
        /\ x \in [cmd : Command, snap : Snap, work : Work] /\ x.cmd = prep.cmd /\ x.work = prep.work
    BY <1>7, PreparePutTypes DEF PreparePut
  <2> HIDE DEF x
  <2>2. \A i \in DOMAIN workQueue' : workQueue'[i] = x \/ \E j \in DOMAIN workQueue : workQueue'[i] = workQueue[j]
    BY <1>0, <2>1, AppendRange
  <2> QED
    BY <2>1, <2>2 DEF Prepared
<1>8. CASE DeviceGet
  <2>1. /\ workQueue # <<>> /\ workQueue' = Tail(workQueue) /\ prep' = prep
        /\ dev'.cmd = Head(workQueue).cmd /\ dev'.work = Head(workQueue).work
    BY <1>8, DeviceGetTypes DEF DeviceGet
  <2>2. /\ \A i \in DOMAIN workQueue' : \E j \in DOMAIN workQueue : workQueue'[i] = workQueue[j]
        /\ \E j \in DOMAIN workQueue : Head(workQueue) = workQueue[j]
    BY <1>0, <2>1, TailRange
  <2> QED
    BY <2>1, <2>2 DEF Prepared
<1> QED
  BY <1>2, <1>3, <1>4, <1>5, <1>6, <1>7, <1>8 DEF RestAction, GetAction

LEMMA StatesInitially == Init => StatesInv
<1> SUFFICES ASSUME Init PROVE StatesInv
  OBVIOUS
<1>1. /\ workQueue = <<>> /\ submitted = <<>> /\ prep.pc = "get" /\ dev.cmd.kind = "none"
      /\ \A r \in Request : mtp[r].ready = FALSE
  BY Nothing DEF Init, NoState
<1> QED
  BY <1>1 DEF StatesInv, BoundTo, DescriptorsCurrent

LEMMA PrepareDecodeStates ==
  ASSUME TypeInv, SlotsInv, StatesInv, PrepareDecode
  PROVE  StatesInv'
<1>1. ReadyMeansSeeded /\ PreparedOk /\ DescriptorsCurrent
  BY StatesSplit
<1>2. /\ prep'.cmd = prep.cmd /\ prep'.pc = "put" /\ prep.cmd \in Step
      /\ \A r \in Request : \/ mtp'[r] = mtp[r]
                            \/ r \in prep.cmd.reqs /\ mtp[r].slot = 0 /\ mtp'[r].ready = FALSE
      /\ Fused /\ ~prep'.work.error =>
           \A r \in prep.cmd.reqs : mtp'[r].slot # 0 /\ prep'.work.desc[r] = <<mtp'[r].slot, mtp'[r].gen>>
  BY PrepareDecodeTypes
<1>3. UNCHANGED <<mode, workQueue, dev, meta, submitted>>
  BY DEF PrepareDecode, engineVars
<1>4. \A p \in Prepared' : p \in Prepared \/ (p.cmd = prep.cmd /\ p.work = prep'.work)
  BY <1>2, <1>3 DEF Prepared
<1>5. ASSUME Fused', NEW p \in Prepared', p.cmd.kind = "decode", ~p.work.error, NEW r \in p.cmd.reqs
      PROVE  mtp'[r].slot # 0 /\ p.work.desc[r] = <<mtp'[r].slot, mtp'[r].gen>>
  <2>1. Fused
    BY <1>3, <1>5 DEF Fused
  <2>2. CASE p \in Prepared
    <3>1. mtp[r].slot # 0 /\ p.work.desc[r] = <<mtp[r].slot, mtp[r].gen>>
      BY <1>1, <1>5, <2>1, <2>2 DEF PreparedOk
    <3>2. p.cmd \in Command \cup {NoCmd}
      BY <2>2, PreparedFrom, FromTypes
    <3>3. r \in Request
      BY <1>5, <3>2, CommandFields
    <3> QED
      BY <1>2, <3>1, <3>3
  <2>3. CASE p.cmd = prep.cmd /\ p.work = prep'.work
    BY <1>2, <1>5, <2>1, <2>3
  <2> QED
    BY <1>4, <2>2, <2>3
<1>6. PreparedOk'
  BY <1>5 DEF PreparedOk
<1>7. ReadyMeansSeeded'
  BY <1>1, <1>2, <1>3 DEF ReadyMeansSeeded
<1>8. DescriptorsCurrent'
  BY <1>1, <1>3 DEF DescriptorsCurrent
<1> QED
  BY <1>6, <1>7, <1>8, StatesJoin

LEMMA DeviceReleaseStates ==
  ASSUME TypeInv, AtBarrier, SlotsInv, OrderInv, ReleaseInv, StatesInv, DeviceRelease
  PROVE  StatesInv'
<1>1. ReadyMeansSeeded /\ PreparedOk /\ DescriptorsCurrent
  BY StatesSplit
<1>2. dev'.cmd = dev.cmd /\ dev'.work = dev.work /\ dev.cmd \in Step /\ mtp' = ReleasedStates(dev.cmd.finished).mtp
  BY DeviceReleaseTypes
<1>3. UNCHANGED <<mode, workQueue, prep, meta, submitted>>
  BY DEF DeviceRelease, engineVars
<1>4. /\ \A r \in dev.cmd.finished : mtp'[r].slot = 0 /\ mtp'[r].ready = FALSE
      /\ \A r \in Request \ dev.cmd.finished : mtp'[r] = mtp[r]
  <2>1. dev.cmd.finished \in SUBSET Request /\ RunnerTypes
    BY <1>2, StepFields DEF TypeInv
  <2> QED
    BY <1>2, <2>1, ReleasedFacts
<1>5. Prepared' = Prepared
  BY <1>2, <1>3 DEF Prepared
<1>6. ASSUME Fused', NEW p \in Prepared', p.cmd.kind = "decode", ~p.work.error, NEW r \in p.cmd.reqs
      PROVE  mtp'[r].slot # 0 /\ p.work.desc[r] = <<mtp'[r].slot, mtp'[r].gen>>
  <2>1. Fused
    BY <1>3, <1>6 DEF Fused
  <2>2. mtp[r].slot # 0 /\ p.work.desc[r] = <<mtp[r].slot, mtp[r].gen>>
    BY <1>1, <1>5, <1>6, <2>1 DEF PreparedOk
  <2>3. p.cmd \in FromDev /\ p.cmd \in Command \cup {NoCmd} /\ (p.cmd = dev.cmd \/ p.cmd \in FromWork)
    BY <1>5, PreparedFrom, FromTypes
  <2>4. r \in Request /\ p.cmd.id # 0 /\ p.cmd.id \in Nat
    BY <1>6, <2>3, CommandFields
  <2>5. dev.cmd.id # 0 /\ dev.cmd.id \in Nat /\ dev.cmd \in FromDev
    BY <1>2, StepFields, FromTypes
  <2>6. dev.cmd.id <= p.cmd.id
    <3>1. CASE p.cmd = dev.cmd
      BY <2>5, <3>1
    <3>2. CASE p.cmd \in FromWork
      <4>1. dev.cmd.id < p.cmd.id
        BY <2>4, <2>5, <3>2, OrderParts
      <4> QED
        BY <2>4, <2>5, <4>1
    <3> QED
      BY <2>3, <3>1, <3>2
  <2>7. r \notin dev.cmd.finished
    BY <1>6, <2>1, <2>3, <2>4, <2>5, <2>6 DEF ReleaseInv
  <2> QED
    BY <1>4, <2>2, <2>4, <2>7
<1>7. PreparedOk'
  BY <1>6 DEF PreparedOk
<1>8. ReadyMeansSeeded'
  BY <1>1, <1>3, <1>4 DEF ReadyMeansSeeded
<1>9. DescriptorsCurrent'
  BY <1>1, <1>3 DEF DescriptorsCurrent
<1> QED
  BY <1>7, <1>8, <1>9, StatesJoin

LEMMA DevicePrefillStates ==
  ASSUME TypeInv, AtBarrier, SlotsInv, BuffersInv, StatesInv, DevicePrefill
  PROVE  StatesInv'
<1>1. ReadyMeansSeeded /\ PreparedOk /\ DescriptorsCurrent
  BY StatesSplit
<1>2. /\ \A r \in Request : \/ mtp'[r].slot = mtp[r].slot /\ mtp'[r].gen = mtp[r].gen
                            \/ mtp[r].slot = 0 /\ r \in dev.cmd.reqs
      /\ ReadyMeansSeeded' /\ (~Fused => meta' = meta)
  BY <1>1, DevicePrefillTypes
<1>3. UNCHANGED <<mode, submitted>>
  BY DEF DevicePrefill, engineVars
<1>4. \A p \in Prepared' : p \in Prepared \/ p.cmd.kind # "decode"
  <2>1. HandAction /\ ~PrepareDecode
    <3>1. UNCHANGED prep /\ outWork' # outWork
      <4>1. PICK x \in Item : outWork' = Append(outWork, x)
        BY DevicePrefillTypes
      <4>2. Len(outWork') = Len(outWork) + 1 /\ Len(outWork) \in Nat
        BY <4>1, AppendFacts DEF TypeInv, LaneTypes
      <4>3. UNCHANGED prep
        BY ZenonT(30) DEF DevicePrefill
      <4>4. outWork' # outWork
        BY <4>2
      <4> QED
        BY <4>3, <4>4
    <3> QED
      BY <3>1 DEF HandAction, PrepareDecode
  <2> QED
    BY <2>1, PreparedKept
<1>5. ASSUME Fused', NEW p \in Prepared', p.cmd.kind = "decode", ~p.work.error, NEW r \in p.cmd.reqs
      PROVE  mtp'[r].slot # 0 /\ p.work.desc[r] = <<mtp'[r].slot, mtp'[r].gen>>
  <2>1. Fused /\ p \in Prepared
    BY <1>3, <1>4, <1>5 DEF Fused
  <2>2. mtp[r].slot # 0 /\ p.work.desc[r] = <<mtp[r].slot, mtp[r].gen>>
    BY <1>1, <1>5, <2>1 DEF PreparedOk
  <2>3. p.cmd \in Command \cup {NoCmd}
    BY <2>1, PreparedFrom, FromTypes
  <2>4. r \in Request
    BY <1>5, <2>3, CommandFields
  <2> QED
    BY <1>2, <2>2, <2>4
<1>6. PreparedOk'
  BY <1>5 DEF PreparedOk
<1>7. DescriptorsCurrent'
  <2>1. CASE ~Fused
    BY <1>1, <1>2, <1>3, <2>1 DEF DescriptorsCurrent
  <2>2. CASE Fused
    <3>1. PrefillFence
      BY <2>2 DEF DevicePrefill
    <3>2. DOMAIN submitted = {}
      BY <3>1, FenceEmpties
    <3> QED
      BY <1>3, <3>2 DEF DescriptorsCurrent
  <2> QED
    BY <2>1, <2>2
<1> QED
  BY <1>2, <1>6, <1>7, StatesJoin

LEMMA DeviceDispatchStates ==
  ASSUME TypeInv, AtBarrier, SlotsInv, OrderInv, BuffersInv, StatesInv, DeviceDispatch
  PROVE  StatesInv'
<1> DEFINE e == [id |-> dev.cmd.id, cmd |-> dev.cmd, desc |-> dev.work.desc]
<1>1. ReadyMeansSeeded /\ PreparedOk /\ DescriptorsCurrent
  BY StatesSplit
<1>2. UNCHANGED <<mode, workQueue, prep, mtp, meta>> /\ Fused
  BY DEF DeviceDispatch, engineVars
<1>3. /\ dev.cmd \in Step /\ dev.cmd.kind = "decode" /\ dev'.cmd = NoCmd
      /\ e \in [id : 1 .. MaxSteps, cmd : Step, desc : Desc]
  BY DeviceDispatchTypes
<1>4. \A p \in Prepared' : p \in Prepared \/ p.cmd.kind # "decode"
  BY <1>2, <1>3, Nothing DEF Prepared
<1>5. PreparedOk'
  BY <1>1, <1>2, <1>4, PreparedMove
<1>6. ReadyMeansSeeded'
  BY <1>1, <1>2 DEF ReadyMeansSeeded
<1>7. CASE submitted' = submitted
  BY <1>1, <1>2, <1>5, <1>6, <1>7, StatesJoin DEF DescriptorsCurrent
<1>8. CASE ~dev.work.error /\ (\A r \in dev.cmd.reqs : mtp[r].ready) /\ submitted' = Launched(dev.cmd)
  <2>1. submitted' = Append(submitted, e) /\ e.cmd = dev.cmd /\ e.desc = dev.work.desc
    BY <1>8 DEF Launched
  <2>2. submitted \in Seq([id : 1 .. MaxSteps, cmd : Step, desc : Desc])
    BY DEF TypeInv, RunnerTypes
  <2> DEFINE p == [cmd |-> dev.cmd, work |-> dev.work]
  <2>3. p \in Prepared /\ p.cmd = dev.cmd /\ p.work = dev.work
    BY DEF Prepared
  <2> HIDE DEF e, p
  <2>4. ASSUME NEW r \in dev.cmd.reqs PROVE meta[e.desc[r][1]] = e.desc[r][2]
    <3>1. mtp[r].slot # 0 /\ dev.work.desc[r] = <<mtp[r].slot, mtp[r].gen>>
      BY <1>1, <1>2, <1>3, <1>8, <2>3 DEF PreparedOk
    <3>2. r \in Request /\ meta[mtp[r].slot] = mtp[r].gen
      BY <1>1, <1>3, <1>8, StepFields DEF ReadyMeansSeeded
    <3> QED
      BY <2>1, <3>1, <3>2
  <2>5. \A i \in DOMAIN submitted' : submitted'[i] = e \/ \E j \in DOMAIN submitted : submitted'[i] = submitted[j]
    BY <1>3, <2>1, <2>2, AppendRange
  <2>6. DescriptorsCurrent'
    <3> SUFFICES ASSUME NEW i \in DOMAIN submitted', NEW r \in submitted'[i].cmd.reqs
                 PROVE  meta'[submitted'[i].desc[r][1]] = submitted'[i].desc[r][2]
      BY DEF DescriptorsCurrent
    <3>1. CASE submitted'[i] = e
      BY <1>2, <2>1, <2>4, <3>1
    <3>2. ASSUME NEW j \in DOMAIN submitted, submitted'[i] = submitted[j]
          PROVE  meta'[submitted'[i].desc[r][1]] = submitted'[i].desc[r][2]
      BY <1>1, <1>2, <3>2 DEF DescriptorsCurrent
    <3> QED
      BY <2>5, <3>1, <3>2
  <2> QED
    BY <1>5, <1>6, <2>6, StatesJoin
<1>9. tracked[SlotOf(dev.cmd)] = 0
  BY <1>3, DispatchUntracked
<1> QED
  BY <1>7, <1>8, <1>9, DeviceDispatchTypes

LEMMA KernelStates ==
  ASSUME TypeInv, AtBarrier, SlotsInv, StatesInv, KernelCompletes
  PROVE  StatesInv'
<1>1. ReadyMeansSeeded /\ PreparedOk /\ DescriptorsCurrent
  BY StatesSplit
<1>2. /\ submitted # <<>> /\ submitted' = Tail(submitted)
      /\ UNCHANGED <<mode, workQueue, prep, dev, mtp, meta>>
  BY DEF KernelCompletes, engineVars
<1>3. submitted \in Seq([id : 1 .. MaxSteps, cmd : Step, desc : Desc])
  BY DEF TypeInv, RunnerTypes
<1>4. \A i \in DOMAIN submitted' : \E j \in DOMAIN submitted : submitted'[i] = submitted[j]
  BY <1>2, <1>3, TailRange
<1>5. Prepared' = Prepared
  BY <1>2 DEF Prepared
<1>6. PreparedOk'
  BY <1>1, <1>2, <1>5, PreparedMove
<1>7. DescriptorsCurrent'
  BY <1>1, <1>2, <1>4 DEF DescriptorsCurrent
<1>8. ReadyMeansSeeded'
  BY <1>1, <1>2 DEF ReadyMeansSeeded
<1> QED
  BY <1>6, <1>7, <1>8, StatesJoin

LEMMA StatesStep ==
  ASSUME Pipeline, BuffersInv, ReleaseInv, StatesInv, [Next]_vars
  PROVE  StatesInv'
<1>1. TypeInv /\ AtBarrier /\ SlotsInv /\ OrderInv /\ AccountInv
  BY DEF Pipeline
<1>2. CASE Engine \/ UNCHANGED vars
  <2>1. UNCHANGED <<mode, workQueue, prep, dev, mtp, meta, submitted>>
    BY <1>2, EngineKeepsLanes DEF vars, engineVars, runnerVars
  <2>2. Prepared' = Prepared
    BY <2>1 DEF Prepared
  <2> QED
    BY <2>1, <2>2, StatesMove
<1>3. CASE PrepareDecode
  BY <1>1, <1>3, PrepareDecodeStates
<1>4. CASE DeviceRelease
  BY <1>1, <1>4, DeviceReleaseStates
<1>5. CASE DevicePrefill
  BY <1>1, <1>5, DevicePrefillStates
<1>6. CASE DeviceDispatch
  BY <1>1, <1>6, DeviceDispatchStates
<1>7. CASE KernelCompletes
  BY <1>1, <1>7, KernelStates
<1>8. CASE /\ ~PrepareDecode
           /\ \/ PrepareRegister \/ PrepareAcquire \/ DeviceDrop \/ OutputReclaim \/ OutputReclaimFails
              \/ DeviceControl \/ DeviceFails \/ DeviceCleanup \/ DeviceDecode \/ GetAction
  <2>1. UNCHANGED <<mode, mtp, meta, submitted>>
    BY <1>8 DEF PrepareRegister, PrepareAcquire, DeviceDrop, OutputReclaim, OutputReclaimFails, DeviceControl,
                DeviceFails, DeviceCleanup, DeviceDecode, GetAction, PrepareGet, PreparePut, DeviceGet, OutputGet,
                OutputPublish, OutputProfile, OutputShutdown, engineVars, runnerVars
  <2>2. \A p \in Prepared' : p \in Prepared \/ p.cmd.kind # "decode"
    BY <1>1, <1>8, PreparedKept DEF RestAction, HandAction
  <2> QED
    BY <2>1, <2>2, StatesMove
<1> QED
  BY <1>2, <1>3, <1>4, <1>5, <1>6, <1>7, <1>8, StepCases DEF RestAction, HandAction

-----------------------------------------------------------------------------
(***************************************************************************)
(* Known requests.                                                         *)
(***************************************************************************)
LEMMA KnownInitially == Init => KnownInv
<1> SUFFICES ASSUME Init PROVE KnownInv
  OBVIOUS
<1>1. /\ inQueue = <<>> /\ workQueue = <<>> /\ prep.cmd = NoCmd /\ dev.cmd = NoCmd
      /\ NoCmd.reqs = {} /\ \A r \in Request : mtp[r].slot = 0
  BY Nothing DEF Init, NoState
<1>2. FromDev = {NoCmd}
  BY <1>1 DEF FromDev, FromWork, FromPrep, InCmds, WorkCmds
<1> QED
  BY <1>1, <1>2 DEF KnownInv

LEMMA KnownMove ==
  ASSUME KnownInv, known' = known, \A r \in Request : mtp'[r].slot # 0 => mtp[r].slot # 0,
         \A c \in FromDev : c.finished = {} \/ c \in FromDev',
         \A c \in FromWork : c.finished = {} \/ c \in FromWork',
         \A d \in FromDev' : d.reqs = {} \/ d \in FromDev,
         dev'.cmd.finished = {} \/ (dev'.cmd = dev.cmd /\ (dev.pc = "release" => dev'.pc = "release"))
  PROVE  KnownInv'
<1>1. ASSUME NEW r \in Request \ known', mtp'[r].slot # 0
      PROVE  \E c \in FromDev' : r \in c.finished /\ (c = dev'.cmd => dev'.pc = "release")
  <2>1. PICK c \in FromDev : r \in c.finished /\ (c = dev.cmd => dev.pc = "release")
    BY <1>1 DEF KnownInv
  <2> QED
    BY <2>1
<1>2. ASSUME NEW r \in Request \ known', NEW d \in FromDev', r \in d.reqs
      PROVE  \E c \in FromWork' : c.id > d.id /\ r \in c.finished
  <2>1. d \in FromDev
    BY <1>2
  <2>2. PICK c \in FromWork : c.id > d.id /\ r \in c.finished
    BY <1>2, <2>1 DEF KnownInv
  <2> QED
    BY <2>2
<1> QED
  BY <1>1, <1>2 DEF KnownInv

LEMMA SendKnown ==
  ASSUME TypeInv, OrderInv, KnownInv, NEW kind \in {"prefill", "decode", "cleanup"},
         NEW batch \in SUBSET Request, NEW victims \in SUBSET Request, Send(kind, batch, victims)
  PROVE  KnownInv'
<1> DEFINE freed == pendingFree \cup victims
<1>1. PICK c : Sends(c, kind, batch, victims)
  BY SendTypes
<1>2. /\ c \in Step /\ c.id = sent + 1 /\ c.reqs = batch /\ c.finished = freed /\ inQueue' = Append(inQueue, c)
  BY <1>1 DEF Sends
<1>3. /\ UNCHANGED <<workQueue, outWork, outQueue, prep, dev, out, mtp>>
      /\ known' = (known \ freed) \cup (batch \ (known \ freed))
  BY DEF Send, runnerVars
<1>4. FromDev' = FromDev \cup {c} /\ FromWork' = FromWork \cup {c}
  BY <1>2, <1>3, SentMoves, StepFields DEF TypeInv, LaneTypes
<1>5. \A d \in FromDev : d.id \in Nat /\ d.id <= sent
  BY FromTypes, OrderParts
<1>6. sent \in Nat /\ dev.cmd \in FromDev
  BY Bounds_, FromTypes DEF TypeInv, EngineTypes
<1>7. c # dev.cmd /\ \A d \in FromDev : c.id > d.id
  BY <1>2, <1>5, <1>6
<1>8. \A r \in Request \ known' : r \notin batch /\ (r \in freed \/ r \in Request \ known)
  BY <1>3
<1>9. ASSUME NEW r \in Request \ known', mtp'[r].slot # 0
      PROVE  \E b \in FromDev' : r \in b.finished /\ (b = dev'.cmd => dev'.pc = "release")
  <2>1. CASE r \in freed
    BY <1>2, <1>3, <1>4, <1>7, <2>1
  <2>2. CASE r \in Request \ known
    BY <1>3, <1>4, <1>9, <2>2 DEF KnownInv
  <2> QED
    BY <1>8, <2>1, <2>2
<1>10. ASSUME NEW r \in Request \ known', NEW d \in FromDev', r \in d.reqs
       PROVE  \E b \in FromWork' : b.id > d.id /\ r \in b.finished
  <2>1. d \in FromDev
    BY <1>2, <1>4, <1>8, <1>10
  <2>2. CASE r \in freed
    BY <1>2, <1>4, <1>7, <2>1, <2>2
  <2>3. CASE r \in Request \ known
    BY <1>4, <1>10, <2>1, <2>3 DEF KnownInv
  <2> QED
    BY <1>8, <2>2, <2>3
<1> QED
  BY <1>9, <1>10 DEF KnownInv

LEMMA EngineKnown ==
  ASSUME Pipeline, KnownInv, Engine
  PROVE  KnownInv'
<1>1. TypeInv /\ AtBarrier /\ SlotsInv /\ OrderInv /\ AccountInv
  BY DEF Pipeline
<1>2. dev' = dev /\ mtp' = mtp /\ workQueue' = workQueue /\ prep' = prep
  BY EngineKeepsLanes DEF runnerVars
<1>3. ASSUME NEW batch \in SUBSET Request, NEW victims \in SUBSET Request,
             SendPrefill(batch, victims) \/ SendDecode(batch, victims)
      PROVE  KnownInv'
  BY <1>1, <1>3, SendKnown DEF SendPrefill, SendDecode
<1>4. CASE SendCleanup
  <2>1. Send("cleanup", {}, {}) /\ {} \in SUBSET Request
    BY <1>4 DEF SendCleanup
  <2> QED
    BY <1>1, <2>1, SendKnown
<1>5. CASE SendProfile \/ SendShutdown
  <2>1. PICK kind \in {"profile", "shutdown"} : SendControl(kind)
    BY <1>5 DEF SendProfile, SendShutdown
  <2>2. PICK c \in Control : inQueue' = Append(inQueue, c)
    BY <1>1, <2>1, ControlTypes
  <2>3. UNCHANGED <<known, workQueue, outWork, outQueue, prep, dev, out>>
    BY <2>1 DEF SendControl
  <2>4. inQueue \in Seq(Command) /\ c \in Command /\ c.reqs = {}
    BY <1>1, ControlFields DEF TypeInv, LaneTypes
  <2>5. FromDev' = FromDev \cup {c} /\ FromWork' = FromWork \cup {c}
    BY <2>2, <2>3, <2>4, SentMoves
  <2> QED
    BY <1>2, <2>3, <2>4, <2>5, KnownMove
<1>6. CASE Receive \/ Timeout \/ \E r \in Request : Abort(r)
  <2>1. known' = known /\ inQueue' = inQueue
    BY <1>6 DEF Receive, Timeout, Abort
  <2>2. FromDev' = FromDev /\ FromWork' = FromWork
    BY <1>2, <2>1 DEF FromDev, FromWork, FromPrep, InCmds, WorkCmds
  <2> QED
    BY <1>2, <2>1, <2>2, KnownMove
<1> QED
  BY <1>3, <1>4, <1>5, <1>6 DEF Engine

LEMMA DeviceGetKnown ==
  ASSUME TypeInv, OrderInv', KnownInv, DeviceGet
  PROVE  KnownInv'
<1>1. /\ FromWork = FromWork' \cup {dev'.cmd} /\ FromDev = FromDev' \cup {NoCmd} /\ dev.cmd = NoCmd
      /\ (dev'.cmd \in Step => dev'.pc = "release") /\ TypeInv'
  BY DeviceGetTypes, DeviceGetMoves
<1>2. known' = known /\ mtp' = mtp
  BY DEF DeviceGet, engineVars, runnerVars
<1>3. ASSUME NEW c \in FromDev PROVE /\ c.id \in Nat /\ (c.reqs # {} => c.id # 0)
                                    /\ (c.finished # {} => c.id # 0 /\ c \in Step)
  <2>1. c \in Command \cup {NoCmd}
    BY FromTypes
  <2> QED
    BY <2>1, CommandFields
<1>4. \A c \in FromWork' : dev'.cmd.id # 0 /\ c.id # 0 => dev'.cmd.id < c.id
  BY DEF OrderInv, Precedes
<1>5. FromDev' = {dev'.cmd} \cup FromWork' /\ FromWork \subseteq FromDev
  BY DEF FromDev
<1>6. ASSUME NEW r \in Request \ known', mtp'[r].slot # 0
      PROVE  \E c \in FromDev' : r \in c.finished /\ (c = dev'.cmd => dev'.pc = "release")
  <2>1. PICK c \in FromDev : r \in c.finished
    BY <1>2, <1>6 DEF KnownInv
  <2>2. c \in FromDev'
    BY <1>1, <2>1, Nothing
  <2> QED
    BY <1>1, <1>3, <2>1, <2>2
<1>7. ASSUME NEW r \in Request \ known', NEW d \in FromDev', r \in d.reqs
      PROVE  \E c \in FromWork' : c.id > d.id /\ r \in c.finished
  <2>1. d \in FromDev
    BY <1>1
  <2>2. PICK c \in FromWork : c.id > d.id /\ r \in c.finished
    BY <1>2, <1>7, <2>1 DEF KnownInv
  <2>3. c.id \in Nat /\ c.id # 0 /\ d.id \in Nat /\ d.id # 0
    BY <1>3, <1>5, <1>7, <2>1, <2>2
  <2>4. c # dev'.cmd
    <3> SUFFICES ASSUME c = dev'.cmd PROVE FALSE
      OBVIOUS
    <3>1. d # dev'.cmd
      BY <2>2, <2>3
    <3>2. d \in FromWork'
      BY <1>5, <3>1
    <3>3. c.id < d.id
      BY <1>4, <2>3, <3>2
    <3> QED
      BY <2>2, <2>3, <3>3
  <2>5. c \in FromWork'
    BY <1>1, <2>2, <2>4
  <2> QED
    BY <2>2, <2>5
<1> QED
  BY <1>6, <1>7 DEF KnownInv

LEMMA HandKnown ==
  ASSUME TypeInv, SlotsInv, KnownInv, HandAction
  PROVE  KnownInv'
<1>1. PICK x \in Item : Hands(x)
  BY HandActionMoves
<1>2. FromDev' = FromWork \cup {NoCmd} /\ FromWork' = FromWork /\ dev'.cmd = NoCmd /\ NoCmd.finished = {} /\ NoCmd.reqs = {}
  BY <1>1, HandsMoves, Nothing DEF Hands
<1>3. known' = known /\ dev.pc # "release"
  BY HandActionMoves DEF engineVars
<1>4. \A r \in Request : mtp'[r].slot # 0 => mtp[r].slot # 0 \/ r \in dev.cmd.reqs
  <2>1. CASE DevicePrefill
    BY <2>1, DevicePrefillTypes
  <2>2. CASE DeviceControl \/ DeviceFails \/ DeviceCleanup \/ DeviceDecode \/ DeviceDispatch
    <3>1. mtp' = mtp
      BY <2>2 DEF DeviceControl, DeviceFails, DeviceCleanup, DeviceDecode, DeviceDispatch, runnerVars
    <3> QED
      BY <3>1
  <2> QED
    BY <2>1, <2>2 DEF HandAction
<1>5. FromDev = {dev.cmd} \cup FromWork
  BY DEF FromDev
<1>6. ASSUME NEW r \in Request \ known', mtp'[r].slot # 0
      PROVE  \E c \in FromDev' : r \in c.finished /\ (c = dev'.cmd => dev'.pc = "release")
  <2>1. \E c \in FromWork : r \in c.finished
    <3>1. CASE mtp[r].slot # 0
      BY <1>3, <1>5, <1>6, <3>1 DEF KnownInv
    <3>2. CASE r \in dev.cmd.reqs
      BY <1>3, <1>5, <1>6, <3>2 DEF KnownInv
    <3> QED
      BY <1>4, <1>6, <3>1, <3>2
  <2> QED
    BY <1>2, <2>1
<1>7. ASSUME NEW r \in Request \ known', NEW d \in FromDev', r \in d.reqs
      PROVE  \E c \in FromWork' : c.id > d.id /\ r \in c.finished
  <2>1. d \in FromDev
    BY <1>2, <1>5, <1>7
  <2> QED
    BY <1>2, <1>3, <1>7, <2>1 DEF KnownInv
<1> QED
  BY <1>6, <1>7 DEF KnownInv

LEMMA PrepareDecodeKnown ==
  ASSUME TypeInv, SlotsInv, OrderInv, KnownInv, PrepareDecode
  PROVE  KnownInv'
<1>1. Rests /\ UNCHANGED engineVars /\ dev' = dev
  BY RestActionMoves DEF RestAction, PrepareDecode
<1>2. FromDev' = FromDev /\ FromWork' = FromWork /\ known' = known
  BY <1>1, RestsMoves DEF engineVars
<1>3. \A r \in Request : mtp'[r] = mtp[r] \/ r \in prep.cmd.reqs
  BY PrepareDecodeTypes
<1>4. FromDev = {dev.cmd} \cup FromWork /\ prep.cmd \in FromWork
  BY DEF FromDev, FromWork, FromPrep
<1>5. ASSUME NEW r \in Request \ known', mtp'[r].slot # 0
      PROVE  \E c \in FromDev' : r \in c.finished /\ (c = dev'.cmd => dev'.pc = "release")
  <2>1. CASE mtp'[r] = mtp[r]
    BY <1>1, <1>2, <1>5, <2>1 DEF KnownInv
  <2>2. CASE r \in prep.cmd.reqs
    <3>1. PICK c \in FromWork : c.id > prep.cmd.id /\ r \in c.finished
      BY <1>2, <1>4, <1>5, <2>2 DEF KnownInv
    <3>2. c \in Command \cup {NoCmd} /\ c.id \in Nat
      BY FromTypes
    <3>3. c.id # 0
      BY <3>1, <3>2, CommandFields
    <3>4. c # dev.cmd
      <4> SUFFICES ASSUME c = dev.cmd PROVE FALSE
        OBVIOUS
      <4>1. c.id < c.id
        BY <3>1, <3>3, OrderParts
      <4> QED
        BY <3>2, <4>1
    <3> QED
      BY <1>1, <1>2, <1>4, <3>1, <3>4
  <2> QED
    BY <1>3, <2>1, <2>2
<1> QED
  BY <1>2, <1>5 DEF KnownInv

LEMMA DeviceReleaseKnown ==
  ASSUME TypeInv, SlotsInv, KnownInv, DeviceRelease
  PROVE  KnownInv'
<1>1. Rests /\ UNCHANGED engineVars /\ dev'.cmd = dev.cmd /\ dev.cmd \in Step
      /\ mtp' = ReleasedStates(dev.cmd.finished).mtp
  BY RestActionMoves, DeviceReleaseTypes DEF RestAction
<1>2. FromDev' = FromDev /\ FromWork' = FromWork /\ known' = known
  BY <1>1, RestsMoves DEF engineVars
<1>3. dev.cmd.finished \in SUBSET Request /\ RunnerTypes
  BY <1>1, StepFields DEF TypeInv
<1>4. /\ \A r \in dev.cmd.finished : mtp'[r].slot = 0
      /\ \A r \in Request \ dev.cmd.finished : mtp'[r] = mtp[r]
  BY <1>1, <1>3, ReleasedFacts
<1>5. ASSUME NEW r \in Request \ known', mtp'[r].slot # 0
      PROVE  \E c \in FromDev' : r \in c.finished /\ (c = dev'.cmd => dev'.pc = "release")
  <2>1. r \notin dev.cmd.finished /\ mtp[r].slot # 0
    BY <1>4, <1>5
  <2>2. PICK c \in FromDev : r \in c.finished
    BY <1>2, <2>1 DEF KnownInv
  <2> QED
    BY <1>1, <1>2, <2>1, <2>2
<1> QED
  BY <1>2, <1>5 DEF KnownInv

LEMMA KnownStep ==
  ASSUME Pipeline, KnownInv, [Next]_vars
  PROVE  KnownInv'
<1>1. TypeInv /\ AtBarrier /\ SlotsInv /\ OrderInv /\ AccountInv
  BY DEF Pipeline
<1>2. CASE Engine
  BY <1>2, EngineKnown
<1>3. CASE HandAction
  BY <1>1, <1>3, HandKnown
<1>4. CASE PrepareDecode
  BY <1>1, <1>4, PrepareDecodeKnown
<1>5. CASE DeviceRelease
  BY <1>1, <1>5, DeviceReleaseKnown
<1>6. CASE DeviceGet
  <2>1. OrderInv'
    BY PipelineStep DEF Pipeline
  <2> QED
    BY <1>1, <1>6, <2>1, DeviceGetKnown
<1>7. CASE PrepareRegister \/ PrepareAcquire \/ DeviceDrop \/ KernelCompletes \/ OutputReclaim \/ OutputReclaimFails
  <2>1. Rests /\ UNCHANGED engineVars
    BY <1>1, <1>7, RestActionMoves DEF RestAction
  <2>2. FromDev' = FromDev /\ FromWork' = FromWork /\ known' = known /\ dev'.cmd = dev.cmd
    BY <2>1, RestsMoves DEF engineVars, Rests
  <2>3. mtp' = mtp /\ (dev.pc = "release" => dev'.pc = "release")
    BY <1>7 DEF PrepareRegister, PrepareAcquire, DeviceDrop, KernelCompletes, OutputReclaim, OutputReclaimFails, runnerVars
  <2> QED
    BY <2>2, <2>3, KnownMove
<1>8. CASE PrepareGet \/ PreparePut \/ OutputGet \/ OutputPublish \/ OutputProfile \/ OutputShutdown
  <2>1. known' = known /\ mtp' = mtp
    BY <1>8 DEF PrepareGet, PreparePut, OutputGet, OutputPublish, OutputProfile, OutputShutdown, engineVars, runnerVars
  <2>2. /\ \A c \in FromDev : c = NoCmd \/ c \in FromDev'
        /\ \A c \in FromWork : c = NoCmd \/ c \in FromWork'
        /\ \A d \in FromDev' : d = NoCmd \/ d \in FromDev
    BY <1>1, <1>8, PrepareGetMoves, PreparePutMoves, OutputGetMoves, OutputPublishMoves, OutputControlMoves
  <2>3. dev' = dev \/ dev'.cmd = NoCmd
    BY <1>8 DEF PrepareGet, PreparePut, OutputGet, OutputPublish, OutputProfile, OutputShutdown, DeviceIdle
  <2> QED
    BY <2>1, <2>2, <2>3, Nothing, KnownMove
<1>9. CASE UNCHANGED vars
  <2>1. UNCHANGED <<known, mtp, dev, inQueue, workQueue, prep>>
    BY <1>9 DEF vars, engineVars, runnerVars
  <2>2. FromDev' = FromDev /\ FromWork' = FromWork
    BY <2>1 DEF FromDev, FromWork, FromPrep, InCmds, WorkCmds
  <2> QED
    BY <2>1, <2>2, KnownMove
<1> QED
  BY <1>2, <1>3, <1>4, <1>5, <1>6, <1>7, <1>8, <1>9, StepCases DEF RestAction, GetAction

-----------------------------------------------------------------------------
(***************************************************************************)
(* Results.                                                                *)
(***************************************************************************)
LEMMA LanesInitially == Init => LanesInv
BY PipelineInitially, BuffersInitially, ReleaseInitially, StatesInitially, KnownInitially DEF LanesInv, Pipeline

LEMMA LanesStep ==
  ASSUME LanesInv, [Next]_vars
  PROVE  LanesInv'
<1>1. Pipeline /\ BuffersInv /\ ReleaseInv /\ StatesInv /\ KnownInv
  BY DEF LanesInv, Pipeline
<1>2. Pipeline'
  BY <1>1, PipelineStep
<1>3. BuffersInv' /\ ReleaseInv' /\ StatesInv' /\ KnownInv'
  BY <1>1, BuffersStep, ReleaseStep, StatesStep, KnownStep
<1> QED
  BY <1>2, <1>3 DEF LanesInv, Pipeline

LEMMA LanesImply == LanesInv => LanesConsistent
<1> SUFFICES ASSUME LanesInv PROVE LanesConsistent
  OBVIOUS
<1>1. TypeInv /\ BuffersInv /\ StatesInv
  BY DEF LanesInv
<1>2. TypeOK
  <2>1. LaneTypes /\ EngineTypes /\ SharedTypes /\ RunnerTypes
    BY <1>1 DEF TypeInv
  <2>2. prep.pc \in {"get", "register", "acquire", "prepare", "put", "exit"}
    BY <2>1 DEF LaneTypes
  <2>3. dev.pc \in {"get", "control", "barrier", "release", "drop", "run", "exit"}
    BY <2>1 DEF LaneTypes
  <2>4. out.pc \in {"get", "reclaim", "publish", "profile", "shutdown", "exit"} /\ Len(workQueue) <= BufferSlots
    BY <2>1 DEF LaneTypes
  <2>5. \A r \in Request : mtp[r].slot \in 0 .. TailSlots
    BY <2>1 DEF RunnerTypes
  <2> QED
    BY <2>1, <2>2, <2>3, <2>4, <2>5 DEF TypeOK, EngineTypes, SharedTypes, Snap
<1>3. BuffersIntact
  <2> SUFFICES ASSUME NEW c \in UsingBuffers PROVE c.id \in StagedIds
    BY <1>1 DEF BuffersIntact, BuffersInv, SlotOf
  <2>1. PendingIds \subseteq StagedIds
    BY <1>1, BufferSets
  <2>2. ASSUME NEW i \in DOMAIN submitted, c = submitted[i].cmd PROVE c.id \in StagedIds
    BY <1>1, <2>1, <2>2 DEF BuffersInv
  <2>3. ASSUME NEW i \in DOMAIN outWork, outWork[i].kind = "pending", c = outWork[i].cmd PROVE c.id \in StagedIds
    BY <2>1, <2>3, BufferIds
  <2>4. CASE out.pc = "reclaim" /\ c = out.item.cmd
    BY <2>1, <2>4, BufferIds
  <2>5. CASE dev.cmd.kind = "decode" /\ ~dev.work.error /\ c = dev.cmd
    BY <2>5, BufferIds
  <2> QED
    BY <2>2, <2>3, <2>4, <2>5 DEF UsingBuffers
<1>4. DescriptorsCurrent
  BY <1>1 DEF StatesInv
<1> QED
  BY <1>2, <1>3, <1>4 DEF LanesConsistent

LEMMA SlotsImply == LanesInv => SlotsExact
<1> SUFFICES ASSUME LanesInv PROVE SlotsExact
  OBVIOUS
<1>1. TypeInv /\ OneOwner(mtp, freeTail) /\ KnownInv
  BY DEF LanesInv, SlotsInv
<1>2. ASSUME NEW s \in Tail_
      PROVE  Cardinality({r \in Request : mtp[r].slot = s})
               = (IF \E i \in DOMAIN freeTail : freeTail[i] = s THEN 0 ELSE 1)
  <2>1. CASE \E i \in DOMAIN freeTail : freeTail[i] = s
    <3>1. {r \in Request : mtp[r].slot = s} = {}
      BY <1>1, <2>1 DEF OneOwner
    <3> QED
      BY <2>1, <3>1, FS_EmptySet
  <2>2. CASE ~\E i \in DOMAIN freeTail : freeTail[i] = s
    <3>1. PICK r \in Request : mtp[r].slot = s
      BY <1>1, <2>2 DEF OneOwner
    <3>2. s # 0
      BY Bounds_ DEF Tail_
    <3>3. {q \in Request : mtp[q].slot = s} = {r}
      BY <1>1, <3>1, <3>2 DEF OneOwner
    <3>4. Cardinality({r}) = 1
      BY FS_Singleton
    <3> QED
      BY <2>2, <3>3, <3>4
  <2> QED
    BY <2>1, <2>2
<1>3. TailSlotsExact
  BY <1>1, <1>2 DEF TailSlotsExact, OneOwner
<1>4. StatesReleased
  <2> SUFFICES ASSUME Quiet, NEW r \in Request, mtp[r].slot # 0, r \notin known PROVE FALSE
    BY DEF StatesReleased
  <2>1. PICK c \in FromDev : r \in c.finished
    BY <1>1 DEF KnownInv
  <2>2. c \in FromOut /\ c \in Command \cup {NoCmd}
    BY <1>1, FromTypes
  <2>3. c.id = 0
    BY <2>2 DEF Quiet
  <2> QED
    BY <2>1, <2>2, <2>3, CommandFields
<1> QED
  BY <1>3, <1>4 DEF SlotsExact

\* The lanes of the pipelined worker keep the inductive invariant, for every
\* set of requests, number of state slots, pipeline depth and fault set.
THEOREM LanesInvariant == Spec => []LanesInv
<1>1. Init => LanesInv
  BY LanesInitially
<1>2. LanesInv /\ [Next]_vars => LanesInv'
  BY LanesStep
<1> QED
  BY <1>1, <1>2, PTL DEF Spec

\* A step submitted by the device lane finds in its buffer slot the inputs that
\* the prepare lane staged for it, until the output lane has read its results,
\* and finds its own requests in the device state slots of its descriptors
\* (_prepare_step_command, dispatch_prepared_decode, _reclaim_pending_decode).
THEOREM LanesCorrect == Spec => []LanesConsistent
<1>1. LanesInv => LanesConsistent
  BY LanesImply
<1> QED
  BY <1>1, LanesInvariant, PTL

\* Every device state slot is free once or has one owner, although two lanes
\* reserve slots and one releases them, and a worker with nothing left to do
\* keeps states only for requests that the engine believes it knows
\* (_reserve_mtp_state_slot, release_finished_requests).
THEOREM SlotsCorrect == Spec => []SlotsExact
<1>1. LanesInv => SlotsExact
  BY SlotsImply
<1> QED
  BY <1>1, LanesInvariant, PTL
-----------------------------------------------------------------------------
(***************************************************************************)
(* The lanes as a FIFO worker.                                             *)
(***************************************************************************)
\* The elements of a finite set of naturals, by the number of smaller ones.
LEMMA Ranks ==
  ASSUME NEW S \in SUBSET Nat, IsFiniteSet(S)
  PROVE  LET n == Cardinality(S) IN
         /\ n \in Nat
         /\ \A l \in S : Cardinality(Older(S, l)) \in 0 .. n - 1
         /\ \A l, m \in S : l < m => Cardinality(Older(S, l)) < Cardinality(Older(S, m))
         /\ \A l, m \in S : Cardinality(Older(S, l)) = Cardinality(Older(S, m)) => l = m
         /\ \A p \in 0 .. n - 1 : \E l \in S : Cardinality(Older(S, l)) = p
<1> DEFINE n == Cardinality(S)
           rank(l) == Cardinality(Older(S, l))
           f == [l \in S |-> rank(l)]
<1>1. n \in Nat
  BY FS_CardinalityType
<1>2. ASSUME NEW l \in S PROVE IsFiniteSet(Older(S, l)) /\ rank(l) \in Nat /\ rank(l) < n
  <2>1. Older(S, l) \in SUBSET S /\ l \notin Older(S, l)
    BY DEF Older
  <2>2. IsFiniteSet(Older(S, l)) /\ rank(l) <= n /\ (n = rank(l) => S = Older(S, l))
    BY <2>1, FS_Subset
  <2>3. rank(l) \in Nat
    BY <2>2, FS_CardinalityType
  <2> QED
    BY <1>1, <2>1, <2>2, <2>3
<1>3. ASSUME NEW l \in S, NEW m \in S, l < m PROVE rank(l) < rank(m)
  <2>1. Older(S, l) \in SUBSET Older(S, m) /\ l \in Older(S, m) /\ l \notin Older(S, l)
    <3>1. ASSUME NEW k \in S, k < l PROVE k < m
      BY <1>3, <3>1
    <3>2. l \in Nat /\ ~ (l < l)
      OBVIOUS
    <3> QED
      BY <1>3, <3>1, <3>2 DEF Older
  <2>2. rank(l) <= rank(m) /\ (rank(m) = rank(l) => Older(S, m) = Older(S, l))
    BY <1>2, <2>1, FS_Subset
  <2>3. rank(l) \in Nat /\ rank(m) \in Nat
    BY <1>2
  <2> HIDE DEF rank
  <2> QED
    BY <2>1, <2>2, <2>3
<1>4. ASSUME NEW l \in S, NEW m \in S, rank(l) = rank(m) PROVE l = m
  <2>1. rank(l) \in Nat /\ l \in Nat /\ m \in Nat
    BY <1>2
  <2>2. ~ (l < m) /\ ~ (m < l)
    BY <1>3, <1>4, <2>1
  <2> QED
    BY <2>1, <2>2
<1>5. \A l \in S : rank(l) \in 0 .. n - 1
  <2> HIDE DEF rank, n
  <2> QED
    BY <1>1, <1>2
<1>6. f \in Injection(S, 0 .. n - 1)
  <2> HIDE DEF rank, n
  <2>1. f \in [S -> 0 .. n - 1]
    BY <1>5
  <2>2. \A l, m \in S : f[l] = f[m] => l = m
    BY <1>4
  <2> QED
    BY <2>1, <2>2 DEF Injection, IsInjective
<1>7. IsFiniteSet(0 .. n - 1) /\ Cardinality(0 .. n - 1) = n
  <2> HIDE DEF n
  <2> QED
    BY <1>1, FS_Interval
<1>8. f \in Surjection(S, 0 .. n - 1)
  BY <1>6, <1>7, FS_Injection
<1>9. \A p \in 0 .. n - 1 : \E l \in S : rank(l) = p
  BY <1>8 DEF Surjection
<1> QED
  BY <1>1, <1>3, <1>4, <1>5, <1>9

\* A queue that lists a set in ascending order.
Lists(q, S) ==
  /\ q \in Seq(Nat)
  /\ \A i \in DOMAIN q : q[i] \in S
  /\ \A n \in S : \E i \in DOMAIN q : q[i] = n
  /\ \A i, j \in DOMAIN q : i < j => q[i] < q[j]

LEMMA AscendingLists ==
  ASSUME NEW S \in SUBSET Nat, IsFiniteSet(S)
  PROVE  Lists(Ascending(S), S)
<1> DEFINE n == Cardinality(S)
           rank(l) == Cardinality(Older(S, l))
           q == Ascending(S)
<1>1. /\ n \in Nat
      /\ \A l \in S : rank(l) \in 0 .. n - 1
      /\ \A l, m \in S : l < m => rank(l) < rank(m)
      /\ \A l, m \in S : rank(l) = rank(m) => l = m
      /\ \A p \in 0 .. n - 1 : \E l \in S : rank(l) = p
  BY Ranks
<1>2. q = [i \in 1 .. n |-> CHOOSE l \in S : rank(l) = i - 1]
  BY DEF Ascending
<1> HIDE DEF n, rank, q
<1>3. DOMAIN q = 1 .. n
  BY <1>2
<1>4. ASSUME NEW i \in 1 .. n PROVE q[i] \in S /\ rank(q[i]) = i - 1
  <2>1. i - 1 \in 0 .. n - 1
    BY <1>1
  <2>2. \E l \in S : rank(l) = i - 1
    BY <1>1, <2>1
  <2> QED
    BY <1>2, <2>2
<1>5. q \in Seq(Nat)
  <2>1. q \in [1 .. n -> Nat]
    BY <1>2, <1>3, <1>4
  <2> QED
    BY <1>1, <2>1
<1>6. ASSUME NEW l \in S PROVE \E i \in DOMAIN q : q[i] = l
  <2>1. rank(l) \in 0 .. n - 1
    BY <1>1
  <2>2. rank(l) + 1 \in 1 .. n /\ (rank(l) + 1) - 1 = rank(l)
    BY <1>1, <2>1
  <2>3. q[rank(l) + 1] \in S /\ rank(q[rank(l) + 1]) = rank(l)
    BY <1>4, <2>2
  <2> QED
    BY <1>1, <1>3, <2>2, <2>3
<1>7. ASSUME NEW i \in DOMAIN q, NEW j \in DOMAIN q, i < j PROVE q[i] < q[j]
  <2>1. /\ q[i] \in S /\ q[j] \in S /\ q[i] \in Nat /\ q[j] \in Nat
        /\ rank(q[i]) = i - 1 /\ rank(q[j]) = j - 1 /\ i \in Nat /\ j \in Nat
    <3>1. i \in 1 .. n /\ j \in 1 .. n /\ i \in Nat /\ j \in Nat
      <4>1. n \in Nat
        BY <1>1
      <4> QED
        BY <1>3, <4>1
    <3>2. q[i] \in S /\ rank(q[i]) = i - 1
      BY <1>4, <3>1
    <3>3. q[j] \in S /\ rank(q[j]) = j - 1
      BY <1>4, <3>1
    <3> QED
      BY <3>1, <3>2, <3>3
  <2>2. q[i] # q[j]
    BY <1>7, <2>1
  <2>3. ~ (q[j] < q[i])
    BY <1>1, <1>7, <2>1
  <2> QED
    BY <2>1, <2>2, <2>3
<1>8. Lists(q, S)
  BY <1>3, <1>4, <1>5, <1>6, <1>7 DEF Lists
<1> QED
  BY <1>8 DEF q

\* There is one such queue.
LEMMA ListsUnique ==
  ASSUME NEW S \in SUBSET Nat, IsFiniteSet(S), NEW q, Lists(q, S)
  PROVE  q = Ascending(S)
<1> DEFINE n == Cardinality(S)
           rank(l) == Cardinality(Older(S, l))
           k == Len(q)
<1>1. /\ n \in Nat
      /\ \A l, m \in S : rank(l) = rank(m) => l = m
  BY Ranks
<1>2. /\ q \in Seq(Nat) /\ k \in Nat /\ DOMAIN q = 1 .. k
      /\ \A i \in 1 .. k : q[i] \in S /\ q[i] \in Nat
      /\ \A l \in S : \E i \in 1 .. k : q[i] = l
      /\ \A i, j \in 1 .. k : i < j => q[i] < q[j]
  BY DEF Lists
<1> HIDE DEF k
<1>3. ASSUME NEW i \in 1 .. k, NEW j \in 1 .. k PROVE (q[i] = q[j] => i = j) /\ (q[i] < q[j] => i < j)
  <2>1. i \in Nat /\ j \in Nat /\ q[i] \in Nat /\ q[j] \in Nat
    BY <1>2
  <2>2. (i < j => q[i] < q[j]) /\ (j < i => q[j] < q[i])
    BY <1>2
  <2> QED
    BY <2>1, <2>2
<1>4. ASSUME NEW i \in 0 .. k, NEW T, \A l : l \in T <=> \E j \in 1 .. i : q[j] = l
      PROVE  Cardinality(T) = i
  <2> DEFINE f == [j \in 1 .. i |-> q[j]]
  <2>1. i \in Nat /\ \A j \in 1 .. i : j \in 1 .. k
    BY <1>2
  <2>2. f \in [1 .. i -> T]
    BY <1>4
  <2>3. \A a, b \in 1 .. i : f[a] = f[b] => a = b
    BY <1>3, <2>1
  <2>4. \A l \in T : \E j \in 1 .. i : f[j] = l
    BY <1>4
  <2>5. f \in Injection(1 .. i, T) /\ f \in Surjection(1 .. i, T)
    <3> HIDE DEF f
    <3> QED
      BY <2>2, <2>3, <2>4 DEF Injection, IsInjective, Surjection
  <2>6. IsFiniteSet(1 .. i) /\ Cardinality(1 .. i) = i
    BY <2>1, FS_Interval
  <2>7. IsFiniteSet(T) /\ Cardinality(T) <= i
    BY <2>5, <2>6, FS_Surjection
  <2>8. i <= Cardinality(T) /\ Cardinality(T) \in Nat
    BY <2>5, <2>6, <2>7, FS_Injection, FS_CardinalityType
  <2> QED
    BY <2>1, <2>7, <2>8
<1>5. n = k
  <2>1. k \in 0 .. k
    BY <1>2
  <2>2. \A l : l \in S <=> \E j \in 1 .. k : q[j] = l
    BY <1>2
  <2> QED
    BY <1>4, <2>1, <2>2
<1>6. ASSUME NEW i \in 1 .. k PROVE rank(q[i]) = i - 1
  <2>1. i - 1 \in 0 .. k /\ i \in Nat
    BY <1>2
  <2>2. \A j \in 1 .. i - 1 : j \in 1 .. k /\ j < i
    BY <1>2
  <2>3. ASSUME NEW l \in Older(S, q[i]) PROVE \E j \in 1 .. i - 1 : q[j] = l
    <3>1. l \in S /\ l < q[i]
      BY DEF Older
    <3>2. PICK j \in 1 .. k : q[j] = l
      BY <1>2, <3>1
    <3>3. j < i
      BY <1>3, <3>1, <3>2
    <3>4. j \in 1 .. i - 1
      BY <1>2, <2>1, <3>3
    <3> QED
      BY <3>2, <3>4
  <2>4. ASSUME NEW j \in 1 .. i - 1 PROVE q[j] \in Older(S, q[i])
    BY <1>2, <2>2 DEF Older
  <2>5. \A l : l \in Older(S, q[i]) <=> \E j \in 1 .. i - 1 : q[j] = l
    BY <2>3, <2>4
  <2> QED
    BY <1>4, <2>1, <2>5
<1>7. ASSUME NEW i \in 1 .. k PROVE (CHOOSE l \in S : rank(l) = i - 1) = q[i]
  <2> HIDE DEF rank
  <2>1. q[i] \in S /\ rank(q[i]) = i - 1
    BY <1>2, <1>6
  <2>2. \A l \in S : rank(l) = i - 1 => l = q[i]
    BY <1>1, <2>1
  <2> QED
    BY <2>1, <2>2
<1>8. q = [i \in 1 .. k |-> q[i]]
  BY <1>2
<1>9. Ascending(S) = [i \in 1 .. k |-> CHOOSE l \in S : rank(l) = i - 1]
  BY <1>5 DEF Ascending
<1> QED
  BY <1>7, <1>8, <1>9

LEMMA AscendingAdd ==
  ASSUME NEW S \in SUBSET Nat, IsFiniteSet(S), NEW n \in Nat, \A m \in S : m < n
  PROVE  Ascending(S \cup {n}) = Append(Ascending(S), n) /\ Ascending(S) \in Seq(Nat)
<1> DEFINE q == Ascending(S)
           p == Append(q, n)
           T == S \cup {n}
<1>1. Lists(q, S)
  BY AscendingLists
<1> HIDE DEF q
<1>2. /\ q \in Seq(Nat) /\ \A i \in DOMAIN q : q[i] \in S
      /\ \A m \in S : \E i \in DOMAIN q : q[i] = m
      /\ \A i, j \in DOMAIN q : i < j => q[i] < q[j]
  BY <1>1 DEF Lists
<1>3. /\ p \in Seq(Nat) /\ Len(q) \in Nat /\ DOMAIN q = 1 .. Len(q) /\ DOMAIN p = 1 .. (Len(q) + 1)
      /\ \A i \in DOMAIN q : p[i] = q[i]
      /\ p[Len(q) + 1] = n
  BY <1>2, AppendFacts
<1> HIDE DEF p
<1>4. \A i \in DOMAIN p : i \in DOMAIN q \/ i = Len(q) + 1
  BY <1>3
<1>5. DOMAIN q \subseteq DOMAIN p /\ Len(q) + 1 \in DOMAIN p
  BY <1>3
<1>6. \A i \in DOMAIN p : p[i] \in T
  BY <1>2, <1>3, <1>4
<1>7. \A m \in T : \E i \in DOMAIN p : p[i] = m
  BY <1>2, <1>3, <1>5
<1>8. ASSUME NEW i \in DOMAIN p, NEW j \in DOMAIN p, i < j PROVE p[i] < p[j]
  <2>1. i \in DOMAIN q
    BY <1>3, <1>8
  <2>2. CASE j \in DOMAIN q
    BY <1>2, <1>3, <1>8, <2>1, <2>2
  <2>3. CASE j = Len(q) + 1
    BY <1>2, <1>3, <2>1, <2>3
  <2> QED
    BY <1>4, <2>2, <2>3
<1>9. Lists(p, T)
  BY <1>3, <1>6, <1>7, <1>8 DEF Lists
<1>10. T \in SUBSET Nat /\ IsFiniteSet(T)
  BY FS_AddElement
<1> HIDE DEF T
<1>11. p = Ascending(T)
  BY <1>9, <1>10, ListsUnique
<1> QED
  BY <1>2, <1>11 DEF p, q, T

LEMMA AscendingRemove ==
  ASSUME NEW S \in SUBSET Nat, IsFiniteSet(S), NEW n \in S, \A m \in S : n <= m
  PROVE  /\ Ascending(S) # <<>> /\ Head(Ascending(S)) = n
         /\ Ascending(S \ {n}) = Tail(Ascending(S))
<1> DEFINE q == Ascending(S)
           p == Tail(q)
           T == S \ {n}
<1>1. Lists(q, S)
  BY AscendingLists
<1> HIDE DEF q
<1>2. /\ q \in Seq(Nat) /\ \A i \in DOMAIN q : q[i] \in S
      /\ \A m \in S : \E i \in DOMAIN q : q[i] = m
      /\ \A i, j \in DOMAIN q : i < j => q[i] < q[j]
  BY <1>1 DEF Lists
<1>3. PICK k \in DOMAIN q : q[k] = n
  BY <1>2
<1>4. q # <<>>
  BY <1>2, <1>3
<1>5. /\ Head(q) = q[1] /\ Len(q) \in Nat \ {0} /\ DOMAIN q = 1 .. Len(q)
      /\ p \in Seq(Nat) /\ DOMAIN p = 1 .. (Len(q) - 1)
      /\ \A i \in DOMAIN p : i + 1 \in DOMAIN q /\ p[i] = q[i + 1]
      /\ \A i \in DOMAIN q : i = 1 \/ (i - 1 \in DOMAIN p /\ q[i] = p[i - 1])
  BY <1>2, <1>4, TailFacts
<1> HIDE DEF p
<1>6. 1 \in DOMAIN q /\ \A i \in DOMAIN q : i \in Nat /\ q[i] \in Nat
  BY <1>2, <1>5
<1>7. q[1] = n
  <2>1. ASSUME k # 1 PROVE FALSE
    <3>1. 1 < k
      BY <1>5, <2>1
    <3>2. q[1] < n /\ q[1] \in S /\ q[1] \in Nat /\ n \in Nat
      BY <1>2, <1>3, <1>6, <3>1
    <3>3. n <= q[1]
      BY <3>2
    <3> QED
      BY <3>2, <3>3
  <2> QED
    BY <1>3, <2>1
<1>8. ASSUME NEW i \in DOMAIN p PROVE p[i] \in T
  <2>1. i + 1 \in DOMAIN q /\ p[i] = q[i + 1] /\ 1 < i + 1
    BY <1>5
  <2>2. n < p[i] /\ p[i] \in S /\ p[i] \in Nat /\ n \in Nat
    BY <1>2, <1>6, <1>7, <2>1
  <2> QED
    BY <2>2
<1>9. ASSUME NEW m \in T PROVE \E i \in DOMAIN p : p[i] = m
  <2>1. PICK i \in DOMAIN q : q[i] = m
    BY <1>2
  <2>2. i # 1
    BY <1>7, <2>1
  <2> QED
    BY <1>5, <2>1, <2>2
<1>10. ASSUME NEW i \in DOMAIN p, NEW j \in DOMAIN p, i < j PROVE p[i] < p[j]
  <2>1. i + 1 < j + 1
    BY <1>5, <1>10
  <2> QED
    BY <1>2, <1>5, <2>1
<1>11. Lists(p, T)
  BY <1>5, <1>8, <1>9, <1>10 DEF Lists
<1>12. T \in SUBSET Nat /\ IsFiniteSet(T)
  BY FS_Subset
<1> HIDE DEF T
<1>13. p = Ascending(T)
  BY <1>11, <1>12, ListsUnique
<1> QED
  BY <1>4, <1>5, <1>7, <1>13 DEF p, q, T
\* The steps in the worker.
LEMMA StepIdsFacts ==
  ASSUME TypeInv
  PROVE  /\ StepIds \in SUBSET Nat /\ IsFiniteSet(StepIds)
         /\ \A n \in StepIds : n # 0 /\ \E c \in FromOut : c.id = n
         /\ \A c \in FromOut : c.id # 0 => c.id \in StepIds
<1>1. \A c \in FromOut : c.id \in 0 .. MaxSteps
  BY FromTypes, CommandFields
<1>2. StepIds \subseteq 0 .. MaxSteps
  BY <1>1 DEF StepIds
<1>3. IsFiniteSet(0 .. MaxSteps)
  BY Bounds_, FS_Interval
<1>4. IsFiniteSet(StepIds)
  BY <1>2, <1>3, FS_Subset
<1>5. StepIds \in SUBSET Nat
  BY <1>2, Bounds_
<1> QED
  BY <1>4, <1>5 DEF StepIds

LEMMA HeldSame ==
  ASSUME StepIds' = StepIds
  PROVE  Held' = Held
BY DEF Held, Ascending

\* Commands without an id do not count.
LEMMA StepIdsSame ==
  ASSUME \A c \in FromOut : c.id # 0 => c \in FromOut',
         \A c \in FromOut' : c.id # 0 => c \in FromOut
  PROVE  StepIds' = StepIds
BY DEF StepIds

LEMMA SequenceIsFunction ==
  ASSUME NEW q \in Seq(Nat), NEW D, DOMAIN q = D
  PROVE  q = [i \in D |-> q[i]]
<1>1. q \in [1 .. Len(q) -> Nat]
  OBVIOUS
<1> QED
  BY <1>1

Replies == [i \in DOMAIN outQueue |-> outQueue[i].id]

\* A lane moves a command on: the worker holds what it held.
LEMMA LaneMovesSilent ==
  ASSUME Pipeline,
         \/ RestAction \/ HandAction \/ PrepareGet \/ PreparePut \/ DeviceGet \/ OutputGet
         \/ OutputProfile \/ OutputShutdown
  PROVE  Held' = Held /\ outQueue' = outQueue
<1>1. TypeInv /\ AtBarrier /\ SlotsInv /\ OrderInv
  BY DEF Pipeline
<1>2. NoCmd.id = 0
  BY Nothing
<1>3. CASE RestAction
  <2>1. Rests
    BY <1>1, <1>3, RestActionMoves
  <2>2. FromOut' = FromOut /\ outQueue' = outQueue
    BY <2>1, RestsMoves DEF Rests
  <2>3. StepIds' = StepIds
    BY <2>2, StepIdsSame
  <2> QED
    BY <2>2, <2>3, HeldSame
<1>4. CASE HandAction
  <2>1. PICK x : Hands(x)
    BY <1>1, <1>4, HandActionMoves
  <2>2. FromOut' = FromOut \cup {NoCmd} /\ outQueue' = outQueue
    BY <1>1, <2>1, HandsMoves DEF Hands
  <2>3. StepIds' = StepIds
    BY <1>2, <2>2, StepIdsSame
  <2> QED
    BY <2>2, <2>3, HeldSame
<1>5. CASE PrepareGet \/ DeviceGet \/ OutputGet
  <2>1. FromOut = FromOut' \cup {NoCmd}
    BY <1>1, <1>5, PrepareGetMoves, DeviceGetMoves, OutputGetMoves
  <2>2. StepIds' = StepIds
    BY <1>2, <2>1, StepIdsSame
  <2>3. outQueue' = outQueue
    BY <1>5 DEF PrepareGet, DeviceGet, OutputGet
  <2> QED
    BY <2>2, <2>3, HeldSame
<1>6. CASE PreparePut
  <2>1. FromOut' = FromOut \cup {NoCmd} /\ outQueue' = outQueue
    BY <1>1, <1>6, PreparePutMoves DEF PreparePut
  <2>2. StepIds' = StepIds
    BY <1>2, <2>1, StepIdsSame
  <2> QED
    BY <2>1, <2>2, HeldSame
<1>7. CASE OutputProfile \/ OutputShutdown
  <2>1. out.item.cmd.id = 0 /\ FromOut' = FromOutWork \cup {NoCmd}
    BY <1>1, <1>7, OutputControlMoves
  <2>2. FromOut = {out.item.cmd} \cup FromOutWork
    BY DEF FromOut
  <2>3. StepIds' = StepIds
    BY <1>2, <2>1, <2>2, StepIdsSame
  <2>4. outQueue' = outQueue
    BY <1>7 DEF OutputProfile, OutputShutdown
  <2> QED
    BY <2>3, <2>4, HeldSame
<1> QED
  BY <1>3, <1>4, <1>5, <1>6, <1>7

LEMMA RepliesSame ==
  ASSUME outQueue' = outQueue
  PROVE  Replies' = Replies
BY DEF Replies

\* The engine sends a step: it is the youngest of those the worker holds.
LEMMA SendImplements ==
  ASSUME Pipeline, NEW c \in Command, inQueue' = Append(inQueue, c),
         c.id = sent + 1, UNCHANGED <<workQueue, outWork, outQueue, prep, dev, out>>
  PROVE  Fifo!Send
<1>1. TypeInv /\ OrderInv
  BY DEF Pipeline
<1>2. /\ StepIds \in SUBSET Nat /\ IsFiniteSet(StepIds)
      /\ \A n \in StepIds : n # 0 /\ \E b \in FromOut : b.id = n
  BY <1>1, StepIdsFacts
<1>3. FromOut' = FromOut \cup {c}
  BY <1>1, SentMoves DEF TypeInv, LaneTypes
<1>4. sent \in Nat /\ \A b \in FromOut : b.id <= sent /\ b.id \in Nat
  BY <1>1, Bounds_, FromTypes DEF OrderInv, TypeInv, EngineTypes
<1> DEFINE n == sent + 1
           q == Held
<1>5. n \in Nat /\ n # 0 /\ \A m \in StepIds : m < n
  BY <1>2, <1>4
<1>6. StepIds' = StepIds \cup {n}
  BY <1>3, <1>5 DEF StepIds
<1> HIDE DEF n
<1>7. Ascending(StepIds \cup {n}) = Append(Ascending(StepIds), n) /\ Ascending(StepIds) \in Seq(Nat)
  BY <1>2, <1>5, AscendingAdd
<1>8. Held' = Append(q, n) /\ q \in Seq(Nat) /\ q = Ascending(StepIds)
  <2>1. Held' = Ascending(StepIds \cup {n})
    BY <1>6 DEF Held, Ascending
  <2> QED
    BY <1>7, <2>1 DEF Held
<1>9. Lists(q, StepIds)
  BY <1>2, <1>8, AscendingLists
<1> HIDE DEF q
<1>10. \A i \in DOMAIN q : q[i] \in StepIds
  BY <1>9 DEF Lists
<1>11. /\ Len(q) \in Nat /\ DOMAIN q = 1 .. Len(q) /\ Len(Append(q, n)) = Len(q) + 1
       /\ \A i \in DOMAIN q : Append(q, n)[i] = q[i]
       /\ Append(q, n)[Len(q) + 1] = n
  BY <1>5, <1>8, AppendFacts
<1>12. SubSeq(Append(q, n), 1, Len(q)) = q
  BY <1>5, <1>8
<1>13. \A i \in 1 .. Len(q) : q[i] < Append(q, n)[Len(Append(q, n))]
  BY <1>5, <1>10, <1>11
<1>14. Replies' = Replies
  BY RepliesSame
<1> QED
  BY <1>8, <1>11, <1>12, <1>13, <1>14 DEF Fifo!Send, q, Replies

\* The output lane answers the oldest.
LEMMA PublishImplements ==
  ASSUME Pipeline, OutputPublish
  PROVE  Fifo!Answer
<1>1. TypeInv /\ OrderInv
  BY DEF Pipeline
<1> DEFINE n == out.item.cmd.id
           q == Held
           x == [id |-> out.item.cmd.id, error |-> out.item.error]
           T == [id : 1 .. MaxSteps, error : BOOLEAN]
<1>2. /\ StepIds \in SUBSET Nat /\ IsFiniteSet(StepIds)
      /\ \A m \in StepIds : m # 0 /\ \E b \in FromOut : b.id = m
      /\ \A b \in FromOut : b.id # 0 => b.id \in StepIds
  BY <1>1, StepIdsFacts
<1>3. out.item.cmd \in Step /\ FromOut' = FromOutWork \cup {NoCmd}
  BY <1>1, OutputPublishMoves
<1>4. n \in Nat /\ n # 0 /\ FromOut = {out.item.cmd} \cup FromOutWork /\ NoCmd.id = 0
  BY <1>3, StepFields, Nothing DEF FromOut
<1>5. \A b \in FromOutWork : b.id # 0 => n < b.id
  BY <1>1, <1>4 DEF OrderInv, Precedes
<1>6. n \in StepIds /\ \A m \in StepIds : n <= m
  <2> HIDE DEF n
  <2>1. \A b \in FromOut : b = out.item.cmd \/ b \in FromOutWork
    BY <1>4
  <2>2. n \in StepIds
    BY <1>2, <1>4 DEF n
  <2>3. ASSUME NEW m \in StepIds PROVE n <= m
    <3>1. PICK b \in FromOut : b.id = m
      BY <1>2
    <3>2. m # 0 /\ m \in Nat
      BY <1>2
    <3>3. CASE b = out.item.cmd
      BY <1>4, <3>1, <3>3 DEF n
    <3>4. CASE b \in FromOutWork
      <4>1. n < m
        BY <1>5, <3>1, <3>2, <3>4
      <4> QED
        BY <1>4, <3>2, <4>1
    <3> QED
      BY <2>1, <3>3, <3>4
  <2> QED
    BY <2>2, <2>3
<1>7. StepIds' = StepIds \ {n}
  <2>1. \A b \in FromOutWork : b.id # n
    BY <1>4, <1>5
  <2> HIDE DEF n
  <2>2. StepIds = {b.id : b \in {out.item.cmd} \cup FromOutWork} \ {0}
    BY <1>4 DEF StepIds
  <2>3. StepIds = ({n} \cup {b.id : b \in FromOutWork}) \ {0}
    BY <2>2 DEF n
  <2>4. StepIds' = {b.id : b \in FromOutWork} \ {0}
    BY <1>3, <1>4 DEF StepIds
  <2> QED
    BY <2>1, <2>3, <2>4
<1> HIDE DEF n
<1>8. /\ Ascending(StepIds) # <<>> /\ Head(Ascending(StepIds)) = n
      /\ Ascending(StepIds \ {n}) = Tail(Ascending(StepIds))
  BY <1>2, <1>6, AscendingRemove
<1>9. Held' = Tail(q) /\ q # <<>> /\ Head(q) = n
  <2>1. Held' = Ascending(StepIds \ {n})
    BY <1>7 DEF Held, Ascending
  <2> QED
    BY <1>8, <2>1 DEF Held
<1>10. outQueue \in Seq(T) /\ x.id = n /\ outQueue' = Append(outQueue, x)
  BY <1>1 DEF TypeInv, LaneTypes, OutputPublish, n
<1>11. x \in T
  <2>1. out.item.cmd.id \in 1 .. MaxSteps
    BY <1>3, StepFields
  <2>2. out.item.error \in BOOLEAN
    BY <1>1, ItemFields DEF TypeInv, LaneTypes
  <2> QED
    BY <2>1, <2>2
<1> HIDE DEF x, T, q
<1>12. Replies' = Append(Replies, n)
  <2> DEFINE r == [i \in DOMAIN outQueue |-> outQueue[i].id]
             s == [i \in DOMAIN Append(outQueue, x) |-> Append(outQueue, x)[i].id]
  <2>1. /\ Len(outQueue) \in Nat /\ DOMAIN outQueue = 1 .. Len(outQueue)
        /\ DOMAIN Append(outQueue, x) = 1 .. (Len(outQueue) + 1)
        /\ \A i \in DOMAIN outQueue : i # Len(outQueue) + 1 /\ Append(outQueue, x)[i] = outQueue[i]
        /\ Append(outQueue, x)[Len(outQueue) + 1] = x
    BY <1>10, <1>11, AppendFacts
  <2>2. \A i \in DOMAIN outQueue : outQueue[i].id \in Nat
    <3>1. \A i \in DOMAIN outQueue : outQueue[i] \in T
      BY <1>10
    <3> QED
      BY <3>1, Bounds_ DEF T
  <2>3. r \in Seq(Nat) /\ Len(r) = Len(outQueue)
    <3>1. r \in [1 .. Len(outQueue) -> Nat]
      BY <2>1, <2>2
    <3> QED
      BY <2>1, <3>1
  <2>4. /\ DOMAIN Append(r, n) = 1 .. (Len(outQueue) + 1)
        /\ \A i \in 1 .. Len(outQueue) : Append(r, n)[i] = r[i]
        /\ Append(r, n)[Len(outQueue) + 1] = n
        /\ Append(r, n) \in Seq(Nat)
    BY <1>4, <2>1, <2>3, AppendFacts
  <2>5. \A i \in 1 .. (Len(outQueue) + 1) : Append(outQueue, x)[i].id = Append(r, n)[i]
    <3> TAKE i \in 1 .. (Len(outQueue) + 1)
    <3>1. CASE i = Len(outQueue) + 1
      BY <1>10, <2>1, <2>4, <3>1
    <3>2. CASE i # Len(outQueue) + 1
      <4>1. i \in 1 .. Len(outQueue)
        BY <2>1, <3>2
      <4> QED
        BY <2>1, <2>4, <4>1
    <3> QED
      BY <3>1, <3>2
  <2>6. s = [i \in 1 .. (Len(outQueue) + 1) |-> Append(r, n)[i]]
    BY <2>1, <2>5
  <2>7. Append(r, n) = [i \in 1 .. (Len(outQueue) + 1) |-> Append(r, n)[i]]
    <3> DEFINE t == Append(r, n)
    <3>1. t \in Seq(Nat) /\ DOMAIN t = 1 .. (Len(outQueue) + 1)
      BY <2>4
    <3> HIDE DEF t
    <3>2. t = [i \in 1 .. (Len(outQueue) + 1) |-> t[i]]
      BY <3>1, SequenceIsFunction
    <3> QED
      BY <3>2 DEF t
  <2>8. Replies = r
    BY DEF Replies
  <2>9. Replies' = s
    BY <1>10 DEF Replies
  <2> HIDE DEF r, s
  <2> QED
    BY <2>6, <2>7, <2>8, <2>9
<1> QED
  BY <1>9, <1>12 DEF Fifo!Answer, q, Replies

\* The engine takes an answer.
LEMMA ReceiveImplements ==
  ASSUME Pipeline, Receive
  PROVE  Fifo!Take
<1>1. TypeInv /\ OrderInv
  BY DEF Pipeline
<1>2. outQueue # <<>> /\ outQueue' = Tail(outQueue) /\ FromOut' = FromOut
  BY <1>1, ReceiveMoves
<1>3. Held' = Held
  BY <1>2, HeldSame, StepIdsSame
<1> DEFINE T == [id : 1 .. MaxSteps, error : BOOLEAN]
           r == [i \in DOMAIN outQueue |-> outQueue[i].id]
<1>4. outQueue \in Seq(T)
  BY <1>1 DEF TypeInv, LaneTypes
<1>5. \A i \in DOMAIN outQueue : outQueue[i].id \in Nat
  <2>1. \A i \in DOMAIN outQueue : outQueue[i] \in T
    BY <1>4, QueueFacts
  <2> QED
    BY <2>1, Bounds_
<1> HIDE DEF T
<1>6. /\ Len(outQueue) \in Nat \ {0} /\ DOMAIN outQueue = 1 .. Len(outQueue)
      /\ DOMAIN Tail(outQueue) = 1 .. (Len(outQueue) - 1)
      /\ \A i \in DOMAIN Tail(outQueue) : i + 1 \in DOMAIN outQueue /\ Tail(outQueue)[i] = outQueue[i + 1]
  BY <1>2, <1>4, TailFacts
<1>7. r \in Seq(Nat) /\ Len(r) = Len(outQueue) /\ r # <<>>
  <2>1. r \in [1 .. Len(outQueue) -> Nat]
    BY <1>5, <1>6
  <2>2. r \in Seq(Nat) /\ Len(r) = Len(outQueue)
    BY <1>6, <2>1
  <2> QED
    BY <1>6, <2>2
<1>8. \A i \in DOMAIN outQueue : r[i] = outQueue[i].id
  OBVIOUS
<1> HIDE DEF r
<1>9. /\ DOMAIN Tail(r) = 1 .. (Len(outQueue) - 1) /\ Tail(r) \in Seq(Nat)
      /\ \A i \in DOMAIN Tail(r) : Tail(r)[i] = r[i + 1]
  BY <1>7, TailFacts
<1>10. Tail(r) = [i \in 1 .. (Len(outQueue) - 1) |-> Tail(r)[i]]
  <2> DEFINE t == Tail(r)
  <2>1. t \in Seq(Nat) /\ DOMAIN t = 1 .. (Len(outQueue) - 1)
    BY <1>9
  <2> HIDE DEF t
  <2>2. t = [i \in 1 .. (Len(outQueue) - 1) |-> t[i]]
    BY <2>1, SequenceIsFunction
  <2> QED
    BY <2>2 DEF t
<1>11. \A i \in 1 .. (Len(outQueue) - 1) : Tail(outQueue)[i].id = Tail(r)[i]
  BY <1>6, <1>8, <1>9
<1>12. [i \in DOMAIN Tail(outQueue) |-> Tail(outQueue)[i].id] = Tail(r)
  BY <1>6, <1>10, <1>11
<1>13. Replies = r /\ Replies' = Tail(r)
  BY <1>2, <1>12 DEF Replies, r
<1> QED
  BY <1>3, <1>7, <1>13 DEF Fifo!Take, Replies

LEMMA EngineImplements ==
  ASSUME Pipeline, Engine
  PROVE  Fifo!Next \/ (Held' = Held /\ Replies' = Replies)
<1>1. TypeInv /\ OrderInv
  BY DEF Pipeline
<1>2. ASSUME NEW kind \in {"prefill", "decode", "cleanup"}, NEW batch \in SUBSET Request,
             NEW victims \in SUBSET Request, Send(kind, batch, victims)
      PROVE  Fifo!Next
  <2>1. PICK c \in Command : inQueue' = Append(inQueue, c) /\ c.id = sent + 1
    <3>1. \E c : Sends(c, kind, batch, victims)
      BY <1>1, <1>2, SendTypes
    <3>2. PICK c : Sends(c, kind, batch, victims)
      BY <3>1
    <3>3. c \in Command
      BY <3>2, StepFields DEF Sends
    <3> QED
      BY <3>2, <3>3 DEF Sends
  <2>2. UNCHANGED <<workQueue, outWork, outQueue, prep, dev, out>>
    BY <1>2 DEF Send
  <2>3. Fifo!Send
    BY <2>1, <2>2, SendImplements
  <2> QED
    BY <2>3 DEF Fifo!Next
<1>3. ASSUME NEW batch \in SUBSET Request, NEW victims \in SUBSET Request,
             SendPrefill(batch, victims) \/ SendDecode(batch, victims)
      PROVE  Fifo!Next
  BY <1>2, <1>3 DEF SendPrefill, SendDecode
<1>4. CASE SendCleanup
  <2>1. Send("cleanup", {}, {}) /\ {} \in SUBSET Request
    BY <1>4 DEF SendCleanup
  <2> QED
    BY <1>2, <2>1
<1>5. CASE SendProfile \/ SendShutdown
  <2>1. PICK kind \in {"profile", "shutdown"} : SendControl(kind)
    BY <1>5 DEF SendProfile, SendShutdown
  <2>2. PICK c \in Control : inQueue' = Append(inQueue, c)
    BY <1>1, <2>1, ControlTypes
  <2>3. UNCHANGED <<workQueue, outWork, outQueue, prep, dev, out>>
    BY <2>1 DEF SendControl
  <2>4. c.id = 0 /\ c \in Command
    BY ControlFields
  <2>5. FromOut' = FromOut \cup {c}
    BY <1>1, <2>2, <2>3, <2>4, SentMoves DEF TypeInv, LaneTypes
  <2>6. StepIds' = StepIds
    BY <2>4, <2>5, StepIdsSame
  <2> QED
    BY <2>3, <2>6, HeldSame, RepliesSame
<1>6. CASE Timeout \/ \E r \in Request : Abort(r)
  <2>1. Rests
    BY <1>6 DEF Abort, Timeout, Rests
  <2>2. FromOut' = FromOut /\ outQueue' = outQueue
    BY <2>1, RestsMoves DEF Rests
  <2> QED
    BY <2>2, HeldSame, StepIdsSame, RepliesSame
<1>7. CASE Receive
  BY <1>7, ReceiveImplements DEF Fifo!Next
<1> QED
  BY <1>3, <1>4, <1>5, <1>6, <1>7 DEF Engine

LEMMA StepImplements ==
  ASSUME LanesInv, [Next]_vars
  PROVE  [Fifo!Next]_(Fifo!vars)
<1>1. Pipeline
  BY DEF LanesInv, Pipeline
<1>2. CASE Engine
  BY <1>1, <1>2, EngineImplements DEF Fifo!vars, Replies
<1>3. CASE OutputPublish
  BY <1>1, <1>3, PublishImplements DEF Fifo!Next
<1>4. CASE RestAction \/ HandAction \/ (GetAction /\ ~OutputPublish)
  <2>1. Held' = Held /\ Replies' = Replies
    BY <1>1, <1>4, LaneMovesSilent, RepliesSame DEF GetAction
  <2> QED
    BY <2>1 DEF Fifo!vars, Replies
<1>5. CASE UNCHANGED vars
  <2>1. Rests
    <3>1. UNCHANGED <<inQueue, workQueue, outWork, outQueue, prep, dev, out>>
      BY <1>5 DEF vars
    <3> QED
      BY <3>1 DEF Rests
  <2>2. FromOut' = FromOut /\ outQueue' = outQueue
    BY <2>1, RestsMoves DEF Rests
  <2>3. Held' = Held /\ Replies' = Replies
    BY <2>2, HeldSame, StepIdsSame, RepliesSame
  <2> QED
    BY <2>3 DEF Fifo!vars, Replies
<1> QED
  BY <1>2, <1>3, <1>4, <1>5, StepCases

LEMMA InitImplements == Init => Fifo!Init
<1> SUFFICES ASSUME Init PROVE Fifo!Init
  OBVIOUS
<1>1. TypeInv
  BY TypesInitially
<1>2. \A c \in FromOut : c.id = 0
  BY Nothing DEF Init, FromOut, FromOutWork, FromDev, FromWork, FromPrep, InCmds, WorkCmds, OutCmds, NoItem
<1>3. StepIds = {}
  BY <1>2 DEF StepIds
<1>4. Held = <<>>
  <2>1. Cardinality({}) = 0
    BY FS_EmptySet
  <2> QED
    BY <1>3, <2>1 DEF Held, Ascending
<1>5. Replies = <<>>
  BY DEF Init, Replies
<1> QED
  BY <1>4, <1>5 DEF Fifo!Init, Replies

\* The three lanes together are a FIFO worker: every step they take sends a step,
\* answers the oldest one, takes the oldest answer, or changes nothing the engine
\* sees, whatever fails or is aborted or times out in between (_pipelined_busy_loop,
\* _device_execution_loop, _output_reclaim_loop, _get_live_result).
THEOREM LanesAnswerInOrder == Spec => Fifo!Init /\ [][Fifo!Next]_(Fifo!vars)
<1>1. Init => Fifo!Init
  BY InitImplements
<1>2. LanesInv /\ [Next]_vars => [Fifo!Next]_(Fifo!vars)
  BY StepImplements
<1> QED
  BY <1>1, <1>2, LanesInvariant, PTL DEF Spec
=============================================================================
