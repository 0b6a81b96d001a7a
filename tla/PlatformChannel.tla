--------------------------- MODULE PlatformChannel ---------------------------
(***************************************************************************)
(* One edge of the C++ platform: an Output on the producer's instance, an  *)
(* Input on the consumer's, and between them two HiCR single-producer      *)
(* channels, a variable-size one for payloads and a fixed-size one for     *)
(* metadata (src/platform/include/system/channels).  Several threads share *)
(* the Output through pushMessageLocking; one thread reads the Input.  A   *)
(* message is visible when it is in both channels, and neither channel     *)
(* knows of the other.  HiCR is external: a channel is a ring with a       *)
(* counter on either side.                                                 *)
(***************************************************************************)
EXTENDS Integers, Sequences, SequencesExt, FiniteSets

CONSTANTS
  Sizes,          \* for every producer thread 1..n, the sizes of its messages
  BufferCapacity, \* messages a channel holds
  BufferSize,     \* bytes the payload channel holds
  Names,          \* names of message types: thread i sends Names[i]
  Hashes,         \* the possible values of fnv1a on the names
  TypeIds,        \* values of a type id, 2^16 in the code
  GroupIds,       \* values of a group id, 2^14
  SequenceIds,    \* values of a sequence id, 2^34
  None

Thread == DOMAIN Sizes

(* fnv1a is some function of the name, cut down to the width of a type. *)
HashFunctions == Hashes

(* No Message is looked at. *)
NoView == None

Side == {"input", "output"}

ASSUME CapacityAssumption == BufferCapacity \in Nat \ {0} /\ BufferSize \in Nat \ {0}

\* A message is not empty and fits the payload buffer.
ASSUME SizesAssumption == Sizes \in [Thread -> Seq(1..BufferSize)] /\ None \notin Thread

ASSUME NamesAssumption ==
  /\ DOMAIN Names = Thread /\ \A t, u \in Thread : Names[t] = Names[u] => t = u
  /\ Hashes \subseteq [Range(Names) -> 0..(TypeIds - 1)]

\* isValid: a thread does not send more messages than there are sequence ids.
ASSUME IdsAssumption ==
  /\ TypeIds \in Nat \ {0} /\ GroupIds \in Nat \ {0} /\ SequenceIds \in Nat \ {0}
  /\ \A t \in Thread : Len(Sizes[t]) <= SequenceIds

VARIABLES
  fnv1a,      \* the hash function, the same in every process
  registry,   \* side -> its _nameToType
  published,  \* keys of the global memory slots exchanged so far
  ready,      \* side -> _isReady
  lock,       \* the thread that holds _lock
  pc,         \* thread -> its position in pushMessageLocking
  sent,       \* thread -> messages it has handed over
  data,       \* the payload channel: sequence of [pos, size]
  head,       \* the producer's counter of bytes pushed
  tail,       \* the consumer's counter of bytes popped
  bytes,      \* the payload buffer: ring position -> message written there
  meta,       \* the metadata channel: sequence of metadata
  reader,     \* the consumer's position
  view,       \* the Message that getMessage returned
  delivered,  \* what the consumer's handler has read
  bug         \* a "This is a bug in serving" exception was thrown

setup == <<fnv1a, registry, published, ready>>
producers == <<lock, pc, sent>>
channel == <<data, head, tail, bytes, meta>>
consumer == <<reader, view, delivered>>
vars == <<setup, producers, channel, consumer, bug>>

(***************************************************************************)
(* MessageTypeRegistry and message identifiers.                            *)
(***************************************************************************)
TypeToName(side, type) == {n \in DOMAIN registry[side] : registry[side][n] = type}

(* A registry that does not look at the hashes that are taken. *)
RegisterTypeNoCollisionCheck(side, n) ==
  /\ n \notin DOMAIN registry[side]
  /\ registry' = [registry EXCEPT ![side] =
       [m \in DOMAIN @ \cup {n} |-> IF m = n THEN fnv1a[n] ELSE @[m]]]

(* registerType: refuses a duplicate name and a hash that is taken. *)
RegisterType(side, n) ==
  /\ n \notin DOMAIN registry[side]
  /\ TypeToName(side, fnv1a[n]) = {}
  /\ registry' = [registry EXCEPT ![side] =
       [m \in DOMAIN @ \cup {n} |-> IF m = n THEN fnv1a[n] ELSE @[m]]]

Registered(side) == DOMAIN registry[side] = Range(Names)

Metadata(t, k) == [type |-> registry["output"][Names[t]], groupId |-> (k - 1) % GroupIds, sequenceId |-> k - 1]

(* An id whose type field overlaps the sequence number. *)
GetIdOverlap(m) ==
  (m.type % TypeIds) * GroupIds + (m.groupId % GroupIds) * SequenceIds
    + (m.sequenceId % SequenceIds)

(* getId packs the three fields, each cut down to its width, into one number. *)
GetId(m) ==
  ((m.type % TypeIds) * GroupIds + (m.groupId % GroupIds)) * SequenceIds
    + (m.sequenceId % SequenceIds)

(***************************************************************************)
(* Set-up: each side publishes its own slots and then resolves all nine.   *)
(***************************************************************************)
SlotKeys == {"dataConsumerSizes", "dataConsumerPayload", "dataConsumerCoordinationSizes",
             "dataConsumerCoordinationPayload", "dataProducerCoordinationSizes",
             "dataProducerCoordinationPayload", "metadataConsumerPayload",
             "metadataConsumerCoordination", "metadataProducerCoordination"}

InputSlots == {"dataConsumerCoordinationSizes", "dataConsumerCoordinationPayload",
               "dataConsumerSizes", "dataConsumerPayload",
               "metadataConsumerCoordination", "metadataConsumerPayload"}

(* An Output that forgets the slot of the metadata channel. *)
OutputSlotsDataOnly == {"dataProducerCoordinationSizes", "dataProducerCoordinationPayload"}

OutputSlots == {"dataProducerCoordinationSizes", "dataProducerCoordinationPayload",
                "metadataProducerCoordination"}

GetMemorySlotsToExchange(side) == IF side = "input" THEN InputSlots ELSE OutputSlots

Init ==
  /\ fnv1a \in HashFunctions
  /\ registry = [s \in Side |-> <<>>]
  /\ published = {}
  /\ ready = [s \in Side |-> FALSE]
  /\ lock = None
  /\ pc = [t \in Thread |-> "idle"]
  /\ sent = [t \in Thread |-> 0]
  /\ data = <<>>
  /\ head = 0 /\ tail = 0
  /\ bytes = [p \in 0..(BufferSize - 1) |-> None]
  /\ meta = <<>>
  /\ reader = "poll"
  /\ view = NoView
  /\ delivered = <<>>
  /\ bug = FALSE

Register(side) ==
  /\ \E n \in Range(Names) : RegisterType(side, n)
  /\ UNCHANGED <<fnv1a, published, ready, producers, channel, consumer, bug>>

(* The owner of a side exchanges the slots its constructor allocated. *)
Exchange(side) ==
  /\ Registered(side)
  /\ ~(GetMemorySlotsToExchange(side) \subseteq published)
  /\ published' = published \cup GetMemorySlotsToExchange(side)
  /\ UNCHANGED <<fnv1a, registry, ready, producers, channel, consumer, bug>>

(* initialize: the channels are created over slots whose counters the      *)
(* constructors have set to zero; nothing in them is reset here.           *)
Initialize(side) ==
  /\ SlotKeys \subseteq published
  /\ ~ready[side]
  /\ ready' = [ready EXCEPT ![side] = TRUE]
  /\ UNCHANGED <<fnv1a, registry, published, producers, channel, consumer, bug>>

(***************************************************************************)
(* Output                                                                  *)
(***************************************************************************)
(* The depth of the payload channel in bytes. *)
Bytes == head - tail

(* A channel that takes one message too many. *)
MetaFullLate == Len(meta) > BufferCapacity

MetaFull == Len(meta) = BufferCapacity

(* A check of the message count that forgets the bytes. *)
DataFullCountOnly(size) == Len(data) = BufferCapacity

(* The variable-size channel is full in messages or in bytes. *)
DataFull(size) == Len(data) = BufferCapacity \/ Bytes + size > BufferSize

NextSize(t) == Sizes[t][sent[t] + 1]

(* A push that does not wait for the mutex. *)
LockOutputIgnored(t) ==
  /\ ready["output"]
  /\ pc[t] = "idle"
  /\ sent[t] < Len(Sizes[t])
  /\ lock' = t
  /\ pc' = [pc EXCEPT ![t] = "isFull"]
  /\ UNCHANGED <<setup, sent, channel, consumer, bug>>

(* The mutex is taken for one attempt. *)
LockOutput(t) ==
  /\ ready["output"]
  /\ pc[t] = "idle"
  /\ sent[t] < Len(Sizes[t])
  /\ lock = None
  /\ lock' = t
  /\ pc' = [pc EXCEPT ![t] = "isFull"]
  /\ UNCHANGED <<setup, sent, channel, consumer, bug>>

(* isFull reads the depth of the metadata channel, then of the data one. *)
IsFullMeta(t) ==
  /\ pc[t] = "isFull"
  /\ pc' = [pc EXCEPT ![t] = IF MetaFull THEN "unlock" ELSE "isFullData"]
  /\ UNCHANGED <<setup, lock, sent, channel, consumer, bug>>

IsFullData(t) ==
  /\ pc[t] = "isFullData"
  /\ pc' = [pc EXCEPT ![t] = IF DataFull(NextSize(t)) THEN "unlock" ELSE "push"]
  /\ UNCHANGED <<setup, lock, sent, channel, consumer, bug>>

(* Full: unlock, sleep, try again. *)
Unlock(t) ==
  /\ pc[t] = "unlock"
  /\ pc' = [pc EXCEPT ![t] = "idle"]
  /\ lock' = IF lock = t THEN None ELSE lock
  /\ UNCHANGED <<setup, sent, channel, consumer, bug>>

Span(p, n) == {(p + k) % BufferSize : k \in 0..(n - 1)}

(* pushMessage asks isFull again, throws if so, and writes the payload. *)
PushData(t) ==
  /\ pc[t] = "push"
  /\ IF MetaFull \/ DataFull(NextSize(t))
     THEN /\ bug' = TRUE
          /\ pc' = [pc EXCEPT ![t] = "unlock"]
          /\ UNCHANGED <<data, head, bytes>>
     ELSE /\ pc' = [pc EXCEPT ![t] = "pushMeta"]
          /\ data' = Append(data, [pos |-> head, size |-> NextSize(t)])
          /\ head' = head + NextSize(t)
          /\ bytes' = [p \in DOMAIN bytes |->
                IF p \in Span(head, NextSize(t)) THEN <<t, sent[t] + 1>> ELSE bytes[p]]
          /\ UNCHANGED bug
  /\ UNCHANGED <<setup, lock, sent, tail, meta, consumer>>

PushMeta(t) ==
  /\ pc[t] = "pushMeta"
  /\ meta' = Append(meta, Metadata(t, sent[t] + 1))
  /\ sent' = [sent EXCEPT ![t] = @ + 1]
  /\ pc' = [pc EXCEPT ![t] = "unlock"]
  /\ UNCHANGED <<setup, lock, data, head, tail, bytes, consumer, bug>>

(***************************************************************************)
(* Input: poll with hasMessage, look with getMessage, handle, popMessage.  *)
(***************************************************************************)
HasMessage == meta # <<>> /\ data # <<>>

(* getMessage returns a pointer into the payload buffer, not a copy. *)
GetMessage ==
  /\ ready["input"]
  /\ reader = "poll"
  /\ HasMessage
  /\ view' = [pos |-> Head(data).pos, size |-> Head(data).size, metadata |-> Head(meta)]
  /\ reader' = "handle"
  /\ UNCHANGED <<setup, producers, channel, delivered, bug>>

(* The subscription's handler reads the payload through that pointer. *)
Handle ==
  /\ reader = "handle"
  /\ delivered' = Append(delivered,
       [payload |-> {bytes[p] : p \in Span(view.pos, view.size)},
        size |-> view.size, metadata |-> view.metadata,
        name |-> TypeToName("input", view.metadata.type)])
  /\ reader' = "pop"
  /\ UNCHANGED <<setup, producers, channel, view, bug>>

PopData ==
  /\ reader = "pop"
  /\ IF HasMessage
     THEN /\ data' = Tail(data) /\ tail' = tail + Head(data).size
          /\ reader' = "popMeta" /\ UNCHANGED bug
     ELSE bug' = TRUE /\ reader' = "poll" /\ UNCHANGED <<data, tail>>
  /\ UNCHANGED <<setup, producers, head, bytes, meta, view, delivered>>

(* A popMessage that leaves the metadata behind. *)
PopMetaForgotten ==
  /\ reader = "popMeta"
  /\ view' = NoView
  /\ reader' = "poll"
  /\ UNCHANGED <<setup, producers, channel, delivered, bug>>

PopMeta ==
  /\ reader = "popMeta"
  /\ meta' = Tail(meta)
  /\ view' = NoView
  /\ reader' = "poll"
  /\ UNCHANGED <<setup, producers, data, head, tail, bytes, delivered, bug>>

Push(t) == IsFullMeta(t) \/ IsFullData(t) \/ Unlock(t) \/ PushData(t) \/ PushMeta(t)

Consume == GetMessage \/ Handle \/ PopData \/ PopMeta

SetUp(side) == Register(side) \/ Exchange(side) \/ Initialize(side)

Next ==
  \/ \E s \in Side : SetUp(s)
  \/ \E t \in Thread : LockOutput(t) \/ Push(t)
  \/ Consume

(* A free mutex goes to some thread that wants it, not to any one in       *)
(* particular; a thread that has it, the reader and the set-up go on.      *)
Fairness ==
  /\ \A s \in Side : WF_vars(SetUp(s))
  /\ WF_vars(\E t \in Thread : LockOutput(t))
  /\ \A t \in Thread : WF_vars(Push(t))
  /\ WF_vars(Consume)

Spec == Init /\ [][Next]_vars /\ Fairness

-----------------------------------------------------------------------------
(* No double check of Input or Output ever finds what the first did not:   *)
(* the exceptions of pushMessage and popMessage are unreachable.           *)
NoBug == ~bug

(* What a handler reads is one message: all its bytes, its own size, the   *)
(* metadata of the same message, and the type name its sender used.        *)
DeliveredIntact ==
  \A k \in DOMAIN delivered :
     \E t \in Thread : \E j \in DOMAIN Sizes[t] :
        /\ delivered[k].payload = {<<t, j>>}
        /\ delivered[k].size = Sizes[t][j]
        /\ delivered[k].metadata.sequenceId = j - 1
        /\ delivered[k].name = {Names[t]}

(* A thread's messages arrive in the order it sent them, and none twice:   *)
(* the k-th delivered message of a type has sequence number k - 1.         *)
DeliveredInOrder ==
  \A k \in DOMAIN delivered :
     delivered[k].metadata.sequenceId =
       Cardinality({j \in 1..(k - 1) :
          delivered[j].metadata.type = delivered[k].metadata.type})

(* The 64-bit id tells delivered messages apart. *)
IdsDistinct ==
  \A j, k \in DOMAIN delivered :
     GetId(delivered[j].metadata) = GetId(delivered[k].metadata) => j = k

(* A payload that is queued, or that the reader still looks at, is not     *)
(* overwritten.                                                            *)
PayloadsKept ==
  \A k \in DOMAIN data :
     Cardinality({bytes[p] : p \in Span(data[k].pos, data[k].size)}) = 1

TypeOK ==
  /\ published \subseteq SlotKeys
  /\ ready \in [Side -> BOOLEAN]
  /\ lock \in Thread \cup {None}
  /\ pc \in [Thread -> {"idle", "isFull", "isFullData", "unlock", "push", "pushMeta"}]
  /\ \A t \in Thread : sent[t] \in 0..Len(Sizes[t])
  /\ Len(data) <= BufferCapacity /\ Len(meta) <= BufferCapacity
  /\ Bytes \in 0..BufferSize
  /\ reader \in {"poll", "handle", "pop", "popMeta"}

\* Threads that push to one Output while an Input pops: room and messages that
\* were checked for are there, and a message arrives once, in its thread's
\* order, as the payload, type and id it was sent with, and stays so for as
\* long as it is looked at.
MessagesIntact ==
  /\ TypeOK
  /\ NoBug
  /\ DeliveredIntact
  /\ DeliveredInOrder
  /\ IdsDistinct
  /\ PayloadsKept

(* Everything that is sent is delivered, whatever was pushed before the    *)
(* consumer was initialised and however often the channel was full;        *)
(* unless two type names collide, which registration refuses.              *)
AllDelivered ==
  IsInjective(fnv1a) => <>(Len(delivered) = SumFunction([t \in Thread |-> Len(Sizes[t])]))

-----------------------------------------------------------------------------
(***************************************************************************)
(* The inductive invariant behind MessagesIntact.                          *)
(***************************************************************************)
MetadataSet == [type : Nat, groupId : Nat, sequenceId : Nat]

(* The metadata of message k of thread t, as the hash function gives it.   *)
MessageOf(t, k) ==
  [type |-> fnv1a[Names[t]], groupId |-> (k - 1) % GroupIds, sequenceId |-> k - 1]

EdgeTypeOK ==
  /\ TypeOK
  /\ fnv1a \in Hashes /\ DOMAIN registry = Side
  /\ sent \in [Thread -> Nat]
  /\ data \in Seq([pos : Nat, size : 1..BufferSize]) /\ meta \in Seq(MetadataSet)
  /\ head \in Nat /\ tail \in Nat
  /\ DOMAIN bytes = 0..(BufferSize - 1) /\ bytes = [p \in 0..(BufferSize - 1) |-> bytes[p]]
  /\ delivered \in Seq([payload : SUBSET (Thread \X Nat), size : Nat,
                        metadata : MetadataSet, name : SUBSET Range(Names)])

(* A registry holds hashes of names, each for one name; the slots of a     *)
(* side are exchanged once its names are registered.                       *)
SetUpInv ==
  /\ \A s \in Side :
       /\ DOMAIN registry[s] \subseteq Range(Names)
       /\ registry[s] = [n \in DOMAIN registry[s] |-> fnv1a[n]]
       /\ \A m, n \in DOMAIN registry[s] : fnv1a[m] = fnv1a[n] => m = n
       /\ (GetMemorySlotsToExchange(s) \cap published # {} => Registered(s))
       /\ ready[s] => SlotKeys \subseteq published
  /\ (\E t \in Thread : pc[t] # "idle" \/ sent[t] # 0) => SlotKeys \subseteq published
  /\ reader # "poll" => SlotKeys \subseteq published

(* The thread past the mutex owns it, and the room it found stays.         *)
ProducerInv ==
  \A t \in Thread :
    /\ pc[t] # "idle" => lock = t
    /\ pc[t] \in {"isFull", "isFullData", "push", "pushMeta"} => sent[t] < Len(Sizes[t])
    /\ pc[t] \in {"isFullData", "push", "pushMeta"} => ~MetaFull
    /\ pc[t] = "push" => ~DataFull(NextSize(t))

(* The reader looks at the first message until it has popped it.           *)
ReaderInv ==
  /\ reader \in {"handle", "pop"} => data # <<>> /\ meta # <<>>
  /\ reader = "handle" =>
       view = [pos |-> data[1].pos, size |-> data[1].size, metadata |-> meta[1]]
  /\ reader = "popMeta" => meta # <<>>

(* Payloads lie one behind the other between the two counters.             *)
End(k) == data[k].pos + data[k].size

RingInv ==
  /\ head - tail \in 0..BufferSize
  /\ data = <<>> => head = tail
  /\ data # <<>> => data[1].pos = tail /\ End(Len(data)) = head
  /\ \A k \in DOMAIN data : tail <= data[k].pos /\ End(k) <= head
  /\ \A k \in DOMAIN data : k # Len(data) => data[k + 1].pos = End(k)
  /\ \A j, k \in DOMAIN data : j < k => End(j) <= data[k].pos

(* Metadata and payload channel hold the same messages, but for the one    *)
(* whose metadata is still to be popped and the one whose is to be pushed. *)
Popped == IF reader = "popMeta" THEN 1 ELSE 0
Pushing == IF \E t \in Thread : pc[t] = "pushMeta" THEN 1 ELSE 0

(* A token of the payload channel holds message j of thread t.             *)
Occupies(token, ring, t, j) ==
  /\ token.size = Sizes[t][j]
  /\ \A q \in token.pos..(token.pos + token.size - 1) : ring[q % BufferSize] = <<t, j>>

QueueInv ==
  /\ Len(meta) + Pushing = Len(data) + Popped
  /\ \A k \in DOMAIN data : \E t \in Thread : \E j \in DOMAIN Sizes[t] :
       /\ Occupies(data[k], bytes, t, j)
       /\ IF k + Popped \in DOMAIN meta THEN meta[k + Popped] = MessageOf(t, j)
          ELSE pc[t] = "pushMeta" /\ j = sent[t] + 1

(* The log of all messages sent: what was delivered, then what is queued.  *)
Handled == IF reader \in {"pop", "popMeta"} THEN 1 ELSE 0
LogLen == Len(delivered) + Len(meta) - Handled
Log == [k \in 1..LogLen |-> IF k <= Len(delivered) THEN delivered[k].metadata
                            ELSE meta[k - Len(delivered) + Handled]]

LogInv ==
  /\ \A k \in 1..LogLen : \E t \in Thread : \E j \in 1..sent[t] : Log[k] = MessageOf(t, j)
  /\ \A t \in Thread : \A j \in 1..sent[t] : \E k \in 1..LogLen : Log[k] = MessageOf(t, j)
  /\ \A k, l \in 1..LogLen :
       k < l /\ Log[k].type = Log[l].type => Log[k].sequenceId < Log[l].sequenceId

EdgeInv ==
  /\ EdgeTypeOK /\ SetUpInv /\ ProducerInv /\ ReaderInv /\ RingInv /\ QueueInv /\ LogInv
  /\ DeliveredIntact /\ NoBug
=============================================================================
