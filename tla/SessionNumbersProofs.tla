------------------------- MODULE SessionNumbersProofs -------------------------
(***************************************************************************)
(* The numbers of what a Session sends: the sequence on each flow, the     *)
(* health reports in its queue, and the identities of its envelopes,       *)
(* wherever those are.                                                     *)
(***************************************************************************)
EXTENDS PluginSessionProofs

\* A flow is numbered through, and its own count and its ring's follow what it has taken.
Counted(flow) ==
  /\ flow.next = Len(flow.sent)
  /\ \A i \in DOMAIN flow.sent :
       IF flow.conn = "ring" THEN flow.sent[i].seq + Len(flow.sent) = flow.published + i
                             ELSE flow.sent[i].seq = i

CountedFlows == \A k \in DOMAIN flows : Counted(flows[k])

\* What is numbered is a number, and on a transport that is no ring not the ring's.
LEMMA NumberedType ==
  ASSUME sealed \in Nat, NEW flow \in Flow
  PROVE  Numbered(flow) \in [seq : Nat, id : Nat] /\ Numbered(flow).seq = Sequence(flow)
<1>1. Sequence(flow) \in Nat
  BY DEF Sequence, Flow
<1>2. (IF flow.conn = "ordered" THEN sealed + 1 ELSE 0) \in Nat
  OBVIOUS
<1>. HIDE DEF Sequence
<1>. QED  BY <1>1, <1>2 DEF Numbered

LEMMA Elements == ASSUME NEW S, NEW s \in Seq(S), NEW i \in DOMAIN s PROVE s[i] \in S
OBVIOUS

\* A write keeps a flow numbered through, the transport having taken it or not.
LEMMA WroteCounted ==
  ASSUME NEW flow \in Flow, Counted(flow), NEW taken \in BOOLEAN, sealed \in Nat
  PROVE  Counted(Wrote(flow, taken))
<1>. DEFINE entry == Numbered(flow)
            after == Wrote(flow, taken)
            sent  == Append(flow.sent, entry)
<1>1. entry \in [seq : Nat, id : Nat] /\ entry.seq = Sequence(flow)
  BY NumberedType
<1>2. CASE ~taken
  BY <1>2 DEF Wrote
<1>3. CASE taken
  <2>1. /\ after.conn = flow.conn /\ after.next = flow.next + 1 /\ after.sent = sent
        /\ after.published = IF flow.conn = "ring" THEN flow.published + 1 ELSE flow.published
    BY <1>3 DEF Wrote, Carrying
  <2>2. flow.sent \in Seq([seq : Nat, id : Nat]) /\ flow.published \in Nat /\ flow.next \in Nat
    BY DEF Flow
  <2>6. ASSUME NEW i \in DOMAIN flow.sent PROVE flow.sent[i].seq \in Nat
    <3>1. flow.sent[i] \in [seq : Nat, id : Nat]
      BY <2>2, <2>6, Elements
    <3>. QED  BY <3>1
  <2>. HIDE DEF entry, after
  <2>3. /\ Len(sent) = Len(flow.sent) + 1
        /\ \A i \in DOMAIN sent : \/ i \in DOMAIN flow.sent /\ sent[i] = flow.sent[i]
                                  \/ i = Len(flow.sent) + 1 /\ sent[i] = entry
        /\ DOMAIN sent = 1..(Len(flow.sent) + 1) /\ Len(flow.sent) \in Nat
    BY <1>1, <2>2
  <2>. HIDE DEF sent
  <2>4. CASE flow.conn = "ring"
    <3>1. entry.seq = flow.published + 1 /\ after.published = flow.published + 1
      BY <1>1, <2>1, <2>4 DEF Sequence
    <3>2. ASSUME NEW i \in DOMAIN sent PROVE sent[i].seq + Len(sent) = after.published + i
      <4>1. CASE i \in DOMAIN flow.sent /\ sent[i] = flow.sent[i]
        <5>1. flow.sent[i].seq + Len(flow.sent) = flow.published + i
          BY <2>4, <4>1 DEF Counted
        <5>2. flow.sent[i].seq \in Nat /\ i \in Nat
          BY <2>3, <2>6, <4>1
        <5>. DEFINE x == flow.sent[i].seq
                    len == Len(flow.sent)
                    count == flow.published
        <5>3. x \in Nat /\ len \in Nat /\ count \in Nat /\ i \in Nat /\ x + len = count + i
          BY <2>2, <2>3, <5>1, <5>2
        <5>4. x + (len + 1) = (count + 1) + i
          <6>. HIDE DEF x, len, count
          <6>. QED  BY <5>3
        <5>. QED  BY <2>3, <3>1, <4>1, <5>4
      <4>2. CASE i = Len(flow.sent) + 1 /\ sent[i] = entry
        BY <2>2, <2>3, <3>1, <4>2
      <4>. QED  BY <2>3, <4>1, <4>2
    <3>3. Counted(after)
      BY <2>1, <2>3, <2>4, <3>2 DEF Counted
    <3>. QED  BY <3>3 DEF after
  <2>5. CASE flow.conn # "ring"
    <3>1. entry.seq = flow.next + 1
      BY <1>1, <2>5 DEF Sequence
    <3>2. ASSUME NEW i \in DOMAIN sent PROVE sent[i].seq = i
      BY <2>3, <2>5, <3>1 DEF Counted
    <3>3. Counted(after)
      BY <2>1, <2>3, <2>5, <3>2 DEF Counted
    <3>. QED  BY <3>3 DEF after
  <2>. QED  BY <2>4, <2>5
<1>. QED  BY <1>2, <1>3

\* What a flow carries is numbered without a gap, from 1 or, on a ring, from where the
\* ring stood: the number is claimed under the flow's mutex, and only a write that is
\* taken claims it.
THEOREM FlowsContiguous == Safety => []Contiguous
<1>1. Init => CountedFlows
  BY DEF Init, CountedFlows
<1>2. TypeOK /\ CountedFlows /\ [Next]_vars => CountedFlows'
  <2>. SUFFICES ASSUME TypeOK, CountedFlows, [Next]_vars PROVE CountedFlows'
    OBVIOUS
  <2>1. ASSUME UNCHANGED flows PROVE CountedFlows'
    BY <2>1 DEF CountedFlows, Counted
  <2>2. flows \in Seq(Flow) /\ sealed \in Nat
    BY DEF TypeOK, QueueType
  <2>3. ASSUME NEW a \in Authors, EmitWrite(a) PROVE CountedFlows'
    <3>1. PICK taken \in BOOLEAN : flows' = [flows EXCEPT ![held[a]] = Wrote(@, taken)]
      BY <2>3 DEF EmitWrite
    <3>2. ASSUME NEW k \in DOMAIN flows PROVE Counted(Wrote(flows[k], taken))
      BY <2>2, WroteCounted DEF CountedFlows
    <3>3. ASSUME NEW k \in DOMAIN flows' PROVE Counted(flows'[k])
      <4>1. k \in DOMAIN flows /\ flows'[k] \in {flows[k], Wrote(flows[k], taken)}
        BY <2>2, <3>1
      <4>. QED  BY <3>2, <4>1 DEF CountedFlows
    <3>. QED  BY <3>3 DEF CountedFlows, Counted
  <2>4. ASSUME NEW s \in Streams, NEW conn \in Transports, Activate(s, conn)
        PROVE  CountedFlows'
    <3>2. PICK count \in IF conn = "ring" THEN RingCounts ELSE {0} :
             flows' = Append(flows, Opened(s, conn, count))
      BY <2>4 DEF Activate
    <3>. DEFINE new == Opened(s, conn, count)
    <3>1. Counted(new) /\ flows' = Append(flows, new)
      BY <3>2 DEF Counted, Opened
    <3>. HIDE DEF new
    <3>3. ASSUME NEW k \in DOMAIN flows' PROVE Counted(flows'[k])
      <4>1. flows'[k] = new \/ (k \in DOMAIN flows /\ flows'[k] = flows[k])
        BY <2>2, <3>1
      <4>. QED  BY <3>1, <4>1 DEF CountedFlows
    <3>. QED  BY <3>3 DEF CountedFlows, Counted
  <2>5. ASSUME NEW a \in Authors, Author(a), ~EmitWrite(a) PROVE CountedFlows'
    BY <2>1, <2>5 DEF Author, Say, HealthBegins, Health, AuthorDeliver, CloseMark,
      CloseDeliver, CloseSilence, EmitTake
  <2>6. CASE BeatTask \/ ReceiveTask \/ TimerFires
    BY <2>1, <2>6 DEF BeatTask, BeatSilent, BeatSeal, BeatDeliver, ReceiveTask, Answer, Tell,
      StreamFinish, TimerFires
  <2>7. CASE OpenAnswered \/ OpenFails \/ Revoked \/ StreamEnds \/ Instruct \/ LinkDrops
    BY <2>1, <2>7 DEF OpenAnswered, OpenFails, Revoked, StreamEnds, Instruct, LinkDrops
  <2>8. ASSUME NEW s \in Streams, ActivateFails(s) \/ Stop(s) PROVE CountedFlows'
    BY <2>1, <2>8 DEF ActivateFails, Stop
  <2>9. CASE UNCHANGED vars
    BY <2>1, <2>9 DEF vars
  <2>. QED  BY <2>3, <2>4, <2>5, <2>6, <2>7, <2>8, <2>9 DEF Next, Core
<1>3. CountedFlows => Contiguous
  BY DEF CountedFlows, Counted, Contiguous
<1>. QED  BY <1>1, <1>2, <1>3, TypeCorrect, PTL DEF Safety

-------------------------------------------------------------------------------
\* What the report's mutex is for: a report that is sealed is the last one made, and
\* whoever has sealed it holds the mutex until it is queued.
Sealed(t) == pending[t].kind = "health" => healthLock = t /\ pending[t].of = health

ReportsInv ==
  /\ NeverOlder
  /\ \A i \in DOMAIN wire : wire[i].kind = "health" => wire[i].of \in 0..health
  /\ \A t \in Threads : Sealed(t)

\* A thread that seals something else disturbs no report.
LEMMA SealOther ==
  ASSUME TypeOK, ReportsInv, NEW t \in Threads, NEW kind \in Kinds \ {"health"}, NEW of,
         Seal(t, kind, of), UNCHANGED <<wire, health, healthLock>>
  PROVE  ReportsInv'
BY DEF TypeOK, ThreadType, ReportsInv, NeverOlder, Sealed, Seal

\* A report is sealed with the mutex that was free, and is the newest.
LEMMA SealReport ==
  ASSUME TypeOK, ReportsInv, NEW t \in Threads, healthLock = Nobody, healthLock' = t,
         health' \in {health, health + 1}, Seal(t, "health", health'), UNCHANGED wire
  PROVE  ReportsInv'
<1>1. \A u \in Threads : pending[u].kind # "health"
  BY ThreadsAssumption DEF ReportsInv, Sealed
<1>2. \A u \in Threads : Sealed(u)'
  BY <1>1 DEF TypeOK, ThreadType, Sealed, Seal
<1>3. 0..health \subseteq 0..health'
  BY DEF TypeOK, QueueType
<1>. QED  BY <1>2, <1>3 DEF ReportsInv, NeverOlder

\* A delivery queues the newest report behind the others, or none; giving the mutex back
\* with it takes it from nobody else.
LEMMA DeliverReport ==
  ASSUME TypeOK, ReportsInv, NEW t \in Threads, pc[t] \in {"sending", "closing", "answering"},
         Deliver(t), UNCHANGED health, UNCHANGED healthLock \/ Release(t)
  PROVE  ReportsInv'
<1>1. \A u \in Threads : Sealed(u)'
  BY DEF TypeOK, ThreadType, ReportsInv, Sealed, Deliver, Release, NoEnvelope
<1>2. health \in Nat /\ wire \in Seq(Envelope) /\ pending[t] \in Envelope
  BY DEF TypeOK, QueueType, ThreadType, InHand
<1>3. CASE wire' = wire
  BY <1>1, <1>3 DEF ReportsInv, NeverOlder
<1>4. CASE wire' = Append(wire, pending[t])
  <2>1. pending[t].kind = "health" => pending[t].of = health
    BY DEF ReportsInv, Sealed
  <2>2. \A i \in DOMAIN wire' : wire'[i].kind = "health" => wire'[i].of \in 0..health
    BY <1>2, <1>4, <2>1 DEF ReportsInv
  <2>3. ASSUME NEW i \in DOMAIN wire', NEW j \in DOMAIN wire', i < j,
               wire'[i].kind = "health", wire'[j].kind = "health"
        PROVE  wire'[i].of <= wire'[j].of
    <3>1. CASE j \in DOMAIN wire
      <4>1. i \in DOMAIN wire /\ wire'[i] = wire[i] /\ wire'[j] = wire[j]
        BY <1>2, <1>4, <2>3, <3>1
      <4>. QED  BY <2>3, <3>1, <4>1 DEF ReportsInv, NeverOlder
    <3>2. CASE j \notin DOMAIN wire
      <4>1. wire'[j] = pending[t]
        BY <1>2, <1>4, <3>2
      <4>. QED  BY <1>2, <2>1, <2>2, <2>3, <4>1
    <3>. QED  BY <3>1, <3>2
  <2>. QED  BY <1>1, <2>2, <2>3 DEF ReportsInv, NeverOlder
<1>. QED  BY <1>3, <1>4 DEF Deliver

\* A beat never queues a report older than one the author has already sent: the mutex is
\* held from the copy of a report until it is queued.
THEOREM ReportsInOrder == Safety => []NeverOlder
<1>1. Init => ReportsInv
  BY DEF Init, ReportsInv, NeverOlder, Sealed, Opening, NoEnvelope
<1>2. TypeOK /\ ReportsInv /\ [Next]_vars => ReportsInv'
  <2>. SUFFICES ASSUME TypeOK, ReportsInv, [Next]_vars PROVE ReportsInv'
    OBVIOUS
  <2>. USE ThreadFacts
  <2>1. ASSUME UNCHANGED <<wire, pending, health, healthLock>> PROVE ReportsInv'
    BY <2>1 DEF ReportsInv, NeverOlder, Sealed
  <2>2. ASSUME NEW a \in Authors, Health(a) PROVE ReportsInv'
    BY <2>2, SealReport DEF Health, channels
  <2>3. CASE BeatSeal
    <3>1. Seal(Beat, "health", health')
      BY <2>3 DEF BeatSeal
    <3>. QED  BY <2>3, <3>1, SealReport DEF BeatSeal, KeepReport, Ticks, channels
  <2>4. ASSUME NEW a \in Authors, Say(a) \/ CloseMark(a) PROVE ReportsInv'
    BY <2>4, SealOther DEF Say, CloseMark, report, channels, Kinds
  <2>5. ASSUME NEW s \in Streams, NEW conn \in Transports, Activate(s, conn)
        PROVE  ReportsInv'
    BY <2>5, SealOther DEF Activate, report, channels, Kinds
  <2>6. ASSUME NEW s \in Streams, ActivateFails(s) \/ Stop(s) PROVE ReportsInv'
    BY <2>6, SealOther DEF ActivateFails, Stop, report, channels, Kinds
  <2>7. ASSUME NEW a \in Authors, AuthorDeliver(a) \/ CloseDeliver(a) PROVE ReportsInv'
    BY <2>7, DeliverReport DEF AuthorDeliver, CloseDeliver, report
  <2>8. CASE BeatDeliver \/ Answer
    BY <2>8, DeliverReport DEF BeatDeliver, Answer, report
  <2>9. ASSUME NEW a \in Authors,
               \/ HealthBegins(a) \/ CloseSilence(a) \/ EmitWrite(a)
               \/ \E s \in Streams : EmitTake(a, s)
        PROVE  ReportsInv'
    BY <2>1, <2>9 DEF HealthBegins, CloseSilence, EmitWrite, EmitTake, report, channels
  <2>10. CASE BeatSilent \/ Tell \/ StreamFinish \/ TimerFires
    BY <2>1, <2>10 DEF BeatSilent, Tell, StreamFinish, TimerFires, report, channels
  <2>11. CASE OpenAnswered \/ OpenFails \/ Revoked \/ StreamEnds \/ Instruct \/ LinkDrops
    BY <2>1, <2>11 DEF OpenAnswered, OpenFails, Revoked, StreamEnds, Instruct, LinkDrops,
      report, channels
  <2>12. CASE UNCHANGED vars
    BY <2>1, <2>12 DEF vars, report, channels
  <2>. QED
    BY <2>2, <2>3, <2>4, <2>5, <2>6, <2>7, <2>8, <2>9, <2>10, <2>11, <2>12
    DEF Next, Author, BeatTask, ReceiveTask, Core
<1>3. ReportsInv => NeverOlder
  BY DEF ReportsInv
<1>. QED  BY <1>1, <1>2, <1>3, TypeCorrect, PTL DEF Safety

-------------------------------------------------------------------------------
\* An identity is claimed once: by a thread that has yet to deliver it, or by an envelope
\* that stands somewhere.
IdsInv ==
  /\ UniqueIds
  /\ \A p \in Places : IdAt(p) <= sealed
  /\ \A t \in Threads : pending[t].id <= sealed
  /\ \A t \in Threads, p \in Places : pending[t].id # 0 => IdAt(p) # pending[t].id
  /\ \A t, u \in Threads : pending[t].id # 0 /\ pending[t].id = pending[u].id => t = u

\* Where an envelope stands: in the queue, or on a flow.
LEMMA PlacesAre ==
  /\ \A i \in DOMAIN wire : <<0, i>> \in Places
  /\ \A k \in DOMAIN flows : \A i \in DOMAIN flows[k].sent : <<k, i>> \in Places
  /\ \A p \in Places :
       \/ \E i \in DOMAIN wire : p = <<0, i>>
       \/ \E k \in DOMAIN flows : \E i \in DOMAIN flows[k].sent : p = <<k, i>>
BY DEF Places

\* The same after a step.
LEMMA PlacesAreNext ==
  \A p \in Places' :
    \/ \E i \in DOMAIN wire' : p = <<0, i>>
    \/ \E k \in DOMAIN flows' : \E i \in DOMAIN flows'[k].sent : p = <<k, i>>
BY DEF Places

\* What a place holds, it holds where neither the queue nor its flow has lost it.
LEMMA IdThere ==
  ASSUME TypeOK, flows' \in Seq(Flow)
  PROVE  /\ \A i : IdAt(<<0, i>>) = wire[i].id /\ IdAt(<<0, i>>)' = wire'[i].id
         /\ \A k \in DOMAIN flows : \A i : IdAt(<<k, i>>) = flows[k].sent[i].id
         /\ \A k \in DOMAIN flows' : \A i : IdAt(<<k, i>>)' = flows'[k].sent[i].id
<1>1. /\ \A k \in DOMAIN flows : k # 0
      /\ \A k \in DOMAIN flows' : k # 0
  BY DEF TypeOK, QueueType
<1>. QED  BY <1>1 DEF IdAt

\* One place more, with an identity that stood nowhere, leaves the identities unique.
LEMMA OnePlaceMore ==
  ASSUME UniqueIds, NEW fresh, NEW new,
         fresh = 0 \/ \A p \in Places : IdAt(p) # fresh,
         \A p \in Places' : \/ p \in Places /\ IdAt(p)' = IdAt(p)
                            \/ p = new /\ IdAt(p)' = fresh
  PROVE  UniqueIds'
BY DEF UniqueIds

\* A delivery puts what the thread held in one place, and nowhere else.
LEMMA DeliverIds ==
  ASSUME TypeOK, IdsInv, NEW t \in Threads, pc[t] \in {"sending", "closing", "answering"},
         Deliver(t), UNCHANGED <<sealed, flows>>
  PROVE  IdsInv'
<1>. DEFINE new == <<0, Len(wire) + 1>>
            fresh == pending[t].id
<1>1. /\ flows \in Seq(Flow) /\ flows' \in Seq(Flow) /\ wire \in Seq(Envelope)
      /\ pending[t] \in Envelope /\ sealed \in Nat /\ fresh \in Nat
  BY DEF TypeOK, QueueType, ThreadType, InHand, Envelope
<1>2. \A p \in Places' : \/ p \in Places /\ IdAt(p)' = IdAt(p)
                         \/ p = new /\ IdAt(p)' = fresh
  <2>1. ASSUME NEW i \in DOMAIN wire'
        PROVE  \/ i \in DOMAIN wire /\ wire'[i] = wire[i]
               \/ i = Len(wire) + 1 /\ wire'[i] = pending[t]
    BY <1>1 DEF Deliver
  <2>2. ASSUME NEW p \in Places', NEW i \in DOMAIN wire', p = <<0, i>>
        PROVE  \/ p \in Places /\ IdAt(p)' = IdAt(p)
               \/ p = new /\ IdAt(p)' = fresh
    BY <1>1, <2>1, <2>2, PlacesAre, IdThere
  <2>3. ASSUME NEW p \in Places', NEW k \in DOMAIN flows', NEW i \in DOMAIN flows'[k].sent,
               p = <<k, i>>
        PROVE  p \in Places /\ IdAt(p)' = IdAt(p)
    BY <1>1, <2>3, PlacesAre, IdThere
  <2>. QED  BY <2>2, <2>3, PlacesAreNext
<1>3. /\ \A u \in Threads \ {t} : pending'[u] = pending[u]
      /\ pending'[t].id = 0
  BY DEF TypeOK, ThreadType, Deliver, NoEnvelope
<1>4. fresh = 0 \/ \A p \in Places : IdAt(p) # fresh
  BY DEF IdsInv
<1>. HIDE DEF new, fresh
<1>5. UniqueIds'
  BY <1>2, <1>4, OnePlaceMore DEF IdsInv
<1>6. /\ fresh <= sealed
      /\ \A u \in Threads \ {t} : pending[u].id # 0 => pending[u].id # fresh
  BY DEF fresh, IdsInv
<1>7. \A p \in Places' : IdAt(p)' <= sealed
  BY <1>2, <1>6 DEF IdsInv
<1>8. \A u \in Threads : pending'[u].id <= sealed
  BY <1>1, <1>3 DEF IdsInv
<1>9. \A u \in Threads, p \in Places' : pending'[u].id # 0 => IdAt(p)' # pending'[u].id
  BY <1>2, <1>3, <1>6 DEF IdsInv
<1>10. \A u, v \in Threads : pending'[u].id # 0 /\ pending'[u].id = pending'[v].id => u = v
  BY <1>3 DEF IdsInv
<1>. QED  BY <1>5, <1>7, <1>8, <1>9, <1>10 DEF IdsInv

\* Sealing claims an identity above every one claimed; the places keep theirs.
LEMMA SealIds ==
  ASSUME TypeOK, IdsInv, NEW t \in Threads, NEW kind, NEW of, Seal(t, kind, of),
         \A p \in Places' : p \in Places /\ IdAt(p)' = IdAt(p),
         \A p \in Places : IdAt(p) \in Nat
  PROVE  IdsInv'
<1>1. /\ \A u \in Threads \ {t} : pending'[u] = pending[u]
      /\ pending'[t].id = sealed + 1 /\ sealed' = sealed + 1 /\ sealed \in Nat
      /\ \A u \in Threads : pending[u].id \in Nat
  BY DEF TypeOK, ThreadType, QueueType, Seal, Envelope, NoEnvelope
<1>2. UniqueIds'
  BY DEF UniqueIds, IdsInv
<1>3. \A p \in Places' : IdAt(p)' <= sealed'
  BY <1>1 DEF IdsInv
<1>4. \A u \in Threads : pending'[u].id <= sealed'
  BY <1>1 DEF IdsInv
<1>5. \A u \in Threads, p \in Places' : pending'[u].id # 0 => IdAt(p)' # pending'[u].id
  BY <1>1 DEF IdsInv
<1>6. \A u, v \in Threads : pending'[u].id # 0 /\ pending'[u].id = pending'[v].id => u = v
  BY <1>1 DEF IdsInv
<1>. QED  BY <1>2, <1>3, <1>4, <1>5, <1>6 DEF IdsInv

\* A step that leaves the queue and what the flows carry leaves the places theirs.
LEMMA PlacesKept ==
  ASSUME TypeOK, wire' = wire, flows' \in Seq(Flow),
         \A k \in DOMAIN flows' :
           \/ k \in DOMAIN flows /\ flows'[k] = flows[k]
           \/ flows'[k].sent = <<>>
  PROVE  \A p \in Places' : p \in Places /\ IdAt(p)' = IdAt(p)
<1>1. ASSUME NEW p \in Places', NEW i \in DOMAIN wire', p = <<0, i>>
      PROVE  p \in Places /\ IdAt(p)' = IdAt(p)
  BY <1>1, PlacesAre, IdThere
<1>2. ASSUME NEW p \in Places', NEW k \in DOMAIN flows', NEW i \in DOMAIN flows'[k].sent,
             p = <<k, i>>
      PROVE  p \in Places /\ IdAt(p)' = IdAt(p)
  BY <1>2, PlacesAre, IdThere
<1>. QED  BY <1>1, <1>2, PlacesAreNext

\* An identity is a number.
LEMMA IdsAreNumbers ==
  ASSUME TypeOK
  PROVE  \A p \in Places : IdAt(p) \in Nat
<1>1. wire \in Seq(Envelope) /\ flows \in Seq(Flow)
  BY DEF TypeOK, QueueType
<1>2. ASSUME NEW i \in DOMAIN wire PROVE IdAt(<<0, i>>) \in Nat
  <2>1. wire[i] \in Envelope
    BY <1>1
  <2>. QED  BY <2>1 DEF IdAt, Envelope
<1>3. ASSUME NEW k \in DOMAIN flows, NEW i \in DOMAIN flows[k].sent
      PROVE  IdAt(<<k, i>>) \in Nat
  <2>. DEFINE sent  == flows[k].sent
              Entry == [seq : Nat, id : Nat]
  <2>1. k # 0 /\ flows[k] \in Flow
    BY <1>1
  <2>2. sent \in Seq(Entry)
    BY <2>1 DEF Flow
  <2>3. sent[i] \in Entry
    <3>1. i \in DOMAIN sent
      OBVIOUS
    <3>. HIDE DEF sent, Entry
    <3>. QED  BY <2>2, <3>1
  <2>. QED  BY <2>1, <2>3 DEF IdAt
<1>. QED  BY <1>2, <1>3, PlacesAre

\* A write on the ordered transport claims the identity it carries, on another none.
LEMMA EmitIds ==
  ASSUME TypeOK, IdsInv, NEW a \in Authors, EmitWrite(a), flows' \in Seq(Flow)
  PROVE  IdsInv'
<1>. DEFINE k == held[a]
            flow == flows[k]
            new == <<k, Len(flow.sent) + 1>>
            fresh == IF flow.conn = "ordered" THEN sealed + 1 ELSE 0
<1>1. /\ k \in DOMAIN flows /\ flows \in Seq(Flow) /\ flow \in Flow /\ sealed \in Nat
      /\ wire' = wire /\ UNCHANGED pending
      /\ sealed' = IF flow.conn = "ordered" THEN sealed + 1 ELSE sealed
  BY DEF TypeOK, QueueType, ThreadType, InHand, EmitWrite, channels
<1>2. PICK taken \in BOOLEAN : flows' = [flows EXCEPT ![k] = Wrote(flow, taken)]
  BY DEF EmitWrite
<1>3. ASSUME NEW i \in DOMAIN Wrote(flow, taken).sent
      PROVE  \/ i \in DOMAIN flow.sent /\ Wrote(flow, taken).sent[i] = flow.sent[i]
             \/ i = Len(flow.sent) + 1 /\ Wrote(flow, taken).sent[i].id = fresh
  <2>1. Numbered(flow).id = fresh
    BY DEF Numbered
  <2>2. flow.sent \in Seq([seq : Nat, id : Nat])
    BY <1>1 DEF Flow
  <2>3. CASE ~taken
    BY <2>3 DEF Wrote
  <2>4. CASE taken
    <3>1. Wrote(flow, taken).sent = Append(flow.sent, Numbered(flow))
      BY <2>4 DEF Wrote, Carrying
    <3>2. Numbered(flow) \in [seq : Nat, id : Nat]
      BY <1>1, NumberedType
    <3>. HIDE DEF flow, fresh
    <3>. QED  BY <1>3, <2>1, <2>2, <3>1, <3>2
  <2>. QED  BY <2>3, <2>4
<1>4. \A p \in Places' : \/ p \in Places /\ IdAt(p)' = IdAt(p)
                         \/ p = new /\ IdAt(p)' = fresh
  <2>. HIDE DEF flow, fresh
  <2>1. ASSUME NEW p \in Places', NEW i \in DOMAIN wire', p = <<0, i>>
        PROVE  p \in Places /\ IdAt(p)' = IdAt(p)
    BY <1>1, <2>1, PlacesAre, IdThere
  <2>2. ASSUME NEW p \in Places', NEW j \in DOMAIN flows', NEW i \in DOMAIN flows'[j].sent,
               p = <<j, i>>
        PROVE  \/ p \in Places /\ IdAt(p)' = IdAt(p)
               \/ p = new /\ IdAt(p)' = fresh
    <3>1. j \in DOMAIN flows /\ flows'[j] = IF j = k THEN Wrote(flow, taken) ELSE flows[j]
      BY <1>1, <1>2, <2>2
    <3>2. CASE j # k
      BY <2>2, <3>1, <3>2, PlacesAre, IdThere
    <3>3. CASE j = k
      BY <1>3, <2>2, <3>1, <3>3, PlacesAre, IdThere DEF flow
    <3>. QED  BY <3>2, <3>3
  <2>. QED  BY <2>1, <2>2, PlacesAreNext
<1>5. \A p \in Places : IdAt(p) \in Nat
  BY IdsAreNumbers
<1>6. /\ fresh \in Nat /\ sealed' >= sealed
      /\ fresh = 0 \/ (fresh = sealed + 1 /\ sealed' = sealed + 1)
  BY <1>1
<1>7. \A u \in Threads : pending[u].id \in Nat
  BY DEF TypeOK, ThreadType, Envelope, NoEnvelope
<1>. HIDE DEF flow, new, fresh
<1>8. fresh = 0 \/ \A p \in Places : IdAt(p) # fresh
  BY <1>1, <1>5, <1>6 DEF IdsInv
<1>9. UniqueIds'
  BY <1>4, <1>8, OnePlaceMore DEF IdsInv
<1>10. \A p \in Places' : IdAt(p)' <= sealed'
  BY <1>1, <1>4, <1>5, <1>6 DEF IdsInv
<1>11. \A u \in Threads : pending'[u].id <= sealed'
  BY <1>1, <1>6, <1>7 DEF IdsInv
<1>12. \A u \in Threads, p \in Places' : pending'[u].id # 0 => IdAt(p)' # pending'[u].id
  BY <1>1, <1>4, <1>6, <1>7 DEF IdsInv
<1>13. \A u, v \in Threads : pending'[u].id # 0 /\ pending'[u].id = pending'[v].id => u = v
  BY <1>1 DEF IdsInv
<1>. QED  BY <1>9, <1>10, <1>11, <1>12, <1>13 DEF IdsInv

\* No two envelopes of the unit share an identity, on the Session and on the ordered
\* transports together: the counter is claimed once for each, before it is delivered.
THEOREM IdsUnique == Safety => []UniqueIds
<1>1. Init => IdsInv
  <2>. SUFFICES ASSUME Init PROVE IdsInv
    OBVIOUS
  <2>1. \A p \in Places : p = <<0, 1>> /\ IdAt(p) = 1
    BY DEF Init, Places, IdAt, Opening
  <2>. QED  BY <2>1 DEF Init, IdsInv, UniqueIds, NoEnvelope
<1>2. TypeOK /\ TypeOK' /\ IdsInv /\ [Next]_vars => IdsInv'
  <2>. SUFFICES ASSUME TypeOK, TypeOK', IdsInv, [Next]_vars PROVE IdsInv'
    OBVIOUS
  <2>. USE ThreadFacts, IdsAreNumbers
  <2>1. flows \in Seq(Flow) /\ flows' \in Seq(Flow)
    BY DEF TypeOK, QueueType
  <2>2. ASSUME UNCHANGED <<wire, flows, pending, sealed>> PROVE IdsInv'
    BY <2>2 DEF IdsInv, UniqueIds, Places, IdAt
  <2>3. ASSUME NEW t \in Threads, NEW kind, NEW of, Seal(t, kind, of), UNCHANGED <<wire, flows>>
        PROVE  IdsInv'
    BY <2>1, <2>3, PlacesKept, SealIds
  <2>4. ASSUME NEW a \in Authors, Say(a) \/ Health(a) \/ CloseMark(a) PROVE IdsInv'
    BY <2>3, <2>4 DEF Say, Health, CloseMark, channels
  <2>5. CASE BeatSeal
    BY <2>3, <2>5 DEF BeatSeal, channels
  <2>6. ASSUME NEW s \in Streams, ActivateFails(s) \/ Stop(s) PROVE IdsInv'
    BY <2>3, <2>6 DEF ActivateFails, Stop, channels
  <2>7. ASSUME NEW s \in Streams, NEW conn \in Transports, Activate(s, conn) PROVE IdsInv'
    <3>1. \A k \in DOMAIN flows' : \/ k \in DOMAIN flows /\ flows'[k] = flows[k]
                                   \/ flows'[k].sent = <<>>
      <4>1. PICK count : flows' = Append(flows, Opened(s, conn, count))
        BY <2>7 DEF Activate
      <4>2. Opened(s, conn, count).sent = <<>>
        BY DEF Opened
      <4>. QED  BY <2>1, <4>1, <4>2
    <3>. QED  BY <2>1, <2>7, <3>1, PlacesKept, SealIds DEF Activate, channels
  <2>8. ASSUME NEW a \in Authors, AuthorDeliver(a) \/ CloseDeliver(a) PROVE IdsInv'
    BY <2>8, DeliverIds DEF AuthorDeliver, CloseDeliver
  <2>9. CASE BeatDeliver \/ Answer
    BY <2>9, DeliverIds DEF BeatDeliver, Answer
  <2>10. ASSUME NEW a \in Authors, EmitWrite(a) PROVE IdsInv'
    BY <2>1, <2>10, EmitIds
  <2>11. ASSUME NEW a \in Authors,
                HealthBegins(a) \/ CloseSilence(a) \/ \E s \in Streams : EmitTake(a, s)
         PROVE  IdsInv'
    BY <2>2, <2>11 DEF HealthBegins, CloseSilence, EmitTake, channels
  <2>12. CASE BeatSilent \/ Tell \/ StreamFinish \/ TimerFires
    BY <2>2, <2>12 DEF BeatSilent, Tell, StreamFinish, TimerFires, channels
  <2>13. CASE OpenAnswered \/ OpenFails \/ Revoked \/ StreamEnds \/ Instruct \/ LinkDrops
    BY <2>2, <2>13 DEF OpenAnswered, OpenFails, Revoked, StreamEnds, Instruct, LinkDrops,
      channels
  <2>14. CASE UNCHANGED vars
    BY <2>2, <2>14 DEF vars, channels
  <2>. QED
    BY <2>4, <2>5, <2>6, <2>7, <2>8, <2>9, <2>10, <2>11, <2>12, <2>13, <2>14
    DEF Next, Author, BeatTask, ReceiveTask, Core
<1>. QED  BY <1>1, <1>2, TypeCorrect, PTL DEF Safety, IdsInv

===============================================================================
