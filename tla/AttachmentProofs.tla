--------------------------- MODULE AttachmentProofs ---------------------------
(***************************************************************************)
(* What holds of an attachment for every number of calls and of frames and *)
(* every size of the channel to the Core, whoever drops what and whenever. *)
(* None of it needs fairness.                                              *)
(***************************************************************************)
EXTENDS Attachment, SequenceTheorems, TLAPS

Message == {Request(n) : n \in Calls} \cup {Cancel(n) : n \in Calls}

\* A standing subscription is nobody's call, and a release names a delivery.
Kinds ==
  /\ op[0] \in {"none", "standing"}
  /\ \A n \in Calls : op[n] = "release" => of[n] \in Calls

Typed == TypeOK /\ Kinds

-------------------------------------------------------------------------------
\* Sequences.

Elements(s) == {s[i] : i \in DOMAIN s}

LEMMA Grows ==
  ASSUME NEW S, NEW s \in Seq(S), NEW b \in Seq(Elements(s)), NEW x \in S,
         NEW t, t = Append(s, x), NEW c, c = Append(b, x)
  PROVE  t \in Seq(S) /\ c \in Seq(Elements(t))
<1>1. /\ t \in Seq(S) /\ DOMAIN s = 1..Len(s) /\ DOMAIN t = 1..Len(s) + 1 /\ Len(s) \in Nat
      /\ t[Len(s) + 1] = x /\ \A i \in 1..Len(s) : t[i] = s[i]
  OBVIOUS
<1>2. Elements(s) \subseteq Elements(t)
  <2>. SUFFICES ASSUME NEW i \in DOMAIN s PROVE s[i] \in Elements(t)
    BY DEF Elements
  <2>1. i \in DOMAIN t /\ s[i] = t[i]
    BY <1>1
  <2>. QED  BY <2>1 DEF Elements
<1>3. x \in Elements(t)
  <2>1. Len(s) + 1 \in DOMAIN t /\ t[Len(s) + 1] = x
    BY <1>1
  <2>. QED  BY <2>1 DEF Elements
<1>4. b \in Seq(Elements(t))
  BY <1>2, SeqMonotonic
<1>5. c \in Seq(Elements(t))
  BY <1>3, <1>4
<1>. QED  BY <1>1, <1>5

-------------------------------------------------------------------------------
\* Types.

\* A cancellation goes into the channel to the Core when there is room for it.
LEMMA Cancelled ==
  ASSUME OutgoingType, NEW n \in Calls, TryCancel(n)
  PROVE  OutgoingType' /\ linked' = linked /\ (sent' = sent \/ sent' = Append(sent, Cancel(n)))
<1>1. CASE UNCHANGED outgoing
  BY <1>1 DEF OutgoingType, outgoing
<1>2. CASE /\ buffer' = Append(buffer, Cancel(n)) /\ sent' = Append(sent, Cancel(n))
           /\ linked' = linked /\ Len(buffer) < Buffer
  <2>1. Cancel(n) \in Message
    BY DEF Message
  <2>2. sent \in Seq(Message) /\ buffer \in Seq(Elements(sent))
    BY DEF OutgoingType, Message, Elements
  <2>3. sent' \in Seq(Message) /\ buffer' \in Seq(Elements(sent'))
    BY <1>2, <2>1, <2>2, Grows
  <2>4. Len(buffer') = Len(buffer) + 1 /\ Len(buffer) \in Nat
    BY <1>2, <2>2
  <2>5. Len(buffer') <= Buffer
    BY <1>2, <2>4, AttachmentAssumption
  <2>. QED  BY <1>2, <2>3, <2>5 DEF OutgoingType, Message, Elements
<1>. QED  BY <1>1, <1>2 DEF TryCancel

LEMMA OutgoingTyped ==
  ASSUME Typed, Next
  PROVE  OutgoingType'
<1>. USE DEF Typed, TypeOK
<1>1. ASSUME NEW n \in Calls, Send(n) PROVE OutgoingType'
  <2>1. Request(n) \in Message
    BY DEF Message
  <2>2. sent \in Seq(Message) /\ buffer \in Seq(Elements(sent))
    BY DEF OutgoingType, Message, Elements
  <2>3. buffer' = Append(buffer, Request(n)) /\ sent' = Append(sent, Request(n))
        /\ Len(buffer) < Buffer
    BY <1>1 DEF Send
  <2>4. sent' \in Seq(Message) /\ buffer' \in Seq(Elements(sent'))
    BY <2>1, <2>2, <2>3, Grows
  <2>5. Len(buffer') = Len(buffer) + 1 /\ Len(buffer) \in Nat
    BY <2>2, <2>3
  <2>6. Len(buffer') <= Buffer
    BY <2>3, <2>5, AttachmentAssumption
  <2>. QED  BY <2>4, <2>6 DEF OutgoingType, Message, Elements
<1>2. CASE CoreTakes
  <2>1. buffer # <<>> /\ buffer' = Tail(buffer) /\ sent' = sent
    BY <1>2 DEF CoreTakes
  <2>2. buffer \in Seq(Elements(sent)) /\ Len(buffer) <= Buffer
    BY DEF OutgoingType, Elements
  <2>3. buffer' \in Seq(Elements(sent)) /\ Len(buffer') <= Buffer
    BY <2>1, <2>2, AttachmentAssumption
  <2>. QED  BY <2>1, <2>3 DEF OutgoingType, Elements
<1>3. CASE Unlink
  <2>1. buffer' = <<>> /\ sent' = sent
    BY <1>3 DEF Unlink
  <2>. QED  BY <2>1, AttachmentAssumption DEF OutgoingType
<1>4. ASSUME NEW n \in Calls, TryCancel(n) PROVE OutgoingType'
  BY <1>4, Cancelled
<1>5. ASSUME UNCHANGED outgoing PROVE OutgoingType'
  BY <1>5 DEF OutgoingType, outgoing
<1>6. ASSUME NEW n \in Calls, Author(n) \/ Future(n) \/ CloseSubscription(n)
      PROVE  OutgoingType'
  <2>1. UNCHANGED outgoing \/ Send(n) \/ TryCancel(n)
    BY <1>6 DEF Author, Begin, BeginRelease, Issue, IssueFails, Started, DropBlocked, DropWaiting,
      Future, SendFails, OpenDelivery, FirstOfCall, FirstOfSubscribe, FirstOfStream,
      FirstOfCredential, FirstDeserted, CloseSubscription
  <2>. QED  BY <2>1, <1>1, <1>4, <1>5
<1>7. ASSUME NEW n \in Callers, Reader(n) \/ DropOpen(n) PROVE OutgoingType'
  <2>1. op[n] = "subscribe" => n \in Calls
    BY AttachmentAssumption DEF Kinds, Callers, Calls
  <2>2. UNCHANGED outgoing \/ (n \in Calls /\ TryCancel(n))
    BY <1>7, <2>1 DEF Reader, Advance, NextDeserted, DropOpen
  <2>. QED  BY <2>2, <1>4, <1>5
<1>8. CASE \/ Close \/ CloseEnds \/ CloseDropped \/ Drop \/ Receive \/ Return
           \/ Core /\ ~CoreTakes /\ ~Unlink
  BY <1>5, <1>8
  DEF Close, CloseEnds, CloseDropped, Drop, Receive, Return, Core, CoreEnds, CoreAnswers,
    CoreWrites, CoreDelivers, CoreSends, outgoing
<1>. QED  BY <1>2, <1>3, <1>6, <1>7, <1>8 DEF Next

-------------------------------------------------------------------------------
\* The calls.

\* A call that begins, whether it goes on to its send or fails at once.
Issued(n, kind, d, place) ==
  /\ count < MaxCalls /\ n = count + 1 /\ count' = n
  /\ op' = [op EXCEPT ![n] = kind] /\ of' = [of EXCEPT ![n] = d]
  /\ at' = [c \in Callers |-> IF c = n THEN place
                              ELSE IF c = d /\ kind = "release" THEN "closed" ELSE at[c]]
  /\ kind = "release" => d \in Calls /\ op[d] = "stream" /\ at[d] \in {"open", "completed"}
  /\ queues' = IF place = "blocked" THEN queues \cup {n} ELSE queues
  /\ UNCHANGED <<out, ended, chan, outgoing, whole, socket, coreVars, lost>>

LEMMA BeginIs ==
  ASSUME NEW n \in Calls, Begin(n) \/ BeginRelease(n)
  PROVE  \E kind \in {"call", "subscribe", "stream", "release"}, d \in Callers,
            place \in {"blocked", "failed"} : Issued(n, kind, d, place)
<1>1. 0 \in Callers /\ Calls \subseteq Callers
  BY AttachmentAssumption DEF Callers, Calls
<1>2. ASSUME NEW kind \in {"call", "subscribe", "stream"}, Issue(n, kind, 0)
      PROVE  Issued(n, kind, 0, "blocked")
  BY <1>2 DEF Issue, Started, Issued
<1>3. ASSUME NEW kind \in {"call", "subscribe", "stream"}, IssueFails(n, kind, 0)
      PROVE  Issued(n, kind, 0, "failed")
  BY <1>3 DEF IssueFails, Issued
<1>4. CASE Begin(n)
  BY <1>1, <1>2, <1>3, <1>4 DEF Begin
<1>5. CASE BeginRelease(n)
  <2>1. PICK m \in Calls : /\ op[m] = "stream" /\ at[m] \in {"open", "completed"}
                           /\ Issue(n, "release", m) \/ IssueFails(n, "release", m)
    BY <1>5 DEF BeginRelease
  <2>2. Issued(n, "release", m, "blocked") \/ Issued(n, "release", m, "failed")
    BY <2>1 DEF Issue, IssueFails, Started, Issued
  <2>. QED  BY <1>1, <2>2
<1>. QED  BY <1>4, <1>5

\* What no step but a call's beginning alters.
LEMMA BeginAlone ==
  ASSUME Next
  PROVE  \/ UNCHANGED <<count, op, of>>
         \/ \E n \in Calls : Begin(n) \/ BeginRelease(n)
<1>1. ASSUME NEW n \in Calls, Author(n) \/ Future(n) \/ CloseSubscription(n)
      PROVE  UNCHANGED <<count, op, of>> \/ Begin(n) \/ BeginRelease(n)
  BY <1>1 DEF Author, DropBlocked, DropWaiting, Future, Send, SendFails, OpenDelivery, FirstOfCall,
    FirstOfSubscribe, FirstOfStream, FirstOfCredential, FirstDeserted, CloseSubscription, inner
<1>2. ASSUME NEW n \in Callers, Reader(n) \/ DropOpen(n) PROVE UNCHANGED <<count, op, of>>
  BY <1>2 DEF Reader, Advance, NextDeserted, DropOpen, inner
<1>3. CASE Close \/ CloseEnds \/ CloseDropped \/ Drop \/ Receive \/ Return
  BY <1>3 DEF Close, CloseEnds, CloseDropped, Drop, Receive, Return, inner
<1>4. CASE Core
  BY <1>4 DEF Core, CoreTakes, CoreEnds, Unlink, CoreAnswers, CoreWrites, CoreDelivers, CoreSends,
    inner
<1>. QED  BY <1>1, <1>2, <1>3, <1>4 DEF Next

\* Where a call may go from where it is, other than at its beginning.
Goes(n, from, to) ==
  \/ from = "blocked" /\ to \in {"failed", "dropped"}
  \/ from = "blocked" /\ to = "waiting" /\ Send(n)
  \/ from = "waiting" /\ to \in {"done", "failed", "dropped"}
  \/ from = "waiting" /\ to = "opening" /\ op[n] = "stream"
  \/ from = "waiting" /\ to = "open" /\ op[n] = "subscribe"
  \/ from = "opening" /\ to \in {"open", "failed"}
  \/ from = "open" /\ to \in {"completed", "closed", "discarded"}
  \/ from = "completed" /\ to = "discarded"
  \/ from = "closed" /\ to = "discarded" /\ op[n] = "subscribe"
  \/ to \in {"dropped", "discarded"} /\ op[n] \in {"credential", "standing"} /\ att' = "gone"

LEMMA Moved ==
  ASSUME CallsType, NEW n \in Callers, NEW place \in Places, Move(n, place)
  PROVE  /\ at' \in [Callers -> Places]
         /\ \A c \in Callers : at'[c] = at[c] \/ (c = n /\ at'[c] = place)
BY DEF Move, CallsType

Going ==
  /\ at' \in [Callers -> Places]
  /\ \A c \in Callers : at'[c] = at[c] \/ Goes(c, at[c], at'[c])

LEMMA CallsMove ==
  ASSUME CallsType, Next
  PROVE  Going \/ \E n \in Calls : Begin(n) \/ BeginRelease(n)
<1>1. ASSUME NEW n \in Callers, NEW place \in Places, Move(n, place),
             place = at[n] \/ Goes(n, at[n], place)
      PROVE  Going
  BY <1>1, Moved DEF Going
<1>2. ASSUME at' = at PROVE Going
  BY <1>2 DEF CallsType, Going
<1>3. {"waiting", "opening", "open", "closed", "completed", "done", "failed", "dropped",
       "discarded"} \subseteq Places
  BY DEF Places, InProgress
<1>4. Calls \subseteq Callers
  BY DEF Callers, Calls
<1>5. ASSUME NEW n \in Calls, Send(n) \/ SendFails(n) \/ DropBlocked(n) PROVE Going
  BY <1>5, <1>1, <1>3, <1>4 DEF Send, SendFails, DropBlocked, Goes
<1>6. ASSUME NEW n \in Calls, FirstOfCall(n) \/ FirstOfSubscribe(n) \/ FirstOfStream(n) PROVE Going
  BY <1>6, <1>1, <1>3, <1>4 DEF FirstOfCall, FirstOfSubscribe, FirstOfStream, Answered, Goes
<1>7. ASSUME NEW n \in Calls, FirstOfCredential(n) \/ FirstDeserted(n) \/ DropWaiting(n)
      PROVE  Going
  BY <1>7, <1>1, <1>3, <1>4 DEF FirstOfCredential, FirstDeserted, DropWaiting, Answered, Goes
<1>8. ASSUME NEW n \in Calls, OpenDelivery(n) PROVE Going
  BY <1>8, <1>1, <1>3, <1>4 DEF OpenDelivery, Goes
<1>9. ASSUME NEW n \in Callers, Reader(n) PROVE Going
  BY <1>9, <1>1, <1>3 DEF Reader, Advance, NextDeserted, Goes
<1>10. ASSUME NEW n \in Callers, DropOpen(n) PROVE Going
  BY <1>10, <1>1, <1>3 DEF DropOpen, Goes
<1>11. ASSUME NEW n \in Calls, CloseSubscription(n) PROVE Going
  BY <1>11, <1>1, <1>3, <1>4 DEF CloseSubscription, Goes
<1>12. CASE CloseEnds
  <2>. DEFINE gone(n) == Refused /\ op[n] = "standing"
  <2>1. att' = "gone" /\ at' = [n \in Callers |-> IF gone(n) THEN "discarded" ELSE at[n]]
    BY <1>12 DEF CloseEnds
  <2>2. \A n \in Callers : at'[n] = at[n] \/ (op[n] = "standing" /\ at'[n] = "discarded")
    BY <2>1
  <2>. HIDE DEF gone
  <2>3. at' \in [Callers -> Places]
    BY <1>3, <2>1 DEF CallsType
  <2>. QED  BY <2>1, <2>2, <2>3 DEF Going, Goes
<1>13. CASE Drop
  <2>. DEFINE then(n) == IF att # "attaching" THEN at[n]
                         ELSE IF op[n] = "credential" THEN "dropped"
                         ELSE IF op[n] = "standing" THEN "discarded" ELSE at[n]
  <2>1. att' = "gone" /\ at' = [n \in Callers |-> then(n)]
    BY <1>13 DEF Drop
  <2>4. \A n \in Callers : \/ then(n) = at[n]
                           \/ /\ op[n] \in {"credential", "standing"}
                              /\ then(n) \in {"dropped", "discarded"}
    OBVIOUS
  <2>. HIDE DEF then
  <2>2. \A n \in Callers : \/ at'[n] = at[n]
                           \/ /\ op[n] \in {"credential", "standing"}
                              /\ at'[n] \in {"dropped", "discarded"}
    BY <2>1, <2>4
  <2>3. at' \in [Callers -> Places]
    <3>1. \A n \in Callers : then(n) \in Places
      BY <1>3, <2>4 DEF CallsType
    <3>. QED  BY <2>1, <3>1
  <2>. QED  BY <2>1, <2>2, <2>3 DEF Going, Goes
<1>14. CASE Close \/ CloseDropped \/ Receive \/ Return \/ Core
  <2>1. at' = at
    BY <1>14 DEF Close, CloseDropped, Receive, Return, Core, CoreTakes, CoreEnds, Unlink,
      CoreAnswers, CoreWrites, CoreDelivers, CoreSends
  <2>. QED  BY <1>2, <2>1
<1>15. ASSUME NEW n \in Calls, Author(n) \/ Future(n) \/ CloseSubscription(n)
       PROVE  Going \/ Begin(n) \/ BeginRelease(n)
  BY <1>15, <1>5, <1>6, <1>7, <1>8, <1>11 DEF Author, Future
<1>. QED  BY <1>9, <1>10, <1>12, <1>13, <1>14, <1>15 DEF Next

LEMMA CallsTyped ==
  ASSUME Typed, Next
  PROVE  CallsType' /\ Kinds'
<1>. USE DEF Typed, TypeOK
<1>1. ASSUME NEW n \in Calls, Begin(n) \/ BeginRelease(n) PROVE CallsType' /\ Kinds'
  <2>1. PICK kind \in {"call", "subscribe", "stream", "release"}, d \in Callers,
             place \in {"blocked", "failed"} : Issued(n, kind, d, place)
    BY <1>1, BeginIs
  <2>2. kind \in Ops /\ place \in Places /\ "closed" \in Places
    BY DEF Ops, Places, InProgress
  <2>3. /\ op' = [op EXCEPT ![n] = kind] /\ of' = [of EXCEPT ![n] = d] /\ count' = n
        /\ at' = [c \in Callers |-> IF c = n THEN place
                                    ELSE IF c = d /\ kind = "release" THEN "closed" ELSE at[c]]
        /\ kind = "release" => d \in Calls
    BY <2>1 DEF Issued
  <2>4. CallsType'
    <3>1. count' \in 0..MaxCalls
      BY <2>3 DEF Calls
    <3>2. op' \in [Callers -> Ops] /\ of' \in [Calls -> Callers]
      BY <2>2, <2>3 DEF CallsType
    <3>3. at' \in [Callers -> Places]
      BY <2>2, <2>3 DEF CallsType
    <3>. QED  BY <3>1, <3>2, <3>3 DEF CallsType
  <2>5. n # 0
    BY DEF Calls
  <2>6. Kinds'
    BY <2>3, <2>5 DEF Kinds, CallsType, Calls, Callers
  <2>. QED  BY <2>4, <2>6
<1>2. CASE UNCHANGED <<count, op, of>> /\ ~\E n \in Calls : Begin(n) \/ BeginRelease(n)
  <2>1. at' \in [Callers -> Places]
    BY <1>2, CallsMove DEF Going
  <2>. QED  BY <1>2, <2>1 DEF CallsType, Kinds
<1>. QED  BY <1>1, <1>2, BeginAlone

-------------------------------------------------------------------------------
\* The names, the queues and the frames.

LEMMA NamesAre ==
  /\ Calls \subseteq Callers /\ Callers \subseteq Names /\ 0 \in Callers
  /\ \A n \in Callers : DeliveryOf(n) \in Names /\ NameOf(n) \in Names
  /\ \A n \in Calls : DeliveryOf(n) \notin Callers
  /\ \A m, n \in Calls : DeliveryOf(m) = DeliveryOf(n) => m = n
BY AttachmentAssumption DEF Calls, Callers, Names, DeliveryOf, NameOf

LEMMA FrameIs ==
  ASSUME NEW n \in Names,
         NEW kind \in {"answer", "socket", "wrong", "refusal", "item", "completion"}
  PROVE  [name |-> n, kind |-> kind] \in Frame
BY DEF Frame

\* Reading a queue takes its first frame, and leaves the other queues alone.
LEMMA Read ==
  ASSUME QueuesType, NEW n \in Names, chan[n] # <<>>, chan' = [chan EXCEPT ![n] = Tail(@)]
  PROVE  chan' \in [Names -> Seq(Frame)]
<1>1. chan[n] \in Seq(Frame)
  BY DEF QueuesType
<1>2. Tail(chan[n]) \in Seq(Frame)
  BY <1>1
<1>. QED  BY <1>2 DEF QueuesType

\* A step that gives the queues of S back.
LEMMA Forgotten ==
  ASSUME QueuesType, NEW S, Forget(S)
  PROVE  queues' \subseteq Names
BY DEF QueuesType, Forget

LEMMA ReceiveIs ==
  ASSUME QueuesType, CoreType, Receive
  PROVE  LET f == Head(incoming)
         IN  /\ f \in Frame /\ f.name \in Names /\ incoming' = Tail(incoming)
             /\ queues' = RegisteredOnArrival(f) /\ queues' \subseteq Names
             /\ incoming' \in Seq(Frame) /\ incoming # <<>>
<1>. DEFINE f == Head(incoming)
<1>1. incoming \in Seq(Frame) /\ incoming # <<>> /\ incoming' = Tail(incoming)
  BY DEF Receive, CoreType
<1>2. f \in Frame /\ incoming' \in Seq(Frame)
  BY <1>1
<1>3. f.name \in Names
  BY <1>2 DEF Frame
<1>4. queues' = RegisteredOnArrival(f)
  BY DEF Receive
<1>5. queues' \subseteq Names
  BY <1>4, NamesAre DEF RegisteredOnArrival, QueuesType
<1>. QED  BY <1>1, <1>2, <1>3, <1>4, <1>5

LEMMA QueuesTyped ==
  ASSUME Typed, Next
  PROVE  QueuesType'
<1>. USE NamesAre DEF Typed, TypeOK
<1>1. ASSUME UNCHANGED <<queues, chan, lost>> PROVE QueuesType'
  BY <1>1 DEF QueuesType
<1>2. ASSUME queues' \subseteq Names, UNCHANGED <<chan, lost>> PROVE QueuesType'
  BY <1>2 DEF QueuesType
<1>3. ASSUME NEW n \in Names, chan[n] # <<>>, chan' = [chan EXCEPT ![n] = Tail(@)],
             queues' \subseteq Names, lost' = lost
      PROVE  QueuesType'
  BY <1>3, Read DEF QueuesType
<1>4. ASSUME NEW n \in Calls, Begin(n) \/ BeginRelease(n) PROVE QueuesType'
  <2>1. queues' \subseteq Names /\ UNCHANGED <<chan, lost>>
    BY <1>4, BeginIs DEF Issued, QueuesType
  <2>. QED  BY <2>1, <1>2
<1>5. ASSUME NEW n \in Calls, Send(n) \/ SendFails(n) \/ DropBlocked(n) \/ DropWaiting(n)
             \/ OpenDelivery(n) \/ FirstDeserted(n) \/ CloseSubscription(n)
      PROVE  QueuesType'
  <2>1. queues' \subseteq Names /\ UNCHANGED <<chan, lost>>
    BY <1>5 DEF Send, SendFails, DropBlocked, DropWaiting, OpenDelivery, FirstDeserted,
      CloseSubscription, Forget, QueuesType
  <2>. QED  BY <2>1, <1>2
<1>6. ASSUME NEW n \in Calls, FirstOfCall(n) \/ FirstOfSubscribe(n) \/ FirstOfStream(n)
             \/ FirstOfCredential(n)
      PROVE  QueuesType'
  <2>1. /\ chan[n] # <<>> /\ chan' = [chan EXCEPT ![n] = Tail(@)] /\ lost' = lost
        /\ queues' \subseteq queues
    BY <1>6 DEF FirstOfCall, FirstOfSubscribe, FirstOfStream, FirstOfCredential, Answered, Forget
  <2>. QED  BY <2>1, <1>3 DEF QueuesType
<1>7. ASSUME NEW n \in Callers, Reader(n) \/ DropOpen(n) PROVE QueuesType'
  <2>1. CASE Advance(n)
    <3>1. /\ chan[NameOf(n)] # <<>> /\ chan' = [chan EXCEPT ![NameOf(n)] = Tail(@)]
          /\ lost' = lost /\ queues' = queues
      BY <2>1 DEF Advance
    <3>. QED  BY <3>1, <1>3 DEF QueuesType
  <2>2. CASE NextDeserted(n) \/ DropOpen(n)
    <3>1. queues' \subseteq Names /\ UNCHANGED <<chan, lost>>
      BY <2>2 DEF NextDeserted, DropOpen, Forget, QueuesType
    <3>. QED  BY <3>1, <1>2
  <2>. QED  BY <1>7, <2>1, <2>2 DEF Reader
<1>8. CASE Receive
  <2>. DEFINE f == Head(incoming)
  <2>1. f \in Frame /\ f.name \in Names /\ queues' \subseteq Names
    BY <1>8, ReceiveIs
  <2>2. \/ chan' = [chan EXCEPT ![f.name] = Append(@, f)] /\ lost' = lost
        \/ lost' = lost \cup {f.name} /\ chan' = chan
    BY <1>8 DEF Receive
  <2>. HIDE DEF f
  <2>3. chan[f.name] \in Seq(Frame)
    BY <2>1 DEF QueuesType
  <2>4. Append(chan[f.name], f) \in Seq(Frame)
    BY <2>1, <2>3
  <2>5. chan' \in [Names -> Seq(Frame)]
    BY <2>2, <2>4 DEF QueuesType
  <2>6. lost' \subseteq Names
    BY <2>1, <2>2 DEF QueuesType
  <2>. QED  BY <2>1, <2>5, <2>6 DEF QueuesType
<1>9. CASE Close \/ CloseEnds \/ CloseDropped \/ Drop \/ Return
  <2>1. queues' \subseteq Names /\ UNCHANGED <<chan, lost>>
    BY <1>9 DEF Close, CloseEnds, CloseDropped, Drop, Return, QueuesType
  <2>. QED  BY <2>1, <1>2
<1>10. ASSUME NEW n \in Calls, CoreWrites(n) PROVE QueuesType'
  <2>1. PICK kind \in {"item", "completion"} :
          chan' = [chan EXCEPT ![DeliveryOf(n)] = Append(@, [name |-> DeliveryOf(n),
                                                             kind |-> kind])]
    BY <1>10 DEF CoreWrites
  <2>. DEFINE f == [name |-> DeliveryOf(n), kind |-> kind]
  <2>2. f \in Frame
    BY FrameIs
  <2>. HIDE DEF f
  <2>3. DeliveryOf(n) \in Names /\ chan[DeliveryOf(n)] \in Seq(Frame)
    BY DEF QueuesType
  <2>4. Append(chan[DeliveryOf(n)], f) \in Seq(Frame)
    BY <2>2, <2>3
  <2>5. UNCHANGED <<queues, lost>> /\ chan' = [chan EXCEPT ![DeliveryOf(n)] = Append(@, f)]
    BY <1>10, <2>1 DEF CoreWrites, f
  <2>. QED  BY <2>3, <2>4, <2>5 DEF QueuesType
<1>11. CASE Core /\ ~\E n \in Calls : CoreWrites(n)
  <2>1. UNCHANGED <<queues, chan, lost>>
    BY <1>11 DEF Core, CoreTakes, CoreEnds, Unlink, CoreAnswers, CoreDelivers, CoreSends
  <2>. QED  BY <2>1, <1>1
<1>. QED  BY <1>4, <1>5, <1>6, <1>7, <1>8, <1>9, <1>10, <1>11 DEF Next, Author, Future

LEMMA FlagsTyped ==
  ASSUME Typed, Next
  PROVE  FlagsType'
<1>. USE DEF Typed, TypeOK, FlagsType
<1>1. att' \in {"attaching", "attached", "closing", "gone"}
      /\ recv' \in {"running", "returned", "aborted"}
  <2>1. ASSUME NEW n \in Calls, Author(n) \/ Future(n) \/ CloseSubscription(n)
        PROVE  recv' = recv /\ att' \in {att, "attached", "closing"}
    BY <2>1, BeginIs DEF Author, Issued, DropBlocked, DropWaiting, Future, Send, SendFails,
      OpenDelivery, FirstOfCall, FirstOfSubscribe, FirstOfStream, FirstOfCredential,
      FirstDeserted, CloseSubscription, whole
  <2>2. ASSUME NEW n \in Callers, Reader(n) \/ DropOpen(n) PROVE UNCHANGED whole
    BY <2>2 DEF Reader, Advance, NextDeserted, DropOpen
  <2>3. CASE Close \/ CloseEnds \/ CloseDropped \/ Drop \/ Receive \/ Return
    BY <2>3 DEF Close, CloseEnds, CloseDropped, Drop, Receive, Return, Aborted, whole
  <2>4. CASE Core
    BY <2>4 DEF Core, CoreTakes, CoreEnds, Unlink, CoreAnswers, CoreWrites, CoreDelivers,
      CoreSends, whole
  <2>. QED  BY <2>1, <2>2, <2>3, <2>4 DEF Next, whole
<1>2. out' \in BOOLEAN /\ established' \in BOOLEAN /\ ended' \in BOOLEAN
  <2>1. ASSUME NEW n \in Calls, Author(n) \/ Future(n) \/ CloseSubscription(n)
        PROVE  /\ out' = out \/ out' \in BOOLEAN
               /\ established' = established \/ established' \in BOOLEAN
               /\ ended' = ended
    BY <2>1, BeginIs DEF Author, Issued, DropBlocked, DropWaiting, Future, Send, SendFails,
      OpenDelivery, FirstOfCall, FirstOfSubscribe, FirstOfStream, FirstOfCredential,
      FirstDeserted, CloseSubscription, whole, inner
  <2>2. ASSUME NEW n \in Callers, Reader(n) \/ DropOpen(n) PROVE UNCHANGED <<whole, inner>>
    BY <2>2 DEF Reader, Advance, NextDeserted, DropOpen
  <2>3. CASE Close \/ CloseEnds \/ CloseDropped \/ Drop \/ Receive \/ Return
    BY <2>3 DEF Close, CloseEnds, CloseDropped, Drop, Receive, Return, whole, inner
  <2>4. CASE Core
    BY <2>4 DEF Core, CoreTakes, CoreEnds, Unlink, CoreAnswers, CoreWrites, CoreDelivers,
      CoreSends, whole, inner
  <2>. QED  BY <2>1, <2>2, <2>3, <2>4 DEF Next, whole, inner
<1>3. linked' \in BOOLEAN /\ over' \in BOOLEAN
  <2>1. ASSUME NEW n \in Calls, Author(n) \/ Future(n) \/ CloseSubscription(n)
        PROVE  linked' = linked /\ over' = over
    BY <2>1, BeginIs DEF Author, Issued, DropBlocked, DropWaiting, Future, Send, SendFails,
      OpenDelivery, FirstOfCall, FirstOfSubscribe, FirstOfStream, FirstOfCredential,
      FirstDeserted, CloseSubscription, TryCancel, outgoing, coreVars
  <2>2. ASSUME NEW n \in Callers, Reader(n) \/ DropOpen(n) PROVE linked' = linked /\ over' = over
    BY <2>2 DEF Reader, Advance, NextDeserted, DropOpen, TryCancel, outgoing, coreVars
  <2>3. CASE Close \/ CloseEnds \/ CloseDropped \/ Drop \/ Receive \/ Return
    BY <2>3 DEF Close, CloseEnds, CloseDropped, Drop, Receive, Return, outgoing, coreVars
  <2>4. CASE Core
    BY <2>4 DEF Core, CoreTakes, CoreEnds, Unlink, CoreAnswers, CoreWrites, CoreDelivers,
      CoreSends, outgoing, coreVars
  <2>. QED  BY <2>1, <2>2, <2>3, <2>4 DEF Next
<1>. QED  BY <1>1, <1>2, <1>3

\* What is not the Core leaves the Core alone, but for the frame the task takes.
LEMMA CoreAlone ==
  ASSUME Next
  PROVE  Core \/ (UNCHANGED <<socket, core, over, frames>> /\ (Receive \/ incoming' = incoming))
<1>1. ASSUME NEW n \in Calls, Author(n) \/ Future(n) \/ CloseSubscription(n)
      PROVE  UNCHANGED <<socket, coreVars>>
  BY <1>1, BeginIs DEF Author, Issued, DropBlocked, DropWaiting, Future, Send, SendFails,
    OpenDelivery, FirstOfCall, FirstOfSubscribe, FirstOfStream, FirstOfCredential,
    FirstDeserted, CloseSubscription
<1>2. ASSUME NEW n \in Callers, Reader(n) \/ DropOpen(n) PROVE UNCHANGED <<socket, coreVars>>
  BY <1>2 DEF Reader, Advance, NextDeserted, DropOpen
<1>3. CASE Close \/ CloseEnds \/ CloseDropped \/ Drop \/ Return
  BY <1>3 DEF Close, CloseEnds, CloseDropped, Drop, Return, coreVars
<1>4. CASE Receive
  BY <1>4 DEF Receive
<1>. QED  BY <1>1, <1>2, <1>3, <1>4 DEF Next, coreVars

\* What the Core does to the requests: it takes one, or goes on with one it has taken.
LEMMA CoreIs ==
  ASSUME Typed, Core
  PROVE  \/ CoreTakes /\ UNCHANGED <<socket, incoming, frames, over>>
         \/ UNCHANGED <<core, socket, incoming, frames>>
         \/ \E n \in Calls : CoreWrites(n) /\ UNCHANGED <<socket, incoming, over>>
         \/ \E n \in Calls : CoreAnswers(n) /\ over' = over
         \/ \E n \in Callers : CoreDelivers(n) /\ UNCHANGED <<socket, over>>
BY DEF Core, CoreTakes, CoreEnds, Unlink, CoreWrites, CoreAnswers, CoreDelivers, CoreSends,
  coreVars

LEMMA SendsTyped ==
  ASSUME CoreType, NEW f \in Frame, CoreSends(f)
  PROVE  incoming' = Append(incoming, f) /\ incoming' \in Seq(Frame) /\ frames' \in 0..MaxFrames
<1>1. frames' = frames + 1 /\ frames < MaxFrames /\ frames \in 0..MaxFrames
  BY DEF CoreSends, CoreType
<1>2. incoming' = Append(incoming, f) /\ incoming \in Seq(Frame)
  BY DEF CoreSends, CoreType
<1>. QED  BY <1>1, <1>2, AttachmentAssumption

LEMMA CoreTyped ==
  ASSUME Typed, Next
  PROVE  CoreType'
<1>. USE NamesAre DEF Typed, TypeOK
<1>1. CASE ~Core
  <2>1. UNCHANGED <<socket, core, frames>> /\ (Receive \/ incoming' = incoming)
    BY <1>1, CoreAlone
  <2>2. incoming' \in Seq(Frame)
    BY <2>1, ReceiveIs DEF CoreType
  <2>. QED  BY <2>1, <2>2 DEF CoreType
<1>2. CASE CoreTakes /\ UNCHANGED <<socket, incoming, frames, over>>
  <2>1. core' \in [Callers -> {"unknown", "asked", "answered", "over"}]
    BY <1>2 DEF CoreTakes, CoreType
  <2>. QED  BY <1>2, <2>1 DEF CoreType
<1>3. CASE UNCHANGED <<core, socket, incoming, frames>>
  BY <1>3 DEF CoreType
<1>4. ASSUME NEW n \in Calls, CoreWrites(n), UNCHANGED <<socket, incoming, over>>
      PROVE  CoreType'
  <2>1. core' \in [Callers -> {"unknown", "asked", "answered", "over"}]
    BY <1>4 DEF CoreWrites, CoreType
  <2>2. frames' \in 0..MaxFrames
    BY <1>4, AttachmentAssumption DEF CoreWrites, CoreType
  <2>. QED  BY <1>4, <2>1, <2>2 DEF CoreType
<1>5. ASSUME NEW n \in Calls, CoreAnswers(n) PROVE CoreType'
  <2>1. PICK kind \in {"answer", "socket", "wrong", "refusal"} :
          /\ CoreSends([name |-> n, kind |-> kind])
          /\ socket' = IF kind = "socket" THEN socket \cup {n} ELSE socket
          /\ core' = [core EXCEPT ![n] = IF kind \in {"answer", "socket"} THEN "answered"
                                         ELSE "over"]
    BY <1>5 DEF CoreAnswers
  <2>2. [name |-> n, kind |-> kind] \in Frame
    BY FrameIs
  <2>3. incoming' \in Seq(Frame) /\ frames' \in 0..MaxFrames
    BY <2>1, <2>2, SendsTyped
  <2>4. core' \in [Callers -> {"unknown", "asked", "answered", "over"}] /\ socket' \subseteq Calls
    BY <2>1 DEF CoreType
  <2>. QED  BY <2>3, <2>4 DEF CoreType
<1>6. ASSUME NEW n \in Callers, CoreDelivers(n), UNCHANGED <<socket, over>> PROVE CoreType'
  <2>1. PICK kind \in {"item", "completion"} :
          /\ CoreSends([name |-> NameOf(n), kind |-> kind])
          /\ core' = [core EXCEPT ![n] = IF kind = "item" THEN "answered" ELSE "over"]
    BY <1>6 DEF CoreDelivers
  <2>2. [name |-> NameOf(n), kind |-> kind] \in Frame
    BY FrameIs
  <2>3. incoming' \in Seq(Frame) /\ frames' \in 0..MaxFrames
    BY <2>1, <2>2, SendsTyped
  <2>4. core' \in [Callers -> {"unknown", "asked", "answered", "over"}]
    BY <2>1 DEF CoreType
  <2>. QED  BY <1>6, <2>3, <2>4 DEF CoreType
<1>. QED  BY <1>1, <1>2, <1>3, <1>4, <1>5, <1>6, CoreIs

LEMMA TypedStep == Typed /\ [Next]_vars => Typed'
<1>1. Typed /\ UNCHANGED vars => Typed'
  BY DEF vars, inner, outgoing, whole, coreVars, Typed, TypeOK, FlagsType, CallsType, QueuesType,
    OutgoingType, CoreType, Kinds
<1>. QED  BY <1>1, FlagsTyped, CallsTyped, QueuesTyped, OutgoingTyped, CoreTyped DEF Typed, TypeOK

LEMMA InitTyped ==
  ASSUME Init
  PROVE  Typed
<1>1. PICK credential \in BOOLEAN, standing \in BOOLEAN :
        LET Initially(n, c, s, other) ==
              IF n = 1 /\ credential THEN c ELSE IF n = 0 /\ standing THEN s ELSE other
        IN  /\ out = TRUE /\ ended = FALSE
            /\ count = InitialCount(credential)
            /\ queues = {n \in {0, 1} : Initially(n, TRUE, TRUE, FALSE)}
            /\ chan = [n \in Names |-> <<>>]
            /\ sent = IF credential THEN <<Request(1)>> ELSE <<>>
            /\ buffer = sent /\ linked = TRUE
            /\ att = IF credential THEN "attaching" ELSE "attached"
            /\ established = FALSE
            /\ recv = "running"
            /\ op = [n \in Callers |-> Initially(n, "credential", "standing", "none")]
            /\ at = [n \in Callers |-> Initially(n, "waiting", "open", "unused")]
            /\ of = [n \in Calls |-> 0]
            /\ socket = {}
            /\ core = [n \in Callers |-> Initially(n, "unknown", "answered", "unknown")]
            /\ incoming = <<>> /\ over = FALSE /\ frames = 0
            /\ lost = {}
  BY DEF Init
<1>. USE AttachmentAssumption, NamesAre
<1>2. 1 \in Calls /\ 0 \in Names /\ 1 \in Names
  BY DEF Calls, Names
<1>3. FlagsType
  BY <1>1 DEF FlagsType
<1>4. CallsType
  <2>1. count \in 0..MaxCalls
    BY <1>1 DEF InitialCount
  <2>2. op \in [Callers -> Ops]
    BY <1>1 DEF Ops
  <2>3. at \in [Callers -> Places]
    BY <1>1 DEF Places, InProgress
  <2>4. of \in [Calls -> Callers]
    BY <1>1
  <2>. QED  BY <2>1, <2>2, <2>3, <2>4 DEF CallsType
<1>5. QueuesType
  <2>1. queues \subseteq Names /\ lost \subseteq Names
    BY <1>1, <1>2
  <2>2. chan \in [Names -> Seq(Frame)]
    BY <1>1
  <2>. QED  BY <2>1, <2>2 DEF QueuesType
<1>6. OutgoingType
  <2>1. CASE sent = <<>>
    BY <1>1, <2>1 DEF OutgoingType
  <2>2. CASE sent = <<Request(1)>>
    <3>1. Request(1) \in Message
      BY <1>2 DEF Message
    <3>2. sent \in Seq(Message) /\ Len(sent) = 1 /\ DOMAIN sent = 1..1 /\ sent[1] = Request(1)
      BY <2>2, <3>1
    <3>3. Request(1) \in Elements(sent)
      BY <3>2 DEF Elements
    <3>4. buffer \in Seq(Elements(sent)) /\ Len(buffer) <= Buffer
      BY <1>1, <2>2, <3>2, <3>3
    <3>. QED  BY <3>2, <3>4 DEF OutgoingType, Message, Elements
  <2>. QED  BY <1>1, <2>1, <2>2
<1>7. CoreType
  BY <1>1 DEF CoreType
<1>8. Kinds
  BY <1>1, <1>2 DEF Kinds, Calls
<1>. QED  BY <1>3, <1>4, <1>5, <1>6, <1>7, <1>8 DEF Typed, TypeOK

\* Every variable has its type in every state, and the channel to the Core its bound
\* (interface.rs:41-46, 190-205, 236-257).
THEOREM AttachmentTyped == Safety => []TypeOK
<1>1. Init => Typed
  BY InitTyped
<1>. QED  BY <1>1, TypedStep, PTL DEF Safety, Typed

-------------------------------------------------------------------------------
\* What goes to the Core.

Requested(n) == \E i \in DOMAIN sent : sent[i] = Request(n)

\* A call's request is sent once, when the call leaves its send; what is numbered above
\* the count has not begun.
Counted ==
  /\ \A n \in Calls : n > count => at[n] = "unused" /\ op[n] = "none"
  /\ \A n \in Calls :
       /\ at[n] \in {"waiting", "opening", "open", "closed", "completed", "done"} => Requested(n)
       /\ at[n] \in {"unused", "blocked"} => ~Requested(n)

\* The inductive invariant of what is sent.
Sending == Counted /\ UniqueCalls /\ CancelFollowsRequest

LEMMA SentIs ==
  ASSUME Typed
  PROVE  /\ sent \in Seq(Message) /\ DOMAIN sent = 1..Len(sent) /\ Len(sent) \in Nat
         /\ \A i \in DOMAIN sent : sent[i] \in Message
BY DEF Typed, TypeOK, OutgoingType, Message

LEMMA SentGrows ==
  ASSUME Typed, NEW x, sent' = Append(sent, x)
  PROVE  /\ DOMAIN sent' = 1..Len(sent) + 1 /\ sent'[Len(sent) + 1] = x
         /\ \A i \in DOMAIN sent : i \in DOMAIN sent' /\ sent'[i] = sent[i]
         /\ \A i \in DOMAIN sent' : i \in DOMAIN sent \/ i = Len(sent) + 1
         /\ \A n \in Calls : Requested(n)' <=> Requested(n) \/ x = Request(n)
<1>1. sent \in Seq(Message) /\ DOMAIN sent = 1..Len(sent) /\ Len(sent) \in Nat
  BY SentIs
<1>2. /\ DOMAIN sent' = 1..Len(sent) + 1 /\ sent'[Len(sent) + 1] = x
      /\ \A i \in DOMAIN sent : i \in DOMAIN sent' /\ sent'[i] = sent[i]
      /\ \A i \in DOMAIN sent' : i \in DOMAIN sent \/ i = Len(sent) + 1
  BY <1>1
<1>3. ASSUME NEW n \in Calls PROVE Requested(n)' <=> Requested(n) \/ x = Request(n)
  <2>1. Len(sent) + 1 \in DOMAIN sent'
    BY <1>1, <1>2
  <2>. QED  BY <1>2, <2>1 DEF Requested
<1>. QED  BY <1>2, <1>3

\* What a step sends: nothing, the request of a call that was in its send, or the
\* cancellation of one whose request has gone.
LEMMA SentMoves ==
  ASSUME Typed, Counted, Next
  PROVE  \/ sent' = sent /\ ~\E n \in Calls : Send(n)
         \/ \E n \in Calls : Send(n)
         \/ \E n \in Calls : /\ sent' = Append(sent, Cancel(n)) /\ Requested(n)
                             /\ ~\E m \in Calls : Begin(m) \/ BeginRelease(m) \/ Send(m)
<1>. USE DEF Typed, TypeOK
<1>1. ASSUME NEW n \in Calls, TryCancel(n), at[n] \in {"waiting", "open", "closed", "completed"}
      PROVE  sent' = sent \/ (sent' = Append(sent, Cancel(n)) /\ Requested(n))
  BY <1>1, Cancelled DEF Counted
<1>2. \/ sent' = sent
      \/ \E n \in Calls : Send(n)
      \/ \E n \in Calls : sent' = Append(sent, Cancel(n)) /\ Requested(n)
  <2>1. ASSUME NEW n \in Calls, Author(n) \/ Future(n) \/ CloseSubscription(n)
        PROVE  \/ sent' = sent \/ Send(n)
               \/ TryCancel(n) /\ at[n] \in {"waiting", "open"}
    BY <2>1, BeginIs DEF Author, Issued, DropBlocked, DropWaiting, Future, SendFails,
      OpenDelivery, FirstOfCall, FirstOfSubscribe, FirstOfStream, FirstOfCredential,
      FirstDeserted, CloseSubscription, outgoing
  <2>2. ASSUME NEW n \in Callers, Reader(n) \/ DropOpen(n)
        PROVE  \/ sent' = sent
               \/ n \in Calls /\ TryCancel(n) /\ at[n] \in {"open", "closed", "completed"}
    <3>1. op[n] = "subscribe" => n \in Calls
      BY DEF Kinds, Callers, Calls
    <3>. QED  BY <2>2, <3>1 DEF Reader, Advance, NextDeserted, DropOpen, outgoing
  <2>3. CASE Close \/ CloseEnds \/ CloseDropped \/ Drop \/ Receive \/ Return
    BY <2>3 DEF Close, CloseEnds, CloseDropped, Drop, Receive, Return, outgoing
  <2>4. CASE Core
    BY <2>4 DEF Core, CoreTakes, CoreEnds, Unlink, CoreAnswers, CoreWrites, CoreDelivers,
      CoreSends, outgoing
  <2>. QED  BY <2>1, <2>2, <2>3, <2>4, <1>1 DEF Next
<1>3. \A n \in Calls : Begin(n) \/ BeginRelease(n) => sent' = sent
  BY BeginIs DEF Issued, outgoing
<1>4. ASSUME NEW x, sent' = Append(sent, x) PROVE sent' # sent
  <2>1. DOMAIN sent' = 1..Len(sent) + 1 /\ DOMAIN sent = 1..Len(sent) /\ Len(sent) \in Nat
    BY <1>4, SentIs, SentGrows
  <2>2. Len(sent) + 1 \in DOMAIN sent' /\ Len(sent) + 1 \notin DOMAIN sent
    BY <2>1
  <2>. QED  BY <2>2
<1>5. \A n \in Calls : Send(n) => sent' # sent
  BY <1>4 DEF Send
<1>. QED  BY <1>2, <1>3, <1>4, <1>5

\* A call's request is sent for it when it leaves its send, and for no other.
LEMMA CountedStep ==
  ASSUME Typed, Counted, Next
  PROVE  Counted'
<1>. USE NamesAre DEF Typed, TypeOK, CallsType
<1>1. ASSUME NEW n \in Calls, Begin(n) \/ BeginRelease(n) PROVE Counted'
  <2>1. PICK kind \in {"call", "subscribe", "stream", "release"}, d \in Callers,
             place \in {"blocked", "failed"} : Issued(n, kind, d, place)
    BY <1>1, BeginIs
  <2>2. /\ n = count + 1 /\ count' = n /\ sent' = sent /\ op' = [op EXCEPT ![n] = kind]
        /\ \A c \in Callers : at'[c] = IF c = n THEN place
                                       ELSE IF c = d /\ kind = "release" THEN "closed" ELSE at[c]
        /\ kind = "release" => d \in Calls /\ op[d] = "stream" /\ at[d] \in {"open", "completed"}
    BY <2>1 DEF Issued, outgoing
  <2>3. count \in Nat
    OBVIOUS
  <2>4. at[n] = "unused"
    BY <2>2, <2>3 DEF Counted, Calls
  <2>5. \A m \in Calls : Requested(m)' <=> Requested(m)
    BY <2>2 DEF Requested
  <2>6. ASSUME NEW m \in Calls, m > count' PROVE at'[m] = "unused" /\ op'[m] = "none"
    <3>1. m > count /\ m # n
      BY <2>2, <2>3, <2>6 DEF Calls
    <3>2. at[m] = "unused" /\ op[m] = "none"
      BY <3>1 DEF Counted
    <3>. QED  BY <2>2, <3>1, <3>2
  <2>7. ASSUME NEW m \in Calls
        PROVE  /\ at'[m] \in {"waiting", "opening", "open", "closed", "completed", "done"}
                    => Requested(m)
               /\ at'[m] \in {"unused", "blocked"} => ~Requested(m)
    BY <2>2, <2>4 DEF Counted
  <2>. QED  BY <2>5, <2>6, <2>7 DEF Counted
<1>2. ASSUME NEW n \in Calls, Send(n) PROVE Counted'
  <2>1. sent' = Append(sent, Request(n)) /\ at' = [at EXCEPT ![n] = "waiting"]
        /\ at[n] = "blocked" /\ UNCHANGED <<count, op>>
    BY <1>2 DEF Send, Move, inner
  <2>2. \A m \in Calls : Requested(m)' <=> Requested(m) \/ m = n
    BY <2>1, SentGrows DEF Request
  <2>. QED  BY <2>1, <2>2 DEF Counted
<1>3. CASE ~\E n \in Calls : Begin(n) \/ BeginRelease(n) \/ Send(n)
  <2>1. UNCHANGED <<count, op>>
    BY <1>3, BeginAlone
  <2>2. \A m \in Calls : Requested(m)' <=> Requested(m)
    <3>1. CASE sent' = sent
      BY <3>1 DEF Requested
    <3>2. ASSUME NEW n \in Calls, sent' = Append(sent, Cancel(n))
          PROVE  \A m \in Calls : Requested(m)' <=> Requested(m)
      BY <3>2, SentGrows DEF Request, Cancel
    <3>. QED  BY <1>3, <3>1, <3>2, SentMoves
  <2>3. \A m \in Calls :
          /\ at'[m] \in {"waiting", "opening", "open", "closed", "completed", "done"}
               => at[m] \in {"waiting", "opening", "open", "closed", "completed", "done"}
          /\ at'[m] \in {"unused", "blocked"} => at'[m] = at[m]
          /\ at[m] = "unused" => at'[m] = at[m] \/ op[m] \in {"credential", "standing"}
    BY <1>3, CallsMove DEF Going, Goes
  <2>. QED  BY <2>1, <2>2, <2>3 DEF Counted
<1>. QED  BY <1>1, <1>2, <1>3

LEMMA SendingStep ==
  ASSUME Typed, Sending, Next
  PROVE  Sending'
<1>. USE SentIs DEF Sending
<1>1. Counted'
  BY CountedStep
<1>2. CASE sent' = sent
  BY <1>1, <1>2 DEF UniqueCalls, CancelFollowsRequest
<1>3. ASSUME NEW n \in Calls, Send(n) PROVE Sending'
  <2>1. sent' = Append(sent, Request(n)) /\ at[n] = "blocked"
    BY <1>3 DEF Send
  <2>2. ~Requested(n)
    BY <2>1 DEF Counted
  <2>3. \A i \in DOMAIN sent : sent[i].kind = "request" => sent[i].name # n
    BY <2>2 DEF Requested, Message, Request, Cancel
  <2>4. UniqueCalls'
    BY <2>1, <2>3, SentGrows DEF UniqueCalls, Request
  <2>5. CancelFollowsRequest'
    <3>. SUFFICES ASSUME NEW i \in DOMAIN sent', sent'[i].kind = "cancel"
                  PROVE  \E j \in 1..i - 1 : sent'[j] = Request(sent'[i].name)
      BY DEF CancelFollowsRequest, Request
    <3>1. i \in DOMAIN sent /\ sent'[i] = sent[i]
      BY <2>1, SentGrows DEF Request
    <3>2. PICK j \in 1..i - 1 : sent[j] = Request(sent[i].name)
      BY <3>1 DEF CancelFollowsRequest
    <3>3. j \in DOMAIN sent
      BY <3>1
    <3>4. sent'[j] = sent[j]
      BY <2>1, <3>3, SentGrows
    <3>. QED  BY <3>1, <3>2, <3>4
  <2>. QED  BY <1>1, <2>4, <2>5
<1>4. ASSUME NEW n \in Calls, sent' = Append(sent, Cancel(n)), Requested(n) PROVE Sending'
  <2>1. UniqueCalls'
    BY <1>4, SentGrows DEF UniqueCalls, Cancel
  <2>2. CancelFollowsRequest'
    <3>. SUFFICES ASSUME NEW i \in DOMAIN sent', sent'[i].kind = "cancel"
                  PROVE  \E j \in 1..i - 1 : sent'[j] = Request(sent'[i].name)
      BY DEF CancelFollowsRequest, Request
    <3>1. CASE i \in DOMAIN sent
      <4>1. sent'[i] = sent[i]
        BY <1>4, <3>1, SentGrows
      <4>2. PICK j \in 1..i - 1 : sent[j] = Request(sent[i].name)
        BY <3>1, <4>1 DEF CancelFollowsRequest
      <4>3. j \in DOMAIN sent
        BY <3>1
      <4>4. sent'[j] = sent[j]
        BY <1>4, <4>3, SentGrows
      <4>. QED  BY <4>1, <4>2, <4>4
    <3>2. CASE i \notin DOMAIN sent
      <4>1. i = Len(sent) + 1 /\ sent'[i] = Cancel(n)
        BY <1>4, <3>2, SentGrows
      <4>2. PICK j \in DOMAIN sent : sent[j] = Request(n)
        BY <1>4 DEF Requested
      <4>3. j \in 1..i - 1 /\ sent'[j] = sent[j]
        BY <1>4, <4>1, SentGrows
      <4>. QED  BY <4>1, <4>2, <4>3 DEF Cancel
    <3>. QED  BY <3>1, <3>2
  <2>. QED  BY <1>1, <2>1, <2>2
<1>. QED  BY <1>2, <1>3, <1>4, SentMoves

LEMMA InitSending ==
  ASSUME Init
  PROVE  Sending
<1>. USE AttachmentAssumption, NamesAre
<1>1. PICK credential \in BOOLEAN :
        /\ count = InitialCount(credential)
        /\ sent = IF credential THEN <<Request(1)>> ELSE <<>>
        /\ \A n \in Calls : /\ op[n] = IF n = 1 /\ credential THEN "credential" ELSE "none"
                            /\ at[n] = IF n = 1 /\ credential THEN "waiting" ELSE "unused"
  BY DEF Init, Calls
<1>2. \A i \in DOMAIN sent : i = 1 /\ sent[i] = Request(1)
  BY <1>1
<1>3. credential => Requested(1)
  BY <1>1 DEF Requested
<1>4. ~credential => sent = <<>>
  BY <1>1
<1>5. Counted
  BY <1>1, <1>2, <1>3, <1>4 DEF Counted, Requested, Request, InitialCount
<1>6. UniqueCalls /\ CancelFollowsRequest
  BY <1>2 DEF UniqueCalls, CancelFollowsRequest, Request
<1>. QED  BY <1>5, <1>6 DEF Sending

LEMMA SendingKept == Safety => [](Typed /\ Sending)
<1>1. Init => Typed /\ Sending
  BY InitTyped, InitSending
<1>2. Typed /\ Sending /\ UNCHANGED vars => Sending'
  BY DEF vars, inner, outgoing, Sending, Counted, Requested, UniqueCalls, CancelFollowsRequest
<1>3. Typed /\ Sending /\ [Next]_vars => (Typed /\ Sending)'
  BY <1>2, TypedStep, SendingStep
<1>. QED  BY <1>1, <1>3, PTL DEF Safety

\* No two requests carry the same call identity (interface.rs:231-235, 425).
THEOREM CallsUnique == Safety => []UniqueCalls
BY SendingKept, PTL DEF Sending

\* A call is cancelled on the wire only after its request (interface.rs:256, 493).
THEOREM CancelledAfterRequest == Safety => []CancelFollowsRequest
BY SendingKept, PTL DEF Sending

-------------------------------------------------------------------------------
\* The queues.

LEMMA RequestedIs ==
  ASSUME Typed, Counted, Next, NEW n \in Calls
  PROVE  Requested(n)' <=> Requested(n) \/ Send(n)
<1>1. CASE sent' = sent /\ ~\E m \in Calls : Send(m)
  BY <1>1 DEF Requested
<1>2. ASSUME NEW m \in Calls, Send(m) PROVE Requested(n)' <=> Requested(n) \/ Send(n)
  <2>1. sent' = Append(sent, Request(m)) /\ at' = [at EXCEPT ![m] = "waiting"]
        /\ at[m] = "blocked"
    BY <1>2 DEF Send, Move
  <2>2. Requested(n)' <=> Requested(n) \/ m = n
    BY <2>1, SentGrows DEF Request
  <2>3. Send(n) => m = n
    BY <2>1, NamesAre DEF Send, Move, Typed, TypeOK, CallsType
  <2>. QED  BY <1>2, <2>2, <2>3
<1>3. ASSUME NEW m \in Calls, sent' = Append(sent, Cancel(m)), ~\E k \in Calls : Send(k)
      PROVE  Requested(n)' <=> Requested(n) \/ Send(n)
  BY <1>3, SentGrows DEF Request, Cancel
<1>. QED  BY <1>1, <1>2, <1>3, SentMoves

\* When a step other than a call's beginning takes a caller's queue away, and when it
\* moves a call and leaves it its queue.
QueuesGo ==
  /\ queues' \cap Callers \subseteq queues
  /\ \A n \in Callers : n \in queues \ queues'
       => \/ recv' # "running"
          \/ at'[n] \in {"failed", "done", "opening", "closed", "dropped", "discarded"}
  /\ \A n \in Calls : DeliveryOf(n) \in queues \ queues'
       => recv' # "running" \/ \E r \in Calls : op[r] = "release" /\ of[r] = n
  /\ \A n \in Calls : n \in queues' /\ at'[n] # at[n]
       => \/ att' = "gone"
          \/ at[n] = "blocked" /\ at'[n] \in {"waiting", "dropped"}
          \/ at[n] = "waiting" /\ op[n] = "subscribe" /\ at'[n] \in {"open", "dropped"}
          \/ at[n] = "open" /\ op[n] = "subscribe" /\ at'[n] = "completed"
          \/ at[n] = "opening"
          \/ at[n] \in {"open", "completed"} /\ op[n] # "subscribe"

LEMMA QueuesMove ==
  ASSUME Typed, Next
  PROVE  QueuesGo \/ \E n \in Calls : Begin(n) \/ BeginRelease(n)
<1>. USE NamesAre DEF Typed, TypeOK, CallsType
<1>1. ASSUME NEW n \in Callers, NEW place, Move(n, place)
      PROVE  at'[n] = place /\ \A m \in Callers : m # n => at'[m] = at[m]
  BY <1>1 DEF Move
<1>2. ASSUME NEW n \in Calls, Send(n) \/ SendFails(n) \/ DropBlocked(n) PROVE QueuesGo
  <2>1. /\ at[n] = "blocked" /\ at'[n] \in {"waiting", "failed", "dropped"}
        /\ \A m \in Callers : m # n => at'[m] = at[m]
        /\ \/ at'[n] = "failed" /\ queues' = queues \ {n}
           \/ at'[n] \in {"waiting", "dropped"} /\ queues' = queues
    BY <1>1, <1>2 DEF Send, SendFails, DropBlocked, Forget
  <2>. QED  BY <2>1 DEF QueuesGo
<1>3. ASSUME NEW n \in Calls, FirstOfSubscribe(n) \/ FirstOfStream(n) \/ FirstOfCredential(n)
      PROVE  QueuesGo
  <2>1. /\ at[n] = "waiting" /\ at'[n] \in {"open", "failed", "opening", "done"}
        /\ \A m \in Callers : m # n => at'[m] = at[m]
        /\ \/ queues' = queues \ {n} /\ at'[n] # "open"
           \/ queues' = queues /\ op[n] = "subscribe" /\ at'[n] = "open"
    BY <1>1, <1>3 DEF FirstOfSubscribe, FirstOfStream, FirstOfCredential, Answered, Forget
  <2>. QED  BY <2>1 DEF QueuesGo
<1>4. ASSUME NEW n \in Calls, FirstOfCall(n) \/ FirstDeserted(n) PROVE QueuesGo
  <2>1. /\ at[n] = "waiting" /\ at'[n] \in {"failed", "done"} /\ n \notin queues'
        /\ \A m \in Callers : m # n => at'[m] = at[m]
        /\ \/ op[n] = "release" /\ queues' \in {queues \ {DeliveryOf(of[n])},
                                                queues \ {n, DeliveryOf(of[n])}}
           \/ queues' \in {queues, queues \ {n}}
    BY <1>1, <1>4 DEF FirstOfCall, FirstDeserted, Answered, Deserted, Forget
  <2>2. op[n] = "release" => of[n] \in Calls
    BY DEF Kinds
  <2>. QED  BY <2>1, <2>2 DEF QueuesGo
<1>5. ASSUME NEW n \in Calls, DropWaiting(n) PROVE QueuesGo
  <2>1. /\ at[n] = "waiting" /\ at'[n] = "dropped"
        /\ \A m \in Callers : m # n => at'[m] = at[m]
        /\ \/ queues' = queues \ {n}
           \/ queues' = queues /\ op[n] = "subscribe"
    BY <1>1, <1>5 DEF DropWaiting, Forget
  <2>. QED  BY <2>1 DEF QueuesGo
<1>6. ASSUME NEW n \in Calls, OpenDelivery(n) PROVE QueuesGo
  <2>1. /\ at[n] = "opening" /\ at'[n] \in {"failed", "open"}
        /\ \A m \in Callers : m # n => at'[m] = at[m]
        /\ queues' = queues \/ queues' = queues \cup {DeliveryOf(n)}
    BY <1>1, <1>6 DEF OpenDelivery
  <2>. QED  BY <2>1 DEF QueuesGo
<1>7. ASSUME NEW n \in Callers, Advance(n) \/ NextDeserted(n) PROVE QueuesGo
  <2>1. /\ at[n] = "open" /\ at'[n] \in {"open", "completed"}
        /\ \A m \in Callers : m # n => at'[m] = at[m]
        /\ queues' = queues
    BY <1>1, <1>7 DEF Advance, NextDeserted
  <2>. QED  BY <2>1 DEF QueuesGo
<1>8. ASSUME NEW n \in Callers, CloseSubscription(n) \/ DropOpen(n) PROVE QueuesGo
  <2>1. /\ at'[n] \in {"closed", "discarded"}
        /\ \A m \in Callers : m # n => at'[m] = at[m]
        /\ \/ queues' = queues \ {n}
           \/ queues' = queues /\ op[n] # "subscribe" /\ at[n] \in {"open", "completed"}
    BY <1>1, <1>8 DEF CloseSubscription, DropOpen, Forget
  <2>. QED  BY <2>1 DEF QueuesGo
<1>9. CASE Close \/ CloseEnds \/ CloseDropped \/ Drop
  BY <1>9 DEF Close, CloseEnds, CloseDropped, Drop, QueuesGo
<1>10. CASE Receive
  <2>1. /\ at' = at /\ queues' = RegisteredOnArrival(Head(incoming))
    BY <1>10 DEF Receive
  <2>2. queues \subseteq queues' /\ queues' \cap Callers \subseteq queues
    BY <2>1 DEF RegisteredOnArrival
  <2>. QED  BY <2>1, <2>2 DEF QueuesGo
<1>11. CASE Return
  BY <1>11 DEF Return, QueuesGo
<1>12. CASE Core
  <2>1. UNCHANGED <<queues, at>>
    BY <1>12 DEF Core, CoreTakes, CoreEnds, Unlink, CoreAnswers, CoreWrites, CoreDelivers,
      CoreSends
  <2>. QED  BY <2>1 DEF QueuesGo
<1>13. ASSUME NEW n \in Calls, Author(n) \/ Future(n) \/ CloseSubscription(n)
       PROVE  QueuesGo \/ Begin(n) \/ BeginRelease(n)
  BY <1>13, <1>2, <1>3, <1>4, <1>5, <1>6, <1>8 DEF Author, Future
<1>14. ASSUME NEW n \in Callers, Reader(n) \/ DropOpen(n) PROVE QueuesGo
  BY <1>14, <1>7, <1>8 DEF Reader
<1>. QED  BY <1>9, <1>10, <1>11, <1>12, <1>13, <1>14 DEF Next

-------------------------------------------------------------------------------
\* The attachment's own state.

\* The credential is call 1, and attach waits for its answer.
Attaching ==
  \A n \in Calls : op[n] = "credential" =>
    n = 1 /\ (at[n] \in {"blocked", "waiting"} => at[n] = "waiting" /\ att = "attaching")

\* The task does not run again, and an attachment that is gone stays gone.
LEMMA WholeMoves ==
  ASSUME Typed, Attaching, Next
  PROVE  /\ recv' = "running" => recv = "running"
         /\ att' # "gone" => att # "gone"
         /\ att = "attaching" =>
              att' = "attaching" \/ at'[1] \notin {"blocked", "waiting"} \/ op[1] # "credential"
<1>. USE DEF Typed, TypeOK, FlagsType, CallsType
<1>1. ASSUME NEW n \in Calls, Begin(n) \/ BeginRelease(n) PROVE UNCHANGED whole
  BY <1>1, BeginIs DEF Issued
<1>2. ASSUME NEW n \in Calls, FirstOfCredential(n) \/ FirstDeserted(n)
      PROVE  UNCHANGED <<recv, att>> \/ (n = 1 /\ att = "attaching" /\ recv' = recv
                                          /\ att' # "gone" /\ at'[1] \in {"failed", "done"})
  BY <1>2, NamesAre DEF FirstOfCredential, FirstDeserted, Answered, Attaching, Move
<1>3. ASSUME NEW n \in Calls, Author(n) \/ Future(n) \/ CloseSubscription(n)
      PROVE  UNCHANGED <<recv, att>> \/ (n = 1 /\ att = "attaching" /\ recv' = recv
                                          /\ att' # "gone" /\ at'[1] \in {"failed", "done"})
  BY <1>1, <1>2, <1>3 DEF Author, DropBlocked, DropWaiting, Future, Send, SendFails,
    OpenDelivery, FirstOfCall, FirstOfSubscribe, FirstOfStream, CloseSubscription, whole
<1>4. ASSUME NEW n \in Callers, Reader(n) \/ DropOpen(n) PROVE UNCHANGED whole
  BY <1>4 DEF Reader, Advance, NextDeserted, DropOpen
<1>5. CASE Drop
  BY <1>5, AttachmentAssumption DEF Drop, Aborted, Callers
<1>6. CASE Close \/ CloseEnds \/ CloseDropped \/ Receive \/ Return
  BY <1>6 DEF Close, CloseEnds, CloseDropped, Receive, Return, Aborted, whole
<1>7. CASE Core
  BY <1>7 DEF Core, CoreTakes, CoreEnds, Unlink, CoreAnswers, CoreWrites, CoreDelivers, CoreSends,
    whole
<1>. QED  BY <1>3, <1>4, <1>5, <1>6, <1>7 DEF Next, whole

\* What a call's beginning leaves, and what it does not.
LEMMA BeginMoves ==
  ASSUME Typed, Counted, NEW n \in Calls, Begin(n) \/ BeginRelease(n)
  PROVE  /\ at[n] = "unused" /\ op[n] = "none" /\ at'[n] \in {"blocked", "failed"}
         /\ op'[n] \in {"call", "subscribe", "stream", "release"}
         /\ op'[n] = "release" =>
              of'[n] \in Calls \ {n} /\ op[of'[n]] = "stream" /\ at'[of'[n]] = "closed"
         /\ \A m \in Callers : m # n =>
              /\ op'[m] = op[m] /\ (m \in Calls => of'[m] = of[m])
              /\ \/ at'[m] = at[m]
                 \/ op[m] = "stream" /\ at[m] \in {"open", "completed"} /\ at'[m] = "closed"
         /\ queues' = IF at'[n] = "blocked" THEN queues \cup {n} ELSE queues
         /\ UNCHANGED <<att, recv, sent, lost, incoming, core, socket, ended>>
<1>. USE NamesAre DEF Typed, TypeOK, CallsType
<1>1. PICK kind \in {"call", "subscribe", "stream", "release"}, d \in Callers,
           place \in {"blocked", "failed"} : Issued(n, kind, d, place)
  BY BeginIs
<1>2. /\ n = count + 1 /\ op' = [op EXCEPT ![n] = kind] /\ of' = [of EXCEPT ![n] = d]
      /\ \A c \in Callers : at'[c] = IF c = n THEN place
                                     ELSE IF c = d /\ kind = "release" THEN "closed" ELSE at[c]
      /\ kind = "release" => d \in Calls /\ op[d] = "stream" /\ at[d] \in {"open", "completed"}
      /\ queues' = IF place = "blocked" THEN queues \cup {n} ELSE queues
      /\ UNCHANGED <<att, recv, sent, lost, incoming, core, socket, ended>>
  BY <1>1 DEF Issued, outgoing, whole, coreVars
<1>3. at[n] = "unused" /\ op[n] = "none"
  BY <1>2 DEF Counted, Calls
<1>. QED  BY <1>2, <1>3

LEMMA AttachingStep ==
  ASSUME Typed, Counted, Attaching, Next
  PROVE  Attaching'
<1>. SUFFICES ASSUME NEW n \in Calls, op'[n] = "credential"
              PROVE  n = 1 /\ (at'[n] \in {"blocked", "waiting"}
                                 => at'[n] = "waiting" /\ att' = "attaching")
  BY DEF Attaching
<1>. USE NamesAre
<1>1. ASSUME NEW m \in Calls, Begin(m) \/ BeginRelease(m)
      PROVE  op'[n] = op[n] /\ (at'[n] = at[n] \/ at'[n] = "closed") /\ att' = att
  BY <1>1, BeginMoves
<1>2. CASE \E m \in Calls : Begin(m) \/ BeginRelease(m)
  BY <1>1, <1>2 DEF Attaching
<1>3. CASE ~\E m \in Calls : Begin(m) \/ BeginRelease(m)
  <2>1. op' = op /\ (at'[n] = at[n] \/ Goes(n, at[n], at'[n]))
    BY <1>3, BeginAlone, CallsMove DEF Going, Typed, TypeOK
  <2>2. n = 1 /\ (at'[n] \in {"blocked", "waiting"} => at'[n] = at[n])
    BY <2>1 DEF Attaching, Goes
  <2>. QED  BY <2>1, <2>2, WholeMoves DEF Attaching
<1>. QED  BY <1>2, <1>3

-------------------------------------------------------------------------------
\* The queues that are kept, and those that are given back.

\* While the task runs, who waits on a queue has it; what is open or opening is of its
\* kind, and a delivery somebody releases is closed.
Queued ==
  /\ recv = "running" => \A n \in Callers :
       at[n] \in {"blocked", "waiting"} \/ (at[n] = "open" /\ op[n] \in {"subscribe", "standing"})
         => n \in queues
  /\ \A n \in Callers : /\ at[n] = "open" => op[n] \in {"subscribe", "standing", "stream"}
                        /\ at[n] = "opening" => op[n] = "stream"
  /\ \A n \in Calls : op[n] = "release" => op[of[n]] = "stream" /\ at[of[n]] = "closed"

\* A call that has its queue is on it, or is over where nothing gives it back.
GivenBack ==
  att # "gone" => \A n \in Calls \cap queues :
    \/ at[n] \in {"blocked", "waiting"}
    \/ op[n] = "subscribe" /\ at[n] \in {"open", "completed"}
    \/ at[n] = "dropped" /\ (op[n] = "subscribe" \/ ~Requested(n))

\* A step that is no call's beginning, in one place.
LEMMA Elsewhere ==
  ASSUME Typed, Next, ~\E n \in Calls : Begin(n) \/ BeginRelease(n)
  PROVE  UNCHANGED <<count, op, of>> /\ Going /\ QueuesGo
BY BeginAlone, CallsMove, QueuesMove DEF Typed, TypeOK

LEMMA QueuedStep ==
  ASSUME Typed, Counted, Attaching, Queued, Next
  PROVE  Queued'
<1>. USE NamesAre, WholeMoves
<1>1. ASSUME NEW n \in Calls, Begin(n) \/ BeginRelease(n) PROVE Queued'
  <2>. USE <1>1, BeginMoves
  <2>1. ASSUME NEW m \in Callers
        PROVE  /\ recv' = "running" =>
                    (at'[m] \in {"blocked", "waiting"}
                       \/ (at'[m] = "open" /\ op'[m] \in {"subscribe", "standing"})
                     => m \in queues')
               /\ at'[m] = "open" => op'[m] \in {"subscribe", "standing", "stream"}
               /\ at'[m] = "opening" => op'[m] = "stream"
    BY DEF Queued
  <2>2. ASSUME NEW m \in Calls, op'[m] = "release"
        PROVE  op'[of'[m]] = "stream" /\ at'[of'[m]] = "closed"
    <3>1. CASE m = n
      BY <2>2, <3>1
    <3>2. CASE m # n
      <4>1. op[m] = "release" /\ of'[m] = of[m]
        BY <2>2, <3>2
      <4>2. of[m] \in Calls /\ op[of[m]] = "stream" /\ at[of[m]] = "closed"
        BY <4>1 DEF Queued, Typed, Kinds
      <4>3. of[m] # n
        BY <4>2
      <4>. QED  BY <4>1, <4>2, <4>3
    <3>. QED  BY <3>1, <3>2
  <2>. QED  BY <2>1, <2>2 DEF Queued
<1>2. CASE ~\E n \in Calls : Begin(n) \/ BeginRelease(n)
  <2>1. UNCHANGED <<count, op, of>> /\ Going /\ QueuesGo
    BY <1>2, Elsewhere
  <2>2. ASSUME NEW m \in Callers
        PROVE  /\ recv' = "running" =>
                    (at'[m] \in {"blocked", "waiting"}
                       \/ (at'[m] = "open" /\ op[m] \in {"subscribe", "standing"})
                     => m \in queues')
               /\ at'[m] = "open" => op[m] \in {"subscribe", "standing", "stream"}
               /\ at'[m] = "opening" => op[m] = "stream"
    <3>1. at'[m] = at[m] \/ Goes(m, at[m], at'[m])
      BY <2>1 DEF Going
    <3>2. at'[m] \in {"blocked", "waiting"} => at[m] \in {"blocked", "waiting"}
      BY <3>1 DEF Goes
    <3>3. at'[m] = "open" =>
            at[m] \in {"open", "opening"} \/ (at[m] = "waiting" /\ op[m] = "subscribe")
      BY <3>1 DEF Goes
    <3>4. at'[m] = "opening" => at[m] = "opening" \/ op[m] = "stream"
      BY <3>1 DEF Goes
    <3>5. m \in queues /\ recv' = "running" /\ at'[m] \in {"blocked", "waiting", "open"}
            => m \in queues'
      BY <2>1 DEF QueuesGo
    <3>. QED  BY <3>2, <3>3, <3>4, <3>5 DEF Queued
  <2>3. ASSUME NEW m \in Calls, op[m] = "release"
        PROVE  op[of[m]] = "stream" /\ at'[of[m]] = "closed"
    <3>1. of[m] \in Calls /\ op[of[m]] = "stream" /\ at[of[m]] = "closed"
      BY <2>3 DEF Queued, Typed, Kinds
    <3>2. at'[of[m]] = at[of[m]] \/ Goes(of[m], at[of[m]], at'[of[m]])
      BY <2>1, <3>1 DEF Going
    <3>. QED  BY <3>1, <3>2 DEF Goes
  <2>. QED  BY <2>1, <2>2, <2>3 DEF Queued
<1>. QED  BY <1>1, <1>2

LEMMA GivenBackStep ==
  ASSUME Typed, Counted, Attaching, GivenBack, Next
  PROVE  GivenBack'
<1>. SUFFICES ASSUME att' # "gone", NEW n \in Calls, n \in queues'
              PROVE  \/ at'[n] \in {"blocked", "waiting"}
                     \/ op'[n] = "subscribe" /\ at'[n] \in {"open", "completed"}
                     \/ at'[n] = "dropped" /\ (op'[n] = "subscribe" \/ ~Requested(n)')
  BY DEF GivenBack
<1>. USE NamesAre
<1>1. n \in queues =>
        \/ at[n] \in {"blocked", "waiting"}
        \/ op[n] = "subscribe" /\ at[n] \in {"open", "completed"}
        \/ at[n] = "dropped" /\ (op[n] = "subscribe" \/ ~Requested(n))
  BY WholeMoves DEF GivenBack
<1>2. ASSUME NEW m \in Calls, Begin(m) \/ BeginRelease(m)
      PROVE  \/ at'[n] \in {"blocked", "waiting"}
             \/ op'[n] = "subscribe" /\ at'[n] \in {"open", "completed"}
             \/ at'[n] = "dropped" /\ (op'[n] = "subscribe" \/ ~Requested(n)')
  <2>1. CASE n = m
    <3>1. n \notin queues
      BY <1>1, <1>2, <2>1, BeginMoves
    <3>. QED  BY <1>2, <2>1, <3>1, BeginMoves
  <2>2. CASE n # m
    <3>1. n \in queues /\ op'[n] = op[n] /\ sent' = sent
          /\ (at'[n] = at[n] \/ (op[n] = "stream" /\ at[n] \in {"open", "completed"}))
      BY <1>2, <2>2, BeginMoves
    <3>2. Requested(n)' <=> Requested(n)
      BY <3>1 DEF Requested
    <3>. QED  BY <1>1, <3>1, <3>2
  <2>. QED  BY <2>1, <2>2
<1>3. CASE ~\E m \in Calls : Begin(m) \/ BeginRelease(m)
  <2>1. UNCHANGED <<count, op, of>> /\ QueuesGo
    BY <1>3, Elsewhere
  <2>2. n \in queues
    BY <2>1 DEF QueuesGo
  <2>3. Send(n) => at[n] = "blocked" /\ at'[n] = "waiting"
    BY DEF Send, Move, Typed, TypeOK, CallsType
  <2>4. Requested(n)' <=> Requested(n) \/ Send(n)
    BY RequestedIs
  <2>5. CASE at'[n] = at[n]
    BY <1>1, <2>1, <2>2, <2>3, <2>4, <2>5
  <2>6. CASE at'[n] # at[n]
    <3>1. at[n] = "blocked" => ~Requested(n)
      BY DEF Counted
    <3>. QED  BY <1>1, <2>1, <2>2, <2>3, <2>4, <2>6, <3>1 DEF QueuesGo
  <2>. QED  BY <2>5, <2>6
<1>. QED  BY <1>2, <1>3

-------------------------------------------------------------------------------
\* The frames.

Over(n) == at[n] \in {"closed", "completed", "done", "failed", "dropped", "discarded"}

\* A frame of n's delivery behind k others finds its queue when it comes, if anybody is
\* on it: it is there, or the answer that makes it is among the k.
Coming(n, k) ==
  \/ Over(n) \/ recv # "running"
  \/ DeliveryOf(n) \in queues
  \/ \E j \in 1..k : incoming[j] = [name |-> n, kind |-> "answer"]

\* What the Core knows of has been sent, and it sends nothing else.
Known ==
  /\ \A n \in Callers : core[n] # "unknown" => at[n] \notin {"unused", "blocked"}
  /\ \A k \in DOMAIN incoming : \A n \in Callers :
       incoming[k].name = n => at[n] \notin {"unused", "blocked"}

\* A delivery's frames follow the answer that opens it.
Ordered ==
  /\ \A n \in Calls : core[n] = "answered" /\ op[n] = "stream" /\ n \notin socket
       => Coming(n, Len(incoming))
  /\ \A k \in DOMAIN incoming : \A n \in Calls :
       incoming[k].name = DeliveryOf(n) => op[n] = "stream" /\ Coming(n, k - 1)

\* What found no queue was of a call that is over, or of a stream's call whose answer
\* has been taken.
Lost ==
  /\ \A n \in Callers \cap lost :
       Over(n) \/ (op[n] = "stream" /\ at[n] \in {"opening", "open"})
  /\ \A n \in Calls : DeliveryOf(n) \in lost => Over(n)

\* A call that is over does not go on.
LEMMA StaysOver ==
  ASSUME Typed, Counted, Next, NEW n \in Callers, Over(n)
  PROVE  Over(n)'
<1>1. ASSUME NEW m \in Calls, Begin(m) \/ BeginRelease(m) PROVE Over(n)'
  BY <1>1, BeginMoves DEF Over
<1>2. CASE ~\E m \in Calls : Begin(m) \/ BeginRelease(m)
  <2>1. at'[n] = at[n] \/ Goes(n, at[n], at'[n])
    BY <1>2, Elsewhere DEF Going
  <2>. QED  BY <2>1 DEF Over, Goes
<1>. QED  BY <1>1, <1>2

\* A call whose request is not in its send any more does not come back to it.
LEMMA StaysSent ==
  ASSUME Typed, Counted, Next, NEW n \in Callers, at[n] \notin {"unused", "blocked"}
  PROVE  at'[n] \notin {"unused", "blocked"}
<1>1. ASSUME NEW m \in Calls, Begin(m) \/ BeginRelease(m)
      PROVE  at'[n] \notin {"unused", "blocked"}
  BY <1>1, BeginMoves
<1>2. CASE ~\E m \in Calls : Begin(m) \/ BeginRelease(m)
  <2>1. at'[n] = at[n] \/ Goes(n, at[n], at'[n])
    BY <1>2, Elsewhere DEF Going
  <2>. QED  BY <2>1 DEF Goes
<1>. QED  BY <1>1, <1>2

\* A call's kind does not change once its request has gone.
LEMMA StaysOfKind ==
  ASSUME Typed, Counted, Next, NEW n \in Callers, at[n] # "unused"
  PROVE  op'[n] = op[n]
BY BeginAlone, BeginMoves

LEMMA IncomingIs ==
  ASSUME Typed, Next
  PROVE  \/ incoming' = incoming
         \/ Receive
         \/ \E f \in Frame : /\ incoming' = Append(incoming, f)
                             /\ \/ \E n \in Calls : CoreAnswers(n) /\ f.name = n
                                \/ \E n \in Callers : CoreDelivers(n) /\ f.name = NameOf(n)
<1>. USE NamesAre
<1>1. ASSUME NEW n \in Calls, CoreAnswers(n)
      PROVE  \E f \in Frame : incoming' = Append(incoming, f) /\ f.name = n
  <2>1. PICK kind \in {"answer", "socket", "wrong", "refusal"} :
          CoreSends([name |-> n, kind |-> kind])
    BY <1>1 DEF CoreAnswers
  <2>. QED  BY <2>1, FrameIs DEF CoreSends
<1>2. ASSUME NEW n \in Callers, CoreDelivers(n)
      PROVE  \E f \in Frame : incoming' = Append(incoming, f) /\ f.name = NameOf(n)
  <2>1. PICK kind \in {"item", "completion"} : CoreSends([name |-> NameOf(n), kind |-> kind])
    BY <1>2 DEF CoreDelivers
  <2>. QED  BY <2>1, FrameIs DEF CoreSends
<1>3. CASE ~Core
  BY <1>3, CoreAlone
<1>4. CASE Core
  BY <1>1, <1>2, <1>4, CoreIs
<1>. QED  BY <1>3, <1>4

LEMMA CoreLeaves ==
  ASSUME Core
  PROVE  UNCHANGED <<op, at, of, queues, lost, recv>>
BY DEF Core, CoreTakes, CoreEnds, Unlink, CoreAnswers, CoreWrites, CoreDelivers, CoreSends, whole

LEMMA NameIs ==
  ASSUME Typed, NEW n \in Callers
  PROVE  \/ NameOf(n) = n /\ op[n] # "stream"
         \/ n \in Calls /\ op[n] = "stream" /\ NameOf(n) = DeliveryOf(n)
BY DEF Typed, Kinds, NameOf, Calls, Callers

\* What the Core comes to know was sent.
LEMMA CoreLearns ==
  ASSUME Typed, Counted, Known, Next, NEW n \in Callers, core'[n] # "unknown"
  PROVE  at[n] \notin {"unused", "blocked"}
<1>. USE NamesAre DEF Typed, TypeOK, CoreType
<1>1. CASE CoreTakes
  <2>. DEFINE f == Head(buffer)
  <2>1. buffer \in Seq(Elements(sent)) /\ buffer # <<>>
    BY <1>1 DEF CoreTakes, OutgoingType, Elements
  <2>2. f \in Elements(sent)
    BY <2>1
  <2>3. PICK i \in DOMAIN sent : sent[i] = f
    BY <2>2 DEF Elements
  <2>4. f \in Message
    BY <2>3, SentIs
  <2>5. core' = IF f.kind = "request" THEN [core EXCEPT ![f.name] = "asked"] ELSE core
    BY <1>1 DEF CoreTakes
  <2>. HIDE DEF f
  <2>6. CASE core'[n] = core[n]
    BY <2>6 DEF Known
  <2>7. CASE core'[n] # core[n]
    <3>1. f.kind = "request" /\ n = f.name
      BY <2>5, <2>7
    <3>2. PICK m \in Calls : f = Request(m)
      BY <2>4, <3>1 DEF Message, Request, Cancel
    <3>3. m = n /\ Requested(n)
      BY <2>3, <3>1, <3>2 DEF Request, Requested
    <3>. QED  BY <3>2, <3>3 DEF Counted
  <2>. QED  BY <2>6, <2>7
<1>2. CASE ~CoreTakes
  <2>1. core' = core \/ \E m \in Callers : /\ CoreWrites(m) \/ CoreAnswers(m) \/ CoreDelivers(m)
                                          /\ \A k \in Callers : k # m => core'[k] = core[k]
                                          /\ core[m] # "unknown"
    BY <1>2, CoreAlone DEF Core, CoreEnds, Unlink, CoreWrites, CoreAnswers, CoreDelivers, coreVars
  <2>. QED  BY <2>1 DEF Known
<1>. QED  BY <1>1, <1>2

LEMMA KnownStep ==
  ASSUME Typed, Counted, Known, Next
  PROVE  Known'
<1>. USE NamesAre
<1>1. \A n \in Callers : core'[n] # "unknown" => at'[n] \notin {"unused", "blocked"}
  BY CoreLearns, StaysSent
<1>2. ASSUME NEW k \in DOMAIN incoming', NEW n \in Callers, incoming'[k].name = n
      PROVE  at'[n] \notin {"unused", "blocked"}
  <2>0. incoming \in Seq(Frame)
    BY DEF Typed, TypeOK, CoreType
  <2>1. CASE incoming' = incoming
    BY <1>2, <2>1, StaysSent DEF Known
  <2>2. CASE Receive
    <3>1. incoming' = Tail(incoming) /\ incoming # <<>>
      BY <2>2 DEF Receive
    <3>2. k + 1 \in DOMAIN incoming /\ incoming'[k] = incoming[k + 1]
      BY <2>0, <3>1
    <3>. QED  BY <1>2, <3>2, StaysSent DEF Known
  <2>3. ASSUME NEW f \in Frame, incoming' = Append(incoming, f),
               \/ \E m \in Calls : CoreAnswers(m) /\ f.name = m
               \/ \E m \in Callers : CoreDelivers(m) /\ f.name = NameOf(m)
        PROVE  at'[n] \notin {"unused", "blocked"}
    <3>1. CASE k \in DOMAIN incoming
      <4>1. incoming'[k] = incoming[k]
        BY <2>0, <2>3, <3>1
      <4>. QED  BY <1>2, <3>1, <4>1, StaysSent DEF Known
    <3>2. CASE k \notin DOMAIN incoming
      <4>1. incoming'[k] = f
        BY <2>0, <2>3, <3>2
      <4>2. PICK m \in Callers : f.name \in {m, NameOf(m)} /\ core[m] # "unknown"
        BY <2>3 DEF CoreAnswers, CoreDelivers
      <4>3. m = n
        BY <1>2, <4>1, <4>2, NameIs
      <4>. QED  BY <4>2, <4>3, StaysSent DEF Known
    <3>. QED  BY <3>1, <3>2
  <2>. QED  BY <2>1, <2>2, <2>3, IncomingIs
<1>. QED  BY <1>1, <1>2 DEF Known

LEMMA StaysStream ==
  ASSUME Typed, Counted, Next, NEW n \in Calls, op[n] = "stream"
  PROVE  op'[n] = "stream"
BY NamesAre, BeginAlone, BeginMoves

\* The queue of a delivery is there until it is released, or the task returns.
LEMMA StaysThere ==
  ASSUME Typed, Counted, Attaching, Queued, Next, NEW n \in Calls,
         Over(n) \/ recv # "running" \/ DeliveryOf(n) \in queues
  PROVE  Over(n)' \/ recv' # "running" \/ DeliveryOf(n) \in queues'
<1>. USE NamesAre
<1>1. CASE Over(n)
  BY <1>1, StaysOver
<1>2. CASE recv # "running"
  BY <1>2, WholeMoves
<1>3. CASE DeliveryOf(n) \in queues
  <2>1. ASSUME NEW m \in Calls, Begin(m) \/ BeginRelease(m) PROVE DeliveryOf(n) \in queues'
    BY <1>3, <2>1, BeginMoves
  <2>2. CASE ~\E m \in Calls : Begin(m) \/ BeginRelease(m)
    <3>1. QueuesGo
      BY <2>2, Elsewhere
    <3>2. ASSUME NEW r \in Calls, op[r] = "release", of[r] = n PROVE Over(n)'
      BY <3>2, StaysOver DEF Queued, Over
    <3>. QED  BY <1>3, <3>1, <3>2 DEF QueuesGo
  <2>. QED  BY <2>1, <2>2
<1>. QED  BY <1>1, <1>2, <1>3

\* The frames before a delivery's go on coming, as the task takes one or the Core sends one.
LEMMA StaysComing ==
  ASSUME Typed, Counted, Attaching, Queued, Next, NEW n \in Calls, op[n] = "stream",
         NEW k \in 0..Len(incoming), Coming(n, k)
  PROVE  /\ ~Receive => Coming(n, k)'
         /\ Receive /\ k # 0 => Coming(n, k - 1)'
<1>. DEFINE answer == [name |-> n, kind |-> "answer"]
<1>. USE NamesAre
<1>1. incoming \in Seq(Frame)
  BY DEF Typed, TypeOK, CoreType
<1>2. CASE Over(n) \/ recv # "running" \/ DeliveryOf(n) \in queues
  BY <1>2, StaysThere DEF Coming
<1>3. ASSUME NEW j \in 1..k, incoming[j] = answer
      PROVE  /\ ~Receive => Coming(n, k)'
             /\ Receive /\ k # 0 => Coming(n, k - 1)'
  <2>. HIDE DEF answer
  <2>1. CASE ~Receive
    <3>1. incoming' = incoming \/ \E f \in Frame : incoming' = Append(incoming, f)
      BY <2>1, IncomingIs
    <3>2. incoming'[j] = incoming[j]
      BY <1>1, <3>1
    <3>. QED  BY <1>3, <2>1, <3>2 DEF Coming, answer
  <2>2. CASE Receive
    <3>1. incoming # <<>> /\ incoming' = Tail(incoming)
          /\ queues' = RegisteredOnArrival(Head(incoming))
      BY <2>2 DEF Receive
    <3>2. CASE j = 1
      <4>1. Head(incoming) = answer
        BY <1>1, <1>3, <3>1, <3>2
      <4>2. DeliveryOf(n) \in queues'
        BY <3>1, <4>1 DEF RegisteredOnArrival, answer
      <4>. QED  BY <2>2, <4>2 DEF Coming
    <3>3. CASE j # 1
      <4>1. j - 1 \in 1..k - 1 /\ incoming'[j - 1] = incoming[j]
        BY <1>1, <3>1, <3>3
      <4>. QED  BY <1>3, <2>2, <4>1 DEF Coming, answer
    <3>. QED  BY <3>2, <3>3
  <2>. QED  BY <2>1, <2>2
<1>. QED  BY <1>2, <1>3 DEF Coming

LEMMA OrderedStep ==
  ASSUME Typed, Counted, Attaching, Queued, Known, Ordered, Next
  PROVE  Ordered'
<1>. USE NamesAre
<1>1. incoming \in Seq(Frame) /\ Len(incoming) \in Nat /\ DOMAIN incoming = 1..Len(incoming)
  BY DEF Typed, TypeOK, CoreType
<1>2. ASSUME NEW n \in Calls, op[n] = "stream", Coming(n, Len(incoming))
      PROVE  Coming(n, Len(incoming))'
  <2>0. PICK k \in Nat : k = Len(incoming)
    BY <1>1
  <2>1. PICK l \in Nat : l = Len(incoming')
    BY IncomingIs, <1>1 DEF Receive
  <2>2. Coming(n, k) /\ k \in 0..Len(incoming)
    BY <1>2, <2>0
  <2>3. CASE Receive
    <3>1. k # 0 /\ l = k - 1
      BY <1>1, <2>0, <2>1, <2>3 DEF Receive
    <3>2. Coming(n, l)'
      BY <1>2, <2>2, <2>3, <3>1, StaysComing
    <3>. QED  BY <2>1, <3>2 DEF Coming
  <2>4. CASE ~Receive
    <3>1. Coming(n, k)'
      BY <1>2, <2>2, <2>4, StaysComing
    <3>2. k <= l
      <4>1. incoming' = incoming \/ \E f \in Frame : incoming' = Append(incoming, f)
        BY <2>4, IncomingIs
      <4>. QED  BY <1>1, <2>0, <2>1, <4>1
    <3>3. Coming(n, l)'
      BY <3>1, <3>2 DEF Coming
    <3>. QED  BY <2>1, <3>3 DEF Coming
  <2>. QED  BY <2>3, <2>4
<1>3. ASSUME NEW n \in Calls, core'[n] = "answered", op'[n] = "stream", n \notin socket'
      PROVE  Coming(n, Len(incoming))'
  <2>1. CASE core[n] = "answered"
    <3>1. n \notin socket
      BY <1>3, CoreAlone, CoreIs DEF CoreAnswers
    <3>2. op[n] = "stream"
      BY <1>3, <2>1, StaysOfKind DEF Known
    <3>. QED  BY <1>2, <2>1, <3>1, <3>2 DEF Ordered
  <2>2. CASE core[n] # "answered"
    <3>1. \E m \in Calls : CoreAnswers(m)
      BY <1>3, <2>2, CoreAlone, CoreIs DEF CoreTakes, CoreWrites, CoreDelivers, Typed, TypeOK,
        CoreType
    <3>2. PICK m \in Calls : CoreAnswers(m)
      BY <3>1
    <3>3. PICK kind \in {"answer", "socket", "wrong", "refusal"} :
            /\ CoreSends([name |-> m, kind |-> kind])
            /\ socket' = IF kind = "socket" THEN socket \cup {m} ELSE socket
            /\ core' = [core EXCEPT ![m] = IF kind \in {"answer", "socket"} THEN "answered"
                                           ELSE "over"]
      BY <3>2 DEF CoreAnswers
    <3>4. m = n /\ kind = "answer"
      BY <1>3, <2>2, <3>3 DEF Typed, TypeOK, CoreType
    <3>. DEFINE answer == [name |-> n, kind |-> "answer"]
    <3>5. incoming' = Append(incoming, answer)
      BY <3>3, <3>4 DEF CoreSends
    <3>. HIDE DEF answer
    <3>6. Len(incoming') \in 1..Len(incoming') /\ incoming'[Len(incoming')] = answer
      BY <1>1, <3>5
    <3>. QED  BY <3>6 DEF Coming, answer
  <2>. QED  BY <2>1, <2>2
<1>4. ASSUME NEW k \in DOMAIN incoming', NEW n \in Calls, incoming'[k].name = DeliveryOf(n)
      PROVE  op'[n] = "stream" /\ Coming(n, k - 1)'
  <2>1. CASE Receive
    <3>1. incoming' = Tail(incoming) /\ incoming # <<>>
      BY <2>1 DEF Receive
    <3>2. k + 1 \in DOMAIN incoming /\ incoming'[k] = incoming[k + 1]
          /\ k \in 0..Len(incoming) /\ k # 0 /\ (k + 1) - 1 = k
      BY <1>1, <3>1
    <3>3. op[n] = "stream" /\ Coming(n, k)
      BY <1>4, <3>2 DEF Ordered
    <3>. QED  BY <2>1, <3>2, <3>3, StaysComing, StaysStream
  <2>2. CASE ~Receive /\ k \in DOMAIN incoming
    <3>1. incoming' = incoming \/ \E f \in Frame : incoming' = Append(incoming, f)
      BY <2>2, IncomingIs
    <3>2. incoming'[k] = incoming[k] /\ k - 1 \in 0..Len(incoming)
      BY <1>1, <2>2, <3>1
    <3>3. op[n] = "stream" /\ Coming(n, k - 1)
      BY <1>4, <2>2, <3>2 DEF Ordered
    <3>. QED  BY <2>2, <3>2, <3>3, StaysComing, StaysStream
  <2>3. CASE ~Receive /\ k \notin DOMAIN incoming
    <3>1. PICK f \in Frame : /\ incoming' = Append(incoming, f)
                             /\ \/ \E m \in Calls : CoreAnswers(m) /\ f.name = m
                                \/ \E m \in Callers : CoreDelivers(m) /\ f.name = NameOf(m)
      BY <2>3, IncomingIs
    <3>2. k = Len(incoming) + 1 /\ incoming'[k] = f
      BY <1>1, <2>3, <3>1
    <3>3. PICK m \in Callers : CoreDelivers(m) /\ NameOf(m) = DeliveryOf(n)
      BY <1>4, <3>1, <3>2
    <3>4. m = n /\ op[n] = "stream"
      BY <3>3, NameIs
    <3>5. Coming(n, Len(incoming))
      BY <3>3, <3>4 DEF CoreDelivers, Ordered
    <3>6. k - 1 = Len(incoming) /\ k - 1 \in 0..Len(incoming)
      BY <1>1, <3>2
    <3>7. Coming(n, k - 1)
      BY <3>5, <3>6
    <3>. QED  BY <2>3, <3>4, <3>6, <3>7, StaysComing, StaysStream
  <2>. QED  BY <2>1, <2>2, <2>3
<1>. QED  BY <1>3, <1>4 DEF Ordered

LEMMA LostIs ==
  ASSUME Typed, Counted, Next, ~Receive
  PROVE  lost' = lost
<1>1. ASSUME NEW n \in Calls, Author(n) \/ Future(n) \/ CloseSubscription(n) PROVE lost' = lost
  BY <1>1, BeginMoves DEF Author, DropBlocked, DropWaiting, Future, Send, SendFails,
    OpenDelivery, FirstOfCall, FirstOfSubscribe, FirstOfStream, FirstOfCredential,
    FirstDeserted, CloseSubscription
<1>2. ASSUME NEW n \in Callers, Reader(n) \/ DropOpen(n) PROVE lost' = lost
  BY <1>2 DEF Reader, Advance, NextDeserted, DropOpen
<1>3. Close => lost' = lost
  BY DEF Close
<1>4. CloseEnds \/ CloseDropped => lost' = lost
  BY DEF CloseEnds, CloseDropped
<1>5. Drop => lost' = lost
  BY DEF Drop
<1>6. Return => lost' = lost
  BY DEF Return
<1>7. Core => lost' = lost
  BY CoreLeaves
<1>. QED  BY <1>1, <1>2, <1>3, <1>4, <1>5, <1>6, <1>7 DEF Next

LEMMA LostStep ==
  ASSUME Typed, Counted, Attaching, Queued, Known, Ordered, Lost, Next
  PROVE  Lost'
<1>. USE NamesAre
<1>1. ASSUME NEW n \in Callers,
             Over(n) \/ (op[n] = "stream" /\ at[n] \in {"opening", "open"})
      PROVE  Over(n)' \/ (op'[n] = "stream" /\ at'[n] \in {"opening", "open"})
  <2>1. CASE Over(n)
    BY <2>1, StaysOver
  <2>2. CASE op[n] = "stream" /\ at[n] \in {"opening", "open"}
    <3>1. op'[n] = "stream"
      BY <2>2, StaysOfKind
    <3>2. ASSUME NEW m \in Calls, Begin(m) \/ BeginRelease(m)
          PROVE  at'[n] \in {at[n], "closed"}
      BY <2>2, <3>2, BeginMoves
    <3>3. CASE ~\E m \in Calls : Begin(m) \/ BeginRelease(m)
      <4>1. at'[n] = at[n] \/ Goes(n, at[n], at'[n])
        BY <3>3, Elsewhere DEF Going
      <4>. QED  BY <2>2, <3>1, <4>1 DEF Goes, Over
    <3>. QED  BY <2>2, <3>1, <3>2, <3>3 DEF Over
  <2>. QED  BY <1>1, <2>1, <2>2
<1>2. ASSUME lost' = lost PROVE Lost'
  BY <1>1, <1>2, StaysOver DEF Lost
<1>3. CASE Receive /\ lost' # lost
  <2>. DEFINE f == Head(incoming)
  <2>1. /\ recv = "running" /\ incoming # <<>> /\ UNCHANGED <<op, at>>
        /\ queues' = RegisteredOnArrival(f) /\ f.name \notin queues'
        /\ lost' = lost \cup {f.name}
    BY <1>3 DEF Receive
  <2>2. f = incoming[1] /\ 1 \in DOMAIN incoming
    BY <2>1 DEF Typed, TypeOK, CoreType
  <2>3. f.name \notin queues
    BY <2>1 DEF RegisteredOnArrival
  <2>4. ASSUME NEW n \in Callers, n = f.name
        PROVE  Over(n) \/ (op[n] = "stream" /\ at[n] \in {"opening", "open"})
    <3>1. at[n] \notin {"unused", "blocked"}
      BY <2>2, <2>4 DEF Known
    <3>2. at[n] \in {"waiting", "opening", "open", "closed", "completed", "done", "failed",
                     "dropped", "discarded"}
      BY <3>1 DEF Typed, TypeOK, CallsType, Places, InProgress
    <3>3. at[n] # "waiting" /\ (at[n] \in {"opening", "open"} => op[n] = "stream")
      BY <2>1, <2>3, <2>4 DEF Queued
    <3>. QED  BY <3>2, <3>3 DEF Over
  <2>5. ASSUME NEW n \in Calls, DeliveryOf(n) = f.name PROVE Over(n)
    <3>1. Coming(n, 1 - 1)
      BY <2>2, <2>5 DEF Ordered
    <3>. QED  BY <2>1, <2>3, <2>5, <3>1 DEF Coming
  <2>. HIDE DEF f
  <2>6. ASSUME NEW n \in Callers \cap lost'
        PROVE  Over(n)' \/ (op'[n] = "stream" /\ at'[n] \in {"opening", "open"})
    BY <2>1, <2>4, <1>1 DEF Lost
  <2>7. ASSUME NEW n \in Calls, DeliveryOf(n) \in lost' PROVE Over(n)'
    BY <2>1, <2>5, <2>7, StaysOver DEF Lost
  <2>. QED  BY <2>6, <2>7 DEF Lost
<1>4. CASE ~Receive
  BY <1>2, <1>4, LostIs
<1>. QED  BY <1>2, <1>3, <1>4

-------------------------------------------------------------------------------
\* Together.

\* The inductive invariant of an attachment.
IInv ==
  /\ Typed /\ Sending /\ Attaching
  /\ Queued /\ GivenBack
  /\ Known /\ Ordered /\ Lost

LEMMA InitIInv ==
  ASSUME Init
  PROVE  IInv
<1>. USE AttachmentAssumption, NamesAre
<1>1. PICK credential \in BOOLEAN, standing \in BOOLEAN :
        /\ queues = {n \in {0, 1} : IF n = 1 /\ credential THEN TRUE
                                    ELSE IF n = 0 /\ standing THEN TRUE ELSE FALSE}
        /\ att = IF credential THEN "attaching" ELSE "attached"
        /\ recv = "running"
        /\ \A n \in Callers :
             /\ op[n] = IF n = 1 /\ credential THEN "credential"
                        ELSE IF n = 0 /\ standing THEN "standing" ELSE "none"
             /\ at[n] = IF n = 1 /\ credential THEN "waiting"
                        ELSE IF n = 0 /\ standing THEN "open" ELSE "unused"
             /\ core[n] = IF n = 1 /\ credential THEN "unknown"
                          ELSE IF n = 0 /\ standing THEN "answered" ELSE "unknown"
        /\ incoming = <<>> /\ lost = {}
  BY DEF Init
<1>2. \A n \in Calls : n # 0
  BY DEF Calls
<1>3. Attaching
  BY <1>1, <1>2 DEF Attaching
<1>4. Queued /\ GivenBack
  BY <1>1, <1>2 DEF Queued, GivenBack
<1>5. Known /\ Ordered /\ Lost
  <2>1. DOMAIN incoming = {}
    BY <1>1
  <2>. QED  BY <1>1, <1>2, <2>1 DEF Known, Ordered, Lost
<1>. QED  BY <1>3, <1>4, <1>5, InitTyped, InitSending DEF IInv

LEMMA IInvStep == IInv /\ [Next]_vars => IInv'
<1>. SUFFICES ASSUME IInv, [Next]_vars PROVE IInv'
  OBVIOUS
<1>1. CASE Next
  BY <1>1, TypedStep, SendingStep, AttachingStep, QueuedStep, GivenBackStep, KnownStep,
    OrderedStep, LostStep DEF IInv, Sending
<1>2. CASE UNCHANGED vars
  <2>1. UNCHANGED <<inner, queues, chan, outgoing, whole, op, at, of, socket, coreVars, lost>>
    BY <1>2 DEF vars
  <2>2. Sending'
    BY <2>1 DEF inner, outgoing, IInv, Sending, Counted, Requested, UniqueCalls,
      CancelFollowsRequest
  <2>3. Attaching' /\ Queued' /\ GivenBack'
    BY <2>1 DEF outgoing, whole, IInv, Attaching, Queued, GivenBack, Requested
  <2>4. Known' /\ Ordered' /\ Lost'
    BY <2>1 DEF whole, coreVars, IInv, Known, Ordered, Lost, Coming, Over
  <2>. QED  BY <1>2, <2>2, <2>3, <2>4, TypedStep DEF IInv
<1>. QED  BY <1>1, <1>2

LEMMA AttachmentInvariant == Safety => []IInv
<1>1. Init => IInv
  BY InitIInv
<1>. QED  BY <1>1, IInvStep, PTL DEF Safety

\* No frame comes for a call, a subscription or a delivery somebody is on and finds no
\* queue: an answer cannot outrun its call's registration, nor a delivery's first frame
\* the delivery's (interface.rs:236-243, 718-719).
THEOREM FramesFindTheirQueues == Safety => []NoFrameLost
<1>1. IInv => NoFrameLost
  BY DEF IInv, Lost, NoFrameLost, Over, InProgress
<1>. QED  BY <1>1, AttachmentInvariant, PTL

\* A call has its queue only while it is in progress, while its author has the
\* subscription it opened, and where its future was dropped in the send or, of a
\* subscribe, before its answer: a subscription that is dropped later gives it back
\* (interface.rs:249-253, 259-266, 655-666, 793-800).
THEOREM CallsGiveTheirQueuesBack == Safety => []QueuesGivenBack
<1>1. IInv => QueuesGivenBack
  BY DEF IInv, GivenBack, QueuesGivenBack, Unwatched, InProgress, Requested
<1>. QED  BY <1>1, AttachmentInvariant, PTL

===============================================================================
