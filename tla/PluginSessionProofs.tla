------------------------- MODULE PluginSessionProofs -------------------------
(***************************************************************************)
(* What holds of a Session for every set of callers and streams and every  *)
(* bound.  TLC checks the same formulas on the instances of                *)
(* MCPluginSession.                                                        *)
(***************************************************************************)
EXTENDS PluginSession, TLAPS

\* Sealing puts a well-formed envelope in the thread's hand, and in no other's.
LEMMA SealType ==
  ASSUME TypeOK, NEW t \in Threads, NEW kind \in Kinds, NEW of \in Nat \cup Streams,
         Seal(t, kind, of)
  PROVE  /\ sealed' \in Nat
         /\ pending' \in [Threads -> Envelope \cup {NoEnvelope}]
         /\ pending'[t] \in Envelope
         /\ \A u \in Threads \ {t} : pending'[u] = pending[u]
<1>1. [id |-> sealed + 1, kind |-> kind, of |-> of] \in Envelope
  BY DEF TypeOK, QueueType, Envelope
<1>. QED  BY <1>1 DEF TypeOK, QueueType, ThreadType, Seal

\* Delivering queues what the thread holds, or drops it; it holds nothing then.
LEMMA DeliverType ==
  ASSUME TypeOK, NEW t \in Threads, pc[t] \in {"sending", "closing", "answering"},
         Deliver(t)
  PROVE  /\ wire' \in Seq(Envelope)
         /\ pending' \in [Threads -> Envelope \cup {NoEnvelope}]
         /\ \A u \in Threads \ {t} : pending'[u] = pending[u]
<1>1. pending[t] \in Envelope
  BY DEF TypeOK, ThreadType, InHand
<1>2. wire' \in Seq(Envelope)
  BY <1>1 DEF TypeOK, QueueType, ThreadType, Deliver
<1>. QED  BY <1>2 DEF TypeOK, QueueType, ThreadType, Deliver

\* Finishing keeps the types of the state and of what is surfaced.
LEMMA FinishType ==
  ASSUME TypeOK, NEW end \in End, Finish(end)
  PROVE  /\ out' \in BOOLEAN /\ events' \in BOOLEAN /\ ended' \in BOOLEAN
         /\ active' \in [Streams -> 0..Len(flows)]
         /\ surfaced' \in Seq(Event \cup End)
<1>1. CASE ended
  BY <1>1 DEF TypeOK, StateType, QueueType, Finish
<1>2. CASE ~ended
  <2>1. Append(surfaced, end) \in Seq(Event \cup End)
    BY DEF TypeOK, StateType, QueueType
  <2>2. [s \in Streams |-> 0] \in [Streams -> 0..Len(flows)]
    BY DEF TypeOK, StateType, QueueType
  <2>. QED  BY <1>2, <2>1, <2>2 DEF TypeOK, StateType, QueueType, Finish, Surface
<1>. QED  BY <1>1, <1>2

LEMMA EndType == \A kind \in EndKinds : EndAs(kind) \in End
BY DEF EndAs, End

\* A write keeps a flow a flow.
LEMMA WroteType ==
  ASSUME sealed \in Nat, NEW flow \in Flow, NEW taken \in BOOLEAN
  PROVE  Wrote(flow, taken) \in Flow
<1>1. Numbered(flow) \in [seq : Nat, id : Nat]
  BY DEF Numbered, Sequence, Flow
<1>2. ASSUME NEW next \in Nat, NEW published \in Nat, NEW sent \in Seq([seq : Nat, id : Nat])
      PROVE  Carrying(flow, next, published, sent) \in Flow
  BY <1>2 DEF Carrying, Flow
<1>3. Append(flow.sent, Numbered(flow)) \in Seq([seq : Nat, id : Nat])
  BY <1>1 DEF Flow
<1>4. /\ flow.next + 1 \in Nat
      /\ (IF flow.conn = "ring" THEN flow.published + 1 ELSE flow.published) \in Nat
  BY DEF Flow
<1>. QED  BY <1>2, <1>3, <1>4 DEF Wrote

LEMMA ThreadFacts ==
  /\ Beat \in Threads /\ Receive \in Threads /\ Beat # Receive
  /\ \A a \in Authors : a \in Threads /\ a # Beat /\ a # Receive
BY ThreadsAssumption DEF Threads

\* The variables have their types in every state, and a thread has in hand what
\* its next step sends, writes or surfaces.
THEOREM TypeCorrect == Safety => []TypeOK
<1>. USE ThreadsAssumption, BoundsAssumption, ThreadFacts
     DEF TypeOK, StateType, QueueType, ThreadType, CountType, Labels
<1>1. Init => TypeOK
  <2>. SUFFICES ASSUME Init PROVE TypeOK
    OBVIOUS
  <2>1. wire \in Seq(Envelope)
    <3>1. Opening \in Envelope
      BY DEF Opening, Envelope, Kinds
    <3>. QED  BY <3>1 DEF Init
  <2>2. pc \in [Threads -> Labels]
    BY DEF Init
  <2>3. InHand
    BY DEF InHand, Init
  <2>4. flows \in Seq(Flow) /\ surfaced \in Seq(Event \cup End)
    BY DEF Init
  <2>5. active \in [Streams -> 0..Len(flows)] /\ held \in [Authors -> 0..Len(flows)]
    BY DEF Init
  <2>6. StateType
    BY <2>5 DEF Init
  <2>8. CountType
    <3>1. calls = 0 /\ messages = 0 /\ beats = 0
      BY DEF Init
    <3>. QED  BY <3>1
  <2>7. QueueType /\ ThreadType
    BY <2>1, <2>2, <2>4, <2>5 DEF Init
  <2>. QED  BY <2>3, <2>6, <2>7, <2>8
<1>2. TypeOK /\ [Next]_vars => TypeOK'
  <2>. SUFFICES ASSUME TypeOK, [Next]_vars PROVE TypeOK'
    OBVIOUS
  <2>1. ASSUME NEW a \in Authors, Say(a) PROVE TypeOK'
    BY <2>1, SealType DEF InHand, Say, MayCall, Goto, Kinds, stateVars, report, channels
  <2>2. ASSUME NEW a \in Authors, Health(a) PROVE TypeOK'
    BY <2>2, SealType DEF InHand, Health, Goto, Kinds, stateVars, channels, bounds
  <2>26. ASSUME NEW a \in Authors, HealthBegins(a) PROVE TypeOK'
    BY <2>26 DEF InHand, HealthBegins, MayCall, Goto, stateVars, report, channels
  <2>3. ASSUME NEW a \in Authors, AuthorDeliver(a) PROVE TypeOK'
    BY <2>3, DeliverType DEF InHand, AuthorDeliver, Release, Goto, stateVars, bounds
  <2>4. ASSUME NEW a \in Authors, CloseMark(a) PROVE TypeOK'
    BY <2>4, SealType DEF InHand, CloseMark, MayCall, Goto, Kinds, report, channels
  <2>5. ASSUME NEW a \in Authors, CloseDeliver(a) PROVE TypeOK'
    BY <2>5, DeliverType DEF InHand, CloseDeliver, Goto, stateVars, report, bounds
  <2>6. ASSUME NEW a \in Authors, CloseSilence(a) PROVE TypeOK'
    <3>1. InHand'
      BY <2>6 DEF InHand, CloseSilence, Goto
    <3>2. StateType'
      BY <2>6 DEF CloseSilence, SpawnTimer, Goto, report, channels, bounds
    <3>3. QueueType'
      BY <2>6 DEF CloseSilence, SpawnTimer, Goto, report, channels, bounds
    <3>4. ThreadType'
      BY <2>6 DEF CloseSilence, SpawnTimer, Goto, report, channels, bounds
    <3>5. CountType'
      BY <2>6 DEF CloseSilence, SpawnTimer, Goto, report, channels, bounds
    <3>. QED  BY <3>1, <3>2, <3>3, <3>4, <3>5
  <2>7. ASSUME TimerFires PROVE TypeOK'
    BY <2>7, FinishType, EndType DEF InHand, TimerFires, EndKinds, report, bounds
  <2>8. ASSUME NEW a \in Authors, NEW s \in Streams, EmitTake(a, s) PROVE TypeOK'
    BY <2>8 DEF InHand, EmitTake, MayCall, Goto, stateVars, report, channels
  <2>9. ASSUME NEW a \in Authors, EmitWrite(a) PROVE TypeOK'
    <3>1. held[a] \in DOMAIN flows /\ flows[held[a]] \in Flow
      BY <2>9 DEF EmitWrite, InHand
    <3>2. ASSUME NEW taken \in BOOLEAN PROVE Wrote(flows[held[a]], taken) \in Flow
      BY <3>1, WroteType
    <3>3. flows' \in Seq(Flow) /\ Len(flows') = Len(flows)
      BY <2>9, <3>1, <3>2 DEF EmitWrite
    <3>4. InHand'
      BY <2>9 DEF InHand, EmitWrite, Goto
    <3>5. sealed' \in Nat
      <4>1. sealed' = IF flows[held[a]].conn = "ordered" THEN sealed + 1 ELSE sealed
        BY <2>9 DEF EmitWrite
      <4>. QED  BY <4>1
    <3>. QED
      BY <2>9, <3>3, <3>4, <3>5 DEF EmitWrite, Goto, stateVars, report, channels, bounds
  <2>10. ASSUME BeatSilent PROVE TypeOK'
    BY <2>10 DEF InHand, BeatSilent, Goto, stateVars, report, channels, bounds
  <2>11. ASSUME BeatSeal PROVE TypeOK'
    BY <2>11, SealType DEF InHand, BeatSeal, Ticks, KeepReport, Goto, Kinds, stateVars, channels
  <2>12. ASSUME BeatDeliver PROVE TypeOK'
    BY <2>12, DeliverType DEF InHand, BeatDeliver, Release, Goto, stateVars, bounds
  <2>13. ASSUME OpenAnswered PROVE TypeOK'
    BY <2>13 DEF InHand, OpenAnswered, Goto, stateVars, report, channels, bounds
  <2>14. ASSUME OpenFails PROVE TypeOK'
    BY <2>14, FinishType, EndType DEF InHand, OpenFails, EndKinds, Goto, report, bounds
  <2>15. ASSUME Instruct PROVE TypeOK'
    <3>1. [kind |-> "instruction", of |-> messages + 1] \in Event
      BY DEF Event
    <3>2. surfaced' \in Seq(Event \cup End)
      BY <2>15, <3>1 DEF Instruct, Surface
    <3>. QED  BY <2>15, <3>2 DEF InHand, Instruct, Arrives, stateVars, report
  <2>16. ASSUME NEW s \in Streams, NEW conn \in Transports, Activate(s, conn) PROVE TypeOK'
    <3>1. /\ sealed' \in Nat /\ pending' \in [Threads -> Envelope \cup {NoEnvelope}]
          /\ pending'[Receive] \in Envelope
          /\ \A u \in Threads \ {Receive} : pending'[u] = pending[u]
      BY <2>16, SealType DEF Activate, Kinds
    <3>2. flows' \in Seq(Flow) /\ Len(flows') = Len(flows) + 1
      <4>1. PICK count \in IF conn = "ring" THEN RingCounts ELSE {0} :
               flows' = Append(flows, Opened(s, conn, count))
        BY <2>16 DEF Activate
      <4>2. count \in Nat
        BY TransportsAssumption
      <4>3. Opened(s, conn, count) \in Flow
        BY <4>2 DEF Opened, Flow
      <4>. QED  BY <4>1, <4>3
    <3>3. active' \in [Streams -> 0..Len(flows')] /\ held' \in [Authors -> 0..Len(flows')]
      BY <2>16, <3>2 DEF Activate, Listed
    <3>4. InHand'
      BY <2>16, <3>1 DEF InHand, Activate, Event, Changed, Goto
    <3>5. StateType'
      BY <2>16, <3>1, <3>2, <3>3 DEF Activate, Arrives, Goto, report, channels
    <3>6. QueueType'
      BY <2>16, <3>1, <3>2, <3>3 DEF Activate, Arrives, Goto, report, channels
    <3>7. ThreadType'
      BY <2>16, <3>1, <3>2, <3>3 DEF Activate, Arrives, Goto, report, channels
    <3>8. CountType'
      BY <2>16, <3>1, <3>2, <3>3 DEF Activate, Arrives, Goto, report, channels
    <3>. QED  BY <3>4, <3>5, <3>6, <3>7, <3>8
  <2>17. ASSUME NEW s \in Streams, ActivateFails(s) PROVE TypeOK'
    <3>1. /\ sealed' \in Nat /\ pending' \in [Threads -> Envelope \cup {NoEnvelope}]
          /\ pending'[Receive] \in Envelope
          /\ \A u \in Threads \ {Receive} : pending'[u] = pending[u]
      BY <2>17, SealType DEF ActivateFails, Kinds
    <3>2. InHand'
      BY <2>17, <3>1 DEF InHand, ActivateFails, Arrives, Goto
    <3>3. StateType'
      BY <2>17, <3>1 DEF ActivateFails, Arrives, Goto, stateVars, report, channels
    <3>4. QueueType'
      BY <2>17, <3>1 DEF ActivateFails, Arrives, Goto, stateVars, report, channels
    <3>5. ThreadType'
      BY <2>17, <3>1 DEF ActivateFails, Arrives, Goto, stateVars, report, channels
    <3>6. CountType'
      BY <2>17, <3>1 DEF ActivateFails, Arrives, Goto, stateVars, report, channels
    <3>. QED  BY <3>2, <3>3, <3>4, <3>5, <3>6
  <2>18. ASSUME NEW s \in Streams, Stop(s) PROVE TypeOK'
    <3>1. /\ sealed' \in Nat /\ pending' \in [Threads -> Envelope \cup {NoEnvelope}]
          /\ pending'[Receive] \in Envelope
          /\ \A u \in Threads \ {Receive} : pending'[u] = pending[u]
      BY <2>18, SealType DEF Stop, Kinds
    <3>2. InHand'
      BY <2>18, <3>1 DEF InHand, Stop, Event, Changed, Goto
    <3>3. StateType'
      BY <2>18, <3>1 DEF Stop, Arrives, Goto, report, channels
    <3>4. QueueType'
      BY <2>18, <3>1 DEF Stop, Arrives, Goto, report, channels
    <3>5. ThreadType'
      BY <2>18, <3>1 DEF Stop, Arrives, Goto, report, channels
    <3>6. CountType'
      BY <2>18, <3>1 DEF Stop, Arrives, Goto, report, channels
    <3>. QED  BY <3>2, <3>3, <3>4, <3>5, <3>6
  <2>19. ASSUME Answer PROVE TypeOK'
    BY <2>19, DeliverType DEF InHand, Answer, Goto, stateVars, report, bounds
  <2>20. ASSUME Tell PROVE TypeOK'
    BY <2>20 DEF InHand, Tell, Surface, Goto, stateVars, report, bounds
  <2>21. ASSUME Revoked PROVE TypeOK'
    BY <2>21, FinishType, EndType DEF InHand, Revoked, EndKinds, Goto, report, bounds
  <2>22. ASSUME StreamEnds PROVE TypeOK'
    BY <2>22, EndType DEF InHand, StreamEnds, StreamEnd, EndKinds, Goto, stateVars,
      report, channels, bounds
  <2>23. ASSUME StreamFinish PROVE TypeOK'
    BY <2>23, FinishType DEF InHand, StreamFinish, Goto, report, bounds
  <2>24. ASSUME LinkDrops PROVE TypeOK'
    BY <2>24 DEF InHand, LinkDrops, stateVars, report, bounds
  <2>25. CASE UNCHANGED vars
    BY <2>25 DEF InHand, vars, stateVars, report, channels, bounds
  <2>. QED
    BY <2>1, <2>2, <2>3, <2>4, <2>5, <2>6, <2>7, <2>8, <2>9, <2>10, <2>11, <2>12,
       <2>13, <2>14, <2>15, <2>16, <2>17, <2>18, <2>19, <2>20, <2>21, <2>22, <2>23,
       <2>24, <2>25, <2>26
    DEF Next, Author, BeatTask, Core, ReceiveTask
<1>. QED  BY <1>1, <1>2, PTL DEF Safety

-------------------------------------------------------------------------------
\* The end of a Session.

LEMMA EventIsNoEnd == ASSUME NEW e \in Event \cup {NoEvent} PROVE e \notin End
BY DEF Event, End, EndKinds, NoEvent

\* An end that finishes the Session is the first to, and is surfaced last.
LEMMA FinishOnce ==
  ASSUME TypeOK, EndIsLast, events = ~ended, NEW end \in End, Finish(end)
  PROVE  EndIsLast' /\ events' = ~ended'
<1>1. CASE ended
  BY <1>1 DEF Finish, EndIsLast
<1>2. CASE ~ended
  <2>1. ended' = TRUE /\ events' = FALSE /\ surfaced' = Append(surfaced, end)
    BY <1>2 DEF Finish, Surface
  <2>2. \A i \in DOMAIN surfaced : surfaced[i] \notin End
    BY <1>2 DEF EndIsLast
  <2>3. Len(surfaced') = Len(surfaced) + 1 /\ surfaced'[Len(surfaced')] = end
    BY <2>1 DEF TypeOK, QueueType
  <2>4. \A i \in DOMAIN surfaced' : i = Len(surfaced') \/ surfaced'[i] \notin End
    BY <2>1, <2>2 DEF TypeOK, QueueType
  <2>5. EndIsLast'
    BY <2>1, <2>3, <2>4 DEF EndIsLast
  <2>. QED  BY <2>1, <2>5
<1>. QED  BY <1>1, <1>2

\* What is surfaced before the end is no end, and nothing is surfaced after it.
LEMMA SurfaceBefore ==
  ASSUME TypeOK, EndIsLast, events = ~ended, NEW e \in Event, Surface(e),
         UNCHANGED <<events, ended>>
  PROVE  EndIsLast' /\ events' = ~ended'
<1>1. e \notin End
  BY EventIsNoEnd
<1>2. CASE ended
  BY <1>2 DEF Surface, EndIsLast
<1>3. CASE ~ended
  BY <1>1, <1>3 DEF Surface, EndIsLast, TypeOK, QueueType
<1>. QED  BY <1>2, <1>3

\* The author is handed one end, after everything else, exactly when the Session
\* has ended: finish's test and its writes are one critical section, and the
\* events' sender goes with it.
THEOREM EndedOnceAndLast == Safety => [](EndIsLast /\ events = ~ended)
<1>. DEFINE Inv == EndIsLast /\ events = ~ended
<1>1. Init => Inv
  <2>. SUFFICES ASSUME Init PROVE Inv
    OBVIOUS
  <2>1. EndIsLast
    BY DEF Init, EndIsLast
  <2>2. events = ~ended
    BY DEF Init
  <2>. QED  BY <2>1, <2>2
<1>2. TypeOK /\ Inv /\ [Next]_vars => Inv'
  <2>. SUFFICES ASSUME TypeOK, Inv, [Next]_vars PROVE Inv'
    OBVIOUS
  <2>1. ASSUME NEW kind \in EndKinds, Finish(EndAs(kind)) PROVE Inv'
    BY <2>1, FinishOnce, EndType
  <2>2. CASE TimerFires
    BY <2>1, <2>2 DEF TimerFires, EndKinds
  <2>3. CASE OpenFails
    BY <2>1, <2>3 DEF OpenFails, EndKinds
  <2>4. CASE Revoked
    BY <2>1, <2>4 DEF Revoked, EndKinds
  <2>5. CASE StreamFinish
    BY <2>5, FinishOnce DEF StreamFinish, TypeOK, InHand
  <2>6. CASE Instruct
    <3>1. [kind |-> "instruction", of |-> messages + 1] \in Event
      BY DEF TypeOK, CountType, BoundsAssumption, Event
    <3>. QED  BY <2>6, <3>1, SurfaceBefore DEF Instruct, stateVars
  <2>7. CASE Tell
    <3>1. told \in Event
      BY <2>7 DEF Tell, TypeOK, InHand
    <3>. QED  BY <2>7, <3>1, SurfaceBefore DEF Tell, stateVars
  <2>8. ASSUME UNCHANGED <<events, ended, surfaced>> PROVE Inv'
    BY <2>8 DEF EndIsLast
  <2>9. CASE \E a \in Authors : Author(a)
    BY <2>8, <2>9 DEF Author, Say, HealthBegins, Health, AuthorDeliver, CloseMark, CloseDeliver,
      CloseSilence, EmitWrite, EmitTake, stateVars, channels
  <2>10. CASE BeatTask
    BY <2>8, <2>10 DEF BeatTask, BeatSilent, BeatSeal, BeatDeliver, stateVars, channels
  <2>11. CASE Answer \/ OpenAnswered \/ StreamEnds \/ LinkDrops
    BY <2>8, <2>11 DEF Answer, OpenAnswered, StreamEnds, LinkDrops, stateVars, channels
  <2>12. CASE \E s \in Streams, conn \in Transports : Activate(s, conn)
    BY <2>8, <2>12 DEF Activate, channels
  <2>13. CASE \E s \in Streams : ActivateFails(s) \/ Stop(s)
    BY <2>8, <2>13 DEF ActivateFails, Stop, stateVars, channels
  <2>14. CASE UNCHANGED vars
    BY <2>8, <2>14 DEF vars, stateVars, channels
  <2>. QED
    BY <2>2, <2>3, <2>4, <2>5, <2>6, <2>7, <2>9, <2>10, <2>11, <2>12, <2>13, <2>14
    DEF Next, Core, ReceiveTask
<1>. QED  BY <1>1, <1>2, TypeCorrect, PTL DEF Safety

\* How the pieces of the state agree, the end and the departure above all: a
\* departure is marked before anything that only a departure does.
THEOREM StateAgrees == Safety => []SessionInv
<1>1. Init => SessionInv
  <2>. SUFFICES ASSUME Init PROVE SessionInv
    OBVIOUS
  <2>1. events = ~ended /\ ~ended /\ out
    BY DEF Init
  <2>2. \A a \in Authors : pc[a] = "idle"
    BY ThreadFacts DEF Init
  <2>3. ~(timers > 0) /\ told # EndAs("closed")
    BY DEF Init, NoEvent, EndAs
  <2>. QED  BY <2>1, <2>2, <2>3 DEF SessionInv
<1>2. TypeOK /\ SessionInv /\ [Next]_vars => SessionInv'
  <2>. SUFFICES ASSUME TypeOK, SessionInv, [Next]_vars PROVE SessionInv'
    OBVIOUS
  <2>. USE ThreadFacts DEF SessionInv
  <2>1. ASSUME NEW end \in End, Finish(end)
        PROVE  /\ events' = ~ended' /\ (ended' => ~out')
               /\ ~out' => ended' \/ closing
    <3>1. CASE ended
      BY <2>1, <3>1 DEF Finish
    <3>2. CASE ~ended
      BY <2>1, <3>2 DEF Finish
    <3>. QED  BY <3>1, <3>2
  <2>2. CASE TimerFires
    <3>1. timers > 0 /\ closing' = closing /\ closing
      BY <2>2 DEF TimerFires
    <3>. QED  BY <2>1, <2>2, <3>1, EndType DEF TimerFires, EndKinds
  <2>3. CASE OpenFails
    <3>1. \A a \in Authors : pc'[a] = pc[a]
      BY <2>3 DEF OpenFails, Goto, TypeOK, ThreadType
    <3>. QED  BY <2>1, <2>3, <3>1, EndType DEF OpenFails, EndKinds
  <2>4. CASE Revoked
    <3>1. \A a \in Authors : pc'[a] = pc[a]
      BY <2>4 DEF Revoked, Goto, TypeOK, ThreadType
    <3>. QED  BY <2>1, <2>4, <3>1, EndType DEF Revoked, EndKinds
  <2>5. CASE StreamFinish
    <3>1. told \in End /\ told' # EndAs("closed")
      BY <2>5 DEF StreamFinish, TypeOK, InHand, NoEvent, EndAs
    <3>2. \A a \in Authors : pc'[a] = pc[a]
      BY <2>5 DEF StreamFinish, Goto, TypeOK, ThreadType
    <3>. QED  BY <2>1, <2>5, <3>1, <3>2 DEF StreamFinish
  <2>6. CASE StreamEnds
    <3>1. told' = EndAs("closed") => closing
      BY <2>6 DEF StreamEnds, StreamEnd, EndAs
    <3>2. \A a \in Authors : pc'[a] = pc[a]
      BY <2>6 DEF StreamEnds, Goto, TypeOK, ThreadType
    <3>. QED  BY <2>6, <3>1, <3>2 DEF StreamEnds, stateVars
  <2>7. ASSUME NEW a \in Authors, CloseMark(a) PROVE SessionInv'
    BY <2>7 DEF CloseMark
  <2>8. ASSUME NEW a \in Authors, CloseDeliver(a) PROVE SessionInv'
    BY <2>8 DEF CloseDeliver, Goto, stateVars, TypeOK, ThreadType
  <2>9. ASSUME NEW a \in Authors, CloseSilence(a) PROVE SessionInv'
    BY <2>9 DEF CloseSilence, Goto, SpawnTimer, TypeOK, ThreadType
  \* The other steps leave the end and the departure alone.
  <2>10. ASSUME UNCHANGED <<out, events, ended, closing, timers>>,
                told' # EndAs("closed") \/ told' = told,
                \A a \in Authors : pc'[a] \in {"closing", "closed"} => pc'[a] = pc[a]
         PROVE  SessionInv'
    BY <2>10
  <2>11. ASSUME NEW a \in Authors,
                \/ Say(a) \/ HealthBegins(a) \/ Health(a) \/ AuthorDeliver(a) \/ EmitWrite(a)
                \/ \E s \in Streams : EmitTake(a, s)
         PROVE  SessionInv'
    <3>1. \A b \in Authors : pc'[b] \in {"closing", "closed"} => pc'[b] = pc[b]
      BY <2>11 DEF Say, HealthBegins, Health, AuthorDeliver, EmitWrite, EmitTake, Goto,
        TypeOK, ThreadType
    <3>. QED
      BY <2>10, <2>11, <3>1
      DEF Say, HealthBegins, Health, AuthorDeliver, EmitWrite, EmitTake, stateVars
  <2>12. CASE BeatTask
    <3>1. \A b \in Authors : pc'[b] = pc[b]
      BY <2>12 DEF BeatTask, BeatSilent, BeatSeal, BeatDeliver, Goto, TypeOK, ThreadType
    <3>. QED
      BY <2>10, <2>12, <3>1 DEF BeatTask, BeatSilent, BeatSeal, BeatDeliver, stateVars
  <2>13. CASE \E s \in Streams : \/ ActivateFails(s) \/ Stop(s)
                                 \/ \E conn \in Transports : Activate(s, conn)
    <3>1. \A b \in Authors : pc'[b] = pc[b]
      BY <2>13 DEF ActivateFails, Stop, Activate, Goto, TypeOK, ThreadType
    <3>2. told' # EndAs("closed") \/ told' = told
      <4>1. \A s : /\ Changed("activated", s) # EndAs("closed")
                   /\ Changed("stopped", s) # EndAs("closed")
        BY DEF Changed, EndAs
      <4>. QED  BY <2>13, <4>1 DEF ActivateFails, Stop, Activate
    <3>. QED  BY <2>10, <2>13, <3>1, <3>2 DEF ActivateFails, Stop, Activate, stateVars
  <2>14. CASE Answer \/ Tell \/ OpenAnswered \/ Instruct \/ LinkDrops
    <3>1. \A b \in Authors : pc'[b] = pc[b]
      BY <2>14 DEF Answer, Tell, OpenAnswered, Instruct, LinkDrops, Goto, TypeOK, ThreadType
    <3>2. told' # EndAs("closed") \/ told' = told
      BY <2>14 DEF Answer, Tell, OpenAnswered, Instruct, LinkDrops, NoEvent, EndAs
    <3>3. UNCHANGED <<out, events, ended, closing, timers>>
      BY <2>14 DEF Answer, Tell, OpenAnswered, Instruct, LinkDrops, stateVars
    <3>. QED  BY <2>10, <3>1, <3>2, <3>3
  <2>15. CASE UNCHANGED vars
    BY <2>15 DEF vars, stateVars
  <2>. QED
    BY <2>2, <2>3, <2>4, <2>5, <2>6, <2>7, <2>8, <2>9, <2>11, <2>12, <2>13, <2>14, <2>15
    DEF Next, Author, Core, ReceiveTask
<1>. QED  BY <1>1, <1>2, TypeCorrect, PTL DEF Safety

\* The task that reads the Session leaves only with the Session ended, which no
\* step undoes: the author's `next' does not wait on a task that is gone.
THEOREM AlwaysATask == Safety => []NeverOrphaned
<1>1. Init => NeverOrphaned
  BY ThreadFacts DEF Init, NeverOrphaned
<1>2. TypeOK /\ NeverOrphaned /\ [Next]_vars => NeverOrphaned'
  <2>. SUFFICES ASSUME TypeOK, NeverOrphaned, [Next]_vars PROVE NeverOrphaned'
    OBVIOUS
  <2>. USE ThreadFacts DEF NeverOrphaned
  <2>1. ASSUME NEW end, Finish(end) PROVE ended'
    BY <2>1 DEF Finish
  <2>2. CASE TimerFires \/ OpenFails \/ Revoked \/ StreamFinish
    BY <2>1, <2>2 DEF TimerFires, OpenFails, Revoked, StreamFinish
  <2>3. ASSUME UNCHANGED ended, pc'[Receive] = "done" => pc[Receive] = "done"
        PROVE  NeverOrphaned'
    BY <2>3
  <2>4. ASSUME NEW a \in Authors, Author(a) PROVE NeverOrphaned'
    <3>1. pc'[Receive] = pc[Receive]
      BY <2>4 DEF Author, Say, HealthBegins, Health, AuthorDeliver, CloseMark, CloseDeliver,
        CloseSilence, EmitWrite, EmitTake, Goto, TypeOK, ThreadType
    <3>2. UNCHANGED ended
      BY <2>4 DEF Author, Say, HealthBegins, Health, AuthorDeliver, CloseMark, CloseDeliver,
        CloseSilence, EmitWrite, EmitTake, stateVars
    <3>. QED  BY <2>3, <3>1, <3>2
  <2>5. CASE BeatTask
    <3>1. pc'[Receive] = pc[Receive]
      BY <2>5 DEF BeatTask, BeatSilent, BeatSeal, BeatDeliver, Goto, TypeOK, ThreadType
    <3>2. UNCHANGED ended
      BY <2>5 DEF BeatTask, BeatSilent, BeatSeal, BeatDeliver, stateVars
    <3>. QED  BY <2>3, <3>1, <3>2
  <2>6. CASE Answer \/ Tell \/ OpenAnswered \/ StreamEnds \/ Instruct \/ LinkDrops
    <3>1. pc'[Receive] = "done" => pc[Receive] = "done"
      BY <2>6 DEF Answer, Tell, OpenAnswered, StreamEnds, Instruct, LinkDrops, Goto,
        TypeOK, ThreadType
    <3>2. UNCHANGED ended
      BY <2>6 DEF Answer, Tell, OpenAnswered, StreamEnds, Instruct, LinkDrops, stateVars
    <3>. QED  BY <2>3, <3>1, <3>2
  <2>7. ASSUME NEW s \in Streams,
               \/ ActivateFails(s) \/ Stop(s)
               \/ \E conn \in Transports : Activate(s, conn)
        PROVE  NeverOrphaned'
    <3>1. pc'[Receive] = "answering"
      BY <2>7 DEF ActivateFails, Stop, Activate, Goto, TypeOK, ThreadType
    <3>. QED  BY <3>1
  <2>8. CASE UNCHANGED vars
    BY <2>8 DEF vars, stateVars
  <2>. QED
    BY <2>2, <2>4, <2>5, <2>6, <2>7, <2>8 DEF Next, Core, ReceiveTask
<1>. QED  BY <1>1, <1>2, TypeCorrect, PTL DEF Safety

\* Only a unit that asked to leave is told that it left: every end that says so is
\* a timer's, or the receive task's that read the departure's mark.
THEOREM DepartureAsked == Safety => []ClosedMeansAsked
<1>1. Init => ClosedMeansAsked
  BY DEF Init, ClosedMeansAsked
<1>2. TypeOK /\ SessionInv /\ ClosedMeansAsked /\ [Next]_vars => ClosedMeansAsked'
  <2>. SUFFICES ASSUME TypeOK, SessionInv, ClosedMeansAsked, [Next]_vars
                PROVE  ClosedMeansAsked'
    OBVIOUS
  <2>1. ASSUME NEW e \in Event \cup End, e = EndAs("closed") => closing,
               surfaced' \in {surfaced, Append(surfaced, e)}, UNCHANGED closing
        PROVE  ClosedMeansAsked'
    BY <2>1 DEF ClosedMeansAsked, TypeOK, QueueType
  <2>2. ASSUME NEW end \in End, Finish(end), end = EndAs("closed") => closing,
               UNCHANGED closing
        PROVE  ClosedMeansAsked'
    <3>1. surfaced' \in {surfaced, Append(surfaced, end)}
      BY <2>2 DEF Finish, Surface
    <3>. QED  BY <2>1, <2>2, <3>1
  <2>3. ASSUME NEW e \in Event, Surface(e), UNCHANGED closing
        PROVE  ClosedMeansAsked'
    <3>1. e # EndAs("closed")
      BY EventIsNoEnd, EndType DEF EndKinds
    <3>. QED  BY <2>1, <2>3, <3>1 DEF Surface
  <2>4. CASE TimerFires
    <3>1. closing
      BY <2>4 DEF TimerFires, SessionInv
    <3>. QED  BY <2>2, <2>4, <3>1, EndType DEF TimerFires, EndKinds
  <2>5. CASE OpenFails \/ Revoked
    <3>1. EndAs("lost") # EndAs("closed") /\ EndAs("revoked") # EndAs("closed")
      BY DEF EndAs
    <3>. QED  BY <2>2, <2>5, <3>1, EndType DEF OpenFails, Revoked, EndKinds
  <2>6. CASE StreamFinish
    <3>1. told \in End /\ (told = EndAs("closed") => closing)
      BY <2>6 DEF StreamFinish, TypeOK, InHand, SessionInv
    <3>. QED  BY <2>2, <2>6, <3>1 DEF StreamFinish
  <2>7. CASE Instruct
    <3>1. [kind |-> "instruction", of |-> messages + 1] \in Event
      BY DEF TypeOK, CountType, BoundsAssumption, Event
    <3>. QED  BY <2>3, <2>7, <3>1 DEF Instruct, stateVars
  <2>8. CASE Tell
    <3>1. told \in Event
      BY <2>8 DEF Tell, TypeOK, InHand
    <3>. QED  BY <2>3, <2>8, <3>1 DEF Tell, stateVars
  <2>9. ASSUME UNCHANGED surfaced, closing => closing' PROVE ClosedMeansAsked'
    BY <2>9 DEF ClosedMeansAsked
  <2>10. CASE \E a \in Authors : Author(a)
    BY <2>9, <2>10 DEF Author, Say, HealthBegins, Health, AuthorDeliver, CloseMark, CloseDeliver,
      CloseSilence, EmitWrite, EmitTake, stateVars, channels
  <2>11. CASE BeatTask
    BY <2>9, <2>11 DEF BeatTask, BeatSilent, BeatSeal, BeatDeliver, stateVars, channels
  <2>12. CASE Answer \/ OpenAnswered \/ StreamEnds \/ LinkDrops
    BY <2>9, <2>12 DEF Answer, OpenAnswered, StreamEnds, LinkDrops, stateVars, channels
  <2>13. CASE \E s \in Streams : \/ ActivateFails(s) \/ Stop(s)
                                 \/ \E conn \in Transports : Activate(s, conn)
    <3>1. ASSUME NEW s \in Streams, NEW conn \in Transports, Activate(s, conn)
          PROVE  UNCHANGED <<surfaced, closing>>
      BY <3>1 DEF Activate, channels
    <3>2. ASSUME NEW s \in Streams, ActivateFails(s) \/ Stop(s)
          PROVE  UNCHANGED <<surfaced, closing>>
      BY <3>2 DEF ActivateFails, Stop, stateVars, channels
    <3>. QED  BY <2>9, <2>13, <3>1, <3>2
  <2>14. CASE UNCHANGED vars
    BY <2>9, <2>14 DEF vars, stateVars, channels
  <2>. QED
    BY <2>4, <2>5, <2>6, <2>7, <2>8, <2>10, <2>11, <2>12, <2>13, <2>14
    DEF Next, Core, ReceiveTask
<1>. QED  BY <1>1, <1>2, TypeCorrect, StateAgrees, PTL DEF Safety

-------------------------------------------------------------------------------
\* A Session with its tasks, its locks and its timers does what SessionContract promises
\* of one: every step is a step of the contract, or one the author and the Core see
\* nothing of.

\* What the author and the Core see.
seen == <<wire, surfaced, closing, out, ended>>

LEMMA Unseen == ASSUME UNCHANGED seen PROVE UNCHANGED Contract!vars
BY DEF seen, Contract!vars

\* Delivering an envelope says it, or does nothing.
LEMMA DeliverSays ==
  ASSUME TypeOK, NEW t \in Threads, pc[t] \in {"sending", "closing", "answering"},
         Deliver(t), UNCHANGED <<surfaced, closing, out, ended>>
  PROVE  [Contract!Next]_(Contract!vars)
<1>1. pending[t] \in Envelope /\ wire \in Seq(Envelope)
  BY DEF TypeOK, QueueType, ThreadType, InHand
<1>2. CASE wire' = wire
  BY <1>2, Unseen DEF seen
<1>3. CASE wire' # wire
  <2>1. wire' = Append(wire, pending[t]) /\ out /\ ~ended
    BY <1>3 DEF Deliver, Takes
  <2>2. Len(wire') = Len(wire) + 1 /\ wire'[Len(wire')] = pending[t]
    BY <1>1, <2>1
  <2>3. Contract!Grows(wire, wire', Envelope)
    BY <1>1, <2>1, <2>2 DEF Contract!Grows
  <2>4. Contract!Say
    BY <2>1, <2>3 DEF Contract!Say
  <2>. QED  BY <2>4 DEF Contract!Next
<1>. QED  BY <1>2, <1>3

\* Surfacing an event hands it over, or does nothing.
LEMMA SurfaceHands ==
  ASSUME TypeOK, SessionInv, NEW e \in Event, Surface(e),
         UNCHANGED <<wire, closing, out, ended>>
  PROVE  [Contract!Next]_(Contract!vars)
<1>1. surfaced \in Seq(Event \cup End)
  BY DEF TypeOK, QueueType
<1>2. CASE ~events
  BY <1>2, Unseen DEF Surface, seen
<1>3. CASE events
  <2>1. surfaced' = Append(surfaced, e) /\ ~ended
    BY <1>3 DEF Surface, SessionInv
  <2>2. Len(surfaced') = Len(surfaced) + 1 /\ surfaced'[Len(surfaced')] = e
    BY <1>1, <2>1
  <2>3. Contract!Hear
    BY <2>1, <2>2 DEF Contract!Hear, Contract!Grows
  <2>. QED  BY <2>3 DEF Contract!Next
<1>. QED  BY <1>2, <1>3

\* Finishing hands the end over, once; one that says closed was asked for.
LEMMA FinishEnds ==
  ASSUME TypeOK, SessionInv, NEW end \in End, Finish(end), UNCHANGED <<wire, closing>>,
         end = EndAs("closed") => closing
  PROVE  [Contract!Next]_(Contract!vars)
<1>1. CASE ended
  BY <1>1, Unseen DEF Finish, seen
<1>2. CASE ~ended
  <2>1. surfaced' = Append(surfaced, end) /\ ended' = TRUE /\ out' = FALSE
    BY <1>2 DEF Finish, Surface, SessionInv
  <2>2. end.kind = "closed" => closing
    BY DEF End, EndAs
  <2>3. Contract!End(end)
    BY <1>2, <2>1, <2>2 DEF Contract!End
  <2>. QED  BY <2>3 DEF Contract!Next
<1>. QED  BY <1>1, <1>2

\* The safety part of the refinement, the counterpart of what the runs check together
\* with its liveness: envelopes are said one by one while the Session is open, events
\* handed over one by one and the end once and last, and an end that says closed was
\* asked for.
THEOREM KeepsContract == Safety => Contract!Safety
<1>1. Init => Contract!Init
  BY DEF Init, Contract!Init, Opening, Envelope, Kinds
<1>2. TypeOK /\ SessionInv /\ [Next]_vars => [Contract!Next]_(Contract!vars)
  <2>. SUFFICES ASSUME TypeOK, SessionInv, [Next]_vars
                PROVE  [Contract!Next]_(Contract!vars)
    OBVIOUS
  <2>. USE ThreadFacts
  <2>1. ASSUME UNCHANGED seen PROVE [Contract!Next]_(Contract!vars)
    BY <2>1, Unseen
  <2>2. ASSUME NEW a \in Authors, AuthorDeliver(a) \/ CloseDeliver(a)
        PROVE  [Contract!Next]_(Contract!vars)
    BY <2>2, DeliverSays DEF AuthorDeliver, CloseDeliver, stateVars
  <2>3. CASE BeatDeliver \/ Answer
    BY <2>3, DeliverSays DEF BeatDeliver, Answer, stateVars
  <2>4. ASSUME NEW a \in Authors, CloseMark(a) PROVE [Contract!Next]_(Contract!vars)
    <3>1. Contract!Ask
      BY <2>4 DEF CloseMark, channels, Contract!Ask
    <3>. QED  BY <3>1 DEF Contract!Next
  <2>5. ASSUME NEW a \in Authors, CloseSilence(a) PROVE [Contract!Next]_(Contract!vars)
    <3>1. closing
      BY <2>5 DEF CloseSilence, SessionInv
    <3>2. CASE ~out
      BY <2>1, <2>5, <3>2 DEF CloseSilence, channels, seen, TypeOK, StateType
    <3>3. CASE out
      <4>1. Contract!FallSilent
        BY <2>5, <3>1, <3>3 DEF CloseSilence, channels, Contract!FallSilent
      <4>. QED  BY <4>1 DEF Contract!Next
    <3>. QED  BY <3>2, <3>3
  <2>6. CASE TimerFires
    BY <2>6, EndType, FinishEnds DEF TimerFires, EndKinds, SessionInv
  <2>7. CASE OpenFails \/ Revoked
    <3>1. EndAs("lost") # EndAs("closed") /\ EndAs("revoked") # EndAs("closed")
      BY DEF EndAs
    <3>. QED  BY <2>7, <3>1, EndType, FinishEnds DEF OpenFails, Revoked, EndKinds
  <2>8. CASE StreamFinish
    BY <2>8, FinishEnds DEF StreamFinish, TypeOK, InHand, SessionInv
  <2>9. CASE Instruct
    <3>1. [kind |-> "instruction", of |-> messages + 1] \in Event
      BY DEF TypeOK, CountType, BoundsAssumption, Event
    <3>. QED  BY <2>9, <3>1, SurfaceHands DEF Instruct, stateVars
  <2>10. CASE Tell
    BY <2>10, SurfaceHands DEF Tell, TypeOK, InHand, stateVars
  <2>11. ASSUME NEW a \in Authors,
                \/ Say(a) \/ HealthBegins(a) \/ Health(a) \/ EmitWrite(a)
                \/ \E s \in Streams : EmitTake(a, s)
         PROVE  [Contract!Next]_(Contract!vars)
    BY <2>1, <2>11 DEF Say, HealthBegins, Health, EmitWrite, EmitTake, stateVars, channels, seen
  <2>12. CASE BeatSilent \/ BeatSeal \/ OpenAnswered \/ StreamEnds \/ LinkDrops
    BY <2>1, <2>12 DEF BeatSilent, BeatSeal, OpenAnswered, StreamEnds, LinkDrops, stateVars,
      channels, seen
  <2>13. ASSUME NEW s \in Streams, NEW conn \in Transports, Activate(s, conn)
         PROVE  [Contract!Next]_(Contract!vars)
    BY <2>1, <2>13 DEF Activate, channels, seen
  <2>14. ASSUME NEW s \in Streams, ActivateFails(s) \/ Stop(s)
         PROVE  [Contract!Next]_(Contract!vars)
    BY <2>1, <2>14 DEF ActivateFails, Stop, stateVars, channels, seen
  <2>15. CASE UNCHANGED vars
    BY <2>1, <2>15 DEF vars, stateVars, channels, seen
  <2>. QED
    BY <2>2, <2>3, <2>4, <2>5, <2>6, <2>7, <2>8, <2>9, <2>10, <2>11, <2>12, <2>13, <2>14,
       <2>15
    DEF Next, Author, BeatTask, ReceiveTask, Core
<1>. QED  BY <1>1, <1>2, TypeCorrect, StateAgrees, PTL DEF Safety, Contract!Safety

-------------------------------------------------------------------------------
\* What the Core is told of its streams.

\* An answer about a stream is the receive task's, and between its sealing and its
\* delivery nothing but the end of the Session touches the stream it is about.
Answering ==
  /\ \A t \in Threads : pc[t] \in {"sending", "closing"} =>
       pending[t].kind \notin {"activated", "stopped"}
  /\ pc[Receive] = "answering" =>
       /\ pending[Receive].kind \in {"activated", "stopped"} => pending[Receive].of \in Streams
       /\ pending[Receive].kind = "activated" => active[pending[Receive].of] # 0 \/ ended
       /\ pending[Receive].kind = "stopped" => active[pending[Receive].of] = 0

\* A thread other than the receive task seals its own envelope, or moves on from it.
LEMMA AnsweringOther ==
  ASSUME TypeOK, Answering, NEW t \in Threads \ {Receive}, NEW label \in Labels,
         Goto(t, label), UNCHANGED <<active, ended>>,
         \/ label \notin {"sending", "closing"} /\ UNCHANGED pending
         \/ label \notin {"sending", "closing"} /\ Deliver(t)
         \/ \E kind \in {"author", "health", "close"}, of \in Nat : Seal(t, kind, of)
  PROVE  Answering'
<1>1. \A u \in Threads \ {t} : pc'[u] = pc[u] /\ pending'[u] = pending[u]
  BY DEF TypeOK, ThreadType, Goto, Deliver, Seal
<1>2. pc'[t] = label
  BY DEF TypeOK, ThreadType, Goto
<1>3. label \in {"sending", "closing"} => pending'[t].kind \in {"author", "health", "close"}
  BY DEF TypeOK, ThreadType, Seal
<1>. QED  BY <1>1, <1>2, <1>3, ThreadFacts DEF Answering

\* The receive task seals an answer that is true of the streams.
LEMMA AnsweringOwn ==
  ASSUME TypeOK, Answering, NEW label \in Labels \ {"sending", "closing"}, Goto(Receive, label),
         \A t \in Threads \ {Receive} : pending'[t] = pending[t],
         label = "answering" =>
           /\ pending'[Receive].kind \in {"activated", "stopped"} =>
                pending'[Receive].of \in Streams
           /\ pending'[Receive].kind = "activated" => active'[pending'[Receive].of] # 0
           /\ pending'[Receive].kind = "stopped" => active'[pending'[Receive].of] = 0
  PROVE  Answering'
<1>1. \A t \in Threads \ {Receive} : pc'[t] = pc[t]
  BY DEF TypeOK, ThreadType, Goto
<1>2. pc'[Receive] = label
  BY ThreadFacts DEF TypeOK, ThreadType, Goto
<1>. QED  BY <1>1, <1>2, ThreadFacts DEF Answering

\* The end of the Session leaves every stream without its flow.
LEMMA AnsweringFinish ==
  ASSUME TypeOK, Answering, NEW end, Finish(end), UNCHANGED pending,
         \/ UNCHANGED pc
         \/ Goto(Receive, "done")
  PROVE  Answering'
<1>1. UNCHANGED <<active, ended>> \/ (ended' = TRUE /\ active' = [s \in Streams |-> 0])
  BY DEF Finish
<1>2. /\ \A t \in Threads \ {Receive} : pc'[t] = pc[t]
      /\ pc'[Receive] = pc[Receive] \/ pc'[Receive] = "done"
  BY ThreadFacts DEF TypeOK, ThreadType, Goto
<1>. QED  BY <1>1, <1>2, ThreadFacts DEF Answering

LEMMA AnsweringStep ==
  ASSUME TypeOK, Answering, [Next]_vars
  PROVE  Answering'
<1>. USE ThreadFacts
<1>1. CASE UNCHANGED vars
  BY <1>1 DEF vars, stateVars, Answering
<1>2. ASSUME NEW a \in Authors, Author(a) PROVE Answering'
  <2>1. CASE Say(a) \/ HealthBegins(a) \/ Health(a) \/ CloseMark(a)
    <3>1. health + 1 \in Nat
      BY DEF TypeOK, QueueType
    <3>. QED  BY <2>1, <3>1, AnsweringOther
         DEF Say, HealthBegins, Health, CloseMark, MayCall, stateVars, Labels
  <2>2. CASE AuthorDeliver(a) \/ CloseDeliver(a) \/ CloseSilence(a) \/ EmitWrite(a)
    BY <2>2, AnsweringOther
    DEF AuthorDeliver, CloseDeliver, CloseSilence, EmitWrite, stateVars, Labels
  <2>3. CASE \E s \in Streams : EmitTake(a, s)
    BY <2>3, AnsweringOther DEF EmitTake, MayCall, stateVars, Labels
  <2>. QED  BY <1>2, <2>1, <2>2, <2>3 DEF Author
<1>3. CASE BeatTask
  <2>1. CASE BeatSilent
    BY <2>1, AnsweringOther DEF BeatSilent, stateVars, Labels
  <2>2. CASE BeatSeal
    <3>1. health \in Nat
      BY DEF TypeOK, QueueType
    <3>. QED  BY <2>2, <3>1, AnsweringOther DEF BeatSeal, stateVars, Labels
  <2>3. CASE BeatDeliver
    <3>1. PICK label \in {"waiting", "done"} : Goto(Beat, label)
      BY <2>3 DEF BeatDeliver
    <3>. QED  BY <2>3, <3>1, AnsweringOther DEF BeatDeliver, stateVars, Labels
  <2>. QED  BY <1>3, <2>1, <2>2, <2>3 DEF BeatTask
<1>4. CASE TimerFires \/ OpenFails \/ Revoked \/ StreamFinish
  BY <1>4, AnsweringFinish DEF TimerFires, OpenFails, Revoked, StreamFinish
<1>5. CASE Answer
  <2>1. PICK label \in {"reading", "surfacing"} : Goto(Receive, label)
    BY <1>5 DEF Answer
  <2>2. \A t \in Threads \ {Receive} : pending'[t] = pending[t]
    BY <1>5 DEF Answer, Deliver, TypeOK, ThreadType
  <2>. QED  BY <2>1, <2>2, AnsweringOwn DEF Labels
<1>6. CASE Tell \/ OpenAnswered \/ StreamEnds
  BY <1>6, AnsweringOwn DEF Tell, OpenAnswered, StreamEnds, Labels
<1>7. CASE Instruct \/ LinkDrops
  BY <1>7 DEF Instruct, LinkDrops, stateVars, Answering
<1>8. ASSUME NEW s \in Streams, NEW conn \in Transports, Activate(s, conn) PROVE Answering'
  <2>1. pending' = [pending EXCEPT ![Receive] = [id |-> sealed + 1, kind |-> "activated", of |-> s]]
    BY <1>8 DEF Activate, Seal
  <2>2. active'[s] # 0
    BY <1>8 DEF Activate, Listed, TypeOK, StateType, QueueType
  <2>3. /\ \A t \in Threads \ {Receive} : pending'[t] = pending[t]
        /\ pending'[Receive].kind = "activated" /\ pending'[Receive].of = s
    BY <2>1 DEF TypeOK, ThreadType
  <2>. QED  BY <1>8, <2>2, <2>3, AnsweringOwn DEF Activate, Labels
<1>9. ASSUME NEW s \in Streams, ActivateFails(s) \/ Stop(s) PROVE Answering'
  <2>1. PICK kind \in {"failed", "stopped"} :
          /\ pending' = [pending EXCEPT ![Receive] = [id |-> sealed + 1, kind |-> kind, of |-> s]]
          /\ kind = "stopped" => active' = [active EXCEPT ![s] = 0]
    BY <1>9 DEF ActivateFails, Stop, Seal
  <2>2. kind = "stopped" => active'[s] = 0
    BY <2>1 DEF TypeOK, StateType
  <2>3. /\ \A t \in Threads \ {Receive} : pending'[t] = pending[t]
        /\ pending'[Receive].kind = kind /\ pending'[Receive].of = s
    BY <2>1 DEF TypeOK, ThreadType
  <2>. QED  BY <1>9, <2>2, <2>3, AnsweringOwn DEF ActivateFails, Stop, Labels
<1>. QED  BY <1>1, <1>2, <1>3, <1>4, <1>5, <1>6, <1>7, <1>8, <1>9 DEF Next, Core, ReceiveTask

\* When an activation is answered Done the stream can be emitted on, and when a stop is,
\* it cannot: what an answer says of a stream is true when it is queued, though it was
\* sealed before and the state was unlocked in between (plugin.rs:604-615, 631-637).
THEOREM AnswersAreTrue == Safety => AnswersTrue
<1>. DEFINE True == wire' # wire =>
                      LET e == wire'[Len(wire')]
                      IN  /\ e.kind = "activated" => active[e.of] # 0
                          /\ e.kind = "stopped" => active[e.of] = 0
<1>1. Init => Answering
  BY ThreadFacts DEF Init, Answering
<1>2. TypeOK /\ Answering /\ [Next]_vars => [True]_vars
  <2>. SUFFICES ASSUME TypeOK, Answering, Next, wire' # wire
                PROVE  LET e == wire'[Len(wire')]
                       IN  /\ e.kind = "activated" => active[e.of] # 0
                           /\ e.kind = "stopped" => active[e.of] = 0
    BY DEF vars, channels
  <2>. USE ThreadFacts
  <2>1. \E t \in Threads : /\ Deliver(t) /\ Takes
                           /\ \/ pc[t] \in {"sending", "closing"}
                              \/ t = Receive /\ pc[t] = "answering"
    <3>1. ASSUME NEW t, Deliver(t) PROVE Takes
      BY <3>1 DEF Deliver
    <3>2. CASE \E a \in Authors : Author(a)
      BY <3>1, <3>2 DEF Author, Say, HealthBegins, Health, AuthorDeliver, CloseMark, CloseDeliver,
        CloseSilence, EmitWrite, EmitTake, channels
    <3>3. CASE BeatTask \/ ReceiveTask \/ TimerFires
      BY <3>1, <3>3 DEF BeatTask, BeatSilent, BeatSeal, BeatDeliver, ReceiveTask, Answer, Tell,
        StreamFinish, TimerFires, channels
    <3>4. CASE Core
      BY <3>4 DEF Core, OpenAnswered, OpenFails, Revoked, StreamEnds, Instruct, LinkDrops,
        Activate, ActivateFails, Stop, channels
    <3>. QED  BY <3>2, <3>3, <3>4 DEF Next
  <2>2. PICK t \in Threads : /\ Deliver(t) /\ Takes
                             /\ \/ pc[t] \in {"sending", "closing"}
                                \/ t = Receive /\ pc[t] = "answering"
    BY <2>1
  <2>3. wire' = Append(wire, pending[t]) /\ pending[t] \in Envelope
    BY <2>2 DEF Deliver, TypeOK, InHand
  <2>4. wire'[Len(wire')] = pending[t] /\ ~ended
    BY <2>2, <2>3 DEF TypeOK, QueueType, Takes
  <2>. QED  BY <2>2, <2>4 DEF Answering
<1>. QED  BY <1>1, <1>2, AnsweringStep, TypeCorrect, PTL DEF Safety, AnswersTrue

==============================================================================
