---------------------------- MODULE PluginSession ----------------------------
(***************************************************************************)
(* One Session of the plugin library, from the moment start_with has sent  *)
(* the OPEN and spawned its two tasks (src/plugin.rs).                     *)
(*                                                                         *)
(* Threads: the author's concurrent calls on a Unit, the task `beat', the  *)
(* task `receive', and the timers that `close' spawns.  A step is one      *)
(* critical section of the mutex `state' (or of a flow's mutex), or one    *)
(* arrival from the Core.  Envelopes::seal numbers an envelope BEFORE the  *)
(* state is locked to deliver it, so the two are separate steps; the       *)
(* fetch_add itself is joined to the step before it, since the number is   *)
(* private to its thread until the envelope is delivered.                  *)
(***************************************************************************)
EXTENDS Naturals, Sequences

CONSTANTS Authors,      \* the author's callers of the Unit
          Beat,         \* the task `beat'
          Receive,      \* the task `receive'
          Nobody,       \* the health lock's holder when it is free
          Streams,      \* the streams the Core may activate
          Transports,   \* the transports the Core may name
          RingCounts,   \* the frames a ring the Core hands may hold already
          MaxCalls,     \* bound: calls the authors make
          MaxMessages,  \* bound: messages the Core sends
          MaxBeats      \* bound: beats sent while the Session is open

Threads == Authors \cup {Beat, Receive}

ASSUME ThreadsAssumption ==
  /\ Beat \notin Authors /\ Receive \notin Authors /\ Beat # Receive
  /\ Nobody \notin Threads

ASSUME BoundsAssumption ==
  MaxCalls \in Nat /\ MaxMessages \in Nat /\ MaxBeats \in Nat

ASSUME TransportsAssumption ==
  Transports \subseteq {"ordered", "framed", "ring"} /\ RingCounts \subseteq Nat

VARIABLES
  \* struct State, behind one mutex
  out,          \* state.out is Some: envelopes may be queued
  events,       \* state.events is Some: events may be surfaced
  ended,
  closing,
  active,       \* state.active: the stream's flow, 0 when it has none
  \* the rest of Shared
  sealed,       \* Envelopes.next
  health,       \* the number of the author's last report, 0 before the first
  healthLock,   \* who holds the mutex `health'
  \* the two channels, as what has gone into them
  wire,         \* envelopes queued to the Core
  linked,       \* the receiving half of that queue still exists
  surfaced,     \* events queued to the author
  flows,        \* every activation's Emitting, and what its transport took
  \* threads
  pc,
  pending,      \* the envelope a thread has sealed and not delivered
  held,         \* the flow an emit took from `active'
  told,         \* the event `receive' surfaces once its answer is delivered
  timers,       \* close's timers that have not fired
  \* counters of the bounds
  calls, messages, beats

stateVars == <<out, events, ended, closing, active>>
report    == <<health, healthLock>>
channels  == <<wire, linked, surfaced>>
bounds    == <<calls, messages, beats>>
vars == <<stateVars, sealed, report, channels, flows, pc, pending, held, told,
          timers, bounds>>

-------------------------------------------------------------------------------
\* An envelope: its identity, its kind, and the health report or the stream it
\* is about; a thread that has sealed none holds NoEnvelope.
Kinds      == {"open", "close", "author", "health", "activated", "stopped", "failed"}
Envelope   == [id : Nat, kind : Kinds, of : Nat \cup Streams]
NoEnvelope == [id |-> 0, kind |-> "none", of |-> 0]
Opening    == [id |-> 1, kind |-> "open", of |-> 0]

\* What `receive' surfaces: a command, a question or a refusal (an instruction, by
\* the number of its message), a change of a stream, and the end.
EndKinds == {"closed", "revoked", "lost"}
Event == [kind : {"instruction"}, of : Nat]
           \cup [kind : {"activated", "stopped"}, of : Streams]
End   == [kind : EndKinds, of : {0}]
EndAs(kind)       == [kind |-> kind, of |-> 0]
Changed(kind, s)  == [kind |-> kind, of |-> s]
NoEvent           == [kind |-> "none", of |-> 0]

\* An activation's Emitting: its own count and, on a ring, its Writer's.
Flow == [stream : Streams, conn : Transports, next : Nat, published : Nat,
         sent : Seq([seq : Nat, id : Nat])]

Init ==
  /\ out = TRUE /\ events = TRUE /\ ended = FALSE /\ closing = FALSE
  /\ active = [s \in Streams |-> 0]
  /\ sealed = 1 /\ wire = <<Opening>>
  /\ health = 0 /\ healthLock = Nobody
  /\ linked = TRUE
  /\ surfaced = <<>>
  /\ flows = <<>>
  \* no beat is spawned when the Core assigned no interval
  /\ \E b \in {"waiting", "done"} :
       pc = [t \in Threads |-> IF t = Beat THEN b
                               ELSE IF t = Receive THEN "opening" ELSE "idle"]
  /\ pending = [t \in Threads |-> NoEnvelope]
  /\ held = [a \in Authors |-> 0]
  /\ told = NoEvent
  /\ timers = 0
  /\ calls = 0 /\ messages = 0 /\ beats = 0

-------------------------------------------------------------------------------
\* The pieces the operations are made of.

Goto(t, label) == pc' = [pc EXCEPT ![t] = label]

\* Mutant: the number is read off the queue, not claimed.
SealUnclaimed(t, kind, of) ==
  /\ sealed' = sealed + 1
  /\ pending' = [pending EXCEPT ![t] = [id |-> Len(wire) + 1, kind |-> kind, of |-> of]]

Seal(t, kind, of) ==
  /\ sealed' = sealed + 1
  /\ pending' = [pending EXCEPT ![t] = [id |-> sealed + 1, kind |-> kind, of |-> of]]

Takes == out /\ ~ended /\ linked

Deliver(t) ==
  /\ wire' = IF Takes THEN Append(wire, pending[t]) ELSE wire
  /\ pending' = [pending EXCEPT ![t] = NoEnvelope]

Surface(event) == surfaced' = IF events THEN Append(surfaced, event) ELSE surfaced

\* Mutant: an end that comes second is surfaced too.
FinishTwice(end) ==
  /\ ended' = TRUE /\ out' = FALSE /\ events' = events
  /\ active' = [s \in Streams |-> 0]
  /\ Surface(end)

\* The whole of Shared::finish, one critical section.
Finish(end) ==
  \/ ended /\ UNCHANGED <<out, events, ended, active, surfaced>>
  \/ /\ ~ended
     /\ ended' = TRUE /\ out' = FALSE /\ events' = FALSE
     /\ active' = [s \in Streams |-> 0]
     /\ Surface(end)

-------------------------------------------------------------------------------
\* The author's calls.  None awaits anything, so a call begun goes on to its end.

MayCall(a) == pc[a] = "idle" /\ calls < MaxCalls /\ calls' = calls + 1

\* ack, answer and report: an envelope is sealed, then delivered.
Say(a) ==
  /\ MayCall(a)
  /\ Seal(a, "author", 0)
  /\ Goto(a, "sending")
  /\ UNCHANGED <<stateVars, report, channels, flows, held, told, timers, messages, beats>>

\* health waits for the report's mutex ...
HealthBegins(a) ==
  /\ MayCall(a)
  /\ Goto(a, "locking")
  /\ UNCHANGED <<stateVars, sealed, report, channels, flows, pending, held, told,
                 timers, messages, beats>>

\* ... and the report is kept and sealed, the mutex held until it is delivered.
Health(a) ==
  /\ pc[a] = "locking"
  /\ healthLock = Nobody /\ healthLock' = a
  /\ health' = health + 1
  /\ Seal(a, "health", health + 1)
  /\ Goto(a, "sending")
  /\ UNCHANGED <<stateVars, channels, flows, held, told, timers, bounds>>

\* Mutant: the guard outlives a send that was refused.
ReleaseIfTaken(t) ==
  healthLock' = IF healthLock = t /\ Takes THEN Nobody ELSE healthLock

Release(t) == healthLock' = IF healthLock = t THEN Nobody ELSE healthLock

AuthorDeliver(a) ==
  /\ pc[a] = "sending"
  /\ Deliver(a)
  /\ Release(a)
  /\ Goto(a, "idle")
  /\ UNCHANGED <<stateVars, sealed, health, linked, surfaced, flows, held, told,
                 timers, bounds>>

\* close, in its order: the departure is marked, the CLOSE is delivered, the
\* sender is dropped and the timer spawned.  A Session that has ended is left.
CloseMark(a) ==
  /\ MayCall(a)
  /\ ~ended
  /\ closing' = TRUE
  /\ Seal(a, "close", 0)
  /\ Goto(a, "closing")
  /\ UNCHANGED <<out, events, ended, active, report, channels, flows, held, told,
                 timers, messages, beats>>

CloseDeliver(a) ==
  /\ pc[a] = "closing"
  /\ Deliver(a)
  /\ Goto(a, "closed")
  /\ UNCHANGED <<stateVars, sealed, report, linked, surfaced, flows, held, told,
                 timers, bounds>>

\* Mutant: the timer is spawned only while the queue still has its reader.
SpawnIfLinked == timers' = IF linked THEN timers + 1 ELSE timers

SpawnTimer == timers' = timers + 1

CloseSilence(a) ==
  /\ pc[a] = "closed"
  /\ out' = FALSE
  /\ SpawnTimer
  /\ Goto(a, "idle")
  /\ UNCHANGED <<events, ended, closing, active, sealed, report, channels, flows,
                 pending, held, told, bounds>>

\* A timer of close has run out; its task is gone afterwards.
TimerFires ==
  /\ timers > 0
  /\ timers' = timers - 1
  /\ Finish(EndAs("closed"))
  /\ UNCHANGED <<closing, sealed, report, wire, linked, flows, pc, pending, held,
                 told, bounds>>

\* emit takes the stream's flow from `active' and unlocks the state ...
\* Mutant: a stream with no flow is not told from one with a flow.
EmitTakeAny(a, s) ==
  /\ MayCall(a)
  /\ held' = [held EXCEPT ![a] = active[s]]
  /\ Goto(a, "emitting")
  /\ UNCHANGED <<stateVars, sealed, report, channels, flows, pending, told, timers,
                 messages, beats>>

EmitTake(a, s) ==
  /\ MayCall(a)
  /\ active[s] # 0
  /\ held' = [held EXCEPT ![a] = active[s]]
  /\ Goto(a, "emitting")
  /\ UNCHANGED <<stateVars, sealed, report, channels, flows, pending, told, timers,
                 messages, beats>>

\* ... and numbers and writes under the flow's own mutex.  A ring's Writer numbers
\* its frames itself, whatever the flow's count says.
Sequence(flow) == IF flow.conn = "ring" THEN flow.published + 1 ELSE flow.next + 1

\* Only the ordered transport's data is an envelope, with an identity of its own.
Numbered(flow) ==
  [seq |-> Sequence(flow), id |-> IF flow.conn = "ordered" THEN sealed + 1 ELSE 0]

Carrying(flow, next, published, sent) ==
  [stream |-> flow.stream, conn |-> flow.conn, next |-> next, published |-> published,
   sent |-> sent]

\* Mutant: the number of a write that failed is not given back.
WroteKeeping(flow, taken) ==
  Carrying(flow, flow.next + 1,
           IF flow.conn = "ring" /\ taken THEN flow.published + 1 ELSE flow.published,
           IF taken THEN Append(flow.sent, Numbered(flow)) ELSE flow.sent)

Wrote(flow, taken) ==
  IF taken THEN Carrying(flow, flow.next + 1,
                         IF flow.conn = "ring" THEN flow.published + 1 ELSE flow.published,
                         Append(flow.sent, Numbered(flow)))
           ELSE flow

EmitWrite(a) ==
  /\ pc[a] = "emitting"
  /\ \E taken \in BOOLEAN : flows' = [flows EXCEPT ![held[a]] = Wrote(@, taken)]
  /\ sealed' = IF flows[held[a]].conn = "ordered" THEN sealed + 1 ELSE sealed
  /\ held' = [held EXCEPT ![a] = 0]
  /\ Goto(a, "idle")
  /\ UNCHANGED <<stateVars, report, channels, pending, told, timers, bounds>>

-------------------------------------------------------------------------------
\* The task `beat'.

\* A tick with the health mutex free.  MaxBeats bounds the beats that are queued.
Ticks == pc[Beat] = "waiting" /\ healthLock = Nobody /\ (Takes => beats < MaxBeats)

\* Nothing has been reported: nothing is sent, and the task looks for the end.
\* Mutant: it does not.
BeatSilentForever == Ticks /\ health = 0 /\ ended /\ UNCHANGED vars

BeatSilent ==
  /\ Ticks
  /\ health = 0 /\ ended
  /\ Goto(Beat, "done")
  /\ UNCHANGED <<stateVars, sealed, report, channels, flows, pending, held, told,
                 timers, bounds>>

\* Mutant: the report is copied and its mutex not kept while it is sent.
CopyReport == healthLock' = healthLock

KeepReport == healthLock' = Beat

BeatSeal ==
  /\ Ticks
  /\ health # 0
  /\ KeepReport
  /\ Seal(Beat, "health", health)
  /\ Goto(Beat, "sending")
  /\ beats' = IF Takes THEN beats + 1 ELSE beats
  /\ UNCHANGED <<stateVars, health, channels, flows, held, told, timers, calls, messages>>

BeatDeliver ==
  /\ pc[Beat] = "sending"
  /\ Deliver(Beat)
  /\ Release(Beat)
  /\ Goto(Beat, IF Takes THEN "waiting" ELSE "done")
  /\ UNCHANGED <<stateVars, sealed, health, linked, surfaced, flows, held, told,
                 timers, bounds>>

-------------------------------------------------------------------------------
\* The task `receive'.  What the Core sends is any message at any time.

Arrives ==
  /\ pc[Receive] = "reading" /\ messages < MaxMessages
  /\ messages' = messages + 1

OpenAnswered ==
  /\ pc[Receive] = "opening"
  /\ Goto(Receive, "reading")
  /\ UNCHANGED <<stateVars, sealed, report, channels, flows, pending, held, told,
                 timers, bounds>>

OpenFails ==
  /\ pc[Receive] = "opening"
  /\ Finish(EndAs("lost"))
  /\ Goto(Receive, "done")
  /\ UNCHANGED <<closing, sealed, report, wire, linked, flows, pending, held, told,
                 timers, bounds>>

\* A command, a question, or an error the Core answered a message with.
Instruct ==
  /\ Arrives
  /\ Surface([kind |-> "instruction", of |-> messages + 1])
  /\ UNCHANGED <<stateVars, sealed, report, wire, linked, flows, pc, pending, held,
                 told, timers, calls, beats>>

\* Mutant: the activation is answered with no flow to emit on.
Unlisted(s) == active' = active

Listed(s) == active' = [active EXCEPT ![s] = Len(flows) + 1]

\* A ring's Writer goes on from the count the header says when it opens.
Opened(s, conn, count) ==
  [stream |-> s, conn |-> conn, next |-> 0, published |-> count, sent |-> <<>>]

\* The transport is reached: the flow is listed, then the answer sealed.
Activate(s, conn) ==
  /\ Arrives
  /\ \E count \in IF conn = "ring" THEN RingCounts ELSE {0} :
       flows' = Append(flows, Opened(s, conn, count))
  /\ Listed(s)
  /\ Seal(Receive, "activated", s)
  /\ told' = Changed("activated", s)
  /\ Goto(Receive, "answering")
  /\ UNCHANGED <<out, events, ended, closing, report, channels, held, timers, calls, beats>>

\* It is not reached: the answer says so and the author is told nothing.
ActivateFails(s) ==
  /\ Arrives
  /\ Seal(Receive, "failed", s)
  /\ Goto(Receive, "answering")
  /\ UNCHANGED <<stateVars, report, channels, flows, held, told, timers, calls, beats>>

Stop(s) ==
  /\ Arrives
  /\ active' = [active EXCEPT ![s] = 0]
  /\ Seal(Receive, "stopped", s)
  /\ told' = Changed("stopped", s)
  /\ Goto(Receive, "answering")
  /\ UNCHANGED <<out, events, ended, closing, report, channels, flows, held, timers,
                 calls, beats>>

Answer ==
  /\ pc[Receive] = "answering"
  /\ Deliver(Receive)
  /\ Goto(Receive, IF told = NoEvent THEN "reading" ELSE "surfacing")
  /\ UNCHANGED <<stateVars, sealed, report, linked, surfaced, flows, held, told,
                 timers, bounds>>

Tell ==
  /\ pc[Receive] = "surfacing"
  /\ Surface(told)
  /\ told' = NoEvent
  /\ Goto(Receive, "reading")
  /\ UNCHANGED <<stateVars, sealed, report, wire, linked, flows, pending, held,
                 timers, bounds>>

\* Mutant: the task returns on a revocation without ending the Session.
RevokedQuietly ==
  /\ pc[Receive] = "reading"
  /\ Goto(Receive, "done")
  /\ UNCHANGED <<stateVars, sealed, report, channels, flows, pending, held, told,
                 timers, bounds>>

Revoked ==
  /\ pc[Receive] = "reading"
  /\ Finish(EndAs("revoked"))
  /\ Goto(Receive, "done")
  /\ UNCHANGED <<closing, sealed, report, wire, linked, flows, pending, held, told,
                 timers, bounds>>

\* Mutant: every end of the stream is taken for the author's departure.
Departed == "closed"

StreamEnd == IF closing THEN "closed" ELSE "lost"

\* The stream ends or fails: whether this is the departure is read first, and
\* the Session finished in a critical section of its own.
StreamEnds ==
  /\ pc[Receive] = "reading"
  /\ told' = EndAs(StreamEnd)
  /\ Goto(Receive, "ending")
  /\ UNCHANGED <<stateVars, sealed, report, channels, flows, pending, held, timers, bounds>>

StreamFinish ==
  /\ pc[Receive] = "ending"
  /\ Finish(told)
  /\ told' = NoEvent
  /\ Goto(Receive, "done")
  /\ UNCHANGED <<closing, sealed, report, wire, linked, flows, pending, held, timers, bounds>>

\* The transport lets go of the queue's receiving half (external: tonic).
LinkDrops ==
  /\ linked
  /\ linked' = FALSE
  /\ UNCHANGED <<stateVars, sealed, report, wire, surfaced, flows, pc, pending, held,
                 told, timers, bounds>>

-------------------------------------------------------------------------------
Author(a) ==
  \/ Say(a) \/ HealthBegins(a) \/ Health(a) \/ AuthorDeliver(a)
  \/ CloseMark(a) \/ CloseDeliver(a) \/ CloseSilence(a)
  \/ EmitWrite(a)
  \/ \E s \in Streams : EmitTake(a, s)

BeatTask == BeatSilent \/ BeatSeal \/ BeatDeliver

Core ==
  \/ OpenAnswered \/ OpenFails \/ Revoked \/ StreamEnds \/ Instruct \/ LinkDrops
  \/ \E s \in Streams, conn \in Transports : Activate(s, conn)
  \/ \E s \in Streams : ActivateFails(s) \/ Stop(s)

ReceiveTask == Answer \/ Tell \/ StreamFinish

Next ==
  \/ \E a \in Authors : Author(a)
  \/ BeatTask \/ ReceiveTask \/ TimerFires \/ Core

\* A task goes on from where it is and a timer runs out.  Nothing obliges the
\* author to call, the Core to send, or the transport to take what is emitted.
Fairness ==
  /\ \A a \in Authors : /\ WF_vars(Health(a))
                        /\ WF_vars(AuthorDeliver(a))
                        /\ WF_vars(CloseDeliver(a))
                        /\ WF_vars(CloseSilence(a))
  /\ WF_vars(BeatTask)
  /\ WF_vars(ReceiveTask)
  /\ WF_vars(TimerFires)

Safety == Init /\ [][Next]_vars
Spec   == Safety /\ Fairness

-------------------------------------------------------------------------------
\* Properties.

Labels == {"idle", "locking", "sending", "closing", "closed", "emitting", "waiting", "done",
           "opening", "reading", "answering", "surfacing", "ending"}

\* What a thread at a label has in hand.
InHand ==
  /\ \A a \in Authors : pc[a] = "emitting" => held[a] # 0
  /\ \A t \in Threads :
       pc[t] \in {"sending", "closing", "answering"} => pending[t] \in Envelope
  /\ told \in IF pc[Receive] = "ending" THEN End
             ELSE IF pc[Receive] = "surfacing" THEN Event
             ELSE IF pc[Receive] = "answering" THEN Event \cup {NoEvent}
             ELSE {NoEvent}

StateType ==
  /\ out \in BOOLEAN /\ events \in BOOLEAN /\ ended \in BOOLEAN /\ closing \in BOOLEAN
  /\ active \in [Streams -> 0..Len(flows)]
QueueType ==
  /\ sealed \in Nat /\ health \in Nat /\ healthLock \in Threads \cup {Nobody}
  /\ linked \in BOOLEAN /\ wire \in Seq(Envelope)
  /\ surfaced \in Seq(Event \cup End) /\ flows \in Seq(Flow)
ThreadType ==
  /\ pc \in [Threads -> Labels]
  /\ pending \in [Threads -> Envelope \cup {NoEnvelope}]
  /\ held \in [Authors -> 0..Len(flows)]
  /\ timers \in Nat
CountType == calls \in 0..MaxCalls /\ messages \in 0..MaxMessages /\ beats \in 0..MaxBeats

\* Every variable has its type, a flow that is named exists, and a thread has in
\* hand what its next step sends, writes or surfaces.
TypeOK == StateType /\ QueueType /\ ThreadType /\ CountType /\ InHand

\* The author is handed one end, after everything else, exactly when the Session
\* has ended (Event's doc, plugin.rs:220): the timers, a revocation and the end
\* of the stream race to finish it, and a message may be in hand.
EndIsLast ==
  /\ \A i \in DOMAIN surfaced : surfaced[i] \in End => i = Len(surfaced) /\ ended
  /\ ended => surfaced # <<>> /\ surfaced[Len(surfaced)] \in End

\* How the pieces of the state agree: events may be surfaced exactly until the
\* end, nothing is queued after it, whoever is at work on a departure has marked
\* it, and the queue is closed early only for one.  With EndIsLast it is inductive.
SessionInv ==
  /\ events = ~ended
  /\ ended => ~out
  /\ \A a \in Authors : pc[a] \in {"closing", "closed"} => closing
  /\ timers > 0 \/ told = EndAs("closed") => closing
  /\ ~out => ended \/ closing

\* Where an envelope may be: in the Session's queue (flow 0), or on a flow.
Places == {<<0, i>> : i \in DOMAIN wire}
            \cup UNION {{<<k, i>> : i \in DOMAIN flows[k].sent} : k \in DOMAIN flows}
IdAt(p) == IF p[1] = 0 THEN wire[p[2]].id ELSE flows[p[1]].sent[p[2]].id

\* No two envelopes of the unit share an identity, on the Session and on the
\* ordered transports together (Envelopes' doc, base.rs:162-163).
UniqueIds == \A p, q \in Places : IdAt(p) # 0 /\ IdAt(p) = IdAt(q) => p = q

\* A beat never sends a report older than one the author has already sent
\* (Shared's comment, plugin.rs:260-261).
NeverOlder ==
  \A i, j \in DOMAIN wire :
    i < j /\ wire[i].kind = "health" /\ wire[j].kind = "health"
      => wire[i].of <= wire[j].of

\* What a flow carries is numbered without a gap, whichever callers emit on it and
\* whichever writes fail: from 1 on the ordered and the framed transport (Unit::emit's
\* doc, plugin.rs:769-772), and on a ring up to its Writer's own count, from wherever
\* the ring stood when it was opened (plugin.rs:810-816, ring.rs:73-74, 93-111).
Contiguous ==
  \A k \in DOMAIN flows : LET flow == flows[k] IN
    \A i \in DOMAIN flow.sent :
      IF flow.conn = "ring" THEN flow.sent[i].seq + Len(flow.sent) = flow.published + i
                            ELSE flow.sent[i].seq = i

\* The task that reads the Session never leaves without ending it: the author's
\* `next' would wait for good (plugin.rs:538-655).
NeverOrphaned == pc[Receive] = "done" => ended

\* Only a unit that asked to leave is told that it left (plugin.rs:558-565, 686).
ClosedMeansAsked == \A i \in DOMAIN surfaced : surfaced[i] = EndAs("closed") => closing

\* When an activation is answered Done the stream can be emitted on, and when a
\* stop is, it cannot (plugin.rs:604-615, 631-637).
AnswersTrue ==
  [][wire' # wire =>
       LET e == wire'[Len(wire')]
       IN  /\ e.kind = "activated" => active[e.of] # 0
           /\ e.kind = "stopped" => active[e.of] = 0]_vars

\* A departure ends the Session, whatever the Core does (plugin.rs:686-694).
CloseEnds == closing ~> ended

\* The beat stops once the Session has ended (plugin.rs:519-521).
BeatStops == ended ~> pc[Beat] = "done"

\* A call that needs nothing of the Core returns, a report too that waits for a beat
\* or for another report: the report's mutex is always given back, and a call blocked
\* in a transport is not in the way (plugin.rs:367-382, 526-533, 754-767).
CallsReturn ==
  \A a \in Authors : pc[a] \in {"locking", "sending", "closing", "closed"} ~> pc[a] = "idle"

Contract == INSTANCE SessionContract WITH
  Envelopes <- Envelope, Events <- Event, Ends <- End,
  said <- wire, heard <- surfaced, asked <- closing, silent <- ~out, over <- ended

\* The library keeps the contract of a Session.
Implements == Contract!Spec

\* finish's comment: "the end is surfaced, nothing follows it, and nothing more is
\* sent" (plugin.rs:391): no stream is left to emit on.
NoStreamAfterEnd == ended => \A s \in Streams : active[s] = 0

\* The comment on a stop: "Dropping the connection closes it" (plugin.rs:632).
\* Once the author is told a stream has stopped, only a flow activated since takes
\* anything.
StoppedTakesNothing ==
  [][\A k \in DOMAIN flows :
       LET s == flows[k].stream
       IN  surfaced # <<>> /\ surfaced[Len(surfaced)] = Changed("stopped", s)
             => active[s] = k \/ flows'[k].sent = flows[k].sent]_vars

===============================================================================
