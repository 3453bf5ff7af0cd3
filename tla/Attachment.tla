------------------------------ MODULE Attachment ------------------------------
(***************************************************************************)
(* A client's attachment to a channel (src/interface.rs): the calls in     *)
(* flight on it, the subscriptions and deliveries it feeds, the task       *)
(* `receive' that hands every frame to the call it belongs to, and the     *)
(* attachment's close and drop.  A future may be dropped wherever it       *)
(* awaits, as Rust's may.                                                  *)
(*                                                                         *)
(* Names.  Call n is the identity c-n.  The delivery a stream's call n     *)
(* opens is named MaxCalls + n, and the standing subscription 0.  A        *)
(* delivery arrives on the attachment's own connection, through a queue    *)
(* of its name, or on a socket of its own, whose packets stand under it.   *)
(***************************************************************************)
EXTENDS Naturals, Sequences

CONSTANTS MaxCalls,   \* bound: calls issued, the credential's included
          MaxFrames,  \* bound: frames the Core sends
          Buffer      \* frames the channel to the Core holds: 64 in the code

ASSUME AttachmentAssumption ==
  MaxCalls \in Nat \ {0} /\ MaxFrames \in Nat /\ Buffer \in Nat \ {0}

Calls   == 1..MaxCalls
Callers == 0..MaxCalls
DeliveryOf(n) == MaxCalls + n
Names       == 0..2 * MaxCalls

VARIABLES
  \* Inner
  out,        \* Inner.out is Some
  count, ended,
  queues,     \* the names that have a queue
  chan,       \* what each name's reading side has not read
  \* the channel to the Core
  buffer, linked,
  sent,       \* everything that went into it
  \* the Attachment and the task
  att,        \* "attaching", "attached", "closing", "gone"
  established,
  recv,       \* "running", "returned", "aborted"
  \* the calls: what each is, where its future is, and the delivery a release names
  op, at, of,
  \* the Core (external)
  socket,     \* the streams whose delivery it gave a socket of its own
  core,       \* what it knows of each name
  incoming, over, frames,
  lost        \* for a property: the names a frame came for and found no queue

inner    == <<out, count, ended>>
outgoing == <<buffer, linked, sent>>
whole    == <<att, established, recv>>
coreVars == <<core, incoming, over, frames>>
vars == <<inner, queues, chan, outgoing, whole, op, at, of, socket, coreVars, lost>>

Ops == {"none", "credential", "standing", "call", "subscribe", "stream", "release"}

\* Where a future is: "blocked" in the send, "waiting" for its first frame,
\* "opening" a delivery answered, "open" to be read; then how it ended.  A future is
\* "dropped" before it had its answer, what it opened is "discarded" later.
InProgress == {"blocked", "waiting", "opening"}
Places == InProgress \cup
  {"unused", "open", "closed", "completed", "done", "failed", "dropped", "discarded"}

Frame == [name : Names,
          kind : {"answer", "socket", "wrong", "refusal", "item", "completion"}]
Request(n) == [name |-> n, kind |-> "request"]
Cancel(n)  == [name |-> n, kind |-> "cancel"]

\* Mutant: the credential's identity is not counted.
FirstCount(credential) == 0

InitialCount(credential) == IF credential THEN 1 ELSE 0

\* attach has had its opening of the right version: the credential is sent, the
\* standing subscription and the credential registered, the task spawned.
Init ==
  \E credential, standing \in BOOLEAN :
    LET Initially(n, c, s, other) ==
          IF n = 1 /\ credential THEN c ELSE IF n = 0 /\ standing THEN s ELSE other
    IN  /\ out = TRUE /\ ended = FALSE
        /\ count = InitialCount(credential)
        /\ queues = {n \in {0, 1} : Initially(n, TRUE, TRUE, FALSE)}
        /\ chan = [n \in Names |-> <<>>]
        /\ sent = IF credential THEN <<Request(1)>> ELSE <<>>
        /\ buffer = sent /\ linked = TRUE
        /\ att = IF credential THEN "attaching" ELSE "attached"
        /\ established = FALSE
        /\ recv = "running"
        /\ op = [n \in Callers |-> Initially(n, "credential", "standing", "none")]
        /\ at = [n \in Callers |-> Initially(n, "waiting", "open", "unused")]
        /\ of = [n \in Calls |-> 0]
        /\ socket = {}
        /\ core = [n \in Callers |-> Initially(n, "unknown", "answered", "unknown")]
        /\ incoming = <<>> /\ over = FALSE /\ frames = 0
        /\ lost = {}

-------------------------------------------------------------------------------
\* The pieces the operations are made of.

Move(n, place) == at' = [at EXCEPT ![n] = place]
Forget(S)      == queues' = queues \ S

\* Inner::cancel: try_send, so a full channel drops it.
TryCancel(n) ==
  IF out /\ linked /\ Len(buffer) < Buffer
    THEN /\ buffer' = Append(buffer, Cancel(n)) /\ sent' = Append(sent, Cancel(n))
         /\ UNCHANGED linked
    ELSE UNCHANGED outgoing

NameOf(n) == IF op[n] = "stream" THEN DeliveryOf(n) ELSE n

\* Where `first' is: a frame has come for call n, or its queue is gone.
Answered(n) == at[n] = "waiting" /\ chan[n] # <<>>
Deserted(n) == chan[n] = <<>> /\ n \notin queues

-------------------------------------------------------------------------------
\* Inner::issue, up to where it awaits: the identity, the queue, the sender.

\* A new call begins; a release takes over the delivery it names.
Started(n, kind, d) ==
  /\ out /\ ~ended
  /\ count < MaxCalls /\ n = count + 1
  /\ count' = n
  /\ op' = [op EXCEPT ![n] = kind]
  /\ of' = [of EXCEPT ![n] = d]
  /\ at' = [c \in Callers |-> IF c = n THEN "blocked"
                             ELSE IF c = d /\ kind = "release" THEN "closed" ELSE at[c]]
  /\ UNCHANGED <<out, ended, chan, outgoing, whole, socket, coreVars, lost>>

\* The attachment has ended, or nothing more is sent: the call fails before it
\* awaits, and a release lets its delivery go with its queue.
IssueFails(n, kind, d) ==
  /\ ~out \/ ended
  /\ count < MaxCalls /\ n = count + 1
  /\ count' = n
  /\ op' = [op EXCEPT ![n] = kind]
  /\ of' = [of EXCEPT ![n] = d]
  /\ at' = [c \in Callers |-> IF c = n THEN "failed"
                             ELSE IF c = d /\ kind = "release" THEN "closed" ELSE at[c]]
  /\ UNCHANGED <<out, ended, queues, chan, outgoing, whole, socket, coreVars, lost>>

\* Mutant: the queue is not there when the request goes out.
UnregisteredIssue(n, kind, d) == Started(n, kind, d) /\ UNCHANGED queues

Issue(n, kind, d) == Started(n, kind, d) /\ queues' = queues \cup {n}

Begin(n) ==
  /\ att = "attached"
  /\ \E kind \in {"call", "subscribe", "stream"} :
       Issue(n, kind, 0) \/ IssueFails(n, kind, 0)

\* A delivery is released by a call of its own, which owns it.
BeginRelease(n) ==
  \E m \in Calls :
    /\ op[m] = "stream" /\ at[m] \in {"open", "completed"}
    /\ Issue(n, "release", m) \/ IssueFails(n, "release", m)

\* Mutant: the channel to the Core is unbounded.
SendUnbounded(n) ==
  /\ at[n] = "blocked" /\ linked
  /\ buffer' = Append(buffer, Request(n))
  /\ sent' = Append(sent, Request(n))
  /\ Move(n, "waiting")
  /\ UNCHANGED <<inner, queues, chan, linked, whole, op, of, socket, coreVars, lost>>

\* send: the request goes in when there is room ...
Send(n) ==
  /\ at[n] = "blocked" /\ linked /\ Len(buffer) < Buffer
  /\ buffer' = Append(buffer, Request(n))
  /\ sent' = Append(sent, Request(n))
  /\ Move(n, "waiting")
  /\ UNCHANGED <<inner, queues, chan, linked, whole, op, of, socket, coreVars, lost>>

\* ... and fails when nobody receives any more.
SendFails(n) ==
  /\ at[n] = "blocked" /\ ~linked
  /\ Forget({n})
  /\ Move(n, "failed")
  /\ UNCHANGED <<inner, chan, outgoing, whole, op, of, socket, coreVars, lost>>

\* Mutant: InFlight exists from the start.
CancelBlocked(n) ==
  /\ at[n] = "blocked"
  /\ Forget({n}) /\ TryCancel(n)
  /\ Move(n, "dropped")
  /\ UNCHANGED <<inner, chan, whole, op, of, socket, coreVars, lost>>

\* The future is dropped in the send: InFlight does not exist yet.
DropBlocked(n) ==
  /\ at[n] = "blocked"
  /\ Move(n, "dropped")
  /\ UNCHANGED <<inner, queues, chan, outgoing, whole, op, of, socket, coreVars, lost>>

-------------------------------------------------------------------------------
\* The first frame, and what each operation makes of it.

\* call and release: whatever came, the call is forgotten; a release forgets the
\* delivery too.  An answer of another operation is an error like a refusal.
FirstOfCall(n) ==
  /\ op[n] \in {"call", "release"} /\ Answered(n)
  /\ chan' = [chan EXCEPT ![n] = Tail(@)]
  /\ Forget(IF op[n] = "release" THEN {n, DeliveryOf(of[n])} ELSE {n})
  /\ Move(n, IF Head(chan[n]).kind = "answer" THEN "done" ELSE "failed")
  /\ UNCHANGED <<inner, outgoing, whole, op, of, socket, coreVars, lost>>

\* subscribe: an answer opens it, its queue kept; anything else is forgotten.
FirstOfSubscribe(n) ==
  /\ op[n] = "subscribe" /\ Answered(n)
  /\ chan' = [chan EXCEPT ![n] = Tail(@)]
  /\ \/ Head(chan[n]).kind = "answer" /\ Move(n, "open") /\ UNCHANGED queues
     \/ Head(chan[n]).kind # "answer" /\ Move(n, "failed") /\ Forget({n})
  /\ UNCHANGED <<inner, outgoing, whole, op, of, socket, coreVars, lost>>

\* subscribe_stream: the call is over before the delivery is opened.
FirstOfStream(n) ==
  /\ op[n] = "stream" /\ Answered(n)
  /\ chan' = [chan EXCEPT ![n] = Tail(@)]
  /\ Forget({n})
  /\ Move(n, IF Head(chan[n]).kind \in {"answer", "socket"} THEN "opening" ELSE "failed")
  /\ UNCHANGED <<inner, outgoing, whole, op, of, socket, coreVars, lost>>

\* On the connection the reading side of its queue is taken, unless the attachment
\* has ended; a socket is connected to, or is not.
OpenDelivery(n) ==
  /\ at[n] = "opening"
  /\ \/ (n \in socket \/ ended) /\ Move(n, "failed") /\ UNCHANGED queues
     \/ n \in socket /\ Move(n, "open") /\ UNCHANGED queues
     \/ n \notin socket /\ ~ended /\ Move(n, "open") /\ queues' = queues \cup {DeliveryOf(n)}
  /\ UNCHANGED <<inner, chan, outgoing, whole, op, of, socket, coreVars, lost>>

\* attach: an answer, of whatever operation, attaches; only the right one is
\* kept.  A refusal closes the attachment.
FirstOfCredential(n) ==
  /\ op[n] = "credential" /\ Answered(n)
  /\ chan' = [chan EXCEPT ![n] = Tail(@)]
  /\ Forget({n})
  /\ Move(n, IF Head(chan[n]).kind = "refusal" THEN "failed" ELSE "done")
  /\ established' = (Head(chan[n]).kind = "answer")
  /\ att' = IF Head(chan[n]).kind = "refusal" THEN "closing" ELSE "attached"
  /\ out' = (out /\ Head(chan[n]).kind # "refusal")
  /\ UNCHANGED <<count, ended, outgoing, recv, op, of, socket, coreVars, lost>>

\* The queue is gone, and what it held was read: the attachment has ended.
FirstDeserted(n) ==
  /\ at[n] = "waiting" /\ Deserted(n)
  /\ Move(n, "failed")
  /\ Forget(IF op[n] = "release" THEN {DeliveryOf(of[n])} ELSE {})
  /\ att' = IF op[n] = "credential" THEN "closing" ELSE att
  /\ out' = (out /\ op[n] # "credential")
  /\ UNCHANGED <<count, ended, chan, outgoing, established, recv, op, of, socket, coreVars, lost>>

\* The future is dropped before its first frame.  InFlight cancels and forgets a
\* call; subscribe has none, and nothing is done.
DropWaiting(n) ==
  /\ at[n] = "waiting" /\ op[n] # "credential"
  /\ \/ op[n] = "subscribe" /\ UNCHANGED <<queues, outgoing>>
     \/ op[n] # "subscribe" /\ Forget({n}) /\ TryCancel(n)
  /\ Move(n, "dropped")
  /\ UNCHANGED <<inner, chan, whole, op, of, socket, coreVars, lost>>

-------------------------------------------------------------------------------
\* Subscriptions and deliveries that are open: next, close, drop.

\* A packet of a socket is read like a frame; one too short for its header is an error
\* of that next alone.
Advance(n) ==
  LET name == NameOf(n)
  IN  /\ at[n] = "open" /\ chan[name] # <<>>
      /\ chan' = [chan EXCEPT ![name] = Tail(@)]
      /\ Move(n, IF Head(chan[name]).kind \in {"completion", "refusal"}
                   THEN "completed" ELSE "open")
      /\ UNCHANGED <<inner, queues, outgoing, whole, op, of, socket, coreVars, lost>>

\* The attachment has ended, which is the end of all that came through its queues.
NextDeserted(n) ==
  /\ at[n] = "open" /\ n \notin socket /\ Deserted(NameOf(n))
  /\ Move(n, "completed")
  /\ UNCHANGED <<inner, queues, chan, outgoing, whole, op, of, socket, coreVars, lost>>

\* Subscription::close, after which the value is still there to be dropped.
CloseSubscription(n) ==
  /\ op[n] = "subscribe" /\ at[n] = "open"
  /\ TryCancel(n) /\ Forget({n})
  /\ Move(n, "closed")
  /\ UNCHANGED <<inner, chan, whole, op, of, socket, coreVars, lost>>

\* Mutant: Drop for Subscription leaves the queue of one that has completed.
DropOpenKept(n) ==
  /\ \/ op[n] = "subscribe" /\ at[n] \in {"open", "closed", "completed"}
        /\ TryCancel(n) /\ Forget(IF at[n] = "completed" THEN {} ELSE {n})
     \/ op[n] \in {"standing", "stream"} /\ at[n] \in {"open", "completed"}
        /\ UNCHANGED <<queues, outgoing>>
  /\ Move(n, "discarded")
  /\ UNCHANGED <<inner, chan, whole, op, of, socket, coreVars, lost>>

\* Drop for Subscription cancels whatever became of it; a standing one's and a
\* delivery's do nothing.
DropOpen(n) ==
  /\ \/ op[n] = "subscribe" /\ at[n] \in {"open", "closed", "completed"}
        /\ TryCancel(n) /\ Forget({n})
     \/ op[n] \in {"standing", "stream"} /\ at[n] \in {"open", "completed"}
        /\ UNCHANGED <<queues, outgoing>>
  /\ Move(n, "discarded")
  /\ UNCHANGED <<inner, chan, whole, op, of, socket, coreVars, lost>>

-------------------------------------------------------------------------------
\* The attachment's end.

\* A future of a call borrows the attachment, so none is in progress.
Unborrowed ==
  \A n \in Calls : op[n] \in {"call", "subscribe", "stream"} => at[n] \notin InProgress

Close ==
  /\ att = "attached" /\ Unborrowed
  /\ att' = "closing" /\ out' = FALSE
  /\ UNCHANGED <<count, ended, queues, chan, outgoing, established, recv, op, at, of, socket,
                 coreVars, lost>>

\* The wait for the Core is over, its task having returned or CLOSING having run
\* out, or the attachment was dropped: the task is aborted where it awaits a frame.
Aborted == recv' = IF recv = "running" THEN "aborted" ELSE recv

\* The close is attach's own, whose credential was refused or not answered.
Refused == op[1] = "credential" /\ at[1] = "failed"

\* An attach that fails lets the standing subscription go with it, and does the same
\* when it is dropped in that wait.
CloseEnds ==
  /\ att = "closing"
  /\ att' = "gone" /\ Aborted
  /\ at' = [n \in Callers |-> IF Refused /\ op[n] = "standing" THEN "discarded" ELSE at[n]]
  /\ UNCHANGED <<inner, queues, chan, outgoing, established, op, of, socket, coreVars, lost>>

\* Close's own future is dropped in the wait: the attachment is there, its task reads
\* on, and nothing more can be sent.
CloseDropped ==
  /\ att = "closing" /\ ~Refused
  /\ att' = "attached"
  /\ UNCHANGED <<inner, queues, chan, outgoing, established, recv, op, at, of, socket, coreVars,
                 lost>>

\* Drop for Attachment; while attaching, the whole of attach's future is dropped.
Drop ==
  /\ att \in {"attached", "attaching"} /\ Unborrowed
  /\ att' = "gone" /\ out' = FALSE /\ Aborted
  /\ at' = [n \in Callers |->
             IF att # "attaching" THEN at[n]
             ELSE IF op[n] = "credential" THEN "dropped"
             ELSE IF op[n] = "standing" THEN "discarded" ELSE at[n]]
  /\ UNCHANGED <<count, ended, queues, chan, outgoing, established, op, of, socket, coreVars, lost>>

-------------------------------------------------------------------------------
\* The task `receive'.

\* An answer that names a delivery makes its queue, and the frame then goes to
\* the queue of its call.
\* Mutant: the queue is left for the caller to make.
Registered(f) == queues

RegisteredOnArrival(f) ==
  queues \cup {DeliveryOf(n) : n \in {m \in Calls : /\ m = f.name /\ op[m] = "stream"
                                                   /\ f.kind = "answer"}}

\* Mutant: a queue holds one frame, and the task waits for its reader.
HasRoom(f) == Len(chan[f.name]) < 1

Unbounded(f) == TRUE

Receive ==
  /\ recv = "running" /\ incoming # <<>>
  /\ LET f == Head(incoming)
     IN  /\ Unbounded(f)
         /\ queues' = RegisteredOnArrival(f)
         /\ IF f.name \in queues'
              THEN chan' = [chan EXCEPT ![f.name] = Append(@, f)] /\ UNCHANGED lost
              ELSE lost' = lost \cup {f.name} /\ UNCHANGED chan
  /\ incoming' = Tail(incoming)
  /\ UNCHANGED <<inner, outgoing, whole, op, at, of, socket, core, over, frames>>

\* Mutant: the queues are left when the task returns.
ReturnQuietly ==
  /\ recv = "running" /\ incoming = <<>> /\ over
  /\ recv' = "returned" /\ ended' = TRUE
  /\ UNCHANGED <<out, count, queues, chan, outgoing, att, established, op, at, of, socket,
                 coreVars, lost>>

\* The frames end: every queue goes, and no other is made.
Return ==
  /\ recv = "running" /\ incoming = <<>> /\ over
  /\ recv' = "returned" /\ ended' = TRUE /\ queues' = {}
  /\ UNCHANGED <<out, count, chan, outgoing, att, established, op, at, of, socket, coreVars, lost>>

-------------------------------------------------------------------------------
\* The Core and the transport (external).

CoreTakes ==
  /\ linked /\ buffer # <<>>
  /\ buffer' = Tail(buffer)
  /\ LET f == Head(buffer)
     IN  core' = IF f.kind = "request" THEN [core EXCEPT ![f.name] = "asked"] ELSE core
  /\ UNCHANGED <<inner, queues, chan, linked, sent, whole, op, at, of, socket, incoming, over,
                 frames, lost>>

CoreSends(f) ==
  /\ ~over /\ recv = "running" /\ frames < MaxFrames
  /\ frames' = frames + 1
  /\ incoming' = Append(incoming, f)
  /\ UNCHANGED <<inner, queues, chan, outgoing, whole, op, at, of, over, lost>>

\* A request is answered once, and only a stream's with a socket.
CoreAnswers(n) ==
  /\ core[n] = "asked"
  /\ \E kind \in {"answer", "socket", "wrong", "refusal"} :
       /\ kind = "socket" => op[n] = "stream"
       /\ CoreSends([name |-> n, kind |-> kind])
       /\ socket' = IF kind = "socket" THEN socket \cup {n} ELSE socket
       /\ core' = [core EXCEPT ![n] = IF kind \in {"answer", "socket"} THEN "answered"
                                      ELSE "over"]

\* A subscription and a delivery, once answered, bring items until they complete.
CoreDelivers(n) ==
  /\ core[n] = "answered" /\ op[n] \in {"standing", "subscribe", "stream"}
  /\ n \notin socket /\ UNCHANGED socket
  /\ \E kind \in {"item", "completion"} :
       /\ CoreSends([name |-> NameOf(n), kind |-> kind])
       /\ core' = [core EXCEPT ![n] = IF kind = "item" THEN "answered" ELSE "over"]

\* A socket's packets come by themselves, the attachment's end or not; its completion
\* is the Core's close of it.
CoreWrites(n) ==
  /\ core[n] = "answered" /\ n \in socket /\ at[n] = "open" /\ frames < MaxFrames
  /\ frames' = frames + 1
  /\ \E kind \in {"item", "completion"} :
       /\ chan' = [chan EXCEPT ![DeliveryOf(n)] = Append(@, [name |-> DeliveryOf(n),
                                                             kind |-> kind])]
       /\ core' = [core EXCEPT ![n] = IF kind = "item" THEN "answered" ELSE "over"]
  /\ UNCHANGED <<inner, queues, outgoing, whole, op, at, of, socket, incoming, over, lost>>

CoreEnds ==
  /\ ~over /\ over' = TRUE
  /\ UNCHANGED <<inner, queues, chan, outgoing, whole, op, at, of, socket, core, incoming, frames,
                 lost>>

\* A stream that ended, or that nobody reads any more, takes nothing either.
Unlink ==
  /\ linked /\ (over \/ recv # "running")
  /\ linked' = FALSE /\ buffer' = <<>>
  /\ UNCHANGED <<inner, queues, chan, sent, whole, op, at, of, socket, coreVars, lost>>

-------------------------------------------------------------------------------
Author(n) == Begin(n) \/ BeginRelease(n) \/ DropBlocked(n) \/ DropWaiting(n)

Future(n) ==
  \/ Send(n) \/ SendFails(n) \/ OpenDelivery(n)
  \/ FirstOfCall(n) \/ FirstOfSubscribe(n) \/ FirstOfStream(n)
  \/ FirstOfCredential(n) \/ FirstDeserted(n)

Reader(n) == Advance(n) \/ NextDeserted(n)

Core ==
  \/ CoreTakes \/ CoreEnds \/ Unlink
  \/ \E n \in Calls : CoreAnswers(n) \/ CoreWrites(n)
  \/ \E n \in Callers : CoreDelivers(n)

Next ==
  \/ \E n \in Calls : Author(n) \/ Future(n) \/ CloseSubscription(n)
  \/ \E n \in Callers : Reader(n) \/ DropOpen(n)
  \/ Close \/ CloseEnds \/ CloseDropped \/ Drop \/ Receive \/ Return \/ Core

Safety == Init /\ [][Next]_vars

\* A future that can go on does, the task reads what has come, and a close's wait
\* is timed.  Nothing obliges an author to read, or the Core to answer or to end.
Fairness ==
  /\ \A n \in Calls : WF_vars(Future(n))
  /\ WF_vars(Receive) /\ WF_vars(Return) /\ WF_vars(CloseEnds) /\ WF_vars(Unlink)

\* Authors that read what is open to them.
Reading == \A n \in Callers : WF_vars(Reader(n))

Spec == Safety /\ Fairness

SpecReading == Spec /\ Reading

-------------------------------------------------------------------------------
\* Properties.

FlagsType ==
  /\ out \in BOOLEAN /\ ended \in BOOLEAN /\ linked \in BOOLEAN
  /\ established \in BOOLEAN /\ over \in BOOLEAN
  /\ att \in {"attaching", "attached", "closing", "gone"}
  /\ recv \in {"running", "returned", "aborted"}
CallsType ==
  /\ count \in 0..MaxCalls
  /\ op \in [Callers -> Ops] /\ at \in [Callers -> Places] /\ of \in [Calls -> Callers]
QueuesType ==
  queues \subseteq Names /\ lost \subseteq Names /\ chan \in [Names -> Seq(Frame)]
OutgoingType ==
  /\ sent \in Seq({Request(n) : n \in Calls} \cup {Cancel(n) : n \in Calls})
  /\ buffer \in Seq({sent[i] : i \in DOMAIN sent}) /\ Len(buffer) <= Buffer
CoreType ==
  /\ incoming \in Seq(Frame) /\ frames \in 0..MaxFrames
  /\ socket \subseteq Calls
  /\ core \in [Callers -> {"unknown", "asked", "answered", "over"}]

\* Every variable has its type, and the channel to the Core its bound.
TypeOK == FlagsType /\ CallsType /\ QueuesType /\ OutgoingType /\ CoreType

\* No two requests carry the same call identity, the credential's with the others
\* (interface.rs:231-235, 425).
UniqueCalls ==
  \A i, j \in DOMAIN sent :
    sent[i].kind = "request" /\ sent[j].kind = "request" /\ sent[i].name = sent[j].name
      => i = j

\* A call is cancelled on the wire only after its request (interface.rs:256, 493).
CancelFollowsRequest ==
  \A i \in DOMAIN sent : sent[i].kind = "cancel" =>
    \E j \in 1..i - 1 : sent[j] = Request(sent[i].name)

\* No frame comes for a call, a subscription or a delivery somebody is on and finds
\* no queue: an answer cannot outrun its call's registration, nor a delivery's
\* first frame the delivery's (interface.rs:718-719).
NoFrameLost ==
  /\ \A n \in Callers \cap lost :
       \/ at[n] \notin InProgress \cup {"open"}
       \/ op[n] = "stream" /\ at[n] # "waiting"
  /\ \A n \in Calls : DeliveryOf(n) \in lost => at[n] \notin InProgress \cup {"open"}

\* The future of n was dropped where nothing watches over it: in the send, and in a
\* subscribe, which has no InFlight, before its answer.
Unwatched(n) ==
  /\ at[n] = "dropped"
  /\ op[n] = "subscribe" \/ \A i \in DOMAIN sent : sent[i] # Request(n)

\* A call has its queue only while it is in progress, while its author has the
\* subscription it opened, and, for the attachment's life, where its future was dropped
\* unwatched: however else it ended, a subscription's drop after its completion among
\* it, the queue was given back (interface.rs:249-253, 259-266, 655-666, 793-800).
QueuesGivenBack ==
  att # "gone" => \A n \in Calls \cap queues :
    \/ at[n] \in InProgress
    \/ op[n] = "subscribe" /\ at[n] \in {"open", "completed"}
    \/ Unwatched(n)

\* Once the task has returned, every call is told, and where the authors read, every
\* reader of the connection (first and next on a queue that is gone,
\* interface.rs:274-277, 764-766, 883-885).
ReturnTellsAll ==
  /\ recv = "returned" ~> \A n \in Callers : at[n] \notin InProgress
  /\ Reading => (recv = "returned" ~> \A n \in Callers \ socket : at[n] # "open")

\* A call nobody is reading never holds up the others: what has come is handed on,
\* whoever reads (Queue's doc, interface.rs:172-173).
NeverHeldUp == incoming # <<>> ~> incoming = <<>> \/ recv # "running"

\* next's doc: "an error that it ended once the attachment ended"
\* (interface.rs:756-757, 856-857).
GoneTellsReaders == att = "gone" ~> \A n \in Callers \ socket : at[n] # "open"

===============================================================================
