--------------------------- MODULE InterfaceHarness ---------------------------
(***************************************************************************)
(* The interface library's harness (src/interface-harness/src/lib.rs): the *)
(* loop that performs the suite's directives one at a time, each with a    *)
(* deadline, on the first attachment, and the tasks that report what its   *)
(* subscriptions and deliveries bring.  The attachment is Attachment's,    *)
(* whose actions are joined to the harness's; further attachments are kept *)
(* and closed, and nothing is directed to them.                            *)
(*                                                                         *)
(* A line that is no directive changes nothing and is left out.  A line is *)
(* written under the lock of the control socket, so that it is one step.   *)
(***************************************************************************)
EXTENDS Attachment

CONSTANT MaxDirectives   \* bound: directives of the suite

ASSUME DirectivesAssumption == MaxDirectives \in Nat

VARIABLES
  hpc,        \* "reading", "acting", "replying", "closing", "exited"
  hand,       \* the verb in hand
  current,    \* the call it has made, 0 before
  directives,
  attached,   \* State.attached has its first
  others,     \* the attachments kept beside it
  task,       \* the tasks spawned on what is open
  resulted,   \* the calls whose directive's result is on the control socket ...
  observed    \* ... and those of which an observation is; the standing one is attach's

loop    == <<hpc, hand, current, directives>>
lines   == <<resulted, observed>>
harness == <<loop, attached, others, task, lines>>
hvars   == <<vars, harness>>

CallVerbs == {"call", "subscribe", "stream"}
Verbs     == CallVerbs \cup {"attach", "unknown", "finish"}

\* A task waits in next, has something to report, or has the end to report.
TaskPlaces == {"none", "waiting", "observing", "ending", "done"}

HarnessInit ==
  /\ Init /\ op[1] = "none"   \* no credential is presented
  /\ hpc = "reading" /\ hand = "none" /\ current = 0 /\ directives = 0
  /\ attached = FALSE /\ others = 0
  /\ task = [n \in Callers |-> "none"]
  /\ resulted = {} /\ observed = {}

Goto(label) == hpc' = label

\* The call in hand has not come to an end.
InHand == current # 0 /\ at[current] \in InProgress

-------------------------------------------------------------------------------
\* serve and act.

\* The bound on calls is the library's.
ReadDirective(verb) ==
  /\ hpc = "reading" /\ directives < MaxDirectives
  /\ verb \in CallVerbs => count < MaxCalls
  /\ directives' = directives + 1
  /\ hand' = verb /\ current' = 0
  /\ Goto(IF verb = "finish" THEN "closing" ELSE "acting")
  /\ UNCHANGED <<vars, attached, others, task, lines>>

\* A verb that is unknown, or that finds nothing attached.
ActAlone ==
  /\ hpc = "acting"
  /\ hand = "unknown" \/ (hand \in CallVerbs /\ ~attached)
  /\ Goto("replying")
  /\ UNCHANGED <<vars, hand, current, directives, attached, others, task, lines>>

\* The address, the connection, the opening or its version is wrong, or it takes too
\* long: nothing is kept.
AttachFails ==
  /\ hpc = "acting" /\ hand = "attach"
  /\ Goto("replying")
  /\ UNCHANGED <<vars, hand, current, directives, attached, others, task, lines>>

\* The first attachment's standing subscription is observed, another's let go.
AttachFirst ==
  /\ hpc = "acting" /\ hand = "attach" /\ ~attached
  /\ attached' = TRUE
  /\ task' = [task EXCEPT ![0] = IF op[0] = "standing" THEN "waiting" ELSE "none"]
  /\ Goto("replying")
  /\ UNCHANGED <<vars, hand, current, directives, others, lines>>

AttachAnother ==
  /\ hpc = "acting" /\ hand = "attach" /\ attached
  /\ others' = others + 1
  /\ Goto("replying")
  /\ UNCHANGED <<vars, hand, current, directives, attached, task, lines>>

ActBegins(n) ==
  /\ hpc = "acting" /\ hand \in CallVerbs /\ attached /\ current = 0
  /\ Issue(n, hand, 0) \/ IssueFails(n, hand, 0)
  /\ current' = n
  /\ UNCHANGED <<hpc, hand, directives, attached, others, task, lines>>

ActGoesOn ==
  /\ hpc = "acting" /\ InHand
  /\ \/ Send(current) \/ SendFails(current)
     \/ FirstOfCall(current) \/ FirstOfStream(current) \/ FirstDeserted(current)
  /\ UNCHANGED harness

\* What is opened gets its task: a subscription's has the snapshot to report.
\* Mutant: the snapshot is reported by the directive, and nothing reads on.
SpawnNothing(n, first) == UNCHANGED task

Spawn(n, first) ==
  task' = [task EXCEPT ![n] = IF at'[n] = "open" THEN first ELSE @]

ActOpens ==
  /\ hpc = "acting" /\ InHand
  /\ \/ FirstOfSubscribe(current) /\ Spawn(current, "observing")
     \/ OpenDelivery(current) /\ Spawn(current, "waiting")
  /\ UNCHANGED <<loop, attached, others, lines>>

\* The deadline drops the library's future where it awaits.
\* Mutant: there is none ...
NoDeadline == FALSE /\ UNCHANGED hvars

\* ... or it gives the call up and leaves its future to itself.
DeadlineDetached ==
  /\ hpc = "acting" /\ InHand
  /\ Goto("replying")
  /\ UNCHANGED <<vars, hand, current, directives, attached, others, task, lines>>

Deadline ==
  /\ hpc = "acting" /\ InHand
  /\ DropBlocked(current) \/ DropWaiting(current)
  /\ UNCHANGED harness

ActReturns ==
  /\ hpc = "acting" /\ current # 0 /\ ~InHand
  /\ Goto("replying")
  /\ UNCHANGED <<vars, hand, current, directives, attached, others, task, lines>>

Reply ==
  /\ hpc = "replying"
  /\ resulted' = resulted \cup (IF hand = "attach" /\ attached THEN {0} ELSE {current} \ {0})
  /\ Goto("reading")
  /\ UNCHANGED <<vars, hand, current, directives, attached, others, task, observed>>

\* finish: every attachment is closed, the first first, each close within its time.
CloseFirst ==
  /\ hpc = "closing" /\ attached
  /\ Close \/ CloseEnds
  /\ UNCHANGED harness

AllClosed == ~attached \/ att = "gone"

CloseAnother ==
  /\ hpc = "closing" /\ AllClosed /\ others > 0
  /\ others' = others - 1
  /\ UNCHANGED <<vars, loop, attached, task, lines>>

Exit ==
  /\ hpc = "closing" /\ AllClosed /\ others = 0
  /\ Goto("exited")
  /\ UNCHANGED <<vars, hand, current, directives, attached, others, task, lines>>

-------------------------------------------------------------------------------
\* The tasks of what is open.

Running == attached /\ hpc # "exited"

\* next returns: a delivery, or the end or an error, which are taken alike.
TaskReads(n) ==
  /\ Running /\ task[n] = "waiting"
  /\ Reader(n)
  /\ task' = [task EXCEPT ![n] = IF at'[n] = "completed" THEN "ending" ELSE "observing"]
  /\ UNCHANGED <<loop, attached, others, lines>>

TaskReports(n) ==
  /\ Running /\ task[n] = "observing"
  /\ observed' = observed \cup {n}
  /\ task' = [task EXCEPT ![n] = "waiting"]
  /\ UNCHANGED <<vars, loop, attached, others, resulted>>

\* The end is reported, and the task's value dropped with it.
TaskEnds(n) ==
  /\ Running /\ task[n] = "ending"
  /\ DropOpen(n)
  /\ observed' = observed \cup {n}
  /\ task' = [task EXCEPT ![n] = "done"]
  /\ UNCHANGED <<loop, attached, others, resulted>>

-------------------------------------------------------------------------------
Loop ==
  \/ ActAlone \/ AttachFails \/ AttachFirst \/ AttachAnother
  \/ \E n \in Calls : ActBegins(n)
  \/ ActGoesOn \/ ActOpens \/ ActReturns \/ Reply
  \/ CloseFirst \/ CloseAnother \/ Exit

Task(n) == TaskReads(n) \/ TaskReports(n) \/ TaskEnds(n)

Library(A) == Running /\ A /\ UNCHANGED harness

HarnessNext ==
  \/ \E verb \in Verbs : ReadDirective(verb)
  \/ Loop \/ Deadline
  \/ \E n \in Callers : Task(n)
  \/ Library(Receive) \/ Library(Return) \/ Library(Core)

HarnessSafety == HarnessInit /\ [][HarnessNext]_hvars

\* The loop and the tasks go on where they can, a deadline passes, and the library's
\* task runs.  Nothing obliges the suite to direct, or the Core to answer or to end.
HarnessSpec ==
  /\ HarnessSafety
  /\ WF_hvars(Loop) /\ WF_hvars(Deadline)
  /\ \A n \in Callers : WF_hvars(Task(n))
  /\ WF_hvars(Library(Receive)) /\ WF_hvars(Library(Return)) /\ WF_hvars(Library(Unlink))

-------------------------------------------------------------------------------
\* Properties.

\* Every variable has its type, and a call is in progress only in the directive in hand.
HarnessTypeOK ==
  /\ hpc \in {"reading", "acting", "replying", "closing", "exited"}
  /\ hand \in Verbs \cup {"none"} /\ current \in Callers /\ directives \in 0..MaxDirectives
  /\ attached \in BOOLEAN /\ others \in 0..MaxDirectives
  /\ task \in [Callers -> TaskPlaces]
  /\ resulted \subseteq Callers /\ observed \subseteq Callers
  /\ \A n \in Calls : at[n] \in InProgress => hpc = "acting" /\ n = current

\* What is open has one task that reads it, and what has ended has one that reports the
\* end, until it is reported, whenever a deadline passes or the Core ends the attachment
\* (lib.rs:49-78, 195-203, 268-271, 308-334).  A subscribe whose deadline drops it before
\* its answer is not open: its queue stays (Attachment's Unwatched), and what the Core
\* then delivers to it nobody reads.
OpenIsRead ==
  attached => \A n \in Callers :
    /\ at[n] = "open" => task[n] \in {"waiting", "observing"}
    /\ at[n] = "completed" => task[n] = "ending"

\* Every directive is answered, and finish ends the harness, whatever the Core leaves
\* undone (lib.rs:148-170, 184-193, 243, 337-343).
DirectivesReturn == hpc \in {"acting", "closing"} ~> hpc \in {"reading", "exited"}

\* An attachment the Core ends is reported as the end of all that came through it: no
\* task waits for good (lib.rs:72-75, 324-329).
ObserversTold ==
  recv = "returned" ~>
    hpc = "exited" \/ \A n \in Callers \ socket : task[n] \in {"none", "done"}

\* the-interface-harness.std.md:32: "the result carries the version 1, ...; then two
\* observations `event', in order".
ResultFirst == 0 \in observed => 0 \in resulted

===============================================================================
