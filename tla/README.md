# A model of yoke-sdk-rust

`yoke-sdk` is the library a Rust program uses to run as a plugin unit of a Yoke instance
(`yoke_sdk::plugin`) and the library a client attaches to a channel with
(`yoke_sdk::interface`), over a shared base (`yoke_sdk::base`). Both are state shared by the
author's concurrent calls and by tasks that read a stream from the Core. This directory
models that shared state in TLA+, checks it with TLC, and proves its safety with TLAPS.
Paths below are relative to the repository's root.

## 1. Inventory

| Component | State | Operations | Talks to |
|---|---|---|---|
| Plugin Session (`src/plugin.rs` 257-828) | `State` behind a mutex: the queue's sender, the events' sender, `ended`, `closing`, the active streams; the last health report behind another | `ack`, `answer`, `report`, `health`, `emit`, `close`, `next`; tasks `receive` and `beat`; `close`'s timer | the Core over one stream of envelopes; the author over a queue of events; each stream's transport |
| Envelopes (`src/base.rs` 162-200) | one counter | `seal`, `answer` | every sender of the Session, and `emit` on the ordered transport |
| Shared ring, the producer's side (`src/ring.rs`) | memory shared with other processes; the writer's own count | `open`, `publish`, `drop` | readers in other processes, through memory and a futex |
| Interface attachment (`src/interface.rs`) | `Inner`: the sender, the call counter, the map of queues and `ended`; the receive task | `attach`, the operations (`call`), `subscribe`, `subscribe_stream`, `release`, `next`, `close`, drops; task `receive` | the Core over one stream of frames each way, the outgoing one bounded to 64 |
| Start-up (`src/plugin.rs` 415-504, `src/base.rs` 37-73) | the socket's file at `YOKE_BIND`, which other starts, processes and the dead share | environment, clear, bind, dial, register, OPEN, spawns | the Core's registration service; every other start at the path |
| Dialling (`src/interface.rs` 45-97, 290-355, `src/tls.rs`) | none | addresses, pinning, TLS | rustls |
| Declaration and manifest (`src/plugin.rs` 25-178) | none | pure mappings | - |
| Plugin harness (`harness/src/lib.rs`) | the unit, the commands and questions that may be answered, a permit for the end | `serve`'s select of a signal, the end and a directive; `act` on each verb; the task `observe` | the conformance suite over a control socket; start-up and the Session |
| Interface harness (`interface-harness/src/`) | the attachments, the tasks of what is open | `serve`, `act` on each verb within a deadline; a task for each subscription and delivery; the dates of what it reports | the suite; the attachment |
| Planning status (`ci/planning-status.sh`) | none of its own | read an item's state, write the next | the planning tool, and other runs of itself |
| Other scripts, checks, template | none | sequential | - |

Where the behaviour is hard, and what makes it correct:

* **Session.** Three things can end it (the stream, a revocation, `close`'s timer) while any
  number of calls and two tasks use it. The author must get one end, last, that says the
  truth; a departure must end; the beat must stop; an old health
  report must not overtake a newer one; a stream's data must be numbered without gaps though
  writes fail; the Core's answers about a stream must be true when they are given.
* **Envelopes.** One identity per envelope, over every path that seals one.
* **Ring.** Readers share nothing with the writer but memory: a reader must never take a frame
  made of two, must find every frame but the oldest of a full ring, must not sleep through a
  publication, and all this though a writer may die between any two stores.
* **Start-up.** What stands at the path is removed, whoever's it is, and a removal that fails
  is ignored: a file left by a dead process must fail no start that could remove it, and a unit
  the Core admitted must be reachable at its path.
* **Plugin harness.** The end may come while a directive is served, a signal while a start
  waits for the Core: what the library surfaced must be reported before the end makes the
  harness leave, what was reported must be answerable, and the harness must leave.
* **Interface harness.** A deadline drops the library's future wherever it awaits: each
  directive must return, each open thing be read by one task, each end be reported.
* **Attachment.** A future may be dropped at any await; frames arrive while calls register,
  leave or end. No frame may miss its queue, no identity be used twice, no cancel precede its
  request, no reader hold up the others, and the end must reach everyone who waits.

`PROJECT.json` lists the hazards one by one, at their lines, with the properties that cover
them; those without one say why.

## 2. Plan

| # | Module | Composes | Status |
|---|---|---|---|
| 1 | `SessionContract`: what a Session promises, without tasks or locks | | done |
| 2 | `PluginSession`: one Session, its tasks and its callers | refines 1 | done |
| 3 | `Ring`: writer and readers, a store at a time | | done, in program order and as Release obliges |
| 4 | `Attachment`: one client attachment, deliveries on their own sockets included | | done |
| 5 | `PluginSessionProofs`, the refinement of 1 included, and `SessionNumbersProofs` | EXTEND 2 | done |
| 6 | `Startup`: the starts at one path | | done |
| 7 | `PluginHarness`: loop and observer | EXTENDS 6, over 1 | done |
| 8 | `InterfaceHarness`: loop, deadlines and reporting tasks | EXTENDS 4 | done |
| 9 | `Calendar`: the date of a timestamp against the calendar walked day by day | | done |
| 10 | `StartupProofs` | EXTENDS 6 | done |
| 11 | `PluginHarnessProofs` | EXTENDS 7, 10 | done |
| 12 | `RingProofs`, `AttachmentProofs` | EXTEND 3, 4 | done |
| 13 | `InterfaceHarnessProofs`, the refinement of 4 included | EXTENDS 8, 12 | done |
| 14 | `CalendarProofs` | EXTENDS 9 | done |

Every invariant and action property of the passing runs is a theorem. What is worth stating and
proving next: that the history the plugin harness keeps of its Session is the contract's for
every start; that a published frame's number is found by a reader that asks for it; and that an
attachment's `next` yields a queue's frames in the order they came.

## 3. The modules and the code

### PluginSession

A step is one critical section of `Shared.state` (or of a flow's mutex), or one message from
the Core. This is the grain at which other threads can see anything. Envelopes are numbered by
an atomic counter before the state is locked, so a sealed envelope waits in `pending[t]`
until its thread delivers it; steps of other threads fall between. `Threads` is the set of
author's callers, the task `beat` and the task `receive`; `pc` says where each is.

| Code | Model |
|---|---|
| `state.out`, `state.events` are `Some`; `ended`; `closing`; `active` | `out`, `events`, `ended`, `closing`, `active` (an index in `flows`, 0 for none) |
| `Envelopes::seal`, `answer` | `Seal`: the counter `sealed`, the envelope in `pending` |
| `Shared::deliver`, `surface`, `finish` | `Deliver`, `Surface`, `Finish`, used inside the steps |
| `ack`, `answer`, `report` | `Say`, then `AuthorDeliver` |
| `health` | `HealthBegins`, `Health` (takes `healthLock`), then `AuthorDeliver` (returns it) |
| `close` | `CloseMark`, `CloseDeliver`, `CloseSilence` (its three critical sections), then `TimerFires` |
| `emit` | `EmitTake` (clones the flow under the state's mutex), `EmitWrite` (numbers and writes under the flow's; the write may fail) |
| `beat` | `BeatSilent`, `BeatSeal`, `BeatDeliver` |
| `receive` | `OpenAnswered`, `OpenFails`, `Instruct`, `Activate`, `ActivateFails`, `Stop` (each up to its answer), `Answer`, `Tell`, `Revoked`, `StreamEnds` (reads `closing`), `StreamFinish` |
| tonic dropping the queue's receiver | `LinkDrops` (external) |

Payloads, lines and causes are left out; an end keeps its kind (closed, revoked, lost). What
can be told apart of an envelope is its identity, its kind and what it is about. A flow has two
numbers, as the code has: `next`, which the ordered and the framed transport write, and
`published`, the count of a ring's `Writer`, which it reads off the header when it opens the ring
(`RingCounts` are the counts it may find there) and which alone numbers a ring's frames. Calls that
are refused before they change anything (a grade above 99, no severity, `close` of an ended
Session, `emit` on a stream with no flow) are no steps.

### SessionContract

The author's view: envelopes are said, events heard, the end asked for, and one end heard,
last. An end of kind closed was asked for. Once it is asked for it comes. The mapping reads
`said` off the queue, `heard` off the events, `asked` off `closing`, `silent` off `~out`, and
`over` off `ended`.

### Ring

One action per store of `publish`, the frame's bytes being `Pieces` stores. `inOrder` is the
machine: where it holds, stores are seen in program order; where it does not, `Zero` (the
Release store of 0) may be seen after the frame's plain stores, which is all the freedom the
two Release stores of a sequence and that of `published` leave. `Close` stops the writer
between any two stores (its process died) and `Open` starts another from `published`. The
readers are not in this repository: they follow the layout (load the sequence, copy, load it
again; note the wake word, look, wait on the word) and are marked external. `content` and
`unwoken` are history variables of the properties.

### Attachment

A call's future is at a place (`at`): blocked in the send, waiting for its first frame,
opening a delivery, open, or over; `op` says which operation it is. Dropping a future is an
action at each place where the code awaits, and leaves it "dropped"; what was opened and is let go
later is "discarded" (`DropOpen`). `close`'s own future may be dropped in its wait
(`CloseDropped`): the attachment is still there and its task runs on, but nothing can be sent. `queues` are the names in `Calls.queues`,
`chan` what each queue's receiver has not read yet (it outlives the queue's removal, as a
channel's buffer does). `buffer` is the bounded channel, `sent` what was ever put in it.
`Receive` is one turn of the task's loop, `Return` its last lines; `Aborted` is
`task.abort()`, after which those never run. The Core and the transport are external: the
Core answers a request once, with an answer, an answer of another operation or a refusal,
delivers on what it opened, and may end at any moment. A subscription's `next` reads one
frame a step. A delivery arrives on the connection, through a queue of its name, or, where the
Core says so in its answer (`socket`), as packets of a socket of its own, which the attachment's
end does not touch.

### Startup

A start is one call of `start_with` at one path: `stage` is the step it is about to take,
`outcome` what it came to, `path` whose file stands there. `Clear` and
`ClearDenied` are `remove_file`, whose failure is ignored whatever it is: where the system
denies it, the file stays (`denied` remembers whose removal that was) and `BindFails` meets it.
`Following` is the order of the steps.
Starts of this process, of another and a file left by a dead one share the path. The Core may
admit a unit whose answer is then lost (`AnswerLost`); every outcome but a refusal is taken for
an admission, so `Admitted` needs none (`admitted` is the Core's own view); and a future may be
dropped where it awaits (`Dropped`). A dropped listener leaves its file, as the code does.

### PluginHarness

`hpc` is where `serve` and `act` are; the three arms of the `select!` are `SignalArm`,
`EndedArm` and `DirectiveArm`. `ended` is a `tokio::sync::Notify`: `notify_one` leaves a
`permit` when nobody waits. `observe` takes an event (`Observe`, which also makes a command or
a question answerable), writes its observation (`Report`) and tells the loop after the end
(`TellLoop`). Below it a start is Startup's and the Session of the unit that is observed is
any the contract allows: `PluginSession` refines that contract, so what holds over it holds
over the Session there is. A second unit started is let go, its tasks going on, as
`get_or_insert` does. A result is a value, a refusal (the queue's reader may be gone at any time)
or failed (an argument out of its range); `close` of a Session that has ended is a value at once,
and otherwise what became of its CLOSE (`CloseAsks`, `CloseSays`, `CloseFallsSilent`).

### InterfaceHarness

EXTENDS `Attachment` and joins its actions to the harness's: a directive in hand issues one
call and is the only one to do so; `Deadline` is `DropBlocked` or `DropWaiting` of that call;
what `ActOpens` opens gets a `task`, which reads, reports and at the end drops its value.
Further attachments are a number (`others`): nothing is directed to them.

### Calendar

`Civil` is the arithmetic of `plain.rs` for a day since the epoch; `After` and `Before` walk
the Gregorian calendar from 1970-01-01, and `Leap` and `Length` are its definition.

## 4. What the runs check

| Run | Instance | What it shows |
|---|---|---|
| `session_streams` | 2 callers, 1 stream, an ordered transport and a ring that holds 2 frames, 2 calls, 2 messages, 1 beat | the end is surfaced once and last (`EndIsLast`), the flags agree (`SessionInv`), the reader never leaves a Session open (`NeverOrphaned`), closed means asked (`ClosedMeansAsked`); types, `UniqueIds` over queue and transports, `Contiguous`, `AnswersTrue` |
| `session_liveness` | 2 callers, 1 stream, 2 calls, 1 message, 1 beat | no older report (`NeverOlder`); `CloseEnds`, `BeatStops`, `CallsReturn`, and that the Session `Implements` its contract, fairness included |
| `ring` | 2 slots, frames of 2 pieces, 1 reader, 4 frames, a word of 5 values, both machines | `NoTornFrame` where stores are in order, `WholeUnlessLapped` everywhere, `Retained`, `NoLostWakeup`, with a writer dying anywhere |
| `attachment_calls` | 2 calls, 2 frames, room for 2 | `UniqueCalls`, `CancelFollowsRequest`, `NoFrameLost`, `QueuesGivenBack` |
| `attachment_liveness` | 1 call and the standing subscription, 3 frames, room for 1 | `NeverHeldUp`, `ReturnTellsAll` |
| `plugin_harness` | 3 starts, one of them another process's, 2 directives, 1 event and the end, 2 envelopes | `EndIsReported`, `ObservedIsAnswerable`, `StartsReachable`; `Leaves` |
| `interface_harness` | 2 calls, 2 frames, room for 1, 3 directives | `OpenIsRead`; `DirectivesReturn`, `ObserversTold` |
| `calendar` | the days from 1583 to 2410 | `CivilIsCalendar` |

On a machine that reorders, `NoTornFrame` does not hold by the two Release stores alone: a
reader that the writer is just lapping may take a frame whose first words are the next one's.
`WholeUnlessLapped` says what does hold there. Whether a build's processor shows this is not a
matter of the source (on x86-64 stores are seen in order), so it is no finding.

Four runs find that the code does otherwise than a sentence says of it. None of them stops a
Session or an attachment from working; each sentence promises more than the interleavings keep.

| Run | The sentence | What happens |
|---|---|---|
| `session_stream_after_end` | plugin.rs:391 "... nothing more is sent." | the timer finishes the Session while an activation is in hand; the flow is listed afterwards and `emit` goes on |
| `session_emit_after_stop` | plugin.rs:632 "Dropping the connection closes it." | an `emit` under way holds the flow and writes after the stop was answered and surfaced |
| `attachment_gone` | interface.rs:756 "... an error that it ended once the attachment ended." | `close` and drop abort the task before it clears the queues; a subscription that outlives the attachment waits for good |
| `result_first` | the-interface-harness.std.md:32 "the result carries ...; then two observations `event`, in order" | `attach` spawns the task that observes the standing subscription before `serve` writes its result line; the observation may stand first |

### Bounds

`MaxCalls`, `MaxMessages`, `MaxBeats`, `MaxFrames`, `MaxStarts`, `MaxDirectives`, `MaxEvents`,
`MaxSaid`, `First` and `Last` end what would go on for ever; none decides a property. Two
callers suffice for the Session, since every race in it is between two threads
and a third party that ends it, and the tasks and timers come on top of the callers; two
calls let one caller close while another reports. Two messages let a stream be activated
and stopped, or activated twice. A ring that holds two frames is one whose count differs from the
flow's, which is all `RingCounts` is for; the other Session runs need none. Four frames on two slots lap the ring, and a wake word of
five values is kept from wrapping within the frames by `BoundAssumption`: a whole turn of the
word between two instructions of a reader is not modelled. Two calls on an attachment let a
stream be opened and released, or one call end while another waits; `Buffer` is 64 in the code, and
filling it is all that matters.

Three starts are a unit, a second in its process and one of another process; two directives
let one answer what the first saw surfaced, or finish while it is served; the Session's own
envelopes do not matter to the harness beyond their being. Three directives are an attach, a
call and another call or the finish. The days of `calendar` are more than an era of 400 years, in
which everything about the calendar recurs, and cross the epoch.

`attachment_liveness` has one call, which no release can be; `attachment_calls` has them.
Deadlock is not checked: a Session and an attachment come to rest, and so does a ring whose bound is
reached.

### Fairness

`PluginSession` asks weak fairness of what the runtime runs by itself: a call that waits for the
report's mutex takes it once it stays free (`MaxBeats` ends the beats that compete for it), a call between two
critical sections goes on (nothing in it awaits), the two tasks go on, a timer fires. It asks
nothing of the author, of the Core, or of a transport. `EmitWrite` is not fair, since the write
may block. `OpenAnswered` and every message are the Core's choice. `Attachment` asks it of
futures that can proceed, of the receive task, of the timed wait in `close` and of the transport noticing
that its stream is gone; reading is the author's (`Reading`) and is assumed only where a
property is about readers that read. `PluginHarness` asks weak fairness of the loop's steps
and the observer's that wait for nobody (`Acts`, `Watches`), and strong fairness of the signal's and the end's arms: `select!` without `biased`
picks among the arms that are ready at random, so an arm that is ready again and again is
chosen in the end. A Session that was asked to end ends, as the contract promises
(`CloseEnds`). What waits for another is not assumed but stands before the arrow of
`Leaves`, three conditions: a Core that answers a start (`CoreAnswers`: `start_with` has no
deadline), a transport that takes or refuses what is emitted (`EmitReturns`: `emit` writes on a
blocking socket), and a suite that reads the lines written to it (`SuiteReads`). Each of the three
may hold the loop, and with it even a signal, for good.
`InterfaceHarness` asks weak fairness of the loop, of its deadlines, of the tasks and of the
library's task; none of the suite, of the Core or of the Core's answers.

## 5. What is proved

Eight modules hold proofs. `PluginSessionProofs`, for every set of callers, streams and transports and every bound, from
`ThreadsAssumption` (the tasks are not callers, and differ) and `BoundsAssumption` (the bounds
are naturals):

| Theorem | States | Argument |
|---|---|---|
| `TypeCorrect` | `[]TypeOK` | one step per action. `InHand` is the strengthening: a thread about to deliver holds an envelope, one about to write a flow, and what `receive` is about to surface is of the kind its place says |
| `EndedOnceAndLast` | `[]EndIsLast` | inductive with `events = ~ended`: only `Finish` surfaces an end, it tests `ended` in the critical section that sets it, and takes the events' sender with it (`FinishOnce`, `SurfaceBefore`) |
| `StateAgrees` | `[]SessionInv` | the flags' invariant: who is at work on a departure has marked it; a timer, or an end in hand that says closed, exists only then |
| `AlwaysATask` | `[]NeverOrphaned` | every way out of `receive` is a `Finish`, and nothing resets `ended` |
| `DepartureAsked` | `[]ClosedMeansAsked` | from `SessionInv`: the only ends that say closed are a timer's and the one `receive` read off the mark |
| `AnswersAreTrue` | `AnswersTrue` | `Answering`: an answer about a stream is in the receive task's hand only, and between its sealing and its delivery nothing but the end of the Session touches that stream (`AnsweringOther`, `AnsweringOwn`, `AnsweringFinish`) |
| `KeepsContract` | `Safety => Contract!Safety` | the safety part of the refinement that `session_liveness` checks with its fairness. A delivery is a `Say` or nothing (`DeliverSays`), a surfaced event a `Hear` or nothing, a finish an `End` or nothing; `SessionInv` gives that an end that says closed, and the silence of `close`, were asked for |

`SessionNumbersProofs`, from the same assumptions:

| Theorem | States | Argument |
|---|---|---|
| `FlowsContiguous` | `[]Contiguous` | `CountedFlows`: a flow's next number is the length of what it took, which a write that fails leaves; a ring's count moves with it from wherever it stood, so the frame at place i of n bears the count less n - i |
| `ReportsInOrder` | `[]NeverOlder` | `ReportsInv`: a sealed report is the last one made and its thread holds the mutex (`Sealed`), so a delivery appends the newest (`DeliverReport`) and nobody seals another meanwhile (`SealReport`) |
| `IdsUnique` | `[]UniqueIds` | `IdsInv`: identities are at most the counter, and differ among the envelopes that stand somewhere and those still in a thread's hand; a delivery moves one (`DeliverIds`), a seal and a write claim a larger one (`SealIds`, `EmitIds`) |

`RingProofs`, for every number of slots and of stores that make a frame and every set of readers,
where stores are in order and where they are not, from `GeometryAssumption` (there is a slot, and
a frame has a piece) and, for the wake word, `BoundAssumption` (it does not come round within
the frames):

| Theorem | States | Argument |
|---|---|---|
| `RingTyped` | `[]TypeOK` | with `AtWork`: who writes has begun a frame, who reads wants one |
| `FramesRetained` | `[]Retained` | `InHand` says what the writer has put in the slot it is writing. A step touches that slot only (`WriterAlters`), which is none of the frames retained, since numbers less than a ring apart stand in different slots (`SlotsDiffer`, from `ModuloDiffers`) |
| `NoFrameTorn` | `[]NoTornFrame` | `NamedIsWhole`: where stores are in order, a slot that bears a number holds its frame. `CopiedIsNamed`: what a reader has copied is of the frame it wants while the slot bears its number, so two loads that find the number enclose one frame; a number that is gone from a slot does not come back (`NotRenamed`) |
| `TornOnlyIfLapped` | `[]WholeUnlessLapped` | the second half of `CopiedIsNamed`, which needs no order: until the writer comes round nothing is stored to that slot |
| `NoWakeupLost` | `[]NoLostWakeup` | `NotedInTime`: since a reader noted the word it was bumped some number of times, fewer than would bring it round (`Bumped`), and for one that found nothing new that number is 0 only if it missed nothing |

`AttachmentProofs`, for every number of calls and frames and every room in the channel
(`AttachmentAssumption`), from the specification without its fairness. The invariant `IInv` is
inductive as a whole:

| Theorem | States | Argument |
|---|---|---|
| `AttachmentTyped` | `[]TypeOK` | with `Kinds`: call 0 is the standing subscription or nothing, a release names a delivery |
| `CallsUnique`, `CancelledAfterRequest` | `[]UniqueCalls`, `[]CancelFollowsRequest` | `Counted`: a call before its send has no request among what was sent, a call past it has, so that neither a second request nor an early cancel can be sent |
| `FramesFindTheirQueues` | `[]NoFrameLost` | `Queued`: who waits on a queue has it. `Known`: the Core speaks of a call only once it was sent. `Ordered`: the frames of a delivery stand behind the answer that opens it, which registers the delivery's queue when the task takes it. `Lost` is the property, in a form each step keeps |
| `CallsGiveTheirQueuesBack` | `[]QueuesGivenBack` | `GivenBack` and `Queued`: every way out of a call, of `Subscription::close` and of a subscription's drop after it opened removes the queue; a future dropped in its send, and a subscribe dropped before its answer, which have no `InFlight`, are the two that keep it |

`StartupProofs`, for any number of starts at a path in any processes (`StartsAssumption`: there
is one):

| Theorem | States | Argument |
|---|---|---|
| `Reachable` | `[]StartsReachable` | `StartupInv`: from its bind on (`Standing`) a start's own file stands at the path unless another start has cleared it too. That another start has cleared is never undone (`ClearedStays`), and a step that moves the path is one of a start that has (`TouchingClears`); the order of each start's own steps (`Orderly`) gives the rest. A start that finds a file at its bind was denied its removal, or another has come past its own since |
| `StartsTyped` | `[]StartupType` | one step per action |

`PluginHarnessProofs`, for every bound of the harness (`HarnessAssumption`: the harness may start
a unit, and another process one):

| Theorem | States | Argument |
|---|---|---|
| `HarnessStarts` | `Spec => StartupSpec` | the harness implements `Startup`: every step is one of the starts or leaves them alone. `HandInv` is needed for it: while a start is performed the directive in hand names one of the harness's own |
| `HarnessReachable` | `[]StartsReachable` under the harness | from `HarnessStarts` and `Reachable` |
| `HarnessTyped` | `[]HarnessTypeOK` | from `HarnessInv` |
| `EndsAreReported` | `[]EndIsReported` | `Hearing`: the end is the last of what is heard. `Observing`: what the observer took is reported in its order, but for the one it is sending, and a permit, or a loop that leaves for the end, has an observer that is done |
| `ObservedAnswers` | `[]ObservedIsAnswerable` | `Remembering`: what was taken may be answered before it is reported, so the directive that follows its report finds it |

`InterfaceHarnessProofs`, for every number of directives, calls and frames:

| Theorem | States | Argument |
|---|---|---|
| `HarnessAttaches` | `HarnessSafety => Safety` | the harness implements `Attachment`: every step is one of the attachment's or leaves it alone |
| `HarnessCalls` | the attachment's four safety properties under the harness | from `HarnessAttaches` and `AttachmentProofs` |
| `HarnessTyped`, `OpensAreRead` | `[]HarnessTypeOK`, `[]OpenIsRead` | `HarnessInv`: a call is in progress only in the directive in hand (`OneAtATime`), nothing but the standing subscription is open before an attachment is kept (`Unattached`), and the attachment lasts until the harness closes it (`Uncredited`). A subscribe dropped before its answer is not open, and the theorem says nothing of it |

`CalendarProofs`, for every day, without the bounds `First` and `Last` (`\div` and `%` on the
integers, as the code's Euclidean ones are; the day of a timestamp is far from the width of an `i64`):

| Theorem | States | Argument |
|---|---|---|
| `WritesTheCalendar` | `[]CivilIsCalendar` | every day falls in one era, year, month and day of it (`Falls`, `FallsOnce`); the code computes these (`CivilFalls`, from `YearOfEraIs` and `MonthOf`: its divisions find the year and the month the day lies in); one more day moves them on as `After` and back as `Before` move a date (`NextDay`), month lengths and leap years being `Length`'s (`MonthLength`) |

TLC checks the same properties on small instances, and each inductive invariant was an invariant
of such a run before it was proved.

Only model-checked: the liveness properties (`CloseEnds`, `BeatStops`, `CallsReturn`,
`NeverHeldUp`, `ReturnTellsAll`, `Leaves`, `DirectivesReturn`, `ObserversTold`) and the fairness
part of `Implements`, which need reasoning about `ENABLED` that the prover does not have; and the
four sentences of section 4 that do not hold, whose counterexamples TLC finds.

## 6. Not modelled

Dialling and TLS: a sequence of library calls each of whose failures returns without a state
(`DialFails`, `AttachFails` stand for all of them). The declaration and its manifest, and the
field copies of `plain.rs`: pure mappings. The scripts, which are sequential tooling over
services outside this repository, and the template, an author's program. Within what is
modelled: payloads and wording; the hello and the lines that are no directive; how long a write
to a transport takes, and the receive task's blocking wait for a ring's descriptor; a whole turn
of the wake word between two instructions of a reader, and readers that reorder their loads; the
header checks of `Writer::open`; a `Unit` dropped without `close`.

Modelled, but not what a property forbids, since the code does it and nothing in it promises
otherwise: a subscribe dropped before its answer leaves a queue that nobody reads while the Core
delivers to it; a cancel is lost when the channel to the Core is full; a unit that asked to leave
may be told it was lost, where the mark was set just after `receive` read it; and a start goes on
with an outcome the library does not know, on a Core that may have admitted nobody.
