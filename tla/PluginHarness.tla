---------------------------- MODULE PluginHarness ----------------------------
(***************************************************************************)
(* The plugin library's harness (src/harness/src/lib.rs): the loop that    *)
(* selects between a signal, the Session's end and the suite's next        *)
(* directive, the task `observe' that turns what the library surfaces into *)
(* observations, and the library below them: the starts as Startup has     *)
(* them, the Session of the unit that is observed as SessionContract       *)
(* promises it.  The last of Starts is another process's at the same path. *)
(*                                                                         *)
(* The two maps of what may be answered are one set of events.  A line is  *)
(* written under the lock of the control socket, so that it is one step;   *)
(* of the lines, the observations are kept.                                *)
(***************************************************************************)
EXTENDS Startup, Sequences

CONSTANTS MaxDirectives,  \* bound: lines the suite sends
          MaxEvents,      \* bound: events the library surfaces before the end
          MaxSaid         \* bound: envelopes the library's own tasks queue up to

ASSUME HarnessAssumption ==
  MaxStarts > 1 /\ MaxDirectives \in Nat /\ MaxEvents \in Nat /\ MaxSaid \in Nat \ {0}

Mine   == 1..MaxStarts - 1
Abroad == MaxStarts

VARIABLES
  \* the Session of the unit that is observed
  said, heard, asked, silent, over,
  \* serve
  hpc,        \* where the loop is
  hand,       \* the directive in hand
  directives,
  unit,       \* State.unit, 0 before it is kept
  answerable, \* State.commands and State.questions
  signalled,  \* SIGTERM has come
  permit,     \* what notify_one has left in `ended'
  how,        \* what made it exit
  \* observe
  opc, taken,
  reported    \* the observations on the control socket

session == <<said, heard, asked, silent, over>>
serve   == <<hpc, hand, directives, unit, how>>
observe == <<answerable, opc, taken>>
vars == <<startup, session, serve, observe, signalled, permit, reported>>

Envelope == "envelope"
Kinds    == {"command", "question", "other"}
Events   == [kind : Kinds, of : 1..MaxEvents]
Ends     == [kind : {"closed", "lost"}, of : {0}]   \* a revocation is a loss

Session == INSTANCE SessionContract WITH Envelopes <- {Envelope}

\* A directive: `of' is the event an ack or an answer names, or the start that a start
\* is; `seen', for a property, that its observation stands on the socket.
Verbs   == {"describe", "start", "close", "say", "emit", "ack", "answer", "unknown",
            "noise", "finish"}
Idle == [verb |-> "none", of |-> 0, seen |-> FALSE, says |-> "none"]
Answers == {"none", "value", "refused", "failed", "unstarted", "unrecognised", "missing"}
Kind(verb) == IF verb = "ack" THEN "command" ELSE "question"

Init ==
  /\ StartupInit
  /\ said = <<>> /\ heard = <<>> /\ asked = FALSE /\ silent = FALSE /\ over = FALSE
  /\ hpc = "select" /\ hand = Idle /\ directives = 0
  /\ unit = 0 /\ answerable = {}
  /\ signalled = FALSE /\ permit = FALSE /\ how = "none"
  /\ opc = "none" /\ taken = 0
  /\ reported = <<>>

Running == hpc # "exited"
Goto(label) == hpc' = label

-------------------------------------------------------------------------------
\* The Session, which goes on by itself from the step that opened it.

Opened == said # <<>>

SessionOnly == UNCHANGED <<startup, serve, observe, signalled, permit, reported>>

\* A beat, or an answer to the Core.
LibrarySays ==
  /\ Running /\ Opened /\ Len(said) < MaxSaid
  /\ said' = Append(said, Envelope)
  /\ Session!Say
  /\ SessionOnly

LibrarySurfaces ==
  /\ Running /\ Opened /\ Len(heard) < MaxEvents
  /\ \E kind \in Kinds : heard' = Append(heard, [kind |-> kind, of |-> Len(heard) + 1])
  /\ Session!Hear
  /\ SessionOnly

LibraryEnds ==
  /\ Running /\ Opened
  /\ \E end \in Ends : Session!End(end)
  /\ SessionOnly

-------------------------------------------------------------------------------
\* serve's loop: whichever of the three is ready, in any order.

\* Asked to stop: the end is waited for, for a while.
SignalArm ==
  /\ hpc = "select" /\ signalled
  /\ Goto("leaving")
  /\ UNCHANGED <<startup, session, hand, directives, unit, how, observe, signalled, permit,
                 reported>>

Exit(why) == hpc' = "exited" /\ how' = why

EndedArm ==
  /\ hpc \in {"select", "leaving"} /\ permit
  /\ permit' = FALSE
  /\ Exit("ended")
  /\ UNCHANGED <<startup, session, hand, directives, unit, observe, signalled, reported>>

LeaveLate ==
  /\ hpc = "leaving"
  /\ Exit("late")
  /\ UNCHANGED <<startup, session, hand, directives, unit, observe, signalled, permit, reported>>

Seen(verb, of) ==
  \E i \in DOMAIN reported : reported[i] = [kind |-> Kind(verb), of |-> of]

\* A line of the suite: noise is what is no directive, finish its end too.  Mine bounds
\* the starts.
DirectiveArm(verb, of) ==
  /\ hpc = "select" /\ directives < MaxDirectives
  /\ of # 0 => verb \in {"ack", "answer"}
  /\ verb = "start" => \E u \in Mine : stage[u] = "unstarted"
  /\ directives' = directives + 1
  /\ hand' = [verb |-> verb, of |-> of, seen |-> Seen(verb, of), says |-> "none"]
  /\ IF verb = "finish" /\ unit = 0
       THEN Exit("finished")
       ELSE /\ hpc' = CASE verb = "noise" -> "select" [] verb = "finish" -> "closing"
                        [] OTHER -> "acting"
            /\ UNCHANGED how
  /\ UNCHANGED <<startup, session, unit, observe, signalled, permit, reported>>

-------------------------------------------------------------------------------
\* act.

Says(answer) == hand' = [hand EXCEPT !.says = answer] /\ Goto("replying")

\* A verb that needs no unit, or finds none.
ActAlone ==
  /\ hpc = "acting" /\ hand.verb # "start"
  /\ \/ hand.verb = "describe" /\ Says("value")
     \/ hand.verb = "unknown" /\ Says("unrecognised")
     \/ hand.verb \in Verbs \ {"describe", "unknown"} /\ unit = 0 /\ Says("unstarted")
  /\ UNCHANGED <<startup, session, directives, unit, how, observe, signalled, permit, reported>>

ActStart ==
  /\ hpc = "acting" /\ hand.verb = "start"
  /\ \E u \in Mine :
       /\ \A v \in Mine : v < u => stage[v] # "unstarted"
       /\ \/ Begin(u) /\ Goto("starting") /\ hand' = [hand EXCEPT !.of = u]
          \/ NoEnvironment(u) /\ Says("failed")
  /\ UNCHANGED <<session, directives, unit, how, observe, signalled, permit, reported>>

\* The start is under way and nothing else of the loop is.
StartProceeds ==
  /\ hpc = "starting"
  /\ Proceed(hand.of)
  /\ UNCHANGED <<session, serve, observe, signalled, permit, reported>>

\* The Session of the first unit is the one that is followed from here.
StartAdmitted ==
  /\ hpc = "starting"
  /\ Admitted(hand.of)
  /\ said' = IF unit = 0 THEN <<Envelope>> ELSE said
  /\ UNCHANGED <<heard, asked, silent, over, serve, observe, signalled, permit, reported>>

StartFails ==
  /\ hpc = "starting" /\ stage[hand.of] = "failed"
  /\ Says(IF outcome[hand.of] = "refused" THEN "refused" ELSE "failed")
  /\ UNCHANGED <<startup, session, directives, unit, how, observe, signalled, permit, reported>>

\* The first unit is kept and observed; another is let go, its tasks going on.
\* Mutant: nobody observes it.
KeepUnobserved ==
  /\ hpc = "starting" /\ stage[hand.of] = "started"
  /\ unit' = IF unit = 0 THEN hand.of ELSE unit
  /\ Says("value")
  /\ UNCHANGED <<startup, session, directives, how, observe, signalled, permit, reported>>

Keep ==
  /\ hpc = "starting" /\ stage[hand.of] = "started"
  /\ unit' = IF unit = 0 THEN hand.of ELSE unit
  /\ opc' = IF unit = 0 THEN "waiting" ELSE opc
  /\ Says("value")
  /\ UNCHANGED <<startup, session, directives, how, answerable, taken, signalled, permit, reported>>

\* The Session's queue takes an envelope while the Session is open; it may be refused
\* at any time, since the queue's reader may be gone.
Queued == said' = Append(said, Envelope) /\ Session!Say

\* report-health and report, which the library refuses out of their ranges, and ack and
\* answer of what was surfaced.
Named == [kind |-> Kind(hand.verb), of |-> hand.of]

ActSay ==
  /\ hpc = "acting" /\ unit # 0
  /\ hand.verb \in {"say", "ack", "answer"}
  /\ hand.verb \in {"ack", "answer"} => Named \in answerable
  /\ \/ hand.verb = "say" /\ Says("failed") /\ UNCHANGED session
     \/ Queued /\ Says("value")
     \/ UNCHANGED session /\ Says("refused")
  /\ UNCHANGED <<startup, directives, unit, how, observe, signalled, permit, reported>>

ActMissing ==
  /\ hpc = "acting" /\ unit # 0
  /\ hand.verb \in {"ack", "answer"}
  /\ Named \notin answerable
  /\ Says("missing")
  /\ UNCHANGED <<startup, session, directives, unit, how, observe, signalled, permit, reported>>

\* A stream is no part of the contract: it takes the payload or refuses it, or holds the
\* loop in the write on its blocking socket.
ActEmit ==
  /\ hpc = "acting" /\ unit # 0 /\ hand.verb = "emit"
  /\ Says("value") \/ Says("refused")
  /\ UNCHANGED <<startup, session, directives, unit, how, observe, signalled, permit, reported>>

\* Unit::close, for the directive and for finish.
ActClose ==
  /\ hpc = "acting" /\ unit # 0 /\ hand.verb = "close"
  /\ Goto("closing")
  /\ UNCHANGED <<startup, session, hand, directives, unit, how, observe, signalled, permit,
                 reported>>

\* What finish calls it ignores the result of.
CloseDone ==
  IF hand.verb = "finish" THEN Exit("finished") ELSE Goto("replying") /\ UNCHANGED how

Result(answer) == hand' = [hand EXCEPT !.says = answer]

\* A Session that has ended needs no close.
CloseAsks ==
  /\ hpc = "closing"
  /\ \/ over /\ Result("value") /\ CloseDone /\ UNCHANGED session
     \/ ~over /\ Session!Ask /\ Goto("asked") /\ UNCHANGED <<hand, how>>
  /\ UNCHANGED <<startup, directives, unit, observe, signalled, permit, reported>>

\* A CLOSE that the queue does not take is what close returns, at its end.
CloseSays ==
  /\ hpc = "asked"
  /\ \/ Queued /\ Result("value")
     \/ UNCHANGED session /\ Result("refused")
  /\ Goto("silencing")
  /\ UNCHANGED <<startup, directives, unit, how, observe, signalled, permit, reported>>

CloseFallsSilent ==
  /\ hpc = "silencing"
  /\ IF silent THEN UNCHANGED session ELSE Session!FallSilent
  /\ CloseDone
  /\ UNCHANGED <<startup, hand, directives, unit, observe, signalled, permit, reported>>

\* The result's line, which waits for the suite to read.
Reply ==
  /\ hpc = "replying"
  /\ hand' = Idle
  /\ Goto("select")
  /\ UNCHANGED <<startup, session, directives, unit, how, observe, signalled, permit, reported>>

-------------------------------------------------------------------------------
\* observe.

Answerable(e) == e.kind \in {"command", "question"}

\* Mutant: an event is kept after its observation was sent, and before the next is taken.
RememberedAfter(e) ==
  IF taken # 0 /\ Answerable(heard[taken]) THEN answerable \cup {heard[taken]} ELSE answerable

Remembered(e) == IF Answerable(e) THEN answerable \cup {e} ELSE answerable

\* Mutant: the end is told to the loop as it is taken.
ObserveTelling ==
  /\ Running /\ opc = "waiting" /\ taken < Len(heard)
  /\ taken' = taken + 1
  /\ answerable' = Remembered(heard[taken + 1])
  /\ permit' = (permit \/ heard[taken + 1] \in Ends)
  /\ opc' = "sending"
  /\ UNCHANGED <<startup, session, serve, signalled, reported>>

Observe ==
  /\ Running /\ opc = "waiting" /\ taken < Len(heard)
  /\ taken' = taken + 1
  /\ answerable' = Remembered(heard[taken + 1])
  /\ opc' = "sending"
  /\ UNCHANGED <<startup, session, serve, signalled, permit, reported>>

Report ==
  /\ Running /\ opc = "sending"
  /\ reported' = Append(reported, heard[taken])
  /\ opc' = IF heard[taken] \in Ends THEN "reported" ELSE "waiting"
  /\ UNCHANGED <<startup, session, serve, answerable, taken, signalled, permit>>

\* Mutant: only a loop that waits is told.
NotifyWaiters == permit' = (hpc \in {"select", "leaving"})

NotifyOne == permit' = TRUE

TellLoop ==
  /\ Running /\ opc = "reported"
  /\ NotifyOne
  /\ opc' = "done"
  /\ UNCHANGED <<startup, session, serve, answerable, taken, signalled, reported>>

-------------------------------------------------------------------------------
\* The system asks the process to stop, another process starts, the Core admits.

Signal ==
  /\ Running /\ ~signalled /\ signalled' = TRUE
  /\ UNCHANGED <<startup, session, serve, observe, permit, reported>>

Outside ==
  /\ Elsewhere(Abroad) \/ \E u \in Starts : CoreAdmits(u)
  /\ UNCHANGED <<session, serve, observe, signalled, permit, reported>>

\* What the loop does, and what waits for another: the transport, the suite.
Acts ==
  \/ ActAlone \/ ActStart \/ StartFails \/ Keep \/ ActSay \/ ActMissing \/ ActClose
  \/ CloseAsks \/ CloseSays \/ CloseFallsSilent \/ LeaveLate

Loop == Acts \/ ActEmit \/ Reply

Watches == Observe \/ TellLoop

Observer == Watches \/ Report

Next ==
  \/ SignalArm \/ EndedArm
  \/ \E verb \in Verbs, of \in 0..MaxEvents : DirectiveArm(verb, of)
  \/ Loop \/ Observer \/ StartProceeds \/ StartAdmitted
  \/ LibrarySays \/ LibrarySurfaces \/ LibraryEnds \/ Signal \/ Outside

\* The loop goes on where nothing but itself is in the way, an arm that is ready again
\* and again is chosen, the observer runs, and a Session that was asked to end ends.
\* Nothing obliges the suite to direct or to read, the Core to answer a start or end a
\* Session, a transport to take what is emitted, or the system to signal.
Fairness ==
  /\ WF_vars(Acts) /\ WF_vars(Watches)
  /\ SF_vars(SignalArm) /\ SF_vars(EndedArm)
  /\ WF_vars(asked /\ LibraryEnds)

Spec == Init /\ [][Next]_vars /\ Fairness

\* A Core that answers the starts, transports that take or refuse what is emitted, and a
\* suite that reads its lines.
CoreAnswers == WF_vars(StartProceeds \/ StartAdmitted)
EmitReturns == WF_vars(ActEmit)
SuiteReads  == WF_vars(Reply) /\ WF_vars(Report)

-------------------------------------------------------------------------------
\* Properties.

\* Every variable has its type; a unit that is kept is observed.
HarnessTypeOK ==
  /\ StartupType
  /\ heard \in Seq(Events \cup Ends) /\ Len(heard) <= MaxEvents + 1
  /\ asked \in BOOLEAN /\ silent \in BOOLEAN /\ over \in BOOLEAN
  /\ hpc \in {"select", "acting", "starting", "closing", "asked", "silencing", "replying",
              "leaving", "exited"}
  /\ hand \in [verb : Verbs \cup {"none"}, of : 0..MaxEvents \cup Starts, seen : BOOLEAN,
               says : Answers]
  /\ directives \in 0..MaxDirectives /\ unit \in 0..MaxStarts - 1
  /\ answerable \subseteq Events
  /\ signalled \in BOOLEAN /\ permit \in BOOLEAN
  /\ how \in {"none", "ended", "late", "finished"}
  /\ opc \in {"none", "waiting", "sending", "reported", "done"} /\ taken \in 0..Len(heard)
  /\ (opc = "none") = (unit = 0)

\* What the library surfaced is reported in its order, and a harness that leaves because
\* its Session has ended has reported all of it, the end last (observe's doc, lib.rs:268;
\* the-harness.std.md:71).
EndIsReported ==
  /\ Len(reported) <= Len(heard)
  /\ \A i \in DOMAIN reported : reported[i] = heard[i]
  /\ how = "ended" => reported = heard /\ heard[Len(heard)] \in Ends

\* What the suite has seen surfaced can be answered: a directive that follows the
\* observation finds the command or the question (lib.rs:237-255, 272-281).
ObservedIsAnswerable == hand.says = "missing" => ~hand.seen

\* The harness leaves once its Session has ended, once it is asked to stop or told to
\* finish, whatever it is doing: what may hold it is a start the Core leaves unanswered,
\* an emit its transport neither takes nor refuses and a suite that does not read, and
\* nothing else (lib.rs:112-142; plugin.rs:298-309, 797).
Leaves ==
  CoreAnswers /\ EmitReturns /\ SuiteReads =>
    ((unit # 0 /\ over) \/ signalled \/ hand.verb = "finish" ~> hpc = "exited")

===============================================================================
