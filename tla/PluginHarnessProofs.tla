-------------------------- MODULE PluginHarnessProofs --------------------------
(***************************************************************************)
(* The starts of a harness's units are starts as Startup has them: what is *)
(* proved of those holds under the harness, for every value of its bounds. *)
(***************************************************************************)
EXTENDS PluginHarness, StartupProofs

\* A start the harness is performing is one of its own.
StartIsMine == hpc = "starting" => hand.of \in Mine

\* The harness's loop performs a start, or leaves the starts alone.
LEMMA LoopStep ==
  ASSUME StartIsMine, Loop
  PROVE  [StartupNext]_startup
<1>1. Mine \subseteq Starts
  BY StartsAssumption, HarnessAssumption DEF Mine, Starts
<1>2. CASE ActStart
  BY <1>1, <1>2 DEF ActStart, StartupNext, Elsewhere
<1>3. CASE ~ActStart
  BY <1>3
  DEF Loop, Acts, ActAlone, StartFails, Keep, ActSay, ActMissing, ActEmit, ActClose, CloseAsks,
      CloseSays, CloseFallsSilent, Reply, LeaveLate
<1> QED
  BY <1>2, <1>3

\* Every step of the harness is a step of the starts, or leaves them alone.
LEMMA StartStep ==
  ASSUME StartIsMine, [Next]_vars
  PROVE  [StartupNext]_startup
<1>1. Mine \subseteq Starts /\ Abroad \in Starts
  BY StartsAssumption, HarnessAssumption DEF Mine, Starts, Abroad
<1>2. CASE UNCHANGED vars
  BY <1>2 DEF vars
<1>3. CASE SignalArm \/ EndedArm
  BY <1>3 DEF SignalArm, EndedArm
<1>4. ASSUME NEW verb \in Verbs, NEW of \in 0..MaxEvents, DirectiveArm(verb, of)
      PROVE  UNCHANGED startup
  BY <1>4, Zenon DEF DirectiveArm
<1>5. CASE Loop
  BY <1>5, LoopStep
<1>6. CASE Observer
  BY <1>6 DEF Observer, Watches, Observe, Report, TellLoop
<1>7. CASE StartProceeds \/ StartAdmitted
  BY <1>1, <1>7 DEF StartProceeds, StartAdmitted, StartIsMine, StartupNext, Elsewhere
<1>8. CASE LibrarySays \/ LibrarySurfaces \/ LibraryEnds
  BY <1>8, Zenon DEF LibrarySays, LibrarySurfaces, LibraryEnds, SessionOnly
<1>9. CASE Signal \/ Outside
  BY <1>1, <1>9 DEF Signal, Outside, StartupNext
<1> QED
  BY <1>2, <1>3, <1>4, <1>5, <1>6, <1>7, <1>8, <1>9 DEF Next

\* The directive in hand is a record of its kind, and one that starts a unit names a
\* start of the harness's own.
Hand == [verb : Verbs \cup {"none"}, of : 0..MaxEvents \cup Starts, seen : BOOLEAN,
         says : Answers]

HandInv == hand \in Hand /\ StartIsMine

\* The directive in hand stays one in every step.
LEMMA HandStep ==
  ASSUME HandInv, [Next]_vars
  PROVE  HandInv'
<1> USE DEF HandInv, StartIsMine, Hand, Goto
<1>1. Mine \subseteq Starts
  BY StartsAssumption, HarnessAssumption DEF Mine, Starts
<1>2. ASSUME NEW answer \in Answers, Says(answer)
      PROVE  HandInv'
  BY <1>2 DEF Says
<1>3. ASSUME UNCHANGED hand, UNCHANGED hpc \/ hpc' # "starting"
      PROVE  HandInv'
  BY <1>3
<1>4. ASSUME NEW why, Exit(why), UNCHANGED hand
      PROVE  HandInv'
  BY <1>3, <1>4 DEF Exit
<1>5. CASE UNCHANGED vars \/ Observer \/ Signal \/ Outside
  BY <1>3, <1>5 DEF vars, serve, Observer, Watches, Observe, Report, TellLoop, Signal, Outside
<1>6. CASE SignalArm \/ EndedArm \/ LeaveLate
  BY <1>3, <1>4, <1>6 DEF SignalArm, EndedArm, LeaveLate
<1>7. CASE LibrarySays \/ LibrarySurfaces \/ LibraryEnds
  <2>1. UNCHANGED <<hand, hpc>>
    BY <1>7, Zenon DEF LibrarySays, LibrarySurfaces, LibraryEnds, SessionOnly, serve
  <2> QED
    BY <1>3, <2>1
<1>8. ASSUME NEW verb \in Verbs, NEW of \in 0..MaxEvents, DirectiveArm(verb, of)
      PROVE  HandInv'
  <2>1. hand' = [verb |-> verb, of |-> of, seen |-> Seen(verb, of), says |-> "none"]
    BY <1>8, Zenon DEF DirectiveArm
  <2>2. hpc' \in {"exited", "select", "closing", "acting"}
    BY <1>8, Zenon DEF DirectiveArm, Exit
  <2> QED
    BY <2>1, <2>2 DEF Seen, Answers
<1>9. CASE ActStart
  BY <1>1, <1>2, <1>9 DEF ActStart, Answers
<1>10. CASE ActAlone \/ StartFails \/ Keep
  BY <1>2, <1>10 DEF ActAlone, StartFails, Keep, Answers
<1>11. CASE ActSay \/ ActMissing \/ ActEmit
  BY <1>2, <1>11 DEF ActSay, ActMissing, ActEmit, Answers
<1>12. CASE ActClose \/ CloseFallsSilent
  BY <1>3, <1>12 DEF ActClose, CloseFallsSilent, CloseDone, Exit
<1>13. CASE CloseAsks \/ CloseSays
  BY <1>3, <1>13 DEF CloseAsks, CloseSays, CloseDone, Exit, Result, Answers
<1>14. CASE Reply
  BY <1>14, HarnessAssumption DEF Reply, Idle, Answers
<1>15. CASE StartProceeds \/ StartAdmitted
  BY <1>3, <1>15 DEF StartProceeds, StartAdmitted, serve
<1> QED
  BY <1>5, <1>6, <1>7, <1>8, <1>9, <1>10, <1>11, <1>12, <1>13, <1>14, <1>15
  DEF Next, Loop, Acts

\* The harness starts its units as Startup has them started.
THEOREM HarnessStarts == Spec => StartupSpec
<1>1. Init => StartupInit /\ HandInv
  BY HarnessAssumption DEF Init, HandInv, StartIsMine, Hand, Idle, Answers
<1>2. HandInv /\ [Next]_vars => HandInv' /\ [StartupNext]_startup
  BY HandStep, StartStep DEF HandInv
<1> QED
  BY <1>1, <1>2, PTL DEF Spec, StartupSpec

\* A unit the harness's Core knows stands at its path until another start clears it,
\* whether or not its own removal of what stood there was denied, whatever is directed
\* and whoever starts beside it (plugin.rs:426-433).
THEOREM HarnessReachable == Spec => []StartsReachable
BY HarnessStarts, Reachable, PTL

-------------------------------------------------------------------------------
\* What the loop, the Session, the observer and the map of what may be answered keep
\* between them.

Looping ==
  /\ hpc \in {"select", "acting", "starting", "closing", "asked", "silencing", "replying",
              "leaving", "exited"}
  /\ directives \in 0..MaxDirectives /\ unit \in 0..MaxStarts - 1
  /\ signalled \in BOOLEAN
  /\ how \in {"none", "ended", "late", "finished"}

\* The end of the Session is the last of what the library surfaces.
Hearing ==
  /\ heard \in Seq(Events \cup Ends)
  /\ asked \in BOOLEAN /\ silent \in BOOLEAN /\ over \in BOOLEAN
  /\ Len(heard) <= IF over THEN MaxEvents + 1 ELSE MaxEvents
  /\ \A i \in 1..Len(heard) : heard[i] \in Ends => over /\ i = Len(heard)

\* What the observer has taken it has reported, but for the one it is sending; it tells
\* the loop of an end that it has reported, and the loop leaves for one it was told of.
Observing ==
  /\ opc \in {"none", "waiting", "sending", "reported", "done"} /\ taken \in 0..Len(heard)
  /\ (opc = "none") = (unit = 0)
  /\ opc = "sending" => taken > 0
  /\ reported \in Seq(Events \cup Ends)
  /\ Len(reported) = IF opc = "sending" THEN taken - 1 ELSE taken
  /\ \A i \in 1..Len(reported) : reported[i] = heard[i]
  /\ opc \in {"reported", "done"} => taken > 0 /\ heard[taken] \in Ends
  /\ permit \in BOOLEAN
  /\ permit \/ how = "ended" => opc = "done"

\* What was taken may be answered before it is reported, and the directive that follows
\* its report finds it.
Remembering ==
  /\ answerable \subseteq Events
  /\ \A i \in 1..taken : Answerable(heard[i]) => heard[i] \in answerable
  /\ hand.seen /\ hand.verb \in {"ack", "answer"} => Named \in answerable
  /\ hand.says = "missing" => ~hand.seen

HarnessInv == StartupType /\ HandInv /\ Looping /\ Hearing /\ Observing /\ Remembering

\* Of what the library surfaces, an end is no event.
LEMMA EndsAreNoEvents == Events \cap Ends = {}
BY DEF Events, Ends, Kinds

\* What a step of the Session does to what is heard.
LEMMA HearingStep ==
  ASSUME HarnessInv, [Next]_vars
  PROVE  Hearing'
<1> USE DEF Hearing
<1>0. Hearing
  BY DEF HarnessInv
<1>1. ASSUME UNCHANGED <<heard, over>>, asked' \in BOOLEAN, silent' \in BOOLEAN
      PROVE  Hearing'
  BY <1>0, <1>1
<1>2. CASE LibrarySurfaces
  <2>1. PICK kind \in Kinds : heard' = Append(heard, [kind |-> kind, of |-> Len(heard) + 1])
    BY <1>2 DEF LibrarySurfaces
  <2>2. ~over /\ Len(heard) < MaxEvents /\ UNCHANGED <<asked, silent, over>>
    BY <1>2 DEF LibrarySurfaces, Session!Hear
  <2> DEFINE e == [kind |-> kind, of |-> Len(heard) + 1]
  <2>3. e \in Events /\ e \notin Ends
    BY <1>0, <2>2, HarnessAssumption, EndsAreNoEvents DEF Events
  <2> HIDE DEF e
  <2>4. heard' = Append(heard, e)
    BY <2>1 DEF e
  <2>5. heard' \in Seq(Events \cup Ends) /\ Len(heard') = Len(heard) + 1
    BY <1>0, <2>3, <2>4
  <2>6. \A i \in 1..Len(heard') : heard'[i] \notin Ends
    BY <1>0, <2>2, <2>3, <2>4
  <2> QED
    BY <1>0, <2>2, <2>5, <2>6, HarnessAssumption
<1>3. CASE LibraryEnds
  <2>1. PICK end \in Ends : Session!End(end)
    BY <1>3 DEF LibraryEnds
  <2>2. ~over /\ heard' = Append(heard, end) /\ over' = TRUE /\ silent' = TRUE /\ asked' = asked
    BY <2>1 DEF Session!End
  <2>3. heard' \in Seq(Events \cup Ends) /\ Len(heard') = Len(heard) + 1
    BY <1>0, <2>2
  <2>4. \A i \in 1..Len(heard') : heard'[i] \in Ends => i = Len(heard')
    BY <1>0, <2>2, <2>3
  <2> QED
    BY <1>0, <2>2, <2>3, <2>4, HarnessAssumption
<1>4. CASE LibrarySays
  BY <1>0, <1>1, <1>4 DEF LibrarySays, Session!Say
<1>5. CASE SignalArm \/ EndedArm \/ LeaveLate \/ Observer \/ Signal \/ Outside \/ UNCHANGED vars
  BY <1>0, <1>1, <1>5
  DEF SignalArm, EndedArm, LeaveLate, Observer, Watches, Observe, Report, TellLoop, Signal, Outside,
      session, vars
<1>6. ASSUME NEW verb \in Verbs, NEW of \in 0..MaxEvents, DirectiveArm(verb, of)
      PROVE  Hearing'
  <2>1. UNCHANGED session
    BY <1>6, Zenon DEF DirectiveArm
  <2> QED
    BY <1>0, <1>1, <2>1 DEF session
<1>7. CASE ActAlone \/ ActStart \/ StartFails \/ Keep \/ ActMissing \/ ActEmit \/ ActClose \/ Reply
  <2>1. UNCHANGED session
    BY <1>7, Zenon DEF ActAlone, ActStart, StartFails, Keep, ActMissing, ActEmit, ActClose, Reply
  <2> QED
    BY <1>0, <1>1, <2>1 DEF session
<1>8. CASE ActSay \/ CloseSays
  BY <1>0, <1>1, <1>8 DEF ActSay, CloseSays, Queued, Session!Say, session
<1>9. CASE CloseAsks \/ CloseFallsSilent
  BY <1>0, <1>1, <1>9 DEF CloseAsks, CloseFallsSilent, Session!Ask, Session!FallSilent, session
<1>10. CASE StartProceeds \/ StartAdmitted
  BY <1>0, <1>1, <1>10 DEF StartProceeds, StartAdmitted, session
<1> QED
  BY <1>2, <1>3, <1>4, <1>5, <1>6, <1>7, <1>8, <1>9, <1>10 DEF Next, Loop, Acts

\* The loop's own variables keep their types.
LEMMA LoopingStep ==
  ASSUME HarnessInv, [Next]_vars
  PROVE  Looping'
<1> USE DEF Looping, Goto, Exit, Says
<1>0. Looping
  BY DEF HarnessInv
<1>1. CASE SignalArm \/ EndedArm \/ LeaveLate \/ Observer \/ Signal \/ Outside \/ UNCHANGED vars
  BY <1>0, <1>1
  DEF SignalArm, EndedArm, LeaveLate, Observer, Watches, Observe, Report, TellLoop, Signal, Outside,
      serve, vars
<1>2. ASSUME NEW verb \in Verbs, NEW of \in 0..MaxEvents, DirectiveArm(verb, of)
      PROVE  Looping'
  <2>1. /\ directives < MaxDirectives /\ directives' = directives + 1
        /\ UNCHANGED <<unit, signalled>>
        /\ \/ hpc' = "exited" /\ how' = "finished"
           \/ hpc' \in {"select", "closing", "acting"} /\ how' = how
    BY <1>2, Zenon DEF DirectiveArm
  <2> QED
    BY <1>0, <2>1, HarnessAssumption
<1>3. CASE Keep
  <2>1. hand.of \in 0..MaxStarts - 1
    BY <1>3, HarnessAssumption DEF Keep, HarnessInv, HandInv, StartIsMine, Mine
  <2> QED
    BY <1>0, <1>3, <2>1 DEF Keep
<1>4. CASE ActAlone \/ ActStart \/ StartFails
  BY <1>0, <1>4 DEF ActAlone, ActStart, StartFails
<1>5. CASE ActSay \/ ActMissing \/ ActEmit \/ ActClose \/ Reply
  BY <1>0, <1>5 DEF ActSay, ActMissing, ActEmit, ActClose, Reply
<1>6. CASE CloseAsks \/ CloseSays \/ CloseFallsSilent
  BY <1>0, <1>6 DEF CloseAsks, CloseSays, CloseFallsSilent, CloseDone, Result
<1>7. CASE LibrarySays \/ LibrarySurfaces \/ LibraryEnds
  <2>1. UNCHANGED <<serve, signalled>>
    BY <1>7, Zenon DEF LibrarySays, LibrarySurfaces, LibraryEnds, SessionOnly
  <2> QED
    BY <1>0, <2>1 DEF serve
<1>8. CASE StartProceeds \/ StartAdmitted
  BY <1>0, <1>8 DEF StartProceeds, StartAdmitted, serve
<1> QED
  BY <1>1, <1>2, <1>3, <1>4, <1>5, <1>6, <1>7, <1>8 DEF Next, Loop, Acts

\* Nothing that was surfaced is taken back.
LEMMA HeardStays ==
  ASSUME HarnessInv, [Next]_vars
  PROVE  /\ Len(heard) <= Len(heard')
         /\ \A i \in 1..Len(heard) : heard'[i] = heard[i]
         /\ heard' # heard => LibrarySurfaces \/ LibraryEnds
<1>0. heard \in Seq(Events \cup Ends)
  BY DEF HarnessInv, Hearing
<1>1. CASE LibrarySurfaces
  BY <1>0, <1>1 DEF LibrarySurfaces
<1>2. CASE LibraryEnds
  BY <1>0, <1>2 DEF LibraryEnds, Session!End
<1>3. CASE ~LibrarySurfaces /\ ~LibraryEnds
  <2>1. UNCHANGED heard
    <3>1. CASE \/ LibrarySays \/ SignalArm \/ EndedArm \/ LeaveLate \/ Observer \/ Signal
               \/ Outside \/ UNCHANGED vars
      BY <3>1
      DEF LibrarySays, Session!Say, SignalArm, EndedArm, LeaveLate, Observer, Watches, Observe,
          Report, TellLoop, Signal, Outside, session, vars
    <3>2. ASSUME NEW verb \in Verbs, NEW of \in 0..MaxEvents, DirectiveArm(verb, of)
          PROVE  UNCHANGED heard
      <4>1. UNCHANGED session
        BY <3>2, Zenon DEF DirectiveArm
      <4> QED
        BY <4>1 DEF session
    <3>3. CASE \/ ActAlone \/ ActStart \/ StartFails \/ Keep \/ ActMissing \/ ActEmit
               \/ ActClose \/ Reply
      <4>1. UNCHANGED session
        BY <3>3, Zenon
        DEF ActAlone, ActStart, StartFails, Keep, ActMissing, ActEmit, ActClose, Reply
      <4> QED
        BY <4>1 DEF session
    <3>4. CASE ActSay \/ CloseSays \/ CloseAsks \/ CloseFallsSilent
      BY <3>4 DEF ActSay, CloseSays, CloseAsks, CloseFallsSilent, Queued, Session!Say, Session!Ask,
                  Session!FallSilent, session
    <3>5. CASE StartProceeds \/ StartAdmitted
      BY <3>5 DEF StartProceeds, StartAdmitted, session
    <3> QED
      BY <1>3, <3>1, <3>2, <3>3, <3>4, <3>5 DEF Next, Loop, Acts
  <2> QED
    BY <1>0, <2>1
<1> QED
  BY <1>1, <1>2, <1>3

\* What the observer, and the loop it tells, hold in a step that is none of theirs.
Observed == <<opc, taken, reported, permit, how, unit>>

\* The observer keeps its place in what is heard in every step.
LEMMA ObservingStep ==
  ASSUME HarnessInv, [Next]_vars
  PROVE  Observing'
<1> USE DEF Observing
<1>0. /\ Observing /\ heard \in Seq(Events \cup Ends) /\ Len(heard) \in Nat
      /\ \A i \in 1..Len(heard) : heard[i] \in Ends => i = Len(heard)
  BY DEF HarnessInv, Hearing
<1>1. /\ Len(heard') \in Nat /\ Len(heard) <= Len(heard')
      /\ \A i \in 1..Len(heard) : heard'[i] = heard[i]
  BY <1>0, HeardStays, HearingStep DEF Hearing
<1>2. ASSUME UNCHANGED Observed
      PROVE  Observing'
  <2>1. UNCHANGED <<opc, taken, reported, permit, how, unit>>
    BY <1>2 DEF Observed
  <2>2. \A i \in 1..Len(reported') : reported'[i] = heard'[i]
    BY <1>0, <1>1, <2>1
  <2>3. taken' \in 0..Len(heard')
    BY <1>0, <1>1, <2>1
  <2>4. opc' \in {"reported", "done"} => taken' > 0 /\ heard'[taken'] \in Ends
    BY <1>0, <1>1, <2>1
  <2> QED
    BY <1>0, <2>1, <2>2, <2>3, <2>4
<1>3. ASSUME UNCHANGED <<opc, taken, reported, unit, heard, permit>>,
             how' \in {how, "late", "finished"}
      PROVE  Observing'
  BY <1>0, <1>3
<1>4. CASE Observe
  <2>1. /\ opc = "waiting" /\ taken < Len(heard) /\ taken' = taken + 1 /\ opc' = "sending"
        /\ UNCHANGED <<heard, permit, reported, how, unit>>
    BY <1>4 DEF Observe, session, serve
  <2> QED
    BY <1>0, <2>1
<1>5. CASE Report
  <2>1. /\ opc = "sending" /\ reported' = Append(reported, heard[taken])
        /\ opc' = IF heard[taken] \in Ends THEN "reported" ELSE "waiting"
        /\ UNCHANGED <<heard, permit, taken, how, unit>>
    BY <1>5 DEF Report, session, serve
  <2>2. taken \in 1..Len(heard) /\ Len(reported) = taken - 1
    BY <1>0, <2>1
  <2>3. reported' \in Seq(Events \cup Ends) /\ Len(reported') = taken
    BY <1>0, <2>1, <2>2
  <2>4. \A i \in 1..Len(reported') : reported'[i] = heard'[i]
    BY <1>0, <2>1, <2>2, <2>3
  <2> QED
    BY <1>0, <2>1, <2>2, <2>3, <2>4
<1>6. CASE TellLoop
  BY <1>0, <1>6 DEF TellLoop, NotifyOne, session, serve
<1>7. CASE EndedArm
  BY <1>0, <1>7 DEF EndedArm, Exit, session, observe
<1>8. CASE Keep
  <2>1. hand.of \in 1..MaxStarts - 1
    BY <1>8, HarnessAssumption DEF Keep, HarnessInv, HandInv, StartIsMine, Mine
  <2>2. /\ unit' = IF unit = 0 THEN hand.of ELSE unit
        /\ opc' = IF unit = 0 THEN "waiting" ELSE opc
        /\ UNCHANGED <<heard, taken, reported, permit, how>>
    BY <1>8, Zenon DEF Keep, session
  <2>3. CASE unit = 0
    BY <1>0, <2>1, <2>2, <2>3
  <2>4. CASE unit # 0
    BY <1>0, <2>2, <2>4
  <2> QED
    BY <2>3, <2>4
<1>9. CASE LeaveLate
  BY <1>3, <1>9 DEF LeaveLate, Exit, observe, session
<1>10. ASSUME NEW verb \in Verbs, NEW of \in 0..MaxEvents, DirectiveArm(verb, of)
      PROVE  Observing'
  <2>1. UNCHANGED <<session, unit, observe, permit, reported>> /\ how' \in {how, "finished"}
    BY <1>10, Zenon DEF DirectiveArm, Exit
  <2> QED
    BY <1>3, <2>1 DEF session, observe
<1>11. CASE CloseAsks \/ CloseFallsSilent
  <2>1. UNCHANGED <<heard, unit, observe, permit, reported>> /\ how' \in {how, "finished"}
    BY <1>11 DEF CloseAsks, CloseFallsSilent, CloseDone, Exit, Session!Ask, Session!FallSilent,
                 session
  <2> QED
    BY <1>3, <2>1 DEF observe
<1>12. CASE SignalArm \/ Signal \/ Outside \/ UNCHANGED vars
  BY <1>2, <1>12 DEF SignalArm, Signal, Outside, observe, serve, vars, Observed
<1>13. CASE ActAlone \/ ActStart \/ StartFails \/ ActMissing \/ ActEmit \/ ActClose \/ Reply
  BY <1>2, <1>13, Zenon
  DEF ActAlone, ActStart, StartFails, ActMissing, ActEmit, ActClose, Reply, observe, Observed
<1>14. CASE ActSay \/ CloseSays
  BY <1>2, <1>14, Zenon DEF ActSay, CloseSays, observe, Observed
<1>15. CASE LibrarySays \/ LibrarySurfaces \/ LibraryEnds
  <2>1. UNCHANGED <<serve, observe, permit, reported>>
    BY <1>15, Zenon DEF LibrarySays, LibrarySurfaces, LibraryEnds, SessionOnly
  <2> QED
    BY <1>2, <2>1 DEF serve, observe, Observed
<1>16. CASE StartProceeds \/ StartAdmitted
  BY <1>2, <1>16 DEF StartProceeds, StartAdmitted, serve, observe, Observed
<1> QED
  BY <1>4, <1>5, <1>6, <1>7, <1>8, <1>9, <1>10, <1>11, <1>12, <1>13, <1>14, <1>15, <1>16
  DEF Next, Loop, Acts, Observer, Watches

\* What was reported can be answered, in every step.
LEMMA RememberingStep ==
  ASSUME HarnessInv, [Next]_vars
  PROVE  Remembering'
<1> USE DEF Remembering
<1>0. /\ Remembering /\ heard \in Seq(Events \cup Ends) /\ Len(heard) \in Nat
      /\ taken \in 0..Len(heard) /\ hand \in Hand
  BY DEF HarnessInv, Hearing, Observing, HandInv
<1>1. \A i \in 1..Len(heard) : heard'[i] = heard[i]
  BY HeardStays
<1>2. ASSUME UNCHANGED <<answerable, taken>>,
             hand'.seen /\ hand'.verb \in {"ack", "answer"} => Named' \in answerable,
             hand'.says = "missing" => ~hand'.seen
      PROVE  Remembering'
  BY <1>0, <1>1, <1>2 DEF Answerable
<1>3. ASSUME UNCHANGED <<answerable, taken, hand>>
      PROVE  Remembering'
  BY <1>0, <1>2, <1>3 DEF Named
<1>4. ASSUME NEW answer \in Answers \ {"missing"}, Result(answer), UNCHANGED <<answerable, taken>>
      PROVE  Remembering'
  <2>1. /\ hand'.seen = hand.seen /\ hand'.verb = hand.verb /\ hand'.of = hand.of
        /\ hand'.says = answer
    BY <1>0, <1>4 DEF Result, Hand
  <2> QED
    BY <1>0, <1>2, <1>4, <2>1 DEF Named
<1>5. CASE Observe
  <2>1. /\ taken < Len(heard) /\ taken' = taken + 1 /\ answerable' = Remembered(heard[taken + 1])
        /\ UNCHANGED <<heard, hand>>
    BY <1>5 DEF Observe, session, serve
  <2>2. heard[taken + 1] \in Events \cup Ends
    BY <1>0, <2>1
  <2>3. answerable' \subseteq Events /\ answerable \subseteq answerable'
    BY <1>0, <2>1, <2>2 DEF Remembered, Answerable, Ends, Events
  <2>4. \A i \in 1..taken' : Answerable(heard[i]) => heard[i] \in answerable'
    <3> SUFFICES ASSUME NEW i \in 1..taken', Answerable(heard[i])
                 PROVE  heard[i] \in answerable'
      OBVIOUS
    <3>1. CASE i = taken + 1
      BY <2>1, <3>1 DEF Remembered
    <3>2. CASE i # taken + 1
      BY <1>0, <2>1, <2>3, <3>2
    <3> QED
      BY <3>1, <3>2
  <2>5. hand'.seen /\ hand'.verb \in {"ack", "answer"} => Named' \in answerable'
    BY <1>0, <2>1, <2>3 DEF Named
  <2> QED
    BY <1>0, <2>1, <2>3, <2>4, <2>5 DEF Answerable
<1>6. ASSUME NEW verb \in Verbs, NEW of \in 0..MaxEvents, DirectiveArm(verb, of)
      PROVE  Remembering'
  <2>1. /\ hand' = [verb |-> verb, of |-> of, seen |-> Seen(verb, of), says |-> "none"]
        /\ UNCHANGED observe
    BY <1>6, Zenon DEF DirectiveArm
  <2>2. /\ hand'.seen = Seen(verb, of) /\ hand'.says = "none"
        /\ Named' = [kind |-> Kind(verb), of |-> of]
    BY <2>1 DEF Named
  <2>3. Seen(verb, of) => [kind |-> Kind(verb), of |-> of] \in answerable
    <3> SUFFICES ASSUME NEW i \in DOMAIN reported, reported[i] = [kind |-> Kind(verb), of |-> of]
                 PROVE  [kind |-> Kind(verb), of |-> of] \in answerable
      BY DEF Seen
    <3>1. i \in 1..taken /\ reported[i] = heard[i]
      BY <1>0 DEF HarnessInv, Observing
    <3>2. Answerable(heard[i])
      BY <3>1 DEF Answerable, Kind
    <3> QED
      BY <1>0, <3>1, <3>2
  <2> QED
    BY <1>2, <2>1, <2>2, <2>3 DEF observe
<1>7. CASE Reply
  BY <1>2, <1>7 DEF Reply, Idle, observe
<1>8. CASE ActMissing
  <2>1. /\ hand.verb \in {"ack", "answer"} /\ Named \notin answerable
        /\ hand' = [hand EXCEPT !.says = "missing"] /\ UNCHANGED observe
    BY <1>8, Zenon DEF ActMissing, Says
  <2>2. ~hand.seen
    BY <1>0, <2>1
  <2>3. hand'.seen = hand.seen
    BY <1>0, <2>1 DEF Hand
  <2> QED
    BY <1>2, <2>1, <2>2, <2>3 DEF observe
<1>9. CASE ActStart
  <2>1. UNCHANGED observe
    BY <1>9, Zenon DEF ActStart
  <2>2. hand.verb = "start" /\ hand'.verb = hand.verb /\ hand'.says \in {hand.says, "failed"}
        /\ hand'.seen = hand.seen
    BY <1>0, <1>9 DEF ActStart, Says, Hand
  <2> QED
    BY <1>0, <1>2, <2>1, <2>2 DEF observe
<1>10. CASE ActAlone \/ StartFails \/ ActSay \/ ActEmit
  <2>1. PICK answer \in Answers \ {"missing"} : Result(answer)
    BY <1>10 DEF ActAlone, StartFails, ActSay, ActEmit, Answers, Says, Result
  <2>2. UNCHANGED observe
    BY <1>10, Zenon DEF ActAlone, StartFails, ActSay, ActEmit
  <2> QED
    BY <1>4, <2>1, <2>2 DEF observe
<1>11. CASE Keep
  BY <1>4, <1>11 DEF Keep, Answers, Says, Result
<1>12. CASE CloseAsks \/ CloseFallsSilent
  <2>1. UNCHANGED hand \/ Result("value")
    BY <1>12 DEF CloseAsks, CloseFallsSilent
  <2>2. UNCHANGED observe
    BY <1>12, Zenon DEF CloseAsks, CloseFallsSilent
  <2> QED
    BY <1>3, <1>4, <2>1, <2>2 DEF observe, Answers
<1>13. CASE \/ Report \/ TellLoop \/ SignalArm \/ EndedArm \/ LeaveLate \/ Signal \/ Outside
            \/ UNCHANGED vars
  BY <1>3, <1>13
  DEF Report, TellLoop, SignalArm, EndedArm, LeaveLate, Signal, Outside, observe, serve, vars
<1>14. CASE ActClose
  BY <1>3, <1>14, Zenon DEF ActClose, observe
<1>17. CASE CloseSays
  <2>1. \E answer \in {"refused", "value"} : Result(answer)
    BY <1>17 DEF CloseSays
  <2>2. UNCHANGED observe
    BY <1>17, Zenon DEF CloseSays
  <2> QED
    BY <1>4, <2>1, <2>2 DEF observe, Answers
<1>15. CASE LibrarySays \/ LibrarySurfaces \/ LibraryEnds
  <2>1. UNCHANGED <<serve, observe>>
    BY <1>15, Zenon DEF LibrarySays, LibrarySurfaces, LibraryEnds, SessionOnly
  <2> QED
    BY <1>3, <2>1 DEF serve, observe
<1>16. CASE StartProceeds \/ StartAdmitted
  BY <1>3, <1>16 DEF StartProceeds, StartAdmitted, serve, observe
<1> QED
  BY <1>5, <1>6, <1>7, <1>8, <1>9, <1>10, <1>11, <1>12, <1>13, <1>14, <1>15, <1>16, <1>17
  DEF Next, Loop, Acts, Observer, Watches

\* The invariant is one: it holds at first and every step keeps it.
LEMMA HarnessInvariant == Spec => []HarnessInv
<1>1. Init => HarnessInv
  <2> SUFFICES ASSUME Init
               PROVE  HarnessInv
    OBVIOUS
  <2>1. StartupType
    BY StartsAssumption
    DEF Init, StartupInit, StartupType, Stages, Outcomes, Nothing, Predecessor
  <2>2. HandInv
    BY HarnessAssumption DEF Init, HandInv, StartIsMine, Hand, Idle, Answers
  <2>3. /\ asked \in BOOLEAN /\ silent \in BOOLEAN /\ over \in BOOLEAN /\ ~over
        /\ signalled \in BOOLEAN /\ permit \in BOOLEAN /\ ~permit
    BY Zenon DEF Init
  <2>4. /\ heard = <<>> /\ reported = <<>> /\ hpc = "select" /\ how = "none" /\ opc = "none"
        /\ taken = 0 /\ unit = 0 /\ directives = 0
    BY Zenon DEF Init
  <2>5. Looping
    BY <2>3, <2>4, StartsAssumption, HarnessAssumption DEF Looping
  <2>6. Hearing /\ Observing
    BY <2>3, <2>4, HarnessAssumption DEF Hearing, Observing
  <2>7. Remembering
    BY DEF Init, Remembering, Idle
  <2> QED
    BY <2>1, <2>2, <2>5, <2>6, <2>7 DEF HarnessInv
<1>2. HarnessInv /\ [Next]_vars => HarnessInv'
  <2> SUFFICES ASSUME HarnessInv, [Next]_vars
               PROVE  HarnessInv'
    OBVIOUS
  <2>1. StartupType'
    BY StartStep, TypeStep DEF HarnessInv, HandInv
  <2>2. HandInv'
    BY HandStep DEF HarnessInv
  <2> QED
    BY <2>1, <2>2, LoopingStep, HearingStep, ObservingStep, RememberingStep DEF HarnessInv
<1> QED
  BY <1>1, <1>2, PTL DEF Spec

\* Every variable of the harness keeps its type, and a unit that is kept is observed.
THEOREM HarnessTyped == Spec => []HarnessTypeOK
<1>1. HarnessInv => HarnessTypeOK
  <2> SUFFICES ASSUME HarnessInv
               PROVE  HarnessTypeOK
    OBVIOUS
  <2>1. Len(heard) <= MaxEvents + 1
    BY HarnessAssumption DEF HarnessInv, Hearing
  <2> QED
    BY <2>1 DEF HarnessInv, HandInv, Hand, Looping, Hearing, Observing, Remembering, HarnessTypeOK
<1> QED
  BY <1>1, HarnessInvariant, PTL

\* What the library surfaced is reported in its order, and a harness that leaves because
\* its Session has ended has reported all of it, the end last (lib.rs:268).
THEOREM EndsAreReported == Spec => []EndIsReported
<1>1. HarnessInv => EndIsReported
  <2> SUFFICES ASSUME HarnessInv
               PROVE  EndIsReported
    OBVIOUS
  <2>1. /\ heard \in Seq(Events \cup Ends) /\ reported \in Seq(Events \cup Ends)
        /\ taken \in 0..Len(heard)
        /\ Len(reported) = IF opc = "sending" THEN taken - 1 ELSE taken
        /\ \A i \in 1..Len(reported) : reported[i] = heard[i]
    BY DEF HarnessInv, Hearing, Observing
  <2>2. ASSUME how = "ended"
        PROVE  reported = heard /\ heard[Len(heard)] \in Ends
    <3>1. opc = "done" /\ taken > 0 /\ heard[taken] \in Ends
      BY <2>2 DEF HarnessInv, Observing
    <3>2. taken = Len(heard)
      BY <2>1, <3>1 DEF HarnessInv, Hearing
    <3> QED
      BY <2>1, <3>1, <3>2
  <2> QED
    BY <2>1, <2>2 DEF EndIsReported
<1> QED
  BY <1>1, HarnessInvariant, PTL

\* A directive that follows the observation of a command or a question finds it: the map
\* is written before the line is (lib.rs:237-255, 272-281).
THEOREM ObservedAnswers == Spec => []ObservedIsAnswerable
<1>1. HarnessInv => ObservedIsAnswerable
  BY DEF HarnessInv, Remembering, ObservedIsAnswerable
<1> QED
  BY <1>1, HarnessInvariant, PTL

===============================================================================
