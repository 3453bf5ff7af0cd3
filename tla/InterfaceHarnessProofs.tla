------------------------ MODULE InterfaceHarnessProofs ------------------------
(***************************************************************************)
(* The interface library's harness uses an attachment as its authors may:  *)
(* what is proved of an attachment holds under the harness, for every      *)
(* number of directives, calls and frames.  And its tasks read all that    *)
(* its directives open.  None of it needs fairness.                        *)
(***************************************************************************)
EXTENDS InterfaceHarness, AttachmentProofs

\* Every variable of the harness's own has its type.
LoopType ==
  /\ hpc \in {"reading", "acting", "replying", "closing", "exited"}
  /\ hand \in Verbs \cup {"none"} /\ current \in Callers /\ directives \in 0..MaxDirectives
  /\ attached \in BOOLEAN
  /\ task \in [Callers -> TaskPlaces]
  /\ resulted \subseteq Callers /\ observed \subseteq Callers

\* Each attachment that is kept came of a directive.
Kept ==
  others \in Nat /\ others + (IF hpc = "acting" THEN 1 ELSE 0) <= directives

\* A call is in progress only in the directive in hand, and was made on what is attached.
OneAtATime ==
  /\ \A n \in Calls : at[n] \in InProgress => hpc = "acting" /\ n = current
  /\ current # 0 => hand \in CallVerbs /\ attached

\* No credential is presented, so that the attachment is attached until it is closed.
Uncredited ==
  /\ \A n \in Calls : op[n] # "credential"
  /\ hpc \in {"reading", "acting", "replying"} => att = "attached"

\* Before it is kept, nothing but its standing subscription is open.
Unattached ==
  ~attached => \A n \in Callers :
    at[n] # "completed" /\ (at[n] = "open" => n = 0 /\ op[n] = "standing")

HarnessInv ==
  LoopType /\ Kept /\ OneAtATime /\ Uncredited /\ Unattached /\ OpenIsRead

-------------------------------------------------------------------------------
\* What the harness's actions do to the calls: one call moves, or none does.

Only(n, S) ==
  /\ at'[n] \in S
  /\ \A c \in Callers : c # n => at'[c] = at[c]

LEMMA MoveIs ==
  ASSUME Typed, NEW n \in Callers, NEW place, Move(n, place)
  PROVE  Only(n, {place})
BY DEF Typed, TypeOK, CallsType, Move, Only

\* A directive's call begins: no release of a delivery, so that no other call moves.
LEMMA BeginsIs ==
  ASSUME Typed, NEW n \in Calls, ActBegins(n)
  PROVE  /\ Only(n, {"blocked", "failed"}) /\ op' = [op EXCEPT ![n] = hand] /\ att' = att
         /\ hand \in CallVerbs
<1>1. hand # "release" /\ hand \in CallVerbs
  BY DEF ActBegins, CallVerbs
<1>2. n \in Callers
  BY NamesAre
<1>3. CASE Issue(n, hand, 0)
  BY <1>1, <1>2, <1>3 DEF Issue, Started, Only, whole
<1>4. CASE IssueFails(n, hand, 0)
  BY <1>1, <1>2, <1>4 DEF IssueFails, Only, whole
<1> QED
  BY <1>1, <1>3, <1>4 DEF ActBegins

\* The call in hand is a call, and goes on alone.
LEMMA GoesOnIs ==
  ASSUME Typed, HarnessInv, ActGoesOn
  PROVE  /\ current \in Calls /\ UNCHANGED <<op, att>>
         /\ Only(current, {"waiting", "failed", "done", "opening"})
<1>1. current \in Calls
  BY DEF ActGoesOn, InHand, HarnessInv, LoopType, Callers, Calls
<1>2. current \in Callers /\ op[current] # "credential"
  BY <1>1, NamesAre DEF HarnessInv, Uncredited
<1>3. CASE Send(current) \/ SendFails(current)
  BY <1>1, <1>2, <1>3, MoveIs DEF Send, SendFails, Only, whole
<1>4. CASE FirstOfCall(current)
  BY <1>1, <1>2, <1>4, MoveIs DEF FirstOfCall, Only, whole
<1>5. CASE FirstOfStream(current)
  BY <1>1, <1>2, <1>5, MoveIs DEF FirstOfStream, Only, whole
<1>6. CASE FirstDeserted(current)
  BY <1>1, <1>2, <1>6, MoveIs DEF FirstDeserted, Only
<1> QED
  BY <1>3, <1>4, <1>5, <1>6 DEF ActGoesOn

\* The call in hand opens what its task then reads, or fails.
LEMMA OpensIs ==
  ASSUME Typed, HarnessInv, ActOpens
  PROVE  /\ current \in Calls /\ UNCHANGED <<op, att>> /\ Only(current, {"open", "failed"})
         /\ \E first \in {"observing", "waiting"} : Spawn(current, first)
<1>1. current \in Calls
  BY DEF ActOpens, InHand, HarnessInv, LoopType, Callers, Calls
<1>2. current \in Callers
  BY <1>1, NamesAre
<1>3. CASE FirstOfSubscribe(current) /\ Spawn(current, "observing")
  BY <1>1, <1>2, <1>3, MoveIs DEF FirstOfSubscribe, Only, whole
<1>4. CASE OpenDelivery(current) /\ Spawn(current, "waiting")
  BY <1>1, <1>2, <1>4, MoveIs DEF OpenDelivery, Only, whole
<1> QED
  BY <1>3, <1>4 DEF ActOpens

\* The deadline drops the call in hand.
LEMMA DeadlineIs ==
  ASSUME Typed, HarnessInv, Deadline
  PROVE  current \in Calls /\ UNCHANGED <<op, att>> /\ Only(current, {"dropped"})
<1>1. current \in Calls
  BY DEF Deadline, InHand, HarnessInv, LoopType, Callers, Calls
<1>2. current \in Callers
  BY <1>1, NamesAre
<1>3. CASE DropBlocked(current)
  BY <1>1, <1>2, <1>3, MoveIs DEF DropBlocked, whole
<1>4. CASE DropWaiting(current)
  BY <1>1, <1>2, <1>4, MoveIs DEF DropWaiting, whole
<1> QED
  BY <1>3, <1>4 DEF Deadline

\* A task reads what is open, and drops what it read to its end.
LEMMA ReadsIs ==
  ASSUME Typed, NEW n \in Callers, Reader(n)
  PROVE  at[n] = "open" /\ UNCHANGED <<op, att>> /\ Only(n, {"open", "completed"})
<1>1. CASE Advance(n)
  BY <1>1, MoveIs DEF Advance, Only, whole
<1>2. CASE NextDeserted(n)
  BY <1>2, MoveIs DEF NextDeserted, Only, whole
<1> QED
  BY <1>1, <1>2 DEF Reader

LEMMA EndsIs ==
  ASSUME Typed, NEW n \in Callers, DropOpen(n)
  PROVE  UNCHANGED <<op, att>> /\ Only(n, {"discarded"})
BY MoveIs DEF DropOpen, whole

\* The attachment's close moves no call, nor do its task and the Core.
LEMMA ClosesIs ==
  ASSUME HarnessInv, CloseFirst
  PROVE  UNCHANGED op /\ \A n \in Callers : at'[n] = at[n]
<1>1. 1 \in Calls
  BY AttachmentAssumption DEF Calls
<1>2. op[1] # "credential"
  BY <1>1 DEF HarnessInv, Uncredited
<1>3. CASE Close
  BY <1>3 DEF Close
<1>4. CASE CloseEnds
  BY <1>2, <1>4 DEF CloseEnds, Refused
<1> QED
  BY <1>3, <1>4 DEF CloseFirst

LEMMA LibraryIs ==
  ASSUME Receive \/ Return \/ Core
  PROVE  UNCHANGED <<at, op, att>>
BY DEF Receive, Return, Core, CoreTakes, CoreEnds, Unlink, CoreAnswers, CoreWrites,
       CoreDelivers, CoreSends, whole

-------------------------------------------------------------------------------
\* Every step of the harness is one of the attachment, or leaves it alone.

LEMMA AttachmentStep ==
  ASSUME HarnessInv, [HarnessNext]_hvars
  PROVE  [Next]_vars
<1>1. CASE UNCHANGED vars
  BY <1>1
<1>2. ASSUME NEW n \in Calls, ActBegins(n)
      PROVE  Next
  <2>1. att = "attached" /\ hand \in {"call", "subscribe", "stream"}
    BY <1>2 DEF ActBegins, HarnessInv, Uncredited, CallVerbs
  <2>2. Begin(n)
    BY <1>2, <2>1 DEF ActBegins, Begin
  <2> QED
    BY <1>2, <2>2 DEF Next, Author
<1>3. CASE ActGoesOn \/ ActOpens \/ Deadline
  <2>1. current \in Calls
    BY <1>3 DEF ActGoesOn, ActOpens, Deadline, InHand, HarnessInv, LoopType, Callers, Calls
  <2>2. Future(current) \/ Author(current)
    BY <1>3 DEF ActGoesOn, ActOpens, Deadline, Future, Author
  <2> QED
    BY <2>1, <2>2 DEF Next
<1>4. ASSUME NEW n \in Callers, TaskReads(n) \/ TaskEnds(n)
      PROVE  Next
  BY <1>4 DEF TaskReads, TaskEnds, Next
<1>5. CASE CloseFirst
  BY <1>5 DEF CloseFirst, Next
<1>6. CASE Library(Receive) \/ Library(Return) \/ Library(Core)
  BY <1>6 DEF Library, Next
<1>7. ASSUME NEW verb, ReadDirective(verb)
      PROVE  UNCHANGED vars
  BY <1>7, Zenon DEF ReadDirective
<1>8. CASE ActAlone \/ AttachFails \/ AttachFirst \/ AttachAnother \/ ActReturns
  BY <1>8, Zenon DEF ActAlone, AttachFails, AttachFirst, AttachAnother, ActReturns
<1>9. CASE Reply \/ CloseAnother \/ Exit
  BY <1>9, Zenon DEF Reply, CloseAnother, Exit
<1>10. ASSUME NEW n \in Callers, TaskReports(n)
       PROVE  UNCHANGED vars
  BY <1>10, Zenon DEF TaskReports
<1>11. CASE UNCHANGED hvars
  BY <1>11 DEF hvars
<1> QED
  BY <1>1, <1>2, <1>3, <1>4, <1>5, <1>6, <1>7, <1>8, <1>9, <1>10, <1>11
  DEF HarnessNext, Loop, Task

-------------------------------------------------------------------------------
\* The invariant, one kind of step at a time.

\* A step of the loop, or a task's report, that leaves the attachment alone.
LEMMA StillStep ==
  ASSUME Typed, HarnessInv, UNCHANGED vars,
         \/ \E verb \in Verbs : ReadDirective(verb)
         \/ ActAlone \/ AttachFails \/ AttachFirst \/ AttachAnother \/ ActReturns \/ Reply
         \/ CloseAnother \/ Exit \/ UNCHANGED harness
         \/ \E n \in Callers : TaskReports(n)
  PROVE  HarnessInv'
<1> USE NamesAre DEF HarnessInv, LoopType, Kept, OneAtATime, Uncredited, Unattached, OpenIsRead,
        Goto
<1>0. UNCHANGED <<at, op, att>>
  BY DEF vars, whole
<1>1. ASSUME NEW verb \in Verbs, ReadDirective(verb)
      PROVE  HarnessInv'
  <2>1. /\ hpc = "reading" /\ directives < MaxDirectives /\ directives' = directives + 1
        /\ hand' = verb /\ current' = 0 /\ hpc' \in {"closing", "acting"}
        /\ UNCHANGED <<attached, others, task, resulted, observed>>
    BY <1>1 DEF ReadDirective, lines
  <2>2. LoopType' /\ Kept'
    BY <2>1, DirectivesAssumption
  <2> QED
    BY <1>0, <2>1, <2>2
<1>2. CASE AttachFirst
  <2>1. /\ hpc = "acting" /\ hand = "attach" /\ ~attached /\ attached' = TRUE
        /\ task' = [task EXCEPT ![0] = IF op[0] = "standing" THEN "waiting" ELSE "none"]
        /\ hpc' = "replying" /\ UNCHANGED <<hand, current, directives, others, resulted, observed>>
    BY <1>2 DEF AttachFirst, lines
  <2>2. current = 0
    BY <2>1 DEF CallVerbs
  <2>3. LoopType' /\ Kept'
    BY <2>1 DEF TaskPlaces
  <2>4. OneAtATime' /\ Uncredited'
    BY <1>0, <2>1, <2>2 DEF Calls
  <2>5. OpenIsRead'
    BY <1>0, <2>1
  <2>6. Unattached'
    BY <2>1
  <2> QED
    BY <2>3, <2>4, <2>5, <2>6
<1>3. CASE ActAlone \/ AttachFails \/ AttachAnother
  <2>1. /\ hpc = "acting" /\ hpc' = "replying"
        /\ \/ hand \in {"unknown", "attach"}
           \/ hand \in CallVerbs /\ ~attached
        /\ others' \in {others, others + 1}
        /\ UNCHANGED <<hand, current, directives, attached, task, resulted, observed>>
    BY <1>3 DEF ActAlone, AttachFails, AttachAnother, lines
  <2>2. current = 0
    BY <2>1 DEF CallVerbs
  <2>3. LoopType'
    BY <2>1
  <2>4. Kept'
    <3>1. others \in Nat /\ directives \in Nat /\ others + 1 <= directives
      BY <2>1
    <3>2. CASE others' = others
      BY <2>1, <3>1, <3>2
    <3>3. CASE others' = others + 1
      BY <2>1, <3>1, <3>3
    <3> QED
      BY <2>1, <3>2, <3>3
  <2>5. OneAtATime'
    <3>1. current' = 0 /\ \A n \in Calls : n # 0
      BY <2>1, <2>2 DEF Calls
    <3>2. \A n \in Calls : at'[n] \notin InProgress
      BY <1>0, <2>2, <3>1
    <3> QED
      BY <3>1, <3>2
  <2>6. Uncredited' /\ Unattached' /\ OpenIsRead'
    BY <1>0, <2>1
  <2> QED
    BY <2>3, <2>4, <2>5, <2>6
<1>4. CASE ActReturns
  <2>1. /\ hpc = "acting" /\ hpc' = "replying" /\ at[current] \notin InProgress
        /\ UNCHANGED <<hand, current, directives, others, attached, task, resulted, observed>>
    BY <1>4 DEF ActReturns, InHand, lines
  <2> QED
    BY <1>0, <2>1
<1>5. CASE Reply
  <2>1. /\ hpc = "replying" /\ hpc' = "reading" /\ resulted' \subseteq Callers
        /\ UNCHANGED <<hand, current, directives, others, attached, task, observed>>
    BY <1>5 DEF Reply
  <2> QED
    BY <1>0, <2>1
<1>6. CASE CloseAnother \/ Exit
  <2>1. /\ hpc = "closing" /\ hpc' \in {"closing", "exited"}
        /\ others' = others \/ (others > 0 /\ others' = others - 1)
        /\ UNCHANGED <<hand, current, directives, attached, task, resulted, observed>>
    BY <1>6 DEF CloseAnother, Exit, loop, lines
  <2> QED
    BY <1>0, <2>1
<1>7. ASSUME NEW n \in Callers, TaskReports(n)
      PROVE  HarnessInv'
  <2>1. /\ attached /\ task[n] = "observing" /\ task' = [task EXCEPT ![n] = "waiting"]
        /\ observed' = observed \cup {n}
        /\ UNCHANGED <<hpc, hand, current, directives, attached, others, resulted>>
    BY <1>7 DEF TaskReports, Running, loop
  <2>2. LoopType' /\ Kept'
    BY <2>1 DEF TaskPlaces
  <2>3. OpenIsRead'
    BY <1>0, <2>1
  <2> QED
    BY <1>0, <2>1, <2>2, <2>3
<1>8. CASE UNCHANGED harness
  BY <1>0, <1>8 DEF harness, loop, lines
<1> QED
  BY <1>1, <1>2, <1>3, <1>4, <1>5, <1>6, <1>7, <1>8

\* A call of the directive in hand, the one call that moves, and what is done for it.
LEMMA CallStep ==
  ASSUME Typed, HarnessInv,
         (\E n \in Calls : ActBegins(n)) \/ ActGoesOn \/ ActOpens \/ Deadline
  PROVE  HarnessInv'
<1> USE NamesAre DEF HarnessInv, LoopType, Kept, OneAtATime, Uncredited, Unattached, OpenIsRead
<1>1. ASSUME NEW n \in Calls, ActBegins(n)
      PROVE  HarnessInv'
  <2>1. /\ hpc = "acting" /\ hand \in CallVerbs /\ attached /\ current = 0 /\ current' = n
        /\ UNCHANGED <<hpc, hand, directives, attached, others, task, resulted, observed>>
    BY <1>1 DEF ActBegins, lines
  <2>2. Only(n, {"blocked", "failed"}) /\ op' = [op EXCEPT ![n] = hand] /\ att' = att
    BY <1>1, BeginsIs
  <2>3. \A m \in Calls : at[m] \notin InProgress
    BY <2>1 DEF Calls
  <2>4. \A m \in Calls : op'[m] # "credential"
    BY <2>1, <2>2 DEF Typed, TypeOK, CallsType, CallVerbs
  <2>5. OneAtATime'
    BY <2>1, <2>2, <2>3 DEF Only
  <2>6. OpenIsRead'
    BY <2>1, <2>2 DEF Only
  <2> QED
    BY <2>1, <2>2, <2>4, <2>5, <2>6
<1>2. ASSUME current \in Calls, UNCHANGED <<op, att, loop, attached, others, resulted, observed>>,
             hpc = "acting", current # 0, NEW S, Only(current, S),
             \/ UNCHANGED task /\ S \cap {"open", "completed"} = {}
             \/ /\ S = {"open", "failed"}
                /\ \E first \in {"observing", "waiting"} : Spawn(current, first)
      PROVE  HarnessInv'
  <2>1. UNCHANGED <<hpc, hand, current, directives>>
    BY <1>2 DEF loop
  <2>2. task' \in [Callers -> TaskPlaces]
    BY <1>2 DEF Spawn, TaskPlaces
  <2>3. OneAtATime'
    BY <1>2, <2>1 DEF Only
  <2>4. OpenIsRead'
    BY <1>2, <2>1 DEF Only, Spawn
  <2>5. attached'
    BY <1>2
  <2>6. LoopType' /\ Kept'
    BY <1>2, <2>1, <2>2
  <2> QED
    BY <1>2, <2>1, <2>3, <2>4, <2>5, <2>6
<1>3. CASE ActGoesOn
  <2>1. /\ UNCHANGED <<loop, attached, others, task, resulted, observed>>
        /\ hpc = "acting" /\ current # 0
    BY <1>3 DEF ActGoesOn, harness, lines, InHand
  <2> QED
    BY <1>2, <1>3, <2>1, GoesOnIs
<1>4. CASE ActOpens
  <2>1. UNCHANGED <<loop, attached, others, resulted, observed>> /\ hpc = "acting" /\ current # 0
    BY <1>4 DEF ActOpens, lines, InHand
  <2> QED
    BY <1>2, <1>4, <2>1, OpensIs
<1>5. CASE Deadline
  <2>1. /\ UNCHANGED <<loop, attached, others, task, resulted, observed>>
        /\ hpc = "acting" /\ current # 0
    BY <1>5 DEF Deadline, harness, lines, InHand
  <2> QED
    BY <1>2, <1>5, <2>1, DeadlineIs
<1> QED
  BY <1>1, <1>3, <1>4, <1>5

\* A task reads what is open, or drops what it has read to its end.
LEMMA TaskStep ==
  ASSUME Typed, HarnessInv, NEW n \in Callers, TaskReads(n) \/ TaskEnds(n)
  PROVE  HarnessInv'
<1> USE NamesAre DEF HarnessInv, LoopType, Kept, OneAtATime, Uncredited, Unattached, OpenIsRead
<1>1. /\ attached /\ UNCHANGED <<hpc, hand, current, directives, attached, others, resulted>>
      /\ observed' \subseteq Callers
  BY DEF TaskReads, TaskEnds, Running, loop, lines
<1>2. /\ UNCHANGED <<op, att>>
      /\ \/ TaskReads(n) /\ Only(n, {"open", "completed"})
         \/ TaskEnds(n) /\ Only(n, {"discarded"})
  BY ReadsIs, EndsIs DEF TaskReads, TaskEnds
<1>3. \E place \in {"ending", "observing", "done"} : task' = [task EXCEPT ![n] = place]
  BY DEF TaskReads, TaskEnds
<1>4. LoopType' /\ Kept'
  BY <1>1, <1>3 DEF TaskPlaces
<1>5. OneAtATime'
  BY <1>1, <1>2 DEF Only, InProgress
<1>6. OpenIsRead'
  <2>1. CASE TaskReads(n) /\ Only(n, {"open", "completed"})
    <3>1. task' = [task EXCEPT ![n] = IF at'[n] = "completed" THEN "ending" ELSE "observing"]
      BY <2>1 DEF TaskReads
    <3> QED
      BY <1>1, <2>1, <3>1 DEF Only
  <2>2. CASE TaskEnds(n) /\ Only(n, {"discarded"})
    BY <1>1, <1>3, <2>2 DEF Only
  <2> QED
    BY <1>2, <2>1, <2>2
<1> QED
  BY <1>1, <1>2, <1>4, <1>5, <1>6

\* The attachment's close moves no call, nor do its task and the Core.
LEMMA AttachmentsOwnStep ==
  ASSUME HarnessInv, CloseFirst \/ Library(Receive) \/ Library(Return) \/ Library(Core)
  PROVE  HarnessInv'
<1> USE NamesAre DEF HarnessInv, LoopType, Kept, OneAtATime, Uncredited, Unattached, OpenIsRead
<1>1. UNCHANGED <<hpc, hand, current, directives, attached, others, task, resulted, observed>>
  BY DEF CloseFirst, Library, harness, loop, lines
<1>2. UNCHANGED op /\ \A n \in Callers : at'[n] = at[n]
  BY ClosesIs, LibraryIs DEF Library
<1>3. hpc = "closing" \/ att' = att
  BY LibraryIs DEF CloseFirst, Library
<1> QED
  BY <1>1, <1>2, <1>3

LEMMA HarnessStep ==
  ASSUME Typed, HarnessInv, [HarnessNext]_hvars
  PROVE  HarnessInv'
<1>1. CASE UNCHANGED hvars
  BY <1>1, StillStep DEF hvars
<1>2. ASSUME NEW verb \in Verbs, ReadDirective(verb)
      PROVE  HarnessInv'
  <2>1. UNCHANGED vars
    BY <1>2, Zenon DEF ReadDirective
  <2> QED
    BY <1>2, <2>1, StillStep
<1>3. CASE ActAlone \/ AttachFails \/ AttachFirst \/ AttachAnother \/ ActReturns
  <2>1. UNCHANGED vars
    BY <1>3, Zenon DEF ActAlone, AttachFails, AttachFirst, AttachAnother, ActReturns
  <2> QED
    BY <1>3, <2>1, StillStep
<1>4. CASE Reply \/ CloseAnother \/ Exit
  <2>1. UNCHANGED vars
    BY <1>4, Zenon DEF Reply, CloseAnother, Exit
  <2> QED
    BY <1>4, <2>1, StillStep
<1>5. ASSUME NEW n \in Callers, TaskReports(n)
      PROVE  HarnessInv'
  <2>1. UNCHANGED vars
    BY <1>5, Zenon DEF TaskReports
  <2> QED
    BY <1>5, <2>1, StillStep
<1> QED
  BY <1>1, <1>2, <1>3, <1>4, <1>5, CallStep, TaskStep, AttachmentsOwnStep
  DEF HarnessNext, Loop, Task

LEMMA InitHarnessInv ==
  ASSUME HarnessInit
  PROVE  HarnessInv
<1> USE AttachmentAssumption, DirectivesAssumption, NamesAre
<1>1. /\ hpc = "reading" /\ hand = "none" /\ current = 0 /\ directives = 0 /\ ~attached
      /\ attached \in BOOLEAN /\ others = 0 /\ task = [n \in Callers |-> "none"]
      /\ resulted = {} /\ observed = {}
  BY DEF HarnessInit
<1>2. PICK credential \in BOOLEAN, standing \in BOOLEAN :
        /\ att = IF credential THEN "attaching" ELSE "attached"
        /\ \A n \in Callers :
             /\ op[n] = IF n = 1 /\ credential THEN "credential"
                        ELSE IF n = 0 /\ standing THEN "standing" ELSE "none"
             /\ at[n] = IF n = 1 /\ credential THEN "waiting"
                        ELSE IF n = 0 /\ standing THEN "open" ELSE "unused"
  BY DEF HarnessInit, Init
<1>3. 1 \in Callers /\ \A n \in Calls : n # 0
  BY DEF Callers, Calls
<1>4. ~credential
  BY <1>2, <1>3 DEF HarnessInit
<1>5. LoopType /\ Kept
  BY <1>1 DEF LoopType, Kept, TaskPlaces
<1>6. OneAtATime /\ Uncredited
  BY <1>1, <1>2, <1>3, <1>4 DEF OneAtATime, Uncredited, InProgress
<1>7. Unattached /\ OpenIsRead
  BY <1>1, <1>2, <1>3, <1>4 DEF Unattached, OpenIsRead
<1> QED
  BY <1>5, <1>6, <1>7 DEF HarnessInv

LEMMA HarnessInvariant == HarnessSafety => Safety /\ [](Typed /\ HarnessInv)
<1>1. HarnessInit => Init /\ Typed /\ HarnessInv
  BY InitTyped, InitHarnessInv DEF HarnessInit
<1>2. Typed /\ HarnessInv /\ [HarnessNext]_hvars => [Next]_vars /\ Typed' /\ HarnessInv'
  BY AttachmentStep, TypedStep, HarnessStep
<1> QED
  BY <1>1, <1>2, PTL DEF HarnessSafety, Safety

-------------------------------------------------------------------------------
\* The harness uses its attachment as an author of Attachment may: its directives, its
\* deadline, its tasks and its finish are steps of Attachment or leave it alone
\* (src/interface-harness/src/lib.rs:186-343 upon src/interface.rs).
THEOREM HarnessAttaches == HarnessSafety => Safety
BY HarnessInvariant

\* So what holds of every attachment holds of the harness's: no identity twice, no
\* cancellation before its request, no frame lost to who waits for it, no queue kept.
THEOREM HarnessCalls ==
  HarnessSafety => [](UniqueCalls /\ CancelFollowsRequest /\ NoFrameLost /\ QueuesGivenBack)
BY HarnessAttaches, CallsUnique, CancelledAfterRequest, FramesFindTheirQueues,
   CallsGiveTheirQueuesBack, PTL

\* Every variable of the harness keeps its type, and a call is in progress only in the
\* directive in hand (lib.rs:184-193, 243).
THEOREM HarnessTyped == HarnessSafety => []HarnessTypeOK
<1>1. HarnessInv => HarnessTypeOK
  BY DirectivesAssumption DEF HarnessInv, LoopType, Kept, OneAtATime, HarnessTypeOK
<1> QED
  BY <1>1, HarnessInvariant, PTL

\* What is open has one task that reads it, and what has ended one that reports the end;
\* of a subscribe dropped before its answer it says nothing
\* (lib.rs:49-78, 195-203, 268-271, 308-334).
THEOREM OpensAreRead == HarnessSafety => []OpenIsRead
<1>1. HarnessInv => OpenIsRead
  BY DEF HarnessInv
<1> QED
  BY <1>1, HarnessInvariant, PTL

===============================================================================
