---------------------------- MODULE StartupProofs ----------------------------
(***************************************************************************)
(* Starts at one path, for any number of them, in any number of processes: *)
(* proofs about Startup.                                                   *)
(***************************************************************************)
EXTENDS Startup, TLAPS

\* What makes the order of a start's steps matter: from its bind on, a start's socket
\* stands at the path, unless another start has cleared that too; and before it nothing
\* does, unless the removal was denied or another start has come.
Alone(u) == \A v \in Starts \ {u} : ~Cleared(v)
First(u) == \A v \in Starts \ {u} : ~Past(v)

Standing(u) ==
  /\ stage[u] \in {"dialling", "registering", "started"} \/ u \in admitted =>
       path = u \/ ~Alone(u)
  /\ stage[u] = "binding" => path = Nothing \/ u \in denied \/ ~First(u)
  /\ outcome[u] = "taken" => u \in denied \/ ~First(u)
  /\ u \in admitted => outcome[u] # "environment"

\* A start has come to nothing but an environment's lack before it cleared the path.
Orderly(u) ==
  /\ stage[u] # "failed" => outcome[u] \in {"none", "admitted"}
  /\ stage[u] \in {"unstarted", "clearing"} => u \notin admitted /\ u \notin denied
  /\ outcome[u] = "environment" => u \notin admitted

StartupInv == StartupType /\ \A u \in Starts : Standing(u) /\ Orderly(u)

\* A step of one start changes its own stage and outcome alone.
LEMMA OthersStay ==
  ASSUME StartupType, NEW u \in Starts, NEW v \in Starts, v # u,
         Elsewhere(u) \/ CoreAdmits(u)
  PROVE  /\ stage'[v] = stage[v] /\ outcome'[v] = outcome[v]
         /\ v \in admitted' <=> v \in admitted
         /\ v \in denied' <=> v \in denied
BY DEF StartupType, Elsewhere, CoreAdmits, Begin, NoEnvironment, Proceed, Clear, ClearDenied, Bind,
       BindFails, Dial, DialFails, Refused, AnswerLost, Admitted, Dropped, Goes, Fails

\* The variables keep their types in every step.
LEMMA TypeStep ==
  ASSUME StartupType, [StartupNext]_startup
  PROVE  StartupType'
<1>1. CASE UNCHANGED startup
  BY <1>1 DEF StartupType, startup
<1>2. ASSUME NEW u \in Starts, CoreAdmits(u)
      PROVE  StartupType'
  BY <1>2 DEF StartupType, CoreAdmits
<1>3. ASSUME NEW u \in Starts, NEW s \in Stages, NEW why \in Outcomes, Fails(u, s, why),
             UNCHANGED <<path, denied, admitted>>
      PROVE  StartupType'
  BY <1>3 DEF StartupType, Fails, Stages
<1>4. ASSUME NEW u \in Starts, NEW s \in {"clearing", "binding", "dialling", "registering"},
             Goes(u, s), path' \in 0..Predecessor,
             admitted' = admitted, denied' \subseteq Starts,
             outcome' = outcome \/ outcome' = [outcome EXCEPT ![u] = "admitted"]
      PROVE  StartupType'
  BY <1>4 DEF StartupType, Goes, Following, Stages, Outcomes
<1>5. ASSUME NEW u \in Starts, Elsewhere(u)
      PROVE  StartupType'
  <2>1. CASE Begin(u)
    BY <2>1 DEF StartupType, Begin, Stages
  <2>2. CASE Clear(u) \/ ClearDenied(u) \/ Bind(u) \/ Dial(u) \/ Admitted(u)
    <3>1. Nothing \in 0..Predecessor /\ u \in 0..Predecessor
      BY StartsAssumption DEF Nothing, Predecessor, Starts
    <3> QED
      BY <1>4, <2>2, <3>1 DEF StartupType, Clear, ClearDenied, Bind, Dial, Admitted, Stages
  <2>3. CASE \/ NoEnvironment(u) \/ BindFails(u) \/ DialFails(u) \/ Refused(u)
             \/ AnswerLost(u) \/ Dropped(u)
    BY <1>3, <2>3
    DEF NoEnvironment, BindFails, DialFails, Refused, AnswerLost, Dropped, Stages, Outcomes
  <2> QED
    BY <1>5, <2>1, <2>2, <2>3 DEF Elsewhere, Proceed
<1> QED
  BY <1>1, <1>2, <1>5 DEF StartupNext

\* A start that has gone on from its removal stays one that has, and one that may have
\* removed another's socket there too.
LEMMA ClearedStays ==
  ASSUME StartupType, NEW u \in Starts, NEW v \in Starts, Orderly(u),
         Elsewhere(u) \/ CoreAdmits(u)
  PROVE  /\ Past(v) => Past(v)'
         /\ Cleared(v) => Cleared(v)'
<1>1. CASE v # u
  BY <1>1, OthersStay DEF Past, Cleared
<1>2. CASE v = u
  BY <1>2 DEF StartupType, Orderly, Past, Cleared, Elsewhere, CoreAdmits, Begin, NoEnvironment,
              Proceed, Clear, ClearDenied, Bind, BindFails, Dial, DialFails, Refused,
              AnswerLost, Admitted, Dropped, Goes, Fails, Following
<1> QED
  BY <1>1, <1>2

\* A start that takes a step that touches the path has gone on from its removal
\* afterwards, and one that takes what stood there away has cleared it.
LEMMA TouchingClears ==
  ASSUME StartupType, NEW u \in Starts, Orderly(u), Elsewhere(u) \/ CoreAdmits(u),
         path' # path
  PROVE  Past(u)' /\ (path # Nothing => Cleared(u)')
BY DEF StartupType, Orderly, Past, Cleared, Elsewhere, CoreAdmits, Begin, NoEnvironment,
       Proceed, Clear, ClearDenied, Bind, BindFails, Dial, DialFails, Refused, AnswerLost,
       Admitted, Dropped, Goes, Fails, Following

\* The order within each start survives every step.
LEMMA OrderlyStep ==
  ASSUME StartupType, NEW u \in Starts, NEW v \in Starts, Orderly(v),
         Elsewhere(u) \/ CoreAdmits(u)
  PROVE  Orderly(v)'
<1>1. CASE v # u
  BY <1>1, OthersStay DEF Orderly
<1>2. CASE v = u
  BY <1>2 DEF StartupType, Orderly, Elsewhere, CoreAdmits, Begin, NoEnvironment,
              Proceed, Clear, ClearDenied, Bind, BindFails, Dial, DialFails, Refused, AnswerLost,
              Admitted, Dropped, Goes, Fails, Following
<1> QED
  BY <1>1, <1>2

\* What stands at the path survives every step: a step of another start that moves it
\* is one of a start that has cleared it.
LEMMA StandingStep ==
  ASSUME StartupType, NEW u \in Starts, NEW v \in Starts, Standing(v), Orderly(v),
         Orderly(u), Elsewhere(u) \/ CoreAdmits(u)
  PROVE  Standing(v)'
<1>1. (~Alone(v) => ~Alone(v)') /\ (~First(v) => ~First(v)')
  BY ClearedStays DEF Alone, First
<1>4. v # Nothing /\ u # Nothing
  BY DEF Starts, Nothing
<1>2. CASE v # u
  <2>1. path' # path => ~First(v)' /\ (path # Nothing => ~Alone(v)')
    BY <1>2, TouchingClears DEF Alone, First
  <2> QED
    BY <1>1, <1>2, <1>4, <2>1, OthersStay DEF Standing
<1>3. CASE v = u
  <2> QED
    BY <1>1, <1>3
    DEF StartupType, Standing, Orderly, Elsewhere, CoreAdmits, Begin, NoEnvironment,
        Proceed, Clear, ClearDenied, Bind, BindFails, Dial, DialFails, Refused, AnswerLost,
        Admitted, Dropped, Goes, Fails, Following, Nothing
<1> QED
  BY <1>2, <1>3

\* A unit the Core knows, or may know, stands at its path until another start clears it,
\* whether or not its own removal was denied; and a file that stands there fails a start
\* only where its removal was denied or another start has come (plugin.rs:426-433).
THEOREM Reachable == StartupSpec => []StartsReachable
<1>1. StartupInit => StartupInv
  BY StartsAssumption
  DEF StartupInit, StartupInv, StartupType, Standing, Orderly, Stages, Outcomes, Nothing,
      Predecessor
<1>2. StartupInv /\ [StartupNext]_startup => StartupInv'
  <2> SUFFICES ASSUME StartupInv, [StartupNext]_startup
               PROVE  StartupInv'
    OBVIOUS
  <2>1. StartupType'
    BY TypeStep DEF StartupInv
  <2>2. CASE UNCHANGED startup
    BY <2>1, <2>2 DEF StartupInv, startup, Standing, Orderly, Alone, First, Past, Cleared
  <2>3. CASE StartupNext
    BY <2>1, <2>3, OrderlyStep, StandingStep DEF StartupInv, StartupNext
  <2> QED
    BY <2>2, <2>3
<1>3. StartupInv => StartsReachable
  BY DEF StartupInv, StartsReachable, Standing, Alone, First
<1> QED
  BY <1>1, <1>2, <1>3, PTL DEF StartupSpec

\* Every variable of the starts keeps its type.
THEOREM StartsTyped == StartupSpec => []StartupType
<1>1. StartupInit => StartupType
  BY StartsAssumption DEF StartupInit, StartupType, Stages, Outcomes, Nothing, Predecessor
<1>2. StartupType /\ [StartupNext]_startup => StartupType'
  BY TypeStep
<1> QED
  BY <1>1, <1>2, PTL DEF StartupSpec

===============================================================================
