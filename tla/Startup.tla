------------------------------- MODULE Startup -------------------------------
(***************************************************************************)
(* How units start at one YOKE_BIND (src/plugin.rs: start_with;            *)
(* src/base.rs: environment, dial): the path is cleared and bound, the     *)
(* Core is reached and told, and its answer opens the Session or fails the *)
(* start.  Every start of the path is one of Starts, a second one in a     *)
(* process, one of another process and one that takes over from a          *)
(* predecessor that died and left its socket's file behind included.  A    *)
(* listener that is dropped leaves its file.                               *)
(***************************************************************************)
EXTENDS Naturals

CONSTANT MaxStarts   \* bound: starts at the path

ASSUME StartsAssumption == MaxStarts \in Nat \ {0}

Starts      == 1..MaxStarts
Nothing     == 0               \* no file stands at the path
Predecessor == MaxStarts + 1   \* the file of one that is gone does

VARIABLES
  stage,     \* where each start is
  outcome,   \* what it came to
  path,      \* whose socket's file stands at the path
  denied,    \* the starts whose removal of a file failed (external)
  admitted   \* the starts the Core has admitted (external)

startup == <<stage, outcome, path, denied, admitted>>

Stages   == {"unstarted", "clearing", "binding", "dialling", "registering", "started",
             "failed"}
Outcomes == {"none", "environment", "taken", "transport", "refused", "dropped",
             "admitted"}

StartupInit ==
  /\ stage = [u \in Starts |-> "unstarted"]
  /\ outcome = [u \in Starts |-> "none"]
  /\ path \in {Nothing, Predecessor}
  /\ denied = {} /\ admitted = {}

\* What follows a stage that went well.
\* Mutant: the unit registers before it binds.
RegisterFirst(s) ==
  [clearing |-> "dialling", dialling |-> "registering", registering |-> "binding",
   binding |-> "started"][s]

Following(s) ==
  [clearing |-> "binding", binding |-> "dialling", dialling |-> "registering",
   registering |-> "started"][s]

Goes(u, from) == stage[u] = from /\ stage' = [stage EXCEPT ![u] = Following(from)]

Fails(u, from, why) ==
  /\ stage[u] = from
  /\ stage' = [stage EXCEPT ![u] = "failed"]
  /\ outcome' = [outcome EXCEPT ![u] = why]

\* A variable that is missing fails the start before it does anything.
Begin(u) ==
  /\ stage[u] = "unstarted"
  /\ stage' = [stage EXCEPT ![u] = "clearing"]
  /\ UNCHANGED <<outcome, path, denied, admitted>>

NoEnvironment(u) == Fails(u, "unstarted", "environment") /\ UNCHANGED <<path, denied, admitted>>

\* Whatever stands at the path is removed, another unit's socket too ...
Clear(u) ==
  /\ Goes(u, "clearing")
  /\ path' = Nothing
  /\ UNCHANGED <<outcome, denied, admitted>>

\* ... or the system denies it: the file stays, and the start goes on all the same.
ClearDenied(u) ==
  /\ path # Nothing
  /\ Goes(u, "clearing")
  /\ denied' = denied \cup {u}
  /\ UNCHANGED <<outcome, path, admitted>>

Bind(u) ==
  /\ path = Nothing
  /\ Goes(u, "binding")
  /\ path' = u
  /\ UNCHANGED <<outcome, denied, admitted>>

\* A file at the path refuses the bind; a directory that is not there does too.
BindFails(u) ==
  /\ Fails(u, "binding", IF path = Nothing THEN "transport" ELSE "taken")
  /\ UNCHANGED <<path, denied, admitted>>

Dial(u) == Goes(u, "dialling") /\ UNCHANGED <<outcome, path, denied, admitted>>

DialFails(u) == Fails(u, "dialling", "transport") /\ UNCHANGED <<path, denied, admitted>>

\* The Core admits a unit (external); the answer may still be lost.
CoreAdmits(u) ==
  /\ stage[u] = "registering" /\ u \notin admitted
  /\ admitted' = admitted \cup {u}
  /\ UNCHANGED <<stage, outcome, path, denied>>

Refused(u) ==
  /\ u \notin admitted
  /\ Fails(u, "registering", "refused")
  /\ UNCHANGED <<path, denied, admitted>>

AnswerLost(u) == Fails(u, "registering", "transport") /\ UNCHANGED <<path, denied, admitted>>

\* The answer is no refusal and is taken for an admission, one of an outcome this library
\* does not know or of none too, of a Core that has admitted nobody: the OPEN is queued,
\* the tasks are spawned and the Unit returned.
Admitted(u) ==
  /\ Goes(u, "registering")
  /\ outcome' = [outcome EXCEPT ![u] = "admitted"]
  /\ UNCHANGED <<path, denied, admitted>>

\* The future is dropped where it awaits, or its process dies there.
Dropped(u) ==
  /\ \E s \in {"dialling", "registering"} : Fails(u, s, "dropped")
  /\ UNCHANGED <<path, denied, admitted>>

\* A start goes on, in this process ...
Proceed(u) ==
  \/ Clear(u) \/ ClearDenied(u) \/ Bind(u) \/ BindFails(u) \/ Dial(u) \/ DialFails(u)
  \/ Refused(u) \/ AnswerLost(u)

\* ... or in another.
Elsewhere(u) == Begin(u) \/ NoEnvironment(u) \/ Proceed(u) \/ Admitted(u) \/ Dropped(u)

StartupNext == \E u \in Starts : Elsewhere(u) \/ CoreAdmits(u)

StartupSpec == StartupInit /\ [][StartupNext]_startup

-------------------------------------------------------------------------------
\* Properties.

\* Every variable of the starts has its type.
StartupType ==
  /\ stage \in [Starts -> Stages]
  /\ outcome \in [Starts -> Outcomes]
  /\ path \in 0..Predecessor
  /\ denied \subseteq Starts /\ admitted \subseteq Starts

\* A start that has gone on from the removal of what stood at the path, and one that
\* may have removed another's socket there.
Past(v)    == stage[v] \notin {"unstarted", "clearing"} /\ outcome[v] # "environment"
Cleared(v) == Past(v) /\ v \notin denied

\* A unit the Core knows, or may know, stands at its path until another start clears
\* it: registered and unreachable never comes of its own start, though every failure of
\* the removal is ignored; and a file that was left behind fails a start only where its
\* removal was denied, or another start has come in between (plugin.rs:426-433).
StartsReachable ==
  \A u \in Starts :
    /\ u \in admitted \/ stage[u] \in {"registering", "started"} =>
         path = u \/ \E v \in Starts \ {u} : Cleared(v)
    /\ outcome[u] = "taken" => u \in denied \/ \E v \in Starts \ {u} : Past(v)

===============================================================================
