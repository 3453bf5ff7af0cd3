--------------------------- MODULE SessionContract ---------------------------
(***************************************************************************)
(* What the plugin library promises the author of a unit about one Session *)
(* (src/plugin.rs: Ended 210-218, Event 220-235, Unit::next 663-667,       *)
(* Unit::close 669-696), without its tasks, locks and queues.  A Session   *)
(* says envelopes to the Core and hands events to the author until it is   *)
(* over.  Being over is itself handed over, once, and nothing is said or   *)
(* handed over afterwards.  The author may ask for the end; it then comes, *)
(* whatever the Core does.                                                 *)
(***************************************************************************)
EXTENDS Naturals, Sequences

CONSTANTS Envelopes,   \* what may be said
          Events,      \* what may be handed over before the end
          Ends         \* how a Session may end: "closed", and the others

VARIABLES said,     \* the envelopes said, in order
          heard,    \* the events handed over, in order
          asked,    \* the author has asked for the end
          silent,   \* nothing more is said
          over      \* the end has been handed over

vars == <<said, heard, asked, silent, over>>

Init ==
  /\ Len(said) = 1 /\ said[1] \in Envelopes   \* the OPEN
  /\ heard = <<>>
  /\ ~asked /\ ~silent /\ ~over

\* `after' is `before' and one more element of S.
Grows(before, after, S) ==
  /\ Len(after) = Len(before) + 1
  /\ after[Len(after)] \in S
  /\ after = Append(before, after[Len(after)])

Say ==
  /\ ~silent /\ ~over
  /\ Grows(said, said', Envelopes)
  /\ UNCHANGED <<heard, asked, silent, over>>

Hear ==
  /\ ~over
  /\ Grows(heard, heard', Events)
  /\ UNCHANGED <<said, asked, silent, over>>

Ask ==
  /\ ~over
  /\ asked' = TRUE
  /\ UNCHANGED <<said, heard, silent, over>>

FallSilent ==
  /\ asked /\ ~silent
  /\ silent' = TRUE
  /\ UNCHANGED <<said, heard, asked, over>>

End(how) ==
  /\ ~over
  /\ how.kind = "closed" => asked
  /\ heard' = Append(heard, how)
  /\ over' = TRUE /\ silent' = TRUE
  /\ UNCHANGED <<said, asked>>

Next == Say \/ Hear \/ Ask \/ FallSilent \/ \E how \in Ends : End(how)

Safety == Init /\ [][Next]_vars

\* An end that was asked for comes: whatever the Core does or leaves undone.
Spec == Safety /\ WF_vars(asked /\ \E how \in Ends : End(how))
==============================================================================
