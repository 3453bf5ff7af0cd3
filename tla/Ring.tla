--------------------------------- MODULE Ring ---------------------------------
(***************************************************************************)
(* The producer's side of the shared ring (src/ring.rs, layout 1): one     *)
(* writer, a store to the shared memory at a time, and the readers of      *)
(* other processes, which are not in this repository and are modelled as   *)
(* the layout lets them read: a slot's sequence, its frame piece by piece, *)
(* the sequence again; and a wait on the shared word.  On some machines    *)
(* stores become visible in program order; on the others only as the       *)
(* code's orderings oblige them to, which lets a frame's plain stores be   *)
(* seen before the Release store of 0 that stands before them.  A writer   *)
(* may die between two stores and another open the same ring.              *)
(***************************************************************************)
EXTENDS Integers

CONSTANTS Slots,      \* slots of the ring
          Pieces,     \* stores that make a frame: clock, length, payload words
          Readers,
          WakeRange,  \* values of the shared word before it wraps: 2^32 in the code
          MaxFrames   \* bound: frames begun

ASSUME GeometryAssumption == Slots \in Nat \ {0} /\ Pieces \in Nat \ {0}
ASSUME BoundAssumption == MaxFrames \in Nat /\ WakeRange \in Nat /\ MaxFrames < WakeRange

VARIABLES
  \* the shared memory
  sequence,   \* of each slot
  piece,      \* of each slot, the frame each piece is of
  published, wake,
  \* the writer
  pc,         \* "closed" when there is none
  count,      \* self.published
  marked,     \* the 0 it stored in its slot's sequence is visible
  copied,     \* pieces of its frame it has stored
  begun,      \* frames begun: the frame in hand is named by it
  \* each reader
  rpc, want, first, copy, taken, seen, word,
  \* for the properties: the frame published as n, and whether a writer has died
  \* between a frame's publication and its wake, with none since
  content, unwoken,
  inOrder     \* the machine makes stores visible in program order

memory == <<sequence, piece, published, wake>>
writer == <<pc, count, marked, copied, begun>>
reader == <<rpc, want, first, copy, taken, seen, word>>
history == <<content, unwoken, inOrder>>
vars    == <<memory, writer, reader, history>>

Indices == 0..Slots - 1
SlotOf(n) == (n - 1) % Slots
Empty == [p \in 1..Pieces |-> 0]

Init ==
  /\ sequence = [i \in Indices |-> 0]
  /\ piece = [i \in Indices |-> Empty]
  /\ published = 0
  /\ wake \in 0..WakeRange - 1
  /\ pc = "closed" /\ count = 0 /\ marked = FALSE /\ copied = 0 /\ begun = 0
  /\ rpc = [r \in Readers |-> "look"]
  /\ want = [r \in Readers |-> 0]
  /\ first = [r \in Readers |-> 0]
  /\ copy = [r \in Readers |-> Empty]
  /\ taken = [r \in Readers |-> 0]
  /\ seen = [r \in Readers |-> 0]
  /\ word = [r \in Readers |-> 0]
  /\ content = <<>> /\ unwoken = FALSE
  /\ inOrder \in BOOLEAN

-------------------------------------------------------------------------------
\* The writer.

Open ==
  /\ pc = "closed"
  /\ pc' = "idle"
  /\ count' = published
  /\ UNCHANGED <<memory, marked, copied, begun, reader, history>>

\* publish takes a frame in hand.
Begin ==
  /\ pc = "idle" /\ begun < MaxFrames
  /\ begun' = begun + 1
  /\ marked' = FALSE /\ copied' = 0
  /\ pc' = "copy"
  /\ UNCHANGED <<memory, count, reader, history>>

\* Mutant: the slot is not marked as being written.
Unmarked ==
  /\ pc = "copy" /\ ~marked
  /\ marked' = TRUE
  /\ UNCHANGED <<memory, pc, count, copied, begun, reader, history>>

\* sequence.store(0) becomes visible: at the latest before the slot's next
\* sequence does.
Zero ==
  /\ pc = "copy" /\ ~marked
  /\ marked' = TRUE
  /\ sequence' = [sequence EXCEPT ![SlotOf(count + 1)] = 0]
  /\ UNCHANGED <<piece, published, wake, pc, count, copied, begun, reader, history>>

\* A Release store is not seen before the stores that precede it; those that follow it
\* may be.
Visible == inOrder => marked

\* one store of the frame
Copy ==
  /\ pc = "copy" /\ copied < Pieces
  /\ Visible
  /\ piece' = [piece EXCEPT ![SlotOf(count + 1)][copied + 1] = begun]
  /\ copied' = copied + 1
  /\ UNCHANGED <<sequence, published, wake, pc, count, marked, begun, reader, history>>

\* Mutant: the slot is named after the frame it holds before it holds it.
MarkEarly ==
  /\ pc = "copy" /\ marked /\ copied = Pieces - 1
  /\ sequence' = [sequence EXCEPT ![SlotOf(count + 1)] = count + 1]
  /\ pc' = "publish"
  /\ UNCHANGED <<piece, published, wake, count, marked, copied, begun, reader, history>>

\* sequence.store(n)
Mark ==
  /\ pc = "copy" /\ marked /\ copied = Pieces
  /\ sequence' = [sequence EXCEPT ![SlotOf(count + 1)] = count + 1]
  /\ pc' = "publish"
  /\ UNCHANGED <<piece, published, wake, count, marked, copied, begun, reader, history>>

\* published.store(n)
Publish ==
  /\ pc = "publish"
  /\ published' = count + 1
  /\ content' = [n \in 1..count + 1 |-> IF n = count + 1 THEN begun ELSE content[n]]
  /\ pc' = "bump"
  /\ UNCHANGED <<sequence, piece, wake, count, marked, copied, begun, reader, unwoken,
                 inOrder>>

\* Mutant: the word is left as it was.
Unbumped ==
  /\ pc = "bump"
  /\ pc' = "wake"
  /\ UNCHANGED <<memory, count, marked, copied, begun, reader, history>>

\* Mutant: the word does not wrap.
Unwrapped(w) == w + 1

Wrapped(w) == (w + 1) % WakeRange

\* wake.fetch_add(1), which wraps
Bump ==
  /\ pc = "bump"
  /\ wake' = Wrapped(wake)
  /\ pc' = "wake"
  /\ UNCHANGED <<sequence, piece, published, count, marked, copied, begun, reader, history>>

\* futex::wake of every waiter; then self.published = n
Wake ==
  /\ pc = "wake"
  /\ rpc' = [r \in Readers |-> IF rpc[r] = "asleep" THEN "look" ELSE rpc[r]]
  /\ count' = count + 1
  /\ unwoken' = FALSE
  /\ pc' = "idle"
  /\ UNCHANGED <<memory, marked, copied, begun, want, first, copy, taken, seen, word, content,
                 inOrder>>

\* The writer's process dies, or the stream's connection is dropped when idle.  What
\* it stored before it died still becomes visible.
Close ==
  /\ pc # "closed"
  /\ pc = "copy" /\ copied > 0 => marked
  /\ pc' = "closed"
  /\ unwoken' = (unwoken \/ pc \in {"bump", "wake"})
  /\ UNCHANGED <<memory, count, marked, copied, begun, reader, content, inOrder>>

-------------------------------------------------------------------------------
\* A reader (external).

Step(r, label) == rpc' = [rpc EXCEPT ![r] = label]

\* It notes the shared word, before it looks for a frame.
Note(r) ==
  /\ rpc[r] = "look"
  /\ word' = [word EXCEPT ![r] = wake]
  /\ Step(r, "noted")
  /\ UNCHANGED <<memory, writer, want, first, copy, taken, seen, history>>

\* There are frames it has not seen: it goes for one of those the ring may hold.
Choose(r) ==
  /\ rpc[r] = "noted"
  /\ \E n \in seen[r] + 1..published : want' = [want EXCEPT ![r] = n]
  /\ Step(r, "first")
  /\ UNCHANGED <<memory, writer, first, copy, taken, seen, word, history>>

\* There are none ...
Find(r) ==
  /\ rpc[r] = "noted" /\ published = seen[r]
  /\ Step(r, "none")
  /\ UNCHANGED <<memory, writer, want, first, copy, taken, seen, word, history>>

\* ... and it waits: futex::wait sleeps only if the word is as noted.
Sleep(r) ==
  /\ rpc[r] = "none"
  /\ Step(r, IF wake = word[r] THEN "asleep" ELSE "look")
  /\ UNCHANGED <<memory, writer, want, first, copy, taken, seen, word, history>>

ReadFirst(r) ==
  /\ rpc[r] = "first"
  /\ first' = [first EXCEPT ![r] = sequence[SlotOf(want[r])]]
  /\ taken' = [taken EXCEPT ![r] = 0]
  /\ Step(r, "copy")
  /\ UNCHANGED <<memory, writer, want, copy, seen, word, history>>

ReadPiece(r) ==
  /\ rpc[r] = "copy" /\ taken[r] < Pieces
  /\ copy' = [copy EXCEPT ![r][taken[r] + 1] = piece[SlotOf(want[r])][taken[r] + 1]]
  /\ taken' = [taken EXCEPT ![r] = @ + 1]
  /\ UNCHANGED <<memory, writer, rpc, want, first, seen, word, history>>

\* The frame is taken when the sequence is the one wanted before and after it was
\* copied, and missed when the ring has lapped the reader.
ReadAgain(r) ==
  /\ rpc[r] = "copy" /\ taken[r] = Pieces
  /\ Step(r, IF first[r] = want[r] /\ sequence[SlotOf(want[r])] = want[r]
               THEN "took" ELSE "missed")
  /\ UNCHANGED <<memory, writer, want, first, copy, taken, seen, word, history>>

Advance(r) ==
  /\ rpc[r] \in {"took", "missed"}
  /\ seen' = [seen EXCEPT ![r] = want[r]]
  /\ Step(r, "look")
  /\ UNCHANGED <<memory, writer, want, first, copy, taken, word, history>>

-------------------------------------------------------------------------------
Writer == Open \/ Begin \/ Zero \/ Copy \/ Mark \/ Publish \/ Bump \/ Wake \/ Close
Reader(r) ==
  \/ Note(r) \/ Choose(r) \/ Find(r) \/ Sleep(r) \/ ReadFirst(r) \/ ReadPiece(r)
  \/ ReadAgain(r) \/ Advance(r)

Next == Writer \/ \E r \in Readers : Reader(r)

Spec == Init /\ [][Next]_vars
-------------------------------------------------------------------------------
\* Properties.

MemoryType ==
  /\ sequence \in [Indices -> Nat]
  /\ piece \in [Indices -> [1..Pieces -> 0..begun]]
  /\ published \in Nat /\ wake \in 0..WakeRange - 1
WriterType ==
  /\ pc \in {"closed", "idle", "copy", "publish", "bump", "wake"}
  /\ marked \in BOOLEAN
  /\ copied \in 0..Pieces /\ begun \in 0..MaxFrames
  /\ count \in Nat
  /\ pc \in {"idle", "copy", "publish"} => count = published
  /\ pc \in {"bump", "wake"} => count = published - 1
ReaderType ==
  /\ rpc \in [Readers -> {"look", "noted", "none", "asleep", "first", "copy", "took", "missed"}]
  /\ want \in [Readers -> 0..published] /\ seen \in [Readers -> 0..published]
  /\ first \in [Readers -> Nat] /\ word \in [Readers -> 0..WakeRange - 1]
  /\ copy \in [Readers -> [1..Pieces -> 0..begun]] /\ taken \in [Readers -> 0..Pieces]
HistoryType ==
  content \in [1..published -> 1..begun] /\ unwoken \in BOOLEAN /\ inOrder \in BOOLEAN

\* Every variable has its type, and the count the writer keeps is the ring's.
TypeOK == MemoryType /\ WriterType /\ ReaderType /\ HistoryType

\* What a reader took is the frame published under the number it wanted.
Whole(r) == \A p \in 1..Pieces : copy[r][p] = content[want[r]]

\* Where stores become visible in program order, a frame a reader takes is one frame,
\* however the writer's stores fell between its loads (ring.rs:96-107).
NoTornFrame == inOrder => \A r \in Readers : rpc[r] = "took" => Whole(r)

\* On every machine it is, unless the writer has come round to the reader's slot: what
\* the two Release stores of a sequence guarantee by themselves (ring.rs:98, 106).
WholeUnlessLapped ==
  \A r \in Readers : rpc[r] = "took" => Whole(r) \/ published + 1 >= want[r] + Slots

\* The frames published last stand whole in the ring, all but the oldest of a full
\* ring, whatever the writer is doing and wherever one died (ring.rs:93-108).
Retained ==
  \A n \in 1..published : n > published + 1 - Slots =>
    /\ sequence[SlotOf(n)] = n
    /\ \A p \in 1..Pieces : piece[SlotOf(n)][p] = content[n]

\* No reader sleeps on a frame it has not seen, unless the writer is about to wake
\* it or died before it could (ring.rs:107-111).
NoLostWakeup ==
  \A r \in Readers : rpc[r] = "asleep" /\ seen[r] < published
    => pc \in {"bump", "wake"} \/ unwoken

===============================================================================
