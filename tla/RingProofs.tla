------------------------------ MODULE RingProofs ------------------------------
(***************************************************************************)
(* What holds of the ring for every number of slots, of stores that make a *)
(* frame and of readers, on machines that keep stores in order and on      *)
(* those that do not, with writers dying anywhere.                         *)
(***************************************************************************)
EXTENDS Ring, TLAPS

Hand == SlotOf(published + 1)   \* the slot that is written next

\* A writer at work has begun a frame, and a reader at work wants one.
AtWork ==
  /\ pc \in {"copy", "publish"} => begun # 0
  /\ \A r \in Readers : rpc[r] \in {"first", "copy", "took", "missed"} => want[r] # 0

\* What a writer has put in the slot it is writing.
InHand ==
  /\ pc = "copy" =>
       /\ marked => sequence[Hand] = 0
       /\ inOrder /\ ~marked => copied = 0
       /\ \A p \in 1..copied : piece[Hand][p] = begun
  /\ pc = "publish" =>
       /\ sequence[Hand] = published + 1
       /\ \A p \in 1..Pieces : piece[Hand][p] = begun

\* Where stores are seen in order, a slot that bears a frame's number holds that frame.
NamedIsWhole ==
  inOrder => \A n \in 1..published : sequence[SlotOf(n)] = n =>
    \A p \in 1..Pieces : piece[SlotOf(n)][p] = content[n]

\* What a reader has copied of a frame is of that frame, while its slot bears its number,
\* or while the writer has not come round to it.
CopiedIsNamed ==
  \A r \in Readers :
    /\ rpc[r] = "copy" /\ inOrder /\ first[r] = want[r]
         /\ sequence[SlotOf(want[r])] = want[r]
         => \A p \in 1..taken[r] : copy[r][p] = content[want[r]]
    /\ rpc[r] = "copy" /\ published + 1 < want[r] + Slots
         => \A p \in 1..taken[r] : copy[r][p] = content[want[r]]

\* The word has been bumped fewer times since a reader noted it than would bring it
\* round; and one that found nothing noted it before it was bumped for what came since.
Bumped(r, d) ==
  /\ wake = word[r] + d \/ wake = word[r] + d - WakeRange
  /\ d <= begun /\ (pc \in {"copy", "publish", "bump"} => d < begun)
  /\ rpc[r] = "none" /\ d = 0 /\ seen[r] < published
       => pc = "bump" \/ (unwoken /\ pc # "wake")

NotedInTime ==
  \A r \in Readers : rpc[r] \in {"noted", "none"} => \E d \in 0..MaxFrames : Bumped(r, d)

-------------------------------------------------------------------------------
\* Arithmetic of the places.

LEMMA SlotIn == ASSUME NEW n \in Nat \ {0} PROVE SlotOf(n) \in Indices
BY GeometryAssumption DEF SlotOf, Indices

\* A multiple that is positive is at least once the factor.
LEMMA MultipleBound ==
  ASSUME NEW N \in Nat \ {0}, NEW k \in Int, 0 < N * k
  PROVE  N * k >= N
<1>1. CASE k <= 0
  BY <1>1
<1>2. CASE k >= 1
  BY <1>2
<1>. QED  BY <1>1, <1>2

\* Numbers less than N apart differ modulo N.
LEMMA ModuloDiffers ==
  ASSUME NEW N \in Nat \ {0}, NEW a \in Nat, NEW b \in Nat, a < b, b - a < N
  PROVE  a % N # b % N
<1>. SUFFICES ASSUME a % N = b % N PROVE FALSE
  OBVIOUS
<1>. DEFINE q == a \div N
            s == b \div N
<1>1. q \in Int /\ s \in Int /\ a = N * q + (a % N) /\ b = N * s + (b % N)
  OBVIOUS
<1>2. a % N \in Int
  OBVIOUS
<1>. HIDE DEF q, s
<1>3. b - a = N * (s - q)
  BY <1>1, <1>2
<1>. QED  BY <1>1, <1>3, MultipleBound

\* Two frames less than a ring apart stand in different slots.
LEMMA SlotsDiffer ==
  ASSUME NEW m \in Nat \ {0}, NEW n \in Nat \ {0}, m < n, n - m < Slots
  PROVE  SlotOf(m) # SlotOf(n)
<1>1. (m - 1) % Slots # (n - 1) % Slots
  <2>1. m - 1 \in Nat /\ n - 1 \in Nat /\ m - 1 < n - 1 /\ (n - 1) - (m - 1) < Slots
    OBVIOUS
  <2>. QED  BY <2>1, ModuloDiffers, GeometryAssumption
<1>. QED  BY <1>1 DEF SlotOf

\* The word goes up by one, or round.
LEMMA WrappedIs ==
  ASSUME NEW w \in 0..WakeRange - 1
  PROVE  /\ Wrapped(w) \in 0..WakeRange - 1
         /\ Wrapped(w) = w + 1 \/ (w = WakeRange - 1 /\ Wrapped(w) = 0)
<1>1. WakeRange \in Nat \ {0}
  BY BoundAssumption
<1>. QED  BY <1>1 DEF Wrapped

-------------------------------------------------------------------------------
\* Types.

Typed == TypeOK /\ AtWork

\* The writer's steps keep the types.
LEMMA WriterTyped ==
  ASSUME Typed, Writer
  PROVE  Typed'
<1>. USE GeometryAssumption, BoundAssumption DEF Typed, TypeOK, AtWork
<1>1. SlotOf(count + 1) \in Indices
  BY SlotIn DEF WriterType
<1>2. MemoryType'
  <2>1. begun' \in Nat /\ begun <= begun' /\ 0..begun \subseteq 0..begun'
    BY DEF WriterType, Writer, Open, Begin, Zero, Copy, Mark, Publish, Bump, Wake, Close
  <2>2. sequence' \in [Indices -> Nat]
    BY <1>1 DEF MemoryType, WriterType, Writer, Open, Begin, Zero, Copy, Mark, Publish, Bump,
      Wake, Close, memory
  <2>3. piece' \in [Indices -> [1..Pieces -> 0..begun']]
    <3>1. CASE Copy
      BY <1>1, <3>1 DEF MemoryType, WriterType, Copy
    <3>2. CASE ~Copy
      <4>1. piece' = piece
        BY <3>2 DEF Writer, Open, Begin, Zero, Mark, Publish, Bump, Wake, Close, memory
      <4>2. [1..Pieces -> 0..begun] \subseteq [1..Pieces -> 0..begun']
        BY <2>1
      <4>. QED  BY <4>1, <4>2 DEF MemoryType
    <3>. QED  BY <3>1, <3>2
  <2>4. published' \in Nat
    BY DEF MemoryType, WriterType, Writer, Open, Begin, Zero, Copy, Mark, Publish, Bump, Wake,
      Close, memory
  <2>5. wake' \in 0..WakeRange - 1
    BY WrappedIs
    DEF MemoryType, WriterType, Writer, Open, Begin, Zero, Copy, Mark, Publish, Bump, Wake,
      Close, memory
  <2>. QED  BY <2>2, <2>3, <2>4, <2>5 DEF MemoryType
<1>3. WriterType'
  <2>. USE DEF MemoryType, WriterType
  <2>1. CASE Open
    BY <2>1 DEF Open, memory
  <2>2. CASE Begin
    <3>1. marked' \in BOOLEAN
      BY <2>2 DEF Begin
    <3>2. copied' \in 0..Pieces /\ begun' \in 0..MaxFrames
      BY <2>2 DEF Begin
    <3>. QED  BY <2>2, <3>1, <3>2 DEF Begin, memory
  <2>3. CASE Zero
    BY <2>3 DEF Zero
  <2>4. CASE Copy
    BY <2>4 DEF Copy
  <2>5. CASE Mark
    BY <2>5 DEF Mark
  <2>6. CASE Publish
    BY <2>6 DEF Publish
  <2>7. CASE Bump
    BY <2>7 DEF Bump
  <2>8. CASE Wake
    BY <2>8 DEF Wake, memory
  <2>9. CASE Close
    BY <2>9 DEF Close, memory
  <2>. QED  BY <2>1, <2>2, <2>3, <2>4, <2>5, <2>6, <2>7, <2>8, <2>9 DEF Writer
<1>4. /\ 0..published \subseteq 0..published' /\ 0..begun \subseteq 0..begun'
      /\ 1..begun \subseteq 1..begun'
  BY DEF MemoryType, WriterType, Writer, Open, Begin, Zero, Copy, Mark, Publish, Bump, Wake,
    Close, memory
<1>5. ReaderType'
  <2>1. UNCHANGED <<want, first, copy, taken, seen, word>>
    BY DEF Writer, Open, Begin, Zero, Copy, Mark, Publish, Bump, Wake, Close, reader
  <2>2. rpc' = [r \in Readers |-> IF rpc[r] = "asleep" THEN "look" ELSE rpc[r]] \/ rpc' = rpc
    BY DEF Writer, Open, Begin, Zero, Copy, Mark, Publish, Bump, Wake, Close, reader
  <2>3. rpc' \in [Readers -> {"look", "noted", "none", "asleep", "first", "copy", "took",
                              "missed"}]
    BY <2>2 DEF ReaderType
  <2>4. [1..Pieces -> 0..begun] \subseteq [1..Pieces -> 0..begun']
    BY <1>4
  <2>5. /\ want \in [Readers -> 0..published'] /\ seen \in [Readers -> 0..published']
        /\ copy \in [Readers -> [1..Pieces -> 0..begun']]
    BY <1>4, <2>4 DEF ReaderType
  <2>. QED  BY <2>1, <2>3, <2>5 DEF ReaderType
<1>6. HistoryType'
  <2>1. CASE Publish
    <3>1. published' = published + 1 /\ begun' = begun /\ begun \in 1..begun /\ published \in Nat
      BY <2>1 DEF MemoryType, WriterType, Publish
    <3>. QED  BY <2>1, <3>1 DEF HistoryType, Publish
  <2>2. CASE ~Publish
    <3>1. UNCHANGED <<content, published, inOrder>>
      BY <2>2 DEF WriterType, Writer, Open, Begin, Zero, Copy, Mark, Bump, Wake, Close, memory,
        history
    <3>2. unwoken' \in BOOLEAN
      BY <2>2 DEF HistoryType, Writer, Open, Begin, Zero, Copy, Mark, Bump, Wake, Close, history
    <3>. QED  BY <1>4, <3>1, <3>2 DEF HistoryType
  <2>. QED  BY <2>1, <2>2
<1>7. AtWork'
  <2>1. pc' \in {"copy", "publish"} => begun' # 0
    BY DEF WriterType, Writer, Open, Begin, Zero, Copy, Mark, Publish, Bump, Wake, Close
  <2>2. want' = want
    BY DEF Writer, Open, Begin, Zero, Copy, Mark, Publish, Bump, Wake, Close, reader
  <2>3. \A r \in Readers : rpc'[r] \in {"first", "copy", "took", "missed"} => rpc'[r] = rpc[r]
    BY DEF ReaderType, Writer, Open, Begin, Zero, Copy, Mark, Publish, Bump, Wake, Close, reader
  <2>. QED  BY <2>1, <2>2, <2>3
<1>. QED  BY <1>2, <1>3, <1>5, <1>6, <1>7

\* A reader's steps keep the types.
LEMMA ReaderTyped ==
  ASSUME Typed, NEW r \in Readers, Reader(r)
  PROVE  Typed'
<1>. USE GeometryAssumption, BoundAssumption DEF Typed, TypeOK, AtWork
<1>1. UNCHANGED <<memory, writer, history>>
  BY DEF Reader, Note, Choose, Find, Sleep, ReadFirst, ReadPiece, ReadAgain, Advance
<1>2. MemoryType' /\ WriterType' /\ HistoryType'
  BY <1>1 DEF MemoryType, WriterType, HistoryType, memory, writer, history
<1>3. ReaderType'
  <2>1. rpc' \in [Readers -> {"look", "noted", "none", "asleep", "first", "copy", "took",
                              "missed"}]
    BY DEF ReaderType, Reader, Note, Choose, Find, Sleep, ReadFirst, ReadPiece, ReadAgain,
      Advance, Step
  <2>2. want' \in [Readers -> 0..published]
    <3>1. CASE Choose(r)
      <4>1. PICK n \in seen[r] + 1..published : want' = [want EXCEPT ![r] = n]
        BY <3>1 DEF Choose
      <4>2. n \in 0..published
        BY DEF ReaderType, MemoryType
      <4>. QED  BY <4>1, <4>2 DEF ReaderType
    <3>2. CASE ~Choose(r)
      BY <3>2 DEF ReaderType, Reader, Note, Find, Sleep, ReadFirst, ReadPiece, ReadAgain, Advance
    <3>. QED  BY <3>1, <3>2
  <2>8. seen' \in [Readers -> 0..published]
    BY DEF ReaderType, Reader, Note, Choose, Find, Sleep, ReadFirst, ReadPiece, ReadAgain,
      Advance
  <2>3. word' \in [Readers -> 0..WakeRange - 1]
    BY DEF ReaderType, MemoryType, Reader, Note, Choose, Find, Sleep, ReadFirst, ReadPiece,
      ReadAgain, Advance
  <2>4. want[r] # 0 => SlotOf(want[r]) \in Indices
    BY SlotIn DEF ReaderType, MemoryType
  <2>5. first' \in [Readers -> Nat]
    BY <2>4 DEF ReaderType, MemoryType, Reader, Note, Choose, Find, Sleep, ReadFirst, ReadPiece,
      ReadAgain, Advance
  <2>6. taken' \in [Readers -> 0..Pieces]
    BY DEF ReaderType, Reader, Note, Choose, Find, Sleep, ReadFirst, ReadPiece, ReadAgain,
      Advance
  <2>7. copy' \in [Readers -> [1..Pieces -> 0..begun]]
    <3>1. CASE ReadPiece(r)
      <4>1. piece[SlotOf(want[r])] \in [1..Pieces -> 0..begun] /\ taken[r] + 1 \in 1..Pieces
        BY <2>4, <3>1 DEF ReadPiece, MemoryType, ReaderType
      <4>. QED  BY <3>1, <4>1 DEF ReadPiece, ReaderType
    <3>2. CASE ~ReadPiece(r)
      BY <3>2 DEF ReaderType, Reader, Note, Choose, Find, Sleep, ReadFirst, ReadAgain, Advance
    <3>. QED  BY <3>1, <3>2
  <2>. QED  BY <1>1, <2>1, <2>2, <2>3, <2>5, <2>6, <2>7, <2>8 DEF ReaderType, memory, writer
<1>4. AtWork'
  <2>1. pc' \in {"copy", "publish"} => begun' # 0
    BY <1>1 DEF writer
  <2>2. \A s \in Readers : s # r => rpc'[s] = rpc[s] /\ want'[s] = want[s]
    BY DEF ReaderType, Reader, Note, Choose, Find, Sleep, ReadFirst, ReadPiece, ReadAgain,
      Advance, Step
  <2>3. rpc'[r] \in {"first", "copy", "took", "missed"} => want'[r] # 0
    <3>1. CASE Choose(r)
      BY <3>1 DEF Choose, ReaderType, MemoryType
    <3>2. CASE ~Choose(r)
      BY <3>2 DEF ReaderType, Reader, Note, Find, Sleep, ReadFirst, ReadPiece, ReadAgain,
        Advance, Step
    <3>. QED  BY <3>1, <3>2
  <2>. QED  BY <2>1, <2>2, <2>3
<1>. QED  BY <1>2, <1>3, <1>4

LEMMA TypedStep == Typed /\ [Next]_vars => Typed'
<1>1. Typed /\ UNCHANGED vars => Typed'
  BY DEF vars, memory, writer, reader, history, Typed, TypeOK, AtWork, MemoryType, WriterType,
    ReaderType, HistoryType
<1>. QED  BY <1>1, WriterTyped, ReaderTyped DEF Next

LEMMA InitTyped ==
  ASSUME Init
  PROVE  Typed
<1>1. Empty \in [1..Pieces -> 0..begun] /\ begun = 0
  BY DEF Init, Empty
<1>2. MemoryType
  BY <1>1 DEF Init, MemoryType
<1>3. WriterType
  <2>1. marked \in BOOLEAN
    BY DEF Init
  <2>2. copied \in 0..Pieces /\ begun \in 0..MaxFrames
    BY GeometryAssumption, BoundAssumption DEF Init
  <2>. QED  BY <2>1, <2>2 DEF Init, WriterType
<1>4. ReaderType
  <2>1. 0 \in 0..WakeRange - 1 /\ 0 \in 0..Pieces /\ 0 \in 0..published
    BY GeometryAssumption, BoundAssumption DEF Init
  <2>. QED  BY <1>1, <2>1 DEF Init, ReaderType
<1>5. HistoryType
  <2>1. 1..published = {}
    BY DEF Init
  <2>2. content \in [{} -> 1..begun]
    BY DEF Init
  <2>. QED  BY <2>1, <2>2 DEF Init, HistoryType
<1>. QED  BY <1>2, <1>3, <1>4, <1>5 DEF Init, Typed, TypeOK, AtWork

\* The variables have their types in every state, and the count a writer keeps is the
\* ring's while it writes (ring.rs:52-111).
THEOREM RingTyped == Spec => []TypeOK
<1>1. Init => Typed
  BY InitTyped
<1>. QED  BY <1>1, TypedStep, PTL DEF Spec, Typed

-------------------------------------------------------------------------------
\* The slots.

LEMMA HandIs ==
  ASSUME Typed
  PROVE  Hand \in Indices /\ (pc \in {"idle", "copy", "publish"} => SlotOf(count + 1) = Hand)
<1>1. published + 1 \in Nat \ {0}
  BY DEF Typed, TypeOK, MemoryType
<1>. QED  BY <1>1, SlotIn DEF Hand, Typed, TypeOK, WriterType

\* A frame that the ring still holds is not in the slot that is written next.
LEMMA NotInHand ==
  ASSUME Typed, NEW n \in 1..published, n > published + 1 - Slots
  PROVE  SlotOf(n) \in Indices /\ SlotOf(n) # Hand
<1>. DEFINE next == published + 1
<1>1. /\ n \in Nat \ {0} /\ next \in Nat \ {0}
      /\ n < next /\ next - n < Slots
  BY GeometryAssumption DEF Typed, TypeOK, MemoryType
<1>2. SlotOf(n) \in Indices
  BY <1>1, SlotIn
<1>. HIDE DEF next
<1>3. SlotOf(n) # SlotOf(next)
  BY <1>1, SlotsDiffer
<1>. QED  BY <1>2, <1>3 DEF Hand, next

\* What the ring's readers rely on in a step of the writer: it alters no slot but the one
\* in hand, and no frame it has published.
LEMMA WriterAlters ==
  ASSUME Typed, Writer
  PROVE  /\ \A i \in Indices : i # Hand => sequence'[i] = sequence[i] /\ piece'[i] = piece[i]
         /\ \A n \in 1..published : content'[n] = content[n]
         /\ published' \in {published, published + 1} /\ inOrder' = inOrder
         /\ published' # published => Publish
<1>1. pc = "copy" => SlotOf(count + 1) = Hand
  BY HandIs
<1>2. \A i \in Indices : i # Hand => sequence'[i] = sequence[i] /\ piece'[i] = piece[i]
  BY <1>1 DEF Writer, Open, Begin, Zero, Copy, Mark, Publish, Bump, Wake, Close, memory, Typed,
    TypeOK, MemoryType
<1>3. CASE Publish
  <2>1. published' = published + 1 /\ \A n \in 1..published : content'[n] = content[n]
    BY <1>3 DEF Publish, Typed, TypeOK, MemoryType, WriterType
  <2>. QED  BY <1>2, <1>3, <2>1 DEF Publish
<1>4. CASE ~Publish
  <2>1. UNCHANGED <<published, content, inOrder>>
    BY <1>4 DEF Writer, Open, Begin, Zero, Copy, Mark, Bump, Wake, Close, memory, history
  <2>. QED  BY <1>2, <2>1
<1>. QED  BY <1>3, <1>4

\* What is in hand.
LEMMA InHandStep ==
  ASSUME Typed, InHand, Writer
  PROVE  InHand'
<1>. USE HandIs DEF Typed, TypeOK, MemoryType, WriterType, InHand
<1>1. CASE Begin
  BY <1>1 DEF Begin, memory, Hand
<1>2. CASE Zero
  <2>1. sequence'[Hand] = 0 /\ Hand' = Hand
    BY <1>2 DEF Zero, Hand
  <2>. QED  BY <1>2, <2>1 DEF Zero
<1>3. CASE Copy
  <2>1. Hand' = Hand /\ pc' = "copy" /\ begun' = begun /\ copied' = copied + 1
        /\ piece' = [piece EXCEPT ![Hand][copied + 1] = begun]
    BY <1>3 DEF Copy, Hand
  <2>2. \A p \in 1..copied + 1 : piece'[Hand][p] = begun
    <3>1. piece[Hand] \in [1..Pieces -> 0..begun]
      OBVIOUS
    <3>2. piece'[Hand] = [piece[Hand] EXCEPT ![copied + 1] = begun]
      BY <2>1
    <3>3. \A p \in 1..copied : piece[Hand][p] = begun
      BY <1>3 DEF Copy
    <3>4. copied \in Nat /\ copied + 1 \in 1..Pieces
      BY <1>3, GeometryAssumption DEF Copy
    <3>. HIDE DEF Typed, TypeOK, MemoryType, WriterType, InHand
    <3>. QED  BY <3>1, <3>2, <3>3, <3>4, GeometryAssumption
  <2>3. (marked' => sequence'[Hand] = 0) /\ (inOrder' /\ ~marked' => copied' = 0)
    BY <1>3 DEF Copy, Visible, history
  <2>. QED  BY <2>1, <2>2, <2>3
<1>4. CASE Mark
  <2>1. sequence'[Hand] = published + 1 /\ Hand' = Hand /\ piece' = piece /\ begun' = begun
        /\ published' = published /\ pc' = "publish"
    BY <1>4 DEF Mark, Hand
  <2>2. \A p \in 1..Pieces : piece[Hand][p] = begun
    BY <1>4 DEF Mark
  <2>. QED  BY <2>1, <2>2
<1>5. CASE Open \/ Publish \/ Bump \/ Wake \/ Close
  <2>1. pc' \notin {"copy", "publish"}
    BY <1>5 DEF Open, Publish, Bump, Wake, Close
  <2>. QED  BY <2>1
<1>. QED  BY <1>1, <1>2, <1>3, <1>4, <1>5 DEF Writer

\* A reader, and a step that is none, leave the memory and the writer alone.
LEMMA ReaderAlters ==
  ASSUME NEW r \in Readers, Reader(r)
  PROVE  UNCHANGED <<memory, writer, history>>
BY DEF Reader, Note, Choose, Find, Sleep, ReadFirst, ReadPiece, ReadAgain, Advance

LEMMA SlotsUnchanged ==
  ASSUME UNCHANGED <<memory, writer, history>>
  PROVE  (InHand => InHand') /\ (Retained => Retained') /\ (NamedIsWhole => NamedIsWhole')
BY DEF memory, writer, history, InHand, Retained, NamedIsWhole, Hand

LEMMA RetainedStep ==
  ASSUME Typed, InHand, Retained, Writer
  PROVE  Retained'
<1>. SUFFICES ASSUME NEW n \in 1..published', n > published' + 1 - Slots
              PROVE  /\ sequence'[SlotOf(n)] = n
                     /\ \A p \in 1..Pieces : piece'[SlotOf(n)][p] = content'[n]
  BY DEF Retained
<1>. USE WriterAlters
<1>1. published \in Nat
  BY DEF Typed, TypeOK, MemoryType
<1>2. CASE n \in 1..published
  <2>1. n > published + 1 - Slots
    BY <1>1, GeometryAssumption
  <2>2. SlotOf(n) \in Indices /\ SlotOf(n) # Hand
    BY <1>2, <2>1, NotInHand
  <2>3. sequence[SlotOf(n)] = n /\ \A p \in 1..Pieces : piece[SlotOf(n)][p] = content[n]
    BY <1>2, <2>1 DEF Retained
  <2>4. /\ sequence'[SlotOf(n)] = sequence[SlotOf(n)] /\ piece'[SlotOf(n)] = piece[SlotOf(n)]
        /\ content'[n] = content[n]
    BY <1>2, <2>2
  <2>. QED  BY <2>3, <2>4
<1>3. CASE n \notin 1..published
  <2>1. n = published + 1 /\ Publish
    BY <1>1, <1>3
  <2>2. content'[n] = begun /\ sequence' = sequence /\ piece' = piece
    BY <2>1, <1>1 DEF Publish, Typed, TypeOK, WriterType
  <2>3. sequence[SlotOf(n)] = n /\ \A p \in 1..Pieces : piece[SlotOf(n)][p] = begun
    BY <2>1 DEF Publish, InHand, Hand
  <2>. QED  BY <2>2, <2>3
<1>. QED  BY <1>2, <1>3

-------------------------------------------------------------------------------
\* The frames that readers take.

\* A slot does not come to bear the number of a frame published before.
LEMMA NotRenamed ==
  ASSUME Typed, Writer, NEW n \in 1..published, sequence'[SlotOf(n)] = n
  PROVE  sequence[SlotOf(n)] = n
<1>. USE DEF Typed, TypeOK, MemoryType, WriterType
<1>1. SlotOf(n) \in Indices
  BY SlotIn
<1>2. CASE SlotOf(n) # Hand
  BY <1>1, <1>2, WriterAlters
<1>3. CASE SlotOf(n) = Hand
  <2>1. CASE Zero
    <3>1. sequence'[Hand] = 0
      BY <2>1, HandIs DEF Zero
    <3>. QED  BY <1>3, <3>1
  <2>2. CASE Mark
    <3>1. sequence'[Hand] = published + 1
      BY <2>2, HandIs DEF Mark
    <3>. QED  BY <1>3, <3>1
  <2>3. CASE ~Zero /\ ~Mark
    <3>1. sequence' = sequence
      BY <2>3 DEF Writer, Open, Begin, Copy, Publish, Bump, Wake, Close, memory
    <3>. QED  BY <3>1
  <2>. QED  BY <2>1, <2>2, <2>3
<1>. QED  BY <1>2, <1>3

LEMMA NamedIsWholeStep ==
  ASSUME Typed, InHand, NamedIsWhole, Writer
  PROVE  NamedIsWhole'
<1>. SUFFICES ASSUME inOrder, NEW n \in 1..published', sequence'[SlotOf(n)] = n
              PROVE  \A p \in 1..Pieces : piece'[SlotOf(n)][p] = content'[n]
  BY WriterAlters DEF NamedIsWhole
<1>. USE WriterAlters
<1>1. published \in Nat
  BY DEF Typed, TypeOK, MemoryType
<1>2. CASE n \in 1..published
  <2>1. sequence[SlotOf(n)] = n /\ SlotOf(n) \in Indices
    BY <1>1, <1>2, NotRenamed, SlotIn
  <2>2. piece'[SlotOf(n)] = piece[SlotOf(n)]
    <3>1. CASE Copy /\ SlotOf(n) = Hand
      BY <1>2, <2>1, <3>1 DEF Copy, Visible, InHand
    <3>2. CASE Copy /\ SlotOf(n) # Hand
      BY <2>1, <3>2
    <3>3. CASE ~Copy
      BY <3>3 DEF Writer, Open, Begin, Zero, Mark, Publish, Bump, Wake, Close, memory
    <3>. QED  BY <3>1, <3>2, <3>3
  <2>. QED  BY <1>2, <2>1, <2>2 DEF NamedIsWhole
<1>3. CASE n \notin 1..published
  <2>1. n = published + 1 /\ Publish
    BY <1>1, <1>3
  <2>2. content'[n] = begun /\ piece' = piece
    BY <2>1, <1>1 DEF Publish, Typed, TypeOK, WriterType
  <2>. QED  BY <2>1, <2>2 DEF Publish, InHand, Hand
<1>. QED  BY <1>2, <1>3

\* All that is kept of a frame a reader reads or has taken.
Reading == CopiedIsNamed /\ NoTornFrame /\ WholeUnlessLapped

\* The pieces a reader has copied are of the frame it wants.
SoFar(r) == \A p \in 1..taken[r] : copy[r][p] = content[want[r]]

LEMMA ReadingStepWriter ==
  ASSUME Typed, Reading, Writer
  PROVE  Reading'
<1>. USE WriterAlters
<1>1. published \in Nat
  BY DEF Typed, TypeOK, MemoryType
<1>2. UNCHANGED <<want, first, copy, taken>>
  BY DEF Writer, Open, Begin, Zero, Copy, Mark, Publish, Bump, Wake, Close, reader
<1>. SUFFICES ASSUME NEW r \in Readers
     PROVE  /\ rpc'[r] = "copy" /\ inOrder /\ first[r] = want[r]
                 /\ sequence'[SlotOf(want[r])] = want[r] => SoFar(r)'
            /\ rpc'[r] = "copy" /\ published' + 1 < want[r] + Slots => SoFar(r)'
            /\ inOrder /\ rpc'[r] = "took" => Whole(r)'
            /\ rpc'[r] = "took" => Whole(r)' \/ published' + 1 >= want[r] + Slots
  BY <1>2 DEF Reading, CopiedIsNamed, NoTornFrame, WholeUnlessLapped, SoFar
<1>3. rpc'[r] \in {"copy", "took"} => rpc'[r] = rpc[r] /\ want[r] \in 1..published
  <2>1. rpc'[r] \in {"copy", "took"} => rpc'[r] = rpc[r]
    BY DEF Writer, Open, Begin, Zero, Copy, Mark, Publish, Bump, Wake, Close, reader, Typed,
      TypeOK, ReaderType
  <2>2. want[r] \in 0..published /\ (rpc[r] \in {"copy", "took"} => want[r] # 0)
    BY DEF Typed, TypeOK, ReaderType, AtWork
  <2>. QED  BY <1>1, <2>1, <2>2
<1>4. rpc'[r] \in {"copy", "took"} => (SoFar(r)' <=> SoFar(r)) /\ (Whole(r)' <=> Whole(r))
  BY <1>2, <1>3 DEF SoFar, Whole
<1>5. rpc'[r] = "copy" /\ sequence'[SlotOf(want[r])] = want[r]
        => sequence[SlotOf(want[r])] = want[r]
  BY <1>3, NotRenamed
<1>6. want[r] \in Nat /\ Slots \in Nat
  BY GeometryAssumption DEF Typed, TypeOK, ReaderType, MemoryType
<1>7. /\ rpc[r] = "copy" /\ inOrder /\ first[r] = want[r]
           /\ sequence[SlotOf(want[r])] = want[r] => SoFar(r)
      /\ rpc[r] = "copy" /\ published + 1 < want[r] + Slots => SoFar(r)
      /\ inOrder /\ rpc[r] = "took" => Whole(r)
      /\ rpc[r] = "took" => Whole(r) \/ published + 1 >= want[r] + Slots
  BY DEF Reading, CopiedIsNamed, NoTornFrame, WholeUnlessLapped, SoFar
<1>8. rpc'[r] = "copy" /\ inOrder /\ first[r] = want[r]
        /\ sequence'[SlotOf(want[r])] = want[r] => SoFar(r)'
  BY <1>3, <1>4, <1>5, <1>7
<1>9. rpc'[r] = "copy" /\ published' + 1 < want[r] + Slots => SoFar(r)'
  BY <1>1, <1>3, <1>4, <1>6, <1>7
<1>10. inOrder /\ rpc'[r] = "took" => Whole(r)'
  BY <1>3, <1>4, <1>7
<1>11. rpc'[r] = "took" => Whole(r)' \/ published' + 1 >= want[r] + Slots
  BY <1>1, <1>3, <1>4, <1>6, <1>7
<1>. QED  BY <1>8, <1>9, <1>10, <1>11

LEMMA ReadingStepReader ==
  ASSUME Typed, Retained, NamedIsWhole, Reading, NEW s \in Readers, Reader(s)
  PROVE  Reading'
<1>1. UNCHANGED <<sequence, piece, published, content, inOrder>>
  BY ReaderAlters DEF memory, history
<1>. SUFFICES ASSUME NEW r \in Readers
     PROVE  /\ rpc'[r] = "copy" /\ inOrder /\ first'[r] = want'[r]
                 /\ sequence[SlotOf(want'[r])] = want'[r] => SoFar(r)'
            /\ rpc'[r] = "copy" /\ published + 1 < want'[r] + Slots => SoFar(r)'
            /\ inOrder /\ rpc'[r] = "took" => Whole(r)'
            /\ rpc'[r] = "took" => Whole(r)' \/ published + 1 >= want'[r] + Slots
  BY <1>1 DEF Reading, CopiedIsNamed, NoTornFrame, WholeUnlessLapped, SoFar
<1>2. /\ rpc[r] = "copy" /\ inOrder /\ first[r] = want[r]
           /\ sequence[SlotOf(want[r])] = want[r] => SoFar(r)
      /\ rpc[r] = "copy" /\ published + 1 < want[r] + Slots => SoFar(r)
      /\ inOrder /\ rpc[r] = "took" => Whole(r)
      /\ rpc[r] = "took" => Whole(r) \/ published + 1 >= want[r] + Slots
  BY DEF Reading, CopiedIsNamed, NoTornFrame, WholeUnlessLapped, SoFar
<1>. USE DEF Typed, TypeOK, ReaderType
<1>3. CASE s # r
  <2>1. /\ rpc'[r] = rpc[r] /\ want'[r] = want[r] /\ first'[r] = first[r]
        /\ taken'[r] = taken[r] /\ copy'[r] = copy[r]
    BY <1>3 DEF Reader, Note, Choose, Find, Sleep, ReadFirst, ReadPiece, ReadAgain, Advance, Step
  <2>2. (SoFar(r)' <=> SoFar(r)) /\ (Whole(r)' <=> Whole(r))
    BY <1>1, <2>1 DEF SoFar, Whole
  <2>. QED  BY <1>2, <2>1, <2>2
<1>4. CASE s = r /\ ReadFirst(r)
  <2>1. rpc'[r] = "copy" /\ taken'[r] = 0
    BY <1>4 DEF ReadFirst, Step
  <2>2. SoFar(r)'
    BY <2>1 DEF SoFar
  <2>. QED  BY <2>1, <2>2
<1>5. CASE s = r /\ ReadPiece(r)
  <2>. DEFINE t == taken[r]
              c == copy[r]
              w == want[r]
  <2>1. /\ rpc'[r] = "copy" /\ rpc[r] = "copy" /\ want' = want /\ first' = first
        /\ t \in 0..Pieces /\ t < Pieces /\ taken'[r] = t + 1
        /\ c \in [1..Pieces -> 0..begun]
        /\ copy'[r] = [c EXCEPT ![t + 1] = piece[SlotOf(w)][t + 1]]
    BY <1>5 DEF ReadPiece
  <2>2. w \in 1..published /\ published \in Nat
    BY <2>1 DEF AtWork, MemoryType
  <2>3. SoFar(r) /\ piece[SlotOf(w)][t + 1] = content[w] => SoFar(r)'
    <3>. SUFFICES ASSUME SoFar(r), piece[SlotOf(w)][t + 1] = content[w],
                         NEW p \in 1..taken'[r]
                  PROVE  copy'[r][p] = content'[want'[r]]
      BY DEF SoFar
    <3>1. p \in 1..t + 1 /\ p \in 1..Pieces /\ t + 1 \in 1..Pieces
      BY <2>1, GeometryAssumption
    <3>2. p # t + 1 => c[p] = content[w]
      <4>1. p # t + 1 => p \in 1..taken[r]
        BY <2>1, <3>1
      <4>2. \A q \in 1..taken[r] : copy[r][q] = content[want[r]]
        BY DEF SoFar
      <4>. QED  BY <4>1, <4>2
    <3>. HIDE DEF t, c, w
    <3>3. copy'[r][p] = content[w]
      BY <2>1, <3>1, <3>2
    <3>. QED  BY <1>1, <2>1, <3>3 DEF w
  <2>4. t + 1 \in 1..Pieces
    BY <2>1, GeometryAssumption
  <2>5. inOrder /\ sequence[SlotOf(w)] = w => piece[SlotOf(w)][t + 1] = content[w]
    BY <2>2, <2>4 DEF NamedIsWhole
  <2>6. published + 1 < w + Slots => piece[SlotOf(w)][t + 1] = content[w]
    <3>1. published + 1 < w + Slots => w > published + 1 - Slots
      BY <2>2, GeometryAssumption
    <3>. QED  BY <2>2, <2>4, <3>1 DEF Retained
  <2>. QED  BY <1>2, <2>1, <2>3, <2>5, <2>6
<1>6. CASE s = r /\ ReadAgain(r)
  <2>1. /\ rpc[r] = "copy" /\ UNCHANGED <<want, first, copy, taken>> /\ taken[r] = Pieces
        /\ rpc'[r] # "copy"
        /\ rpc'[r] = "took" => first[r] = want[r] /\ sequence[SlotOf(want[r])] = want[r]
    BY <1>6 DEF ReadAgain, Step
  <2>2. SoFar(r) => Whole(r)'
    BY <1>1, <2>1 DEF SoFar, Whole
  <2>3. want[r] \in Nat /\ published \in Nat /\ Slots \in Nat
    BY GeometryAssumption DEF MemoryType
  <2>4. ~(published + 1 >= want[r] + Slots) => published + 1 < want[r] + Slots
    BY <2>3
  <2>. QED  BY <1>2, <2>1, <2>2, <2>4
<1>7. CASE s = r /\ (Note(r) \/ Choose(r) \/ Find(r) \/ Sleep(r) \/ Advance(r))
  <2>1. rpc'[r] \notin {"copy", "took"}
    BY <1>7 DEF Note, Choose, Find, Sleep, Advance, Step
  <2>. QED  BY <2>1
<1>. QED  BY <1>3, <1>4, <1>5, <1>6, <1>7 DEF Reader

\* The inductive invariant of the frames.
Frames == Typed /\ InHand /\ Retained /\ NamedIsWhole /\ Reading

LEMMA FramesKept == Spec => []Frames
<1>1. Init => Frames
  <2>. SUFFICES ASSUME Init PROVE Frames
    OBVIOUS
  <2>1. 1..published = {}
    BY DEF Init
  <2>2. Retained /\ NamedIsWhole
    BY <2>1 DEF Retained, NamedIsWhole
  <2>3. InHand
    BY DEF Init, InHand
  <2>4. \A r \in Readers : rpc[r] = "look"
    BY DEF Init
  <2>5. Reading
    BY <2>4 DEF Reading, CopiedIsNamed, NoTornFrame, WholeUnlessLapped
  <2>. QED  BY <2>2, <2>3, <2>5, InitTyped DEF Frames
<1>2. Frames /\ [Next]_vars => Frames'
  <2>. SUFFICES ASSUME Frames, [Next]_vars PROVE Frames'
    OBVIOUS
  <2>1. CASE Writer
    BY <2>1, WriterTyped, InHandStep, RetainedStep, NamedIsWholeStep, ReadingStepWriter
    DEF Frames
  <2>2. ASSUME NEW r \in Readers, Reader(r) PROVE Frames'
    BY <2>2, ReaderTyped, ReaderAlters, SlotsUnchanged, ReadingStepReader DEF Frames
  <2>3. CASE UNCHANGED vars
    <3>1. UNCHANGED <<memory, writer, reader, history>>
      BY <2>3 DEF vars
    <3>2. Reading'
      BY <3>1 DEF Frames, Reading, CopiedIsNamed, NoTornFrame, WholeUnlessLapped, Whole, memory,
        reader, history
    <3>. QED  BY <2>3, <3>1, <3>2, TypedStep, SlotsUnchanged DEF Frames
  <2>. QED  BY <2>1, <2>2, <2>3 DEF Next
<1>. QED  BY <1>1, <1>2, PTL DEF Spec

\* The frames published last stand whole in the ring, whatever the writer is doing and
\* wherever one died (ring.rs:93-108).
THEOREM FramesRetained == Spec => []Retained
BY FramesKept, PTL DEF Frames

\* Where stores are seen in order, what a reader takes is one frame (ring.rs:96-107).
THEOREM NoFrameTorn == Spec => []NoTornFrame
BY FramesKept, PTL DEF Frames, Reading

\* On every machine it is, unless the writer has come round to the slot (ring.rs:98, 106).
THEOREM TornOnlyIfLapped == Spec => []WholeUnlessLapped
BY FramesKept, PTL DEF Frames, Reading

-------------------------------------------------------------------------------
\* The word readers sleep on.

Waking == NotedInTime /\ NoLostWakeup

\* A writer that has published has begun a frame.
LEMMA BegunByNow ==
  ASSUME Typed
  PROVE  pc \in {"copy", "publish", "bump"} => 0 < begun
<1>. USE DEF Typed, TypeOK, WriterType
<1>1. CASE pc = "bump"
  <2>1. 1 \in 1..published
    BY <1>1 DEF MemoryType
  <2>2. content[1] \in 1..begun
    BY <2>1 DEF HistoryType
  <2>. QED  BY <2>2
<1>2. CASE pc # "bump"
  BY <1>2 DEF AtWork
<1>. QED  BY <1>1, <1>2

\* A bump brings the word one further from what a reader noted.
LEMMA Further ==
  ASSUME Typed, NEW r \in Readers, NEW d \in 0..MaxFrames, d < begun,
         wake = word[r] + d \/ wake = word[r] + d - WakeRange
  PROVE  Wrapped(wake) = word[r] + (d + 1) \/ Wrapped(wake) = word[r] + (d + 1) - WakeRange
<1>. DEFINE w == word[r]
<1>1. /\ wake \in 0..WakeRange - 1 /\ w \in 0..WakeRange - 1 /\ begun \in 0..MaxFrames
      /\ WakeRange \in Nat /\ MaxFrames \in Nat /\ MaxFrames < WakeRange
  BY BoundAssumption DEF Typed, TypeOK, MemoryType, WriterType, ReaderType
<1>2. Wrapped(wake) = wake + 1 \/ (wake = WakeRange - 1 /\ Wrapped(wake) = 0)
  BY <1>1, WrappedIs
<1>3. wake = w + d \/ wake = w + d - WakeRange
  OBVIOUS
<1>. HIDE DEF w
<1>4. Wrapped(wake) = w + (d + 1) \/ Wrapped(wake) = w + (d + 1) - WakeRange
  BY <1>1, <1>2, <1>3
<1>. QED  BY <1>4 DEF w

\* Unless it bumps the word, a step of the writer leaves a reader as far from it.
LEMMA StaysBumped ==
  ASSUME Typed, Writer, ~Bump, NEW r \in Readers, rpc'[r] = rpc[r],
         NEW d \in 0..MaxFrames, Bumped(r, d)
  PROVE  Bumped(r, d)'
<1>1. UNCHANGED <<wake, word, seen>>
  BY DEF Writer, Open, Begin, Zero, Copy, Mark, Publish, Wake, Close, reader, memory
<1>2. d \in Nat /\ begun \in Nat
  BY BoundAssumption DEF Typed, TypeOK, WriterType
<1>3. d <= begun' /\ (pc' \in {"copy", "publish", "bump"} => d < begun')
  BY <1>2 DEF Bumped, Writer, Open, Begin, Zero, Copy, Mark, Publish, Wake, Close
<1>4. rpc'[r] = "none" /\ d = 0 /\ seen'[r] < published'
        => pc' = "bump" \/ (unwoken' /\ pc' # "wake")
  <2>1. CASE Publish
    BY <2>1 DEF Publish
  <2>2. CASE Close
    BY <1>1, <2>2 DEF Bumped, Close, memory
  <2>3. CASE Wake
    BY <1>1, <2>3 DEF Bumped, Wake, memory
  <2>4. CASE ~Publish /\ ~Close /\ ~Wake
    <3>1. UNCHANGED <<published, unwoken>> /\ pc # "bump" /\ pc' # "wake"
      BY <2>4 DEF Writer, Open, Begin, Zero, Copy, Mark, memory, history
    <3>. QED  BY <1>1, <3>1 DEF Bumped
  <2>. QED  BY <2>1, <2>2, <2>3, <2>4
<1>. QED  BY <1>1, <1>3, <1>4 DEF Bumped

LEMMA WakingStepWriter ==
  ASSUME Typed, Waking, Writer
  PROVE  Waking'
<1>. USE DEF Typed, TypeOK
<1>1. rpc \in [Readers -> {"look", "noted", "none", "asleep", "first", "copy", "took", "missed"}]
  BY DEF ReaderType
<1>2. \/ Wake /\ rpc' = [r \in Readers |-> IF rpc[r] = "asleep" THEN "look" ELSE rpc[r]]
      \/ ~Wake /\ rpc' = rpc
  BY DEF Writer, Open, Begin, Zero, Copy, Mark, Publish, Bump, Wake, Close, reader
<1>3. NotedInTime'
  <2>. SUFFICES ASSUME NEW r \in Readers, rpc'[r] \in {"noted", "none"}
                PROVE  \E d \in 0..MaxFrames : Bumped(r, d)'
    BY DEF NotedInTime
  <2>1. rpc'[r] = rpc[r]
    BY <1>1, <1>2
  <2>2. PICK d \in 0..MaxFrames : Bumped(r, d)
    BY <2>1 DEF Waking, NotedInTime
  <2>3. CASE Bump
    <3>1. d < begun /\ wake' = Wrapped(wake) /\ begun' = begun /\ word' = word /\ pc' = "wake"
      BY <2>2, <2>3 DEF Bump, Bumped, reader
    <3>2. wake' = word'[r] + (d + 1) \/ wake' = word'[r] + (d + 1) - WakeRange
      BY <2>2, <3>1, Further DEF Bumped
    <3>3. d \in Nat /\ begun \in 0..MaxFrames /\ MaxFrames \in Nat
      BY BoundAssumption DEF WriterType
    <3>4. d + 1 \in 0..MaxFrames /\ d + 1 <= begun /\ d + 1 # 0
      BY <3>1, <3>3
    <3>5. Bumped(r, d + 1)'
      BY <3>1, <3>2, <3>4 DEF Bumped
    <3>. QED  BY <3>4, <3>5
  <2>4. CASE ~Bump
    BY <2>1, <2>2, <2>4, StaysBumped
  <2>. QED  BY <2>3, <2>4
<1>4. NoLostWakeup'
  <2>. SUFFICES ASSUME NEW r \in Readers, rpc'[r] = "asleep", seen'[r] < published'
                PROVE  pc' \in {"bump", "wake"} \/ unwoken'
    BY DEF NoLostWakeup
  <2>1. rpc[r] = "asleep" /\ ~Wake
    BY <1>1, <1>2
  <2>2. CASE Publish
    BY <2>2 DEF Publish
  <2>3. CASE ~Publish
    <3>1. UNCHANGED <<seen, published>>
      BY <2>1, <2>3 DEF Writer, Open, Begin, Zero, Copy, Mark, Bump, Close, reader, memory
    <3>2. pc \in {"bump", "wake"} \/ unwoken
      BY <2>1, <3>1 DEF Waking, NoLostWakeup
    <3>3. CASE Close
      BY <3>2, <3>3 DEF Close
    <3>4. CASE ~Close
      <4>1. unwoken' = unwoken /\ (pc \in {"bump", "wake"} => pc' \in {"bump", "wake"})
        BY <2>1, <2>3, <3>4 DEF Writer, Open, Begin, Zero, Copy, Mark, Bump, history
      <4>. QED  BY <3>2, <4>1
    <3>. QED  BY <3>3, <3>4
  <2>. QED  BY <2>2, <2>3
<1>. QED  BY <1>3, <1>4 DEF Waking

LEMMA WakingStepReader ==
  ASSUME Typed, Waking, NEW s \in Readers, Reader(s)
  PROVE  Waking'
<1>1. UNCHANGED <<wake, published, pc, begun, unwoken>>
  BY ReaderAlters DEF memory, writer, history
<1>2. /\ rpc \in [Readers -> {"look", "noted", "none", "asleep", "first", "copy", "took",
                              "missed"}]
      /\ word \in [Readers -> 0..WakeRange - 1] /\ seen \in [Readers -> 0..published]
  BY DEF Typed, TypeOK, ReaderType
<1>. SUFFICES ASSUME NEW r \in Readers
              PROVE  /\ rpc'[r] \in {"noted", "none"} => \E d \in 0..MaxFrames : Bumped(r, d)'
                     /\ rpc'[r] = "asleep" /\ seen'[r] < published
                          => pc \in {"bump", "wake"} \/ unwoken
  BY <1>1 DEF Waking, NotedInTime, NoLostWakeup
<1>3. CASE rpc'[r] = rpc[r] /\ word'[r] = word[r] /\ seen'[r] = seen[r]
  <2>1. \A d \in 0..MaxFrames : Bumped(r, d) => Bumped(r, d)'
    BY <1>1, <1>3 DEF Bumped
  <2>. QED  BY <1>3, <2>1 DEF Waking, NotedInTime, NoLostWakeup
<1>4. CASE s # r
  <2>1. rpc'[r] = rpc[r] /\ word'[r] = word[r] /\ seen'[r] = seen[r]
    BY <1>2, <1>4
    DEF Reader, Note, Choose, Find, Sleep, ReadFirst, ReadPiece, ReadAgain, Advance, Step
  <2>. QED  BY <1>3, <2>1
<1>5. CASE s = r /\ Note(r)
  <2>1. rpc'[r] = "noted" /\ word'[r] = wake
    BY <1>2, <1>5 DEF Note, Step
  <2>2. 0 \in 0..MaxFrames /\ begun \in Nat /\ wake \in Int
    BY BoundAssumption DEF Typed, TypeOK, WriterType, MemoryType
  <2>3. Bumped(r, 0)'
    BY <1>1, <2>1, <2>2, BegunByNow DEF Bumped
  <2>. QED  BY <2>1, <2>2, <2>3
<1>6. CASE s = r /\ Find(r)
  <2>1. rpc[r] = "noted" /\ rpc'[r] = "none" /\ UNCHANGED <<word, seen>> /\ published = seen[r]
    BY <1>2, <1>6 DEF Find, Step
  <2>2. PICK d \in 0..MaxFrames : Bumped(r, d)
    BY <2>1 DEF Waking, NotedInTime
  <2>3. ~(seen[r] < published)
    BY <1>2, <2>1
  <2>4. Bumped(r, d)'
    BY <1>1, <2>1, <2>2, <2>3 DEF Bumped
  <2>. QED  BY <2>1, <2>4
<1>7. CASE s = r /\ Sleep(r)
  <2>1. /\ rpc[r] = "none" /\ seen' = seen /\ rpc'[r] \notin {"noted", "none"}
        /\ rpc'[r] = "asleep" => wake = word[r]
    BY <1>2, <1>7 DEF Sleep, Step
  <2>2. PICK d \in 0..MaxFrames : Bumped(r, d)
    BY <2>1 DEF Waking, NotedInTime
  <2>3. wake = word[r] => d = 0
    BY <1>2, <2>2, BoundAssumption DEF Bumped
  <2>. QED  BY <2>1, <2>2, <2>3 DEF Bumped
<1>8. CASE s = r /\ (Choose(r) \/ ReadFirst(r) \/ ReadPiece(r) \/ ReadAgain(r) \/ Advance(r))
  <2>1. rpc'[r] \notin {"noted", "none", "asleep"}
    BY <1>2, <1>8 DEF Choose, ReadFirst, ReadPiece, ReadAgain, Advance, Step
  <2>. QED  BY <2>1
<1>. QED  BY <1>4, <1>5, <1>6, <1>7, <1>8 DEF Reader

\* No reader sleeps on a frame it has not seen, unless the writer is about to wake it or
\* died before it could: of the futex's word, that it is bumped between the publication
\* and the wake, and does not come round while a reader decides (ring.rs:107-111).
THEOREM NoWakeupLost == Spec => []NoLostWakeup
<1>1. Init => Typed /\ Waking
  <2>. SUFFICES ASSUME Init PROVE Typed /\ Waking
    OBVIOUS
  <2>1. \A r \in Readers : rpc[r] = "look"
    BY DEF Init
  <2>. QED  BY <2>1, InitTyped DEF Waking, NotedInTime, NoLostWakeup
<1>2. Typed /\ Waking /\ [Next]_vars => (Typed /\ Waking)'
  <2>. SUFFICES ASSUME Typed, Waking, [Next]_vars PROVE Typed' /\ Waking'
    OBVIOUS
  <2>1. CASE Writer
    BY <2>1, WriterTyped, WakingStepWriter
  <2>2. ASSUME NEW r \in Readers, Reader(r) PROVE Typed' /\ Waking'
    BY <2>2, ReaderTyped, WakingStepReader
  <2>3. CASE UNCHANGED vars
    <3>1. UNCHANGED <<memory, writer, reader, history>>
      BY <2>3 DEF vars
    <3>2. NotedInTime'
      BY <3>1 DEF Waking, NotedInTime, Bumped, memory, writer, reader, history
    <3>3. NoLostWakeup'
      BY <3>1 DEF Waking, NoLostWakeup, memory, writer, reader, history
    <3>. QED  BY <2>3, <3>2, <3>3, TypedStep DEF Waking
  <2>. QED  BY <2>1, <2>2, <2>3 DEF Next
<1>. QED  BY <1>1, <1>2, PTL DEF Spec, Waking

===============================================================================
