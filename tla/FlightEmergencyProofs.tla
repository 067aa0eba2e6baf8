----------------------- MODULE FlightEmergencyProofs ------------------------
(***************************************************************************)
(* Proofs about FlightEmergency for every set of signals, every number of  *)
(* nested deliveries and every number of versions.  EInv is the inductive  *)
(* invariant: one activation holds the claim, the cell it writes is invalid*)
(* until its last store, and the other cell keeps what must be kept.       *)
(***************************************************************************)
EXTENDS FlightEmergency, TLAPS

(* What a script may ask for; a delivery that interrupts something neither *)
(* announces nor cancels a termination.                                    *)
NestedOps == {"signal", "gap"}
Ops == {"intent", "cancel", "syscall", "signal", "gap"}

Records == [type : {"none", "TerminationIntent", "CoverageGap", "Syscall",
                    "Signal"},
            signal : Signals \union {NoSignal}, directed : BOOLEAN, depth : Nat,
            sequence : Nat, count : Nat, of : Nat]

Activations ==
    [depth : Nat, signal : Signals \union {NoSignal}, directed : BOOLEAN,
     script : Seq(Ops),
     at : {"start", "claim", "inspect", "odd", "clear", "fields", "even",
           "commit", "pin", "release", "dropped", "count"},
     record : Records, version : Nat, cell : Cell \union {0}, replaces : Nat]

CellContents == [version : Nat, committed : BOOLEAN, record : Records,
                 checksum : Records]

TypeOK ==
    /\ cells \in [Cell -> CellContents]
    /\ claim \in BOOLEAN /\ pinned \in Cell \union {0}
    /\ next_version \in Nat /\ next_version >= 2 /\ next_version % 2 = 0
    /\ sequence \in Nat
    /\ stack \in Seq(Activations)
    /\ newest \in Nat /\ cancelled \subseteq Nat

Depths == 1..Len(stack)

(* The cells that a reader accepts, the newer one of them, and whether it  *)
(* is a coverage gap.                                                      *)
Accepted(content) == /\ content.committed
                     /\ content.version # 0 /\ content.version % 2 = 0
                     /\ content.checksum = Checksum(content.record)

ReadableOf(cs) == {c \in Cell : Accepted(cs[c])}

LatestOf(cs) ==
    IF ReadableOf(cs) = {} THEN 0
    ELSE IF /\ 2 \in ReadableOf(cs)
            /\ 1 \notin ReadableOf(cs) \/ cs[2].version > cs[1].version
         THEN 2 ELSE 1

GapOf(cs) == LatestOf(cs) # 0 /\ cs[LatestOf(cs)].record.type = "CoverageGap"

Readable == ReadableOf(cells)

(* The scripts of the stack.                                               *)
ScriptsOK ==
    \A i \in Depths :
        /\ stack[i].script # <<>>
        /\ i > 1 => stack[i].script \in Seq(NestedOps)

(* The claim is held by one activation, which is somewhere between its     *)
(* exchange and its release.                                               *)
Holding == {"inspect", "odd", "clear", "fields", "even", "commit", "pin",
            "release"}

OneHolder ==
    /\ claim <=> \E i \in Depths : stack[i].at \in Holding
    /\ \A i, j \in Depths :
           stack[i].at \in Holding /\ stack[j].at \in Holding => i = j

(* What is published under an announced termination is its intent.         *)
Publishing == {"claim", "inspect"} \union Storing

IntentsOK ==
    \A i \in Depths : /\ stack[i].at \in Publishing
                      /\ Head(stack[i].script) = "intent"
                      => stack[i].record.type = "TerminationIntent"

(* What the holder is writing, and how far it is.                          *)
Unfinished == {"clear", "fields", "even", "commit"}

Cancels(i) == Head(stack[i].script) = "cancel"

StoreOK(i) ==
    /\ stack[i].cell \in Cell /\ stack[i].version = next_version - 2
    /\ newest < stack[i].version
    /\ stack[i].record.of = stack[i].version
    /\ pinned # 0 => stack[i].cell # pinned
    /\ Cancels(i) => pinned = 0
    /\ ~Cancels(i) => ~ShowsGap

(* Before the first store: the replaced intent is still there, and else    *)
(* the newest record is in the other cell.                                 *)
OddOK(i) ==
    /\ stack[i].replaces # 0 =>
           /\ stack[i].cell \in Readable
           /\ stack[i].replaces = cells[stack[i].cell].version
    /\ pinned = 0 /\ ~Cancels(i) /\ newest # 0 =>
           /\ 3 - stack[i].cell \in Readable
           /\ cells[3 - stack[i].cell].version = newest

(* From then on: the cell is not valid until it is committed.              *)
UnfinishedOK(i) ==
    LET at == stack[i].at  c == cells[stack[i].cell]
    IN  /\ at \in {"clear", "fields", "even"} => c.version = stack[i].version + 1
        /\ at \in {"fields", "even", "commit"} => ~c.committed
        /\ at \in {"even", "commit"} =>
               /\ c.record = stack[i].record
               /\ c.checksum = Checksum(stack[i].record)
        /\ at = "commit" => c.version = stack[i].version

StoresOK == \A i \in Depths : stack[i].at \in Storing =>
                /\ StoreOK(i)
                /\ stack[i].at = "odd" => OddOK(i)
                /\ stack[i].at \in Unfinished => UnfinishedOK(i)

PinsOK == \A i \in Depths : stack[i].at = "pin" =>
              /\ i = 1 /\ stack[i].cell \in Cell /\ stack[i].cell \in Readable
              /\ cells[stack[i].cell].version = newest
              /\ cells[stack[i].cell].record.type = "TerminationIntent"

(* What the cells hold: each valid one the record of its own version, not  *)
(* of a cancelled one, and one of them the newest unless that is being     *)
(* replaced.                                                               *)
CellsOK ==
    /\ newest < next_version
    /\ \A v \in cancelled : v <= newest
    /\ \A c \in Cell : c \in Readable => /\ cells[c].record.of = cells[c].version
                                   /\ cells[c].version <= newest
                                   /\ cells[c].version \notin cancelled
    /\ 1 \in Readable /\ 2 \in Readable => cells[1].version # cells[2].version
    /\ newest # 0 =>
           \/ \E c \in Cell : c \in Readable /\ cells[c].version = newest
           \/ \E i \in Depths :
                  stack[i].at \in Unfinished /\ (pinned # 0 \/ Cancels(i))

(* The pinned intent stays, and what is published after it was started     *)
(* after it.                                                               *)
PinnedOK ==
    pinned # 0 =>
        /\ pinned \in Readable /\ cells[pinned].record.type = "TerminationIntent"
        /\ (/\ 3 - pinned \in Readable
            /\ cells[3 - pinned].version > cells[pinned].version)
           => cells[3 - pinned].record.sequence > cells[pinned].record.sequence
        /\ \A i \in Depths : stack[i].at \in Publishing =>
               stack[i].record.sequence > cells[pinned].record.sequence

SequencesOK ==
    /\ \A c \in Cell : cells[c].record.sequence <= sequence
    /\ \A i \in Depths : stack[i].record.sequence <= sequence

(* Whoever is about to count a gap counts in the gap that is shown, and    *)
(* nobody above it stores anything.                                        *)
CountsOK ==
    \A i \in Depths : stack[i].at = "count" =>
        /\ ShowsGap /\ Latest = stack[i].cell
        /\ \A j \in Depths :
               j > i => stack[j].at \notin Holding \ {"inspect"}

EInv == /\ TypeOK /\ ScriptsOK /\ OneHolder /\ IntentsOK /\ StoresOK /\ PinsOK
        /\ CellsOK /\ PinnedOK /\ SequencesOK /\ CountsOK
-----------------------------------------------------------------------------
(* A version is even, what marks a cell as being written is odd.           *)
LEMMA Parity ==
    ASSUME NEW v \in Nat, v % 2 = 0
    PROVE  /\ (v + 2) % 2 = 0 /\ (v + 1) % 2 # 0
           /\ v >= 2 => (v - 2) % 2 = 0
BY SMT

(* A sequence and its length.                                              *)
LEMMA SequenceLength ==
    ASSUME NEW S, NEW s \in Seq(S)
    PROVE  Len(s) \in Nat /\ (s # <<>> <=> Len(s) # 0)
OBVIOUS

(* The rest of a script.                                                   *)
LEMMA RestOfScript ==
    ASSUME NEW S, NEW s \in Seq(S), s # <<>>
    PROVE  /\ Head(s) \in S /\ Tail(s) \in Seq(S)
           /\ Len(s) # 1 => Tail(s) # <<>>
<1>1. Len(s) \in Nat /\ Len(s) # 0
  BY SequenceLength
<1>2. Head(s) \in S /\ Tail(s) \in Seq(S) /\ Len(Tail(s)) = Len(s) - 1
  OBVIOUS
<1>3. Len(s) # 1 => Len(Tail(s)) # 0
  BY <1>1, <1>2
<1> QED
  BY <1>2, <1>3, SequenceLength

(* A stack without its innermost activation.                               *)
LEMMA WithoutLast ==
    ASSUME NEW S, NEW s \in Seq(S), s # <<>>
    PROVE  LET f == SubSeq(s, 1, Len(s) - 1)
           IN  /\ f \in Seq(S) /\ Len(f) = Len(s) - 1
               /\ \A i \in 1..(Len(s) - 1) : f[i] = s[i]
<1>1. Len(s) - 1 \in Nat
  BY SequenceLength
<1> DEFINE n == Len(s) - 1
<1>2. n \in Nat /\ \A i \in 1..n : s[i] \in S
  BY <1>1
<1> HIDE DEF n
<1>3. SubSeq(s, 1, n) \in Seq(S) /\ Len(SubSeq(s, 1, n)) = n
  BY <1>2
<1>4. \A i \in 1..n : SubSeq(s, 1, n)[i] = s[i]
  BY <1>2
<1> QED
  BY <1>3, <1>4 DEF n

(* The innermost activation is the last of the stack.                      *)
LEMMA TopIsLast ==
    ASSUME stack \in Seq(Activations), stack # <<>>
    PROVE  /\ Len(stack) \in Nat /\ Len(stack) >= 1 /\ Len(stack) \in Depths
           /\ Top = stack[Len(stack)] /\ Top \in Activations
BY SequenceLength DEF Top, Depths

(* What replacing the innermost activation leaves alone.                   *)
LEMMA BecomesEffect ==
    ASSUME stack \in Seq(Activations), stack # <<>>,
           NEW a \in Activations, Becomes(a)
    PROVE  /\ stack' \in Seq(Activations) /\ Len(stack') = Len(stack)
           /\ stack'[Len(stack)] = a
           /\ \A i \in 1..Len(stack) : i # Len(stack) => stack'[i] = stack[i]
<1>1. Len(stack) \in 1..Len(stack)
  BY TopIsLast DEF Depths
<1> QED
  BY <1>1 DEF Becomes

(* What a place says of an activation that otherwise stays what it was.    *)
LEMMA GoesEffect ==
    ASSUME stack \in Seq(Activations), stack # <<>>, NEW place,
           place \in {"start", "claim", "inspect", "odd", "clear", "fields",
                      "even", "commit", "pin", "release", "dropped", "count"},
           Goes(place)
    PROVE  /\ stack' \in Seq(Activations) /\ Len(stack') = Len(stack)
           /\ \A i \in 1..Len(stack) : i # Len(stack) => stack'[i] = stack[i]
           /\ stack'[Len(stack)].at = place
           /\ stack'[Len(stack)].script = Top.script
           /\ stack'[Len(stack)].record = Top.record
           /\ stack'[Len(stack)].version = Top.version
           /\ stack'[Len(stack)].cell = Top.cell
           /\ stack'[Len(stack)].replaces = Top.replaces
<1> DEFINE a == [Top EXCEPT !.at = place]
<1>1. Top \in Activations
  BY TopIsLast
<1>2. a \in Activations
  BY Zenon, <1>1 DEF Activations
<1>3. Becomes(a)
  BY DEF Goes
<1>4. /\ a.at = place /\ a.script = Top.script /\ a.record = Top.record
      /\ a.version = Top.version /\ a.cell = Top.cell /\ a.replaces = Top.replaces
  BY <1>1 DEF Activations
<1> HIDE DEF a
<1> QED
  BY <1>2, <1>3, <1>4, BecomesEffect

(* The end of a publication takes nothing but the innermost activation off *)
(* the stack, or returns it to the start of the rest of its script.        *)
LEMMA EndsEffect ==
    ASSUME stack \in Seq(Activations), stack # <<>>, ScriptsOK, Ends
    PROVE  /\ stack' \in Seq(Activations)
           /\ Len(stack') \in {Len(stack) - 1, Len(stack)}
           /\ \A i \in 1..Len(stack') : i # Len(stack) => stack'[i] = stack[i]
           /\ Len(stack') = Len(stack) =>
                  /\ stack'[Len(stack)].at = "start"
                  /\ stack'[Len(stack)].script # <<>>
                  /\ Len(stack) > 1 => stack'[Len(stack)].script \in Seq(NestedOps)
                  /\ stack'[Len(stack)].record = Top.record
<1> DEFINE n == Len(stack)
<1>1. /\ Top \in Activations /\ Top = stack[n] /\ n \in Nat /\ n >= 1 /\ n \in Depths
  BY TopIsLast
<1>2. /\ Top.script \in Seq(Ops) /\ Top.script # <<>>
      /\ n > 1 => Top.script \in Seq(NestedOps)
  BY <1>1 DEF ScriptsOK, Activations
<1>3. CASE Len(Top.script) = 1
  <2>1. stack' = SubSeq(stack, 1, n - 1)
    BY <1>3 DEF Ends
  <2>2. /\ stack' \in Seq(Activations) /\ Len(stack') = n - 1
        /\ \A i \in 1..(n - 1) : stack'[i] = stack[i]
    BY <2>1, WithoutLast
  <2> QED
    BY <2>2, <1>1
<1>4. CASE Len(Top.script) # 1
  <2> DEFINE a == [Top EXCEPT !.at = "start", !.script = Tail(@)]
  <2>1. /\ Tail(Top.script) \in Seq(Ops) /\ Tail(Top.script) # <<>>
        /\ n > 1 => Tail(Top.script) \in Seq(NestedOps)
    BY <1>2, <1>4, RestOfScript
  <2>2. a \in Activations
    BY Zenon, <1>1, <2>1 DEF Activations
  <2>3. Becomes(a)
    BY <1>4 DEF Ends
  <2>4. a.at = "start" /\ a.script = Tail(Top.script) /\ a.record = Top.record
    BY <1>1 DEF Activations
  <2> HIDE DEF a
  <2> QED
    BY Zenon, <2>1, <2>2, <2>3, <2>4, <1>1, BecomesEffect
<1> QED
  BY <1>3, <1>4
-----------------------------------------------------------------------------
(* The cells: what the readers take from them before and after a store.    *)
LEMMA ReadsTheCells ==
    /\ Latest = LatestOf(cells) /\ (ShowsGap <=> GapOf(cells))
    /\ Latest' = LatestOf(cells') /\ (ShowsGap' <=> GapOf(cells'))
    /\ \A c \in Cell : Valid(c) <=> c \in Readable
<1>1. \A c \in Cell : Valid(c) <=> c \in Readable
  BY DEF Valid, Readable, ReadableOf, Accepted
<1>2. Latest = LatestOf(cells)
  BY <1>1 DEF Latest, Newer, LatestOf, Readable, Cell, ReadableOf
<1>3. \A c \in Cell : Valid(c)' <=> c \in Readable'
  BY DEF Valid, Readable, ReadableOf, Accepted
<1>4. Latest' = LatestOf(cells')
  <2>1. /\ Valid(1)' <=> 1 \in ReadableOf(cells')
        /\ Valid(2)' <=> 2 \in ReadableOf(cells')
    BY <1>3 DEF Readable, Cell
  <2>2. ReadableOf(cells') = {} <=> (~Valid(1)' /\ ~Valid(2)')
    BY <2>1 DEF ReadableOf, Cell
  <2> QED
    BY <2>1, <2>2 DEF Latest, Newer, LatestOf
<1> QED
  BY <1>1, <1>2, <1>4 DEF ShowsGap, GapOf

LEMMA NewestIsLatest ==
    ASSUME NEW cs \in [Cell -> CellContents], NEW c \in ReadableOf(cs),
           \A d \in ReadableOf(cs) : d # c => cs[d].version < cs[c].version
    PROVE  LatestOf(cs) = c /\ (GapOf(cs) <=> cs[c].record.type = "CoverageGap")
<1>1. c \in {1, 2} /\ ReadableOf(cs) # {}
  BY DEF ReadableOf, Cell
<1>2. cs[1].version \in Nat /\ cs[2].version \in Nat
  BY DEF CellContents, Cell
<1>3. LatestOf(cs) = c
  BY <1>1, <1>2 DEF LatestOf
<1> QED
  BY <1>1, <1>3 DEF GapOf

LEMMA NothingReadable ==
    ASSUME NEW cs, ReadableOf(cs) = {}
    PROVE  LatestOf(cs) = 0 /\ ~GapOf(cs)
BY DEF LatestOf, GapOf

(* A change of a cell that is read neither before nor after.               *)
LEMMA UnreadChange ==
    ASSUME NEW cell \in Cell, cells'[3 - cell] = cells[3 - cell],
           cell \notin Readable, cell \notin Readable'
    PROVE  /\ Readable' = Readable /\ Latest' = Latest /\ (ShowsGap' <=> ShowsGap)
           /\ \A d \in Readable : d # cell /\ cells'[d] = cells[d]
<1>1. \A d \in Cell : d # cell => cells'[d] = cells[d]
  BY DEF Cell
<1>2. Readable' = Readable
  BY <1>1 DEF Readable, ReadableOf
<1>3. \A d \in Readable : d \in Cell /\ d # cell /\ cells'[d] = cells[d]
  BY <1>1 DEF Readable, ReadableOf
<1>4. Latest' = Latest
  <2>1. ReadableOf(cells') = ReadableOf(cells)
    BY <1>2 DEF Readable
  <2>2. \A d \in ReadableOf(cells) : cells'[d] = cells[d]
    BY <1>3 DEF Readable
  <2>3. LatestOf(cells') = LatestOf(cells)
    BY <2>1, <2>2 DEF LatestOf
  <2> QED
    BY <2>3, ReadsTheCells
<1>5. Latest # 0 => Latest \in Readable
  <2>1. LatestOf(cells) # 0 => LatestOf(cells) \in ReadableOf(cells)
    BY DEF LatestOf, ReadableOf, Cell
  <2> QED
    BY <2>1, ReadsTheCells DEF Readable
<1>6. ShowsGap' <=> ShowsGap
  BY <1>3, <1>4, <1>5 DEF ShowsGap
<1> QED
  BY <1>2, <1>3, <1>4, <1>6

(* A store into one cell.                                                  *)
Stored(cell, content) ==
    /\ cells' \in [Cell -> CellContents] /\ cells'[cell] = content
    /\ 3 - cell \in Cell /\ 3 - cell # cell /\ cells'[3 - cell] = cells[3 - cell]
    /\ \A d \in Cell : d = cell \/ d = 3 - cell
    /\ cell \in Readable' <=> Accepted(content)
    /\ 3 - cell \in Readable' <=> 3 - cell \in Readable

LEMMA StoreEffect ==
    ASSUME cells \in [Cell -> CellContents], NEW cell \in Cell,
           NEW content \in CellContents,
           cells' = [cells EXCEPT ![cell] = content]
    PROVE  Stored(cell, content)
<1>1. /\ cells' \in [Cell -> CellContents] /\ cells'[cell] = content
      /\ 3 - cell \in Cell /\ 3 - cell # cell
      /\ \A d \in Cell : d = cell \/ d = 3 - cell
  BY DEF Cell
<1>2. cells'[3 - cell] = cells[3 - cell]
  BY <1>1
<1>3. cell \in Readable' <=> Accepted(content)
  BY <1>1 DEF Readable, ReadableOf
<1>4. 3 - cell \in Readable' <=> 3 - cell \in Readable
  BY <1>1, <1>2 DEF Readable, ReadableOf
<1> QED
  BY <1>1, <1>2, <1>3, <1>4 DEF Stored

(* What an even version is worth: the cell that carries it is not read     *)
(* while its writer is unfinished.                                         *)
LEMMA UnfinishedUnread ==
    ASSUME EInv, NEW i \in Depths, stack[i].at \in Unfinished
    PROVE  stack[i].cell \in Cell /\ stack[i].cell \notin Readable
<1>1. stack[i].at \in Storing
  BY DEF Storing, Unfinished
<1>2. StoreOK(i) /\ UnfinishedOK(i)
  BY <1>1 DEF EInv, StoresOK
<1>3. stack[i].cell \in Cell /\ stack[i].version = next_version - 2
  BY <1>2 DEF StoreOK
<1>4. next_version \in Nat /\ next_version >= 2 /\ next_version % 2 = 0
  BY DEF EInv, TypeOK
<1>5. (stack[i].version + 1) % 2 # 0
  <2>1. next_version - 2 \in Nat /\ (next_version - 2) % 2 = 0
    BY <1>4, Parity
  <2> QED
    BY <2>1, <1>3, Parity
<1>6. ~Accepted(cells[stack[i].cell])
  BY <1>2, <1>5 DEF Accepted, UnfinishedOK, Unfinished
<1> QED
  BY <1>3, <1>6 DEF Readable, ReadableOf

-----------------------------------------------------------------------------
(* What is read from the cells does not depend on anything else.           *)
LEMMA SameCells ==
    ASSUME cells' = cells
    PROVE  /\ Readable' = Readable
           /\ Latest' = Latest /\ (ShowsGap' <=> ShowsGap)
<1>1. Readable' = Readable
  BY DEF Readable
<1>2. Latest' = Latest
  BY DEF Latest, Newer, Valid
<1> QED
  BY <1>1, <1>2 DEF ShowsGap

(* Nothing changes in the cells but the count of the gap that is shown.    *)
Alike ==
    /\ cells' \in [Cell -> CellContents]
    /\ Readable' = Readable /\ Latest' = Latest /\ (ShowsGap' <=> ShowsGap)
    /\ \A c \in Cell :
           /\ cells'[c].version = cells[c].version
           /\ cells'[c].record.type = cells[c].record.type
           /\ cells'[c].record.of = cells[c].record.of
           /\ cells'[c].record.sequence = cells[c].record.sequence
           /\ c \notin Readable => cells'[c] = cells[c]

LEMMA SameIsAlike ==
    ASSUME EInv, cells' = cells
    PROVE  Alike
BY SameCells DEF Alike, EInv, TypeOK

(* The claim passes from nobody to one activation and back.                *)
LEMMA HolderStays ==
    ASSUME OneHolder, claim' = claim,
           \A i \in Depths : stack[i].at \in Holding =>
               i \in Depths' /\ stack'[i].at \in Holding,
           \A i \in Depths' : stack'[i].at \in Holding =>
               i \in Depths /\ stack[i].at \in Holding
    PROVE  OneHolder'
BY Zenon DEF OneHolder

LEMMA HolderEnters ==
    ASSUME OneHolder, ~claim, claim' = TRUE,
           NEW n \in Depths', stack'[n].at \in Holding,
           \A i \in Depths' : stack'[i].at \in Holding =>
               i = n \/ (i \in Depths /\ stack[i].at \in Holding)
    PROVE  OneHolder'
BY Zenon DEF OneHolder

LEMMA HolderLeaves ==
    ASSUME OneHolder, claim' = FALSE,
           NEW n \in Depths, stack[n].at \in Holding,
           \A i \in Depths' : stack'[i].at \in Holding =>
               i # n /\ i \in Depths /\ stack[i].at \in Holding
    PROVE  OneHolder'
BY Zenon DEF OneHolder

(* The innermost activation in a place where it owns no part of the slot.  *)
Calm(i) ==
    /\ i = Len(stack) /\ stack[i].script # <<>>
    /\ i > 1 => stack[i].script \in Seq(NestedOps)
    /\ stack[i].at \in {"start", "claim", "inspect", "dropped", "count"}
    /\ stack[i].at \in {"claim", "inspect"} =>
           /\ Head(stack[i].script) = "intent" =>
                  stack[i].record.type = "TerminationIntent"
           /\ pinned # 0 =>
                  stack[i].record.sequence > cells[pinned].record.sequence
    /\ stack[i].record.sequence <= sequence
    /\ stack[i].at = "count" => ShowsGap /\ Latest = stack[i].cell

(* A step that stores nothing and in which only the innermost activation   *)
(* moves, from a calm place to another, keeps the invariant.               *)
LEMMA CalmStep ==
    ASSUME EInv, Alike, next_version' = next_version,
           newest' = newest, cancelled' = cancelled,
           sequence' \in Nat, sequence' >= sequence,
           stack' \in Seq(Activations), claim' \in BOOLEAN, OneHolder',
           \/ pinned' = pinned
           \/ pinned' = 0 /\ \A i \in Depths : stack[i].at \notin Storing,
           \A i \in Depths : stack[i].at \in Storing \union {"pin"} =>
               i \in Depths' /\ stack'[i] = stack[i],
           \A i \in Depths' : \/ i \in Depths /\ stack'[i] = stack[i]
                             \/ Calm(i)'
    PROVE  EInv'
<1>1. TypeOK'
  BY DEF EInv, TypeOK, Alike
<1>2. ScriptsOK'
  BY DEF EInv, ScriptsOK, Calm
<1>3. IntentsOK'
  <2> SUFFICES ASSUME NEW i \in Depths', stack'[i].at \in Publishing,
                      Head(stack'[i].script) = "intent"
               PROVE  stack'[i].record.type = "TerminationIntent"
    BY DEF IntentsOK
  <2>1. CASE i \in Depths /\ stack'[i] = stack[i]
    BY <2>1 DEF EInv, IntentsOK
  <2>2. CASE Calm(i)'
    BY <2>2 DEF Calm, Publishing, Storing
  <2> QED
    BY <2>1, <2>2
<1>4. StoresOK'
  <2> SUFFICES ASSUME NEW i \in Depths', stack'[i].at \in Storing
               PROVE  /\ StoreOK(i)'
                      /\ stack'[i].at = "odd" => OddOK(i)'
                      /\ stack'[i].at \in Unfinished => UnfinishedOK(i)'
    BY DEF StoresOK
  <2>1. i \in Depths /\ stack'[i] = stack[i] /\ pinned' = pinned
    BY DEF Calm, Storing
  <2>2. /\ StoreOK(i)
        /\ stack[i].at = "odd" => OddOK(i)
        /\ stack[i].at \in Unfinished => UnfinishedOK(i)
    BY <2>1 DEF EInv, StoresOK
  <2>3. StoreOK(i)'
    BY <2>1, <2>2 DEF StoreOK, Cancels, Alike
  <2>4. stack'[i].at = "odd" => OddOK(i)'
    <3>1. stack[i].cell \in Cell /\ 3 - stack[i].cell \in Cell
      BY <2>2 DEF StoreOK, Cell
    <3> QED
      BY <2>1, <2>2, <3>1 DEF OddOK, Cancels, Alike
  <2>5. stack'[i].at \in Unfinished => UnfinishedOK(i)'
    <3> SUFFICES ASSUME stack[i].at \in Unfinished PROVE UnfinishedOK(i)'
      BY <2>1
    <3>1. stack[i].cell \in Cell /\ stack[i].cell \notin Readable
      BY <2>1, UnfinishedUnread
    <3>2. cells'[stack[i].cell] = cells[stack[i].cell]
      BY Zenon, <3>1 DEF Alike
    <3> QED
      BY Zenon, <2>1, <2>2, <3>2 DEF UnfinishedOK
  <2> QED
    BY <2>3, <2>4, <2>5
<1>5. PinsOK'
  <2> SUFFICES ASSUME NEW i \in Depths', stack'[i].at = "pin"
               PROVE  /\ i = 1 /\ stack'[i].cell \in Cell /\ stack'[i].cell \in Readable'
                      /\ cells'[stack'[i].cell].version = newest'
                      /\ cells'[stack'[i].cell].record.type = "TerminationIntent"
    BY DEF PinsOK
  <2>1. i \in Depths /\ stack'[i] = stack[i]
    BY Zenon DEF Calm
  <2> QED
    BY <2>1 DEF EInv, PinsOK, Alike
<1>6. CellsOK'
  <2>1. newest # 0 =>
           \/ \E c \in Cell : c \in Readable' /\ cells'[c].version = newest'
           \/ \E i \in Depths' :
                  stack'[i].at \in Unfinished /\ (pinned' # 0 \/ Cancels(i)')
    <3>1. CASE \E c \in Cell : c \in Readable /\ cells[c].version = newest
      BY Zenon, <3>1 DEF Alike
    <3>2. CASE \E i \in Depths :
                   stack[i].at \in Unfinished /\ (pinned # 0 \/ Cancels(i))
      <4>1. PICK i \in Depths :
                stack[i].at \in Unfinished /\ (pinned # 0 \/ Cancels(i))
        BY <3>2
      <4>2. stack[i].at \in Storing
        BY <4>1 DEF Unfinished, Storing
      <4>3. i \in Depths' /\ stack'[i] = stack[i] /\ pinned' = pinned
        BY <4>2
      <4> QED
        BY <4>1, <4>3 DEF Cancels
    <3> QED
      BY <3>1, <3>2 DEF EInv, CellsOK
  <2> QED
    <3>1. 1 \in Cell /\ 2 \in Cell
      BY DEF Cell
    <3> QED
      BY <2>1, <3>1 DEF EInv, CellsOK, Alike
<1>7. PinnedOK'
  <2> SUFFICES ASSUME pinned' # 0
               PROVE  PinnedOK'
    BY DEF PinnedOK
  <2>1. /\ pinned' = pinned /\ pinned # 0
        /\ pinned \in Cell /\ 3 - pinned \in Cell
    BY DEF EInv, TypeOK, Cell
  <2>2. \A i \in Depths' : stack'[i].at \in Publishing =>
               stack'[i].record.sequence > cells[pinned].record.sequence
    <3> SUFFICES ASSUME NEW i \in Depths', stack'[i].at \in Publishing
                 PROVE  stack'[i].record.sequence > cells[pinned].record.sequence
      OBVIOUS
    <3>1. CASE i \in Depths /\ stack'[i] = stack[i]
      BY <3>1, <2>1 DEF EInv, PinnedOK
    <3>2. CASE Calm(i)'
      BY Zenon, <3>2, <2>1 DEF Calm, Publishing, Storing, Alike
    <3> QED
      BY <3>1, <3>2
  <2> QED
    BY <2>1, <2>2 DEF EInv, PinnedOK, Alike
<1>8. SequencesOK'
  <2>1. ASSUME NEW c \in Cell PROVE cells'[c].record.sequence <= sequence'
    <3>1. cells[c].record.sequence <= sequence'
      BY DEF EInv, SequencesOK, TypeOK, CellContents, Records
    <3> QED
      BY Zenon, <3>1 DEF Alike
  <2>2. ASSUME NEW i \in Depths' PROVE stack'[i].record.sequence <= sequence'
    <3>1. CASE i \in Depths /\ stack'[i] = stack[i]
      <4>1. stack[i] \in Activations
        BY <3>1 DEF EInv, TypeOK, Depths
      <4>2. stack[i].record.sequence \in Nat
        BY Zenon, <4>1 DEF Activations, Records
      <4> QED
        BY <3>1, <4>2 DEF EInv, SequencesOK, TypeOK
    <3>2. CASE Calm(i)'
      BY Zenon, <3>2 DEF Calm
    <3> QED
      BY <3>1, <3>2
  <2> QED
    BY <2>1, <2>2 DEF SequencesOK
<1>9. CountsOK'
  <2> SUFFICES ASSUME NEW i \in Depths', stack'[i].at = "count"
               PROVE  /\ ShowsGap' /\ Latest' = stack'[i].cell
                      /\ \A j \in Depths' :
                             j > i => stack'[j].at \notin Holding \ {"inspect"}
    BY DEF CountsOK
  <2>1. CASE i \in Depths /\ stack'[i] = stack[i]
    <3>1. /\ ShowsGap /\ Latest = stack[i].cell
          /\ \A j \in Depths : j > i => stack[j].at \notin Holding \ {"inspect"}
      BY <2>1 DEF EInv, CountsOK
    <3>2. ASSUME NEW j \in Depths', j > i
          PROVE  stack'[j].at \notin Holding \ {"inspect"}
      BY Zenon, <3>1, <3>2 DEF Calm, Holding
    <3> QED
      BY Zenon, <2>1, <3>1, <3>2 DEF Alike
  <2>2. CASE Calm(i)'
    <3>1. \A j \in Depths' : ~(j > i)
      BY <2>2 DEF Calm, Depths
    <3> QED
      BY <2>2, <3>1 DEF Calm
  <2> QED
    BY <2>1, <2>2
<1> QED
  BY <1>1, <1>2, <1>3, <1>4, <1>5, <1>6, <1>7, <1>8, <1>9 DEF EInv
-----------------------------------------------------------------------------
(* The steps of the innermost activation that store nothing: it takes the  *)
(* claim, gives it back, or has nothing to do with it.                     *)
LEMMA TopStep ==
    ASSUME EInv, stack # <<>>, Top.at \notin Storing \union {"pin"},
           Alike, next_version' = next_version,
           newest' = newest, cancelled' = cancelled,
           sequence' \in Nat, sequence' >= sequence,
           \/ pinned' = pinned
           \/ pinned' = 0 /\ \A i \in Depths : stack[i].at \notin Storing,
           stack' \in Seq(Activations),
           Len(stack') \in {Len(stack) - 1, Len(stack)},
           \A i \in 1..Len(stack') : i # Len(stack) => stack'[i] = stack[i],
           \A i \in Depths' : i = Len(stack) => Calm(i)',
           \/ /\ claim' = claim /\ Top.at \notin Holding
              /\ \A i \in Depths' : i = Len(stack) => stack'[i].at \notin Holding
           \/ /\ ~claim /\ claim' = TRUE /\ Len(stack') = Len(stack)
              /\ stack'[Len(stack)].at \in Holding
           \/ /\ Top.at \in Holding /\ claim' = FALSE
              /\ \A i \in Depths' : i = Len(stack) => stack'[i].at \notin Holding
    PROVE  EInv'
<1> DEFINE n == Len(stack)
<1>1. n \in Nat /\ n >= 1 /\ n \in Depths /\ Top = stack[n]
  BY TopIsLast DEF EInv, TypeOK
<1>2. \A i \in Depths' : i # n => i \in Depths /\ stack'[i] = stack[i]
  BY <1>1 DEF Depths
<1>3. \A i \in Depths : i # n => i \in Depths' /\ stack'[i] = stack[i]
  BY <1>1 DEF Depths
<1>4. Len(stack') = n => n \in Depths'
  BY <1>1 DEF Depths
<1>5. OneHolder /\ claim \in BOOLEAN
  BY DEF EInv, TypeOK
<1> HIDE DEF n
<1>6. OneHolder' /\ claim' \in BOOLEAN
  <2>1. CASE /\ claim' = claim /\ Top.at \notin Holding
             /\ \A i \in Depths' : i = n => stack'[i].at \notin Holding
    <3>1. \A i \in Depths : stack[i].at \in Holding =>
               i \in Depths' /\ stack'[i].at \in Holding
      BY Zenon, <2>1, <1>1, <1>3
    <3>2. \A i \in Depths' : stack'[i].at \in Holding =>
               i \in Depths /\ stack[i].at \in Holding
      BY <2>1, <1>2
    <3> QED
      BY <3>1, <3>2, <2>1, <1>5, HolderStays
  <2>2. CASE /\ ~claim /\ claim' = TRUE /\ Len(stack') = n
             /\ stack'[n].at \in Holding
    <3>1. \A i \in Depths' : stack'[i].at \in Holding =>
               i = n \/ (i \in Depths /\ stack[i].at \in Holding)
      BY <1>2
    <3> QED
      BY <3>1, <2>2, <1>4, <1>5, HolderEnters
  <2>3. CASE /\ Top.at \in Holding /\ claim' = FALSE
             /\ \A i \in Depths' : i = n => stack'[i].at \notin Holding
    <3>1. \A i \in Depths' : stack'[i].at \in Holding =>
               i # n /\ i \in Depths /\ stack[i].at \in Holding
      BY <2>3, <1>2
    <3>2. n \in Depths /\ stack[n].at \in Holding
      BY <2>3, <1>1
    <3> QED
      BY Zenon, <3>1, <3>2, <2>3, <1>5, HolderLeaves
  <2> QED
    BY Zenon, <2>1, <2>2, <2>3 DEF n
<1>7. \A i \in Depths : stack[i].at \in Storing \union {"pin"} =>
               i \in Depths' /\ stack'[i] = stack[i]
  BY Zenon, <1>1, <1>3
<1>8. \A i \in Depths' : \/ i \in Depths /\ stack'[i] = stack[i]
                        \/ Calm(i)'
  BY <1>2 DEF n
<1> QED
  BY <1>6, <1>7, <1>8, CalmStep

(* What the invariant says of the innermost activation.                    *)
LEMMA TopFacts ==
    ASSUME EInv, stack # <<>>
    PROVE  /\ stack \in Seq(Activations) /\ Top \in Activations
           /\ Top = stack[Len(stack)] /\ Len(stack) \in Nat /\ Len(stack) >= 1
           /\ Len(stack) \in Depths /\ ScriptsOK
           /\ Top.script \in Seq(Ops) /\ Top.script # <<>>
           /\ Len(stack) > 1 => Top.script \in Seq(NestedOps)
           /\ Op \in Ops /\ (Len(stack) > 1 => Op \in NestedOps)
           /\ Top.record \in Records /\ sequence \in Nat
           /\ Top.record.sequence <= sequence
           /\ (Top.at \in Publishing /\ Op = "intent") =>
                  Top.record.type = "TerminationIntent"
           /\ (Top.at \in Publishing /\ pinned # 0) =>
                  Top.record.sequence > cells[pinned].record.sequence
           /\ Top.at \in Holding =>
                  /\ claim /\ \A i \in Depths : i # Len(stack) => stack[i].at \notin Holding
           /\ Top.at \in Holding \ {"inspect"} =>
                  \A i \in Depths : stack[i].at # "count"
<1>1. /\ stack \in Seq(Activations) /\ Top \in Activations
      /\ Top = stack[Len(stack)] /\ Len(stack) \in Nat /\ Len(stack) >= 1
      /\ Len(stack) \in Depths /\ ScriptsOK /\ sequence \in Nat
  BY TopIsLast DEF EInv, TypeOK
<1>2. /\ Top.script \in Seq(Ops) /\ Top.script # <<>> /\ Top.record \in Records
      /\ Len(stack) > 1 => Top.script \in Seq(NestedOps)
  BY Zenon, <1>1 DEF ScriptsOK, Activations
<1>3. Op \in Ops /\ (Len(stack) > 1 => Op \in NestedOps)
  BY <1>2, RestOfScript DEF Op
<1>4. Top.record.sequence <= sequence
  BY <1>1 DEF EInv, SequencesOK
<1>5. (Top.at \in Publishing /\ Op = "intent") =>
          Top.record.type = "TerminationIntent"
  BY <1>1 DEF EInv, IntentsOK, Op
<1>6. (Top.at \in Publishing /\ pinned # 0) =>
          Top.record.sequence > cells[pinned].record.sequence
  BY <1>1 DEF EInv, PinnedOK
<1>7. Top.at \in Holding =>
          /\ claim /\ \A i \in Depths : i # Len(stack) => stack[i].at \notin Holding
  BY <1>1 DEF EInv, OneHolder
<1>8. Top.at \in Holding \ {"inspect"} =>
          \A i \in Depths : stack[i].at # "count"
  <2> SUFFICES ASSUME Top.at \in Holding \ {"inspect"},
                      NEW i \in Depths, stack[i].at = "count"
               PROVE  FALSE
    OBVIOUS
  <2>1. ~(Len(stack) > i)
    BY <1>1 DEF EInv, CountsOK
  <2>2. i = Len(stack)
    BY <2>1, <1>1 DEF Depths
  <2> QED
    BY <2>2, <1>1 DEF Holding
<1> QED
  BY Zenon, <1>1, <1>2, <1>3, <1>4, <1>5, <1>6, <1>7, <1>8

LEMMA StartStep ==
    ASSUME EInv, Start
    PROVE  EInv'
<1> DEFINE n == Len(stack)
           r == [type |-> RecordType, depth |-> Top.depth,
                 signal |-> IF Op = "gap" THEN NoSignal ELSE Top.signal,
                 directed |-> Op # "gap" /\ Top.directed,
                 sequence |-> sequence + 1, count |-> 0, of |-> 0]
           a == [Top EXCEPT !.at = "claim", !.record = r]
<1>1. stack # <<>> /\ Top.at = "start"
  BY DEF Start, At
<1>2. /\ stack \in Seq(Activations) /\ Top \in Activations
      /\ Top.script # <<>> /\ (n > 1 => Top.script \in Seq(NestedOps))
      /\ sequence \in Nat /\ n \in Nat
  BY <1>1, TopFacts
<1>3. r \in Records /\ r.sequence = sequence + 1
      /\ (Op = "intent" => r.type = "TerminationIntent")
  <2>1. RecordType \in {"TerminationIntent", "CoverageGap", "Syscall", "Signal"}
    BY DEF RecordType
  <2>2. Op = "intent" => RecordType = "TerminationIntent"
    BY DEF RecordType
  <2>3. Top.depth \in Nat /\ Top.signal \in Signals \union {NoSignal}
    BY <1>2 DEF Activations
  <2>4. (Op # "gap" /\ Top.directed) \in BOOLEAN
    OBVIOUS
  <2> QED
    BY <1>2, <2>1, <2>2, <2>3, <2>4 DEF Records
<1> HIDE DEF r
<1>4. a \in Activations
  BY Zenon, <1>2, <1>3 DEF Activations
<1>5. a.at = "claim" /\ a.record = r /\ a.script = Top.script
  BY <1>2 DEF Activations
<1>6. Becomes(a) /\ sequence' = sequence + 1
  BY DEF Start, r
<1>7. UNCHANGED <<cells, claim, next_version, pinned, newest, cancelled>>
  BY DEF Start, slot, history
<1> HIDE DEF a
<1>8. /\ stack' \in Seq(Activations) /\ Len(stack') = n /\ stack'[n] = a
      /\ \A i \in 1..n : i # n => stack'[i] = stack[i]
  BY <1>1, <1>2, <1>4, <1>6, BecomesEffect
<1>9. \A i \in Depths' : i = n => Calm(i)'
  <2>1. pinned # 0 => sequence + 1 > cells[pinned].record.sequence
    <3> SUFFICES ASSUME pinned # 0
                 PROVE  sequence + 1 > cells[pinned].record.sequence
      OBVIOUS
    <3>1. pinned \in Cell /\ cells[pinned] \in CellContents
      BY DEF EInv, TypeOK
    <3>2. cells[pinned].record.sequence \in Nat
      BY <3>1 DEF CellContents, Records
    <3>3. cells[pinned].record.sequence <= sequence
      BY <3>1 DEF EInv, SequencesOK
    <3> QED
      BY <3>2, <3>3, <1>2
  <2> QED
    BY <2>1, <1>2, <1>3, <1>5, <1>6, <1>7, <1>8 DEF Calm, Op
<1>10. Top.at \notin Holding /\ a.at \notin Holding
       /\ Top.at \notin Storing \union {"pin"}
  BY <1>1, <1>5 DEF Holding, Storing
<1>11. /\ claim' = claim /\ Top.at \notin Holding
       /\ \A i \in Depths' : i = n => stack'[i].at \notin Holding
  BY <1>5, <1>7, <1>8, <1>10
<1>12. /\ Len(stack') \in {n - 1, n} /\ sequence' \in Nat /\ sequence' >= sequence
       /\ \A i \in 1..Len(stack') : i # n => stack'[i] = stack[i]
  BY <1>2, <1>6, <1>8
<1> QED
  BY Zenon, <1>1, <1>7, <1>8, <1>9, <1>10, <1>11, <1>12, TopStep, SameIsAlike

(* A step that ends the publication of an activation which stores nothing. *)
LEMMA EndStep ==
    ASSUME EInv, stack # <<>>, Top.at \notin Storing \union {"pin"}, Ends,
           Alike, next_version' = next_version,
           newest' = newest, cancelled' = cancelled, sequence' = sequence,
           \/ pinned' = pinned
           \/ pinned' = 0 /\ \A i \in Depths : stack[i].at \notin Storing,
           \/ claim' = claim /\ Top.at \notin Holding
           \/ claim' = FALSE /\ Top.at \in Holding
    PROVE  EInv'
<1> DEFINE n == Len(stack)
<1>1. /\ stack \in Seq(Activations) /\ ScriptsOK /\ sequence \in Nat /\ n \in Nat
      /\ Top.record.sequence <= sequence
  BY TopFacts
<1>2. /\ stack' \in Seq(Activations) /\ Len(stack') \in {n - 1, n}
      /\ \A i \in 1..Len(stack') : i # n => stack'[i] = stack[i]
      /\ Len(stack') = n =>
                  /\ stack'[n].at = "start" /\ stack'[n].script # <<>>
                  /\ n > 1 => stack'[n].script \in Seq(NestedOps)
                  /\ stack'[n].record = Top.record
  BY Zenon, <1>1, EndsEffect
<1>3. \A i \in Depths' : i = n => Len(stack') = n
  BY <1>1, <1>2 DEF Depths
<1>4. \A i \in Depths' : i = n => Calm(i)'
  BY <1>1, <1>2, <1>3 DEF Calm
<1>5. \A i \in Depths' : i = n => stack'[i].at \notin Holding
  BY Zenon, <1>2, <1>3 DEF Holding
<1>6. sequence' \in Nat /\ sequence' >= sequence
  BY <1>1
<1> HIDE DEF n
<1>7. CASE claim' = claim /\ Top.at \notin Holding
  BY Zenon, <1>2, <1>4, <1>5, <1>6, <1>7, TopStep DEF n
<1>8. CASE claim' = FALSE /\ Top.at \in Holding
  BY Zenon, <1>2, <1>4, <1>5, <1>6, <1>8, TopStep DEF n
<1> QED
  BY Zenon, <1>7, <1>8

(* A step to a calm place.                                                 *)
LEMMA GoesStep ==
    ASSUME EInv, stack # <<>>, Top.at \notin Storing \union {"pin"},
           NEW place \in {"inspect", "dropped"}, Goes(place),
           cells' = cells, next_version' = next_version,
           newest' = newest, cancelled' = cancelled, sequence' = sequence,
           place = "inspect" => Top.at = "claim",
           \/ pinned' = pinned
           \/ pinned' = 0 /\ \A i \in Depths : stack[i].at \notin Storing,
           \/ claim' = claim /\ Top.at \notin Holding /\ place # "inspect"
           \/ ~claim /\ claim' = TRUE /\ place = "inspect"
           \/ claim' = FALSE /\ Top.at \in Holding /\ place # "inspect"
    PROVE  EInv'
<1> DEFINE n == Len(stack)
<1>1. /\ stack \in Seq(Activations) /\ ScriptsOK /\ sequence \in Nat /\ n \in Nat
      /\ Top.record.sequence <= sequence /\ Top.script # <<>>
      /\ n > 1 => Top.script \in Seq(NestedOps)
  BY TopFacts
<1>2. Top.at = "claim" =>
          /\ Op = "intent" => Top.record.type = "TerminationIntent"
          /\ pinned # 0 => Top.record.sequence > cells[pinned].record.sequence
  BY TopFacts DEF Publishing
<1>3. /\ stack' \in Seq(Activations) /\ Len(stack') = n
      /\ \A i \in 1..n : i # n => stack'[i] = stack[i]
      /\ stack'[n].at = place /\ stack'[n].script = Top.script
      /\ stack'[n].record = Top.record
  BY <1>1, GoesEffect
<1>4. \A i \in Depths' : i = n => Calm(i)'
  BY Zenon, <1>1, <1>2, <1>3 DEF Calm, Op
<1>5. \A i \in Depths' : i = n => (stack'[i].at \in Holding <=> place = "inspect")
  BY Zenon, <1>3 DEF Holding
<1>6. /\ sequence' \in Nat /\ sequence' >= sequence
      /\ Len(stack') \in {n - 1, n}
      /\ \A i \in 1..Len(stack') : i # n => stack'[i] = stack[i]
  BY <1>1, <1>3
<1>7. n \in Depths'
  BY <1>1, <1>3, TopIsLast DEF Depths
<1> HIDE DEF n
<1>8. CASE claim' = claim /\ Top.at \notin Holding /\ place # "inspect"
  BY Zenon, <1>3, <1>4, <1>5, <1>6, <1>8, TopStep, SameIsAlike DEF n
<1>9. CASE ~claim /\ claim' = TRUE /\ place = "inspect"
  <2>1. stack'[n].at \in Holding
    BY <1>5, <1>7, <1>9
  <2> QED
    BY Zenon, <2>1, <1>3, <1>4, <1>6, <1>9, TopStep, SameIsAlike DEF n
<1>10. CASE claim' = FALSE /\ Top.at \in Holding /\ place # "inspect"
  BY Zenon, <1>3, <1>4, <1>5, <1>6, <1>10, TopStep, SameIsAlike DEF n
<1> QED
  BY Zenon, <1>8, <1>9, <1>10

LEMMA ClaimStep ==
    ASSUME EInv, Claim
    PROVE  EInv'
<1>1. stack # <<>> /\ Top.at = "claim"
  BY DEF Claim, At
<1>2. UNCHANGED <<cells, next_version, pinned, sequence, newest, cancelled>>
  BY DEF Claim, history
<1>3. Top.at \notin Storing \union {"pin"} /\ Top.at \notin Holding
  BY <1>1 DEF Storing, Holding
<1>4. CASE ~claim /\ claim' = TRUE /\ Goes("inspect")
  BY <1>1, <1>2, <1>3, <1>4, GoesStep
<1>5. CASE claim' = claim /\ Goes("dropped")
  BY <1>1, <1>2, <1>3, <1>5, GoesStep
<1>6. CASE claim' = claim /\ Ends
  BY <1>1, <1>2, <1>3, <1>6, EndStep, SameIsAlike
<1> QED
  BY Zenon, <1>4, <1>5, <1>6 DEF Claim

LEMMA ReleaseStep ==
    ASSUME EInv, Release
    PROVE  EInv'
<1>1. stack # <<>> /\ Top.at = "release"
  BY DEF Release, At
<1>2. /\ UNCHANGED <<cells, next_version, pinned, sequence, newest, cancelled>>
      /\ claim' = FALSE /\ Ends
  BY DEF Release, history
<1>3. Top.at \notin Storing \union {"pin"} /\ Top.at \in Holding
  BY <1>1 DEF Storing, Holding
<1> QED
  BY Zenon, <1>1, <1>2, <1>3, EndStep, SameIsAlike

LEMMA DroppedStep ==
    ASSUME EInv, Dropped
    PROVE  EInv'
<1> DEFINE n == Len(stack)
<1>1. stack # <<>> /\ Top.at = "dropped"
  BY DEF Dropped, At
<1>2. UNCHANGED <<cells, claim, next_version, pinned, sequence, newest, cancelled>>
  BY DEF Dropped, slot, history
<1>3. Top.at \notin Storing \union {"pin"} /\ Top.at \notin Holding
  BY <1>1 DEF Storing, Holding
<1>4. CASE ShowsGap /\ Becomes([Top EXCEPT !.at = "count", !.cell = Latest])
  <2> DEFINE a == [Top EXCEPT !.at = "count", !.cell = Latest]
  <2>1. /\ stack \in Seq(Activations) /\ sequence \in Nat /\ n \in Nat
        /\ Top \in Activations
        /\ Top.record.sequence <= sequence /\ Top.script # <<>>
        /\ n > 1 => Top.script \in Seq(NestedOps)
    BY <1>1, TopFacts
  <2>2. Latest \in Cell \union {0}
    BY DEF Latest, Cell
  <2>3. a \in Activations
    BY Zenon, <2>1, <2>2 DEF Activations
  <2>4. /\ a.at = "count" /\ a.cell = Latest /\ a.record = Top.record
        /\ a.script = Top.script
    BY <2>1 DEF Activations
  <2> HIDE DEF a
  <2>5. /\ stack' \in Seq(Activations) /\ Len(stack') = n /\ stack'[n] = a
        /\ \A i \in 1..n : i # n => stack'[i] = stack[i]
    BY <1>1, <1>4, <2>1, <2>3, BecomesEffect DEF a
  <2>6. ShowsGap' /\ Latest' = Latest
    BY <1>2, <1>4, SameCells
  <2>7. \A i \in Depths' : i = n => Calm(i)'
    BY Zenon, <1>2, <2>1, <2>4, <2>5, <2>6 DEF Calm
  <2>8. \A i \in Depths' : i = n => stack'[i].at \notin Holding
    BY <2>4, <2>5 DEF Holding
  <2>9. /\ Len(stack') \in {n - 1, n} /\ sequence' \in Nat /\ sequence' >= sequence
        /\ \A i \in 1..Len(stack') : i # n => stack'[i] = stack[i]
    BY <1>2, <2>1, <2>5
  <2> QED
    BY Zenon, <1>1, <1>2, <1>3, <2>5, <2>7, <2>8, <2>9, TopStep, SameIsAlike
<1>5. CASE Ends
  BY <1>1, <1>2, <1>3, <1>5, EndStep, SameIsAlike
<1> QED
  BY <1>4, <1>5 DEF Dropped
-----------------------------------------------------------------------------
(* Callbacks and deliveries: an activation with a script enters the stack. *)
LEMMA Joined ==
    ASSUME NEW S, NEW s \in Seq(S), NEW t \in Seq(S)
    PROVE  /\ s \o t \in Seq(S)
           /\ (s # <<>> \/ t # <<>>) => s \o t # <<>>
<1>1. s \o t \in Seq(S) /\ Len(s \o t) = Len(s) + Len(t)
  OBVIOUS
<1>2. Len(s) \in Nat /\ Len(t) \in Nat
  BY SequenceLength
<1>3. (s # <<>> => Len(s) # 0) /\ (t # <<>> => Len(t) # 0)
  BY SequenceLength
<1>4. (s # <<>> \/ t # <<>>) => Len(s \o t) # 0
  BY <1>1, <1>2, <1>3
<1>5. Len(s \o t) # 0 => s \o t # <<>>
  BY <1>1, SequenceLength
<1> QED
  BY <1>1, <1>4, <1>5

LEMMA EntersStep ==
    ASSUME EInv, NEW depth \in Nat, NEW signal \in Signals \union {NoSignal},
           NEW directed \in BOOLEAN, NEW script \in Seq(Ops), script # <<>>,
           stack # <<>> => script \in Seq(NestedOps),
           Enters(depth, signal, directed, script)
    PROVE  EInv'
<1> DEFINE n == Len(stack)
           a == [depth |-> depth, signal |-> signal, directed |-> directed,
                 script |-> script, at |-> "start", record |-> Blank,
                 version |-> 0, cell |-> 0, replaces |-> 0]
<1>1. /\ stack \in Seq(Activations) /\ n \in Nat /\ sequence \in Nat
      /\ claim \in BOOLEAN /\ OneHolder
  BY DEF EInv, TypeOK
<1>2. Blank \in Records /\ Blank.sequence = 0
  BY DEF Blank, Records
<1>3. a \in Activations
  BY <1>2 DEF Activations
<1>4. a.at = "start" /\ a.script = script /\ a.record = Blank
  OBVIOUS
<1>5. /\ stack' = Append(stack, a)
      /\ UNCHANGED <<cells, claim, next_version, pinned, sequence, newest, cancelled>>
  BY Zenon DEF Enters, slot, history
<1> HIDE DEF a
<1>6. /\ stack' \in Seq(Activations) /\ Len(stack') = n + 1
      /\ \A i \in 1..n : stack'[i] = stack[i]
      /\ stack'[n + 1] = a
  BY <1>1, <1>3, <1>5
<1>7. n + 1 > 1 => stack # <<>>
  BY <1>1, SequenceLength
<1>8. /\ \A i \in Depths : i \in Depths' /\ stack'[i] = stack[i]
      /\ \A i \in Depths' : \/ i \in Depths /\ stack'[i] = stack[i]
                           \/ i = n + 1
  BY <1>1, <1>6 DEF Depths
<1>9. \A i \in Depths' : i = n + 1 => Calm(i)'
  <2>1. Blank.sequence <= sequence
    BY <1>1, <1>2
  <2> QED
    BY Zenon, <2>1, <1>4, <1>5, <1>6, <1>7 DEF Calm
<1>10. \A i \in Depths' : stack'[i].at \in Holding =>
           i \in Depths /\ stack[i].at \in Holding
  BY Zenon, <1>4, <1>6, <1>8 DEF Holding
<1>11. OneHolder'
  BY Zenon, <1>1, <1>5, <1>8, <1>10, HolderStays
<1>12. sequence' \in Nat /\ sequence' >= sequence
  BY <1>1, <1>5
<1> QED
  BY Zenon, <1>1, <1>5, <1>6, <1>8, <1>9, <1>11, <1>12, CalmStep, SameIsAlike

LEMMA CallbackStep ==
    ASSUME EInv, NEW signal \in Signals \union {NoSignal},
           NEW directed \in BOOLEAN, NEW stored \in BOOLEAN,
           NEW script \in Seq(Ops), stored => script # <<>>,
           Callback(signal, directed, stored, script)
    PROVE  EInv'
<1> DEFINE all == IF stored THEN script ELSE <<"gap">> \o script
<1>1. all \in Seq(Ops) /\ all # <<>>
  <2>1. <<"gap">> \in Seq(Ops) /\ <<"gap">> # <<>>
    BY DEF Ops
  <2>2. <<"gap">> \o script \in Seq(Ops) /\ <<"gap">> \o script # <<>>
    BY <2>1, Joined
  <2> QED
    BY <2>2
<1>2. stack = <<>> /\ Enters(0, signal, directed, all)
  BY DEF Callback
<1> HIDE DEF all
<1> QED
  BY Zenon, <1>1, <1>2, EntersStep

LEMMA DepthIsNat ==
    ASSUME stack \in Seq(Activations)
    PROVE  Depth \in Nat
<1>1. CASE stack # <<>>
  BY <1>1, TopIsLast DEF Depth, Activations
<1> QED
  BY <1>1 DEF Depth

LEMMA DeliveryStep ==
    ASSUME EInv, NEW signal \in Signals,
           NEW proof \in {"NotCompleted", "Unavailable", "Completed"},
           NEW disposition \in {"ignore", "default", "handler"},
           NEW queued \in BOOLEAN,
           Delivery(signal, proof, disposition, queued)
    PROVE  EInv'
<1> DEFINE outcome == IF proof = "Completed" THEN <<"cancel">> ELSE <<"signal">>
           first == IF proof = "Unavailable" THEN <<"gap">> ELSE <<>>
           last == IF queued THEN <<>> ELSE <<"gap">>
           script == SignalScript(proof, disposition, queued)
<1>1. ASSUME NEW S, {"gap", "signal"} \subseteq S, outcome \in Seq(S)
      PROVE  script \in Seq(S) /\ script # <<>>
  <2>1. /\ first \in Seq(S) /\ last \in Seq(S)
        /\ <<"signal">> \in Seq(S) /\ <<"signal">> # <<>>
        /\ <<"signal", "signal">> \in Seq(S)
    BY <1>1
  <2>2. outcome # <<>>
    OBVIOUS
  <2>3. \/ script = first \o outcome
        \/ script = first \o <<"signal">>
        \/ script = ((first \o <<"signal", "signal">>) \o last) \o outcome
    BY DEF SignalScript
  <2> HIDE DEF first, last, outcome, script
  <2>4. CASE script = first \o outcome
    BY <1>1, <2>1, <2>2, <2>4, Joined
  <2>5. CASE script = first \o <<"signal">>
    BY <2>1, <2>5, Joined
  <2>6. CASE script = ((first \o <<"signal", "signal">>) \o last) \o outcome
    <3>1. first \o <<"signal", "signal">> \in Seq(S)
      BY <2>1, Joined
    <3>2. (first \o <<"signal", "signal">>) \o last \in Seq(S)
      BY <2>1, <3>1, Joined
    <3> QED
      BY <1>1, <2>2, <2>6, <3>2, Joined
  <2> QED
    BY Zenon, <2>3, <2>4, <2>5, <2>6
<1>2. script \in Seq(Ops) /\ script # <<>>
  <2>1. /\ <<"cancel">> \in Seq(Ops) /\ <<"signal">> \in Seq(Ops)
        /\ {"gap", "signal"} \subseteq Ops
    BY DEF Ops
  <2>2. outcome \in Seq(Ops)
    BY <2>1
  <2> HIDE DEF script, outcome
  <2> QED
    BY <2>1, <2>2, <1>1
<1>3. stack # <<>> => script \in Seq(NestedOps)
  <2> SUFFICES ASSUME stack # <<>> PROVE script \in Seq(NestedOps)
    OBVIOUS
  <2>1. proof # "Completed"
    BY DEF Delivery, Proofs
  <2>2. outcome \in Seq(NestedOps) /\ {"gap", "signal"} \subseteq NestedOps
    BY <2>1 DEF NestedOps
  <2> HIDE DEF script, outcome
  <2> QED
    BY <2>2, <1>1
<1>4. Enters(Depth, signal, TRUE, script)
  BY Zenon DEF Delivery
<1>5. Depth \in Nat
  BY DepthIsNat DEF EInv, TypeOK
<1> HIDE DEF script
<1> QED
  BY Zenon, <1>2, <1>3, <1>4, <1>5, EntersStep

LEMMA InstructionStep ==
    ASSUME EInv, Instruction
    PROVE  EInv'
<1>1. UNCHANGED <<cells, claim, next_version, pinned, sequence, stack, newest,
                  cancelled>>
  BY DEF Instruction, slot, history
<1>2. Depths' = Depths /\ OneHolder'
  BY <1>1 DEF EInv, OneHolder, Depths
<1>3. sequence' \in Nat /\ sequence' >= sequence /\ claim' \in BOOLEAN
      /\ stack' \in Seq(Activations)
  BY <1>1 DEF EInv, TypeOK
<1> QED
  BY <1>1, <1>2, <1>3, CalmStep, SameIsAlike
-----------------------------------------------------------------------------
(* A step of the activation that holds the claim and goes on holding it.   *)
Held(n) ==
    /\ stack # <<>> /\ n = Len(stack) /\ stack[n].at \in Holding
    /\ claim' = claim /\ sequence' = sequence
    /\ stack' \in Seq(Activations) /\ Len(stack') = n
    /\ \A i \in 1..n : i # n => stack'[i] = stack[i]
    /\ stack'[n].at \in Holding /\ stack'[n].script = stack[n].script
    /\ stack'[n].record.sequence = stack[n].record.sequence
    /\ stack'[n].record.type = stack[n].record.type
    /\ stack'[n].at \in Publishing => stack[n].at \in Publishing
    /\ \A i \in Depths : stack[i].at # "count"

LEMMA HeldStep ==
    ASSUME EInv, NEW n, Held(n)
    PROVE  /\ Depths' = Depths /\ n \in Depths /\ Top = stack[n]
           /\ ScriptsOK' /\ OneHolder' /\ IntentsOK' /\ CountsOK'
           /\ \A i \in Depths : i # n =>
                  /\ stack'[i] = stack[i] /\ stack[i].at \notin Holding
                  /\ stack[i].at \notin Storing /\ stack[i].at # "pin"
           /\ \A i \in Depths : stack'[i].record.sequence <= sequence
           /\ pinned # 0 => \A i \in Depths : stack'[i].at \in Publishing =>
                  stack'[i].record.sequence > cells[pinned].record.sequence
<1>1. /\ n \in Depths /\ Top = stack[n] /\ n \in Nat
      /\ \A i \in Depths : i # n => stack[i].at \notin Holding
  BY Zenon, TopFacts DEF Held
<1>2. Depths' = Depths
  BY DEF Held, Depths
<1>3. \A i \in Depths : i # n =>
                  /\ stack'[i] = stack[i] /\ stack[i].at \notin Holding
                  /\ stack[i].at \notin Storing /\ stack[i].at # "pin"
  BY Zenon, <1>1 DEF Held, Depths, Holding, Storing
<1>4. ScriptsOK'
  BY Zenon, <1>2, <1>3 DEF Held, EInv, ScriptsOK
<1>5. OneHolder'
  BY Zenon, <1>1, <1>2, <1>3, HolderStays DEF Held, EInv
<1>6. IntentsOK'
  BY <1>2, <1>3 DEF Held, EInv, IntentsOK
<1>7. CountsOK'
  <2>1. \A i \in Depths' : stack'[i].at # "count"
    BY Zenon, <1>2, <1>3 DEF Held, Holding
  <2> QED
    BY <2>1 DEF CountsOK
<1>8. \A i \in Depths : stack'[i].record.sequence <= sequence
  BY Zenon, <1>3 DEF Held, EInv, SequencesOK
<1>9. pinned # 0 => \A i \in Depths : stack'[i].at \in Publishing =>
          stack'[i].record.sequence > cells[pinned].record.sequence
  BY Zenon, <1>3 DEF Held, EInv, PinnedOK
<1> QED
  BY Zenon, <1>1, <1>2, <1>3, <1>4, <1>5, <1>6, <1>7, <1>8, <1>9

(* A store into a cell that is not read before it and not read after it.   *)
LEMMA UnreadStore ==
    ASSUME EInv, NEW n, Held(n), NEW x \in CellContents,
           stack[n].at \in Unfinished, stack'[n].at \in Unfinished,
           stack'[n].record = stack[n].record,
           stack'[n].version = stack[n].version, stack'[n].cell = stack[n].cell,
           Stored(stack[n].cell, x), ~Accepted(x),
           x.record.sequence <= sequence,
           next_version' = next_version, pinned' = pinned,
           newest' = newest, cancelled' = cancelled, UnfinishedOK(n)'
    PROVE  EInv'
<1>0. PICK c : c = stack[n].cell
  BY Zenon
<1>1. /\ Depths' = Depths /\ n \in Depths
      /\ ScriptsOK' /\ OneHolder' /\ IntentsOK' /\ CountsOK'
      /\ \A i \in Depths : i # n =>
             /\ stack'[i] = stack[i] /\ stack[i].at \notin Holding
             /\ stack[i].at \notin Storing /\ stack[i].at # "pin"
      /\ \A i \in Depths : stack'[i].record.sequence <= sequence
      /\ pinned # 0 => \A i \in Depths : stack'[i].at \in Publishing =>
             stack'[i].record.sequence > cells[pinned].record.sequence
  BY Zenon, HeldStep
<1>2. /\ c \in Cell /\ c \notin Readable
  BY Zenon, <1>0, <1>1, UnfinishedUnread
<1>3. stack[n].at \in Storing /\ StoreOK(n)
  BY Zenon, <1>1 DEF EInv, StoresOK, Storing, Unfinished
<1>5. /\ cells' \in [Cell -> CellContents] /\ cells'[c] = x
      /\ 3 - c \in Cell /\ cells'[3 - c] = cells[3 - c]
      /\ \A d \in Cell : d = c \/ d = 3 - c
      /\ c \notin Readable'
  BY Zenon, <1>0 DEF Stored
<1>6. /\ Readable' = Readable /\ Latest' = Latest /\ (ShowsGap' <=> ShowsGap)
      /\ \A d \in Readable : d # c /\ cells'[d] = cells[d]
  BY Zenon, <1>2, <1>5, UnreadChange
<1>7. TypeOK'
  BY Zenon, <1>5 DEF Held, EInv, TypeOK
<1>8. StoresOK'
  <2> SUFFICES ASSUME NEW i \in Depths', stack'[i].at \in Storing
               PROVE  /\ StoreOK(i)'
                      /\ stack'[i].at = "odd" => OddOK(i)'
                      /\ stack'[i].at \in Unfinished => UnfinishedOK(i)'
    BY Zenon DEF StoresOK
  <2>1. i = n
    BY Zenon, <1>1
  <2>2. stack'[i].at # "odd"
    BY Zenon, <2>1 DEF Unfinished
  <2>3. StoreOK(i)'
    BY Zenon, <2>1, <1>3, <1>6 DEF StoreOK, Cancels, Held
  <2> QED
    BY Zenon, <2>1, <2>2, <2>3
<1>9. PinsOK'
  BY Zenon, <1>1 DEF PinsOK, Unfinished
<1>10. CellsOK'
  <2>1. newest # 0 =>
           \/ \E d \in Cell : d \in Readable' /\ cells'[d].version = newest'
           \/ \E i \in Depths' :
                  stack'[i].at \in Unfinished /\ (pinned' # 0 \/ Cancels(i)')
    <3>1. CASE \E d \in Cell : d \in Readable /\ cells[d].version = newest
      BY Zenon, <3>1, <1>6
    <3>2. CASE \E i \in Depths :
                   stack[i].at \in Unfinished /\ (pinned # 0 \/ Cancels(i))
      <4>1. PICK i \in Depths :
                stack[i].at \in Unfinished /\ (pinned # 0 \/ Cancels(i))
        BY Zenon, <3>2
      <4>2. i = n
        BY Zenon, <4>1, <1>1 DEF Unfinished, Storing
      <4> QED
        BY Zenon, <4>1, <4>2, <1>1 DEF Cancels, Held
    <3> QED
      BY Zenon, <3>1, <3>2 DEF EInv, CellsOK
  <2>2. \A d \in Cell : d \in Readable' =>
            /\ cells'[d].record.of = cells'[d].version
            /\ cells'[d].version <= newest'
            /\ cells'[d].version \notin cancelled'
    BY Zenon, <1>6 DEF EInv, CellsOK
  <2>3. (1 \in Readable' /\ 2 \in Readable') => cells'[1].version # cells'[2].version
    BY Zenon, <1>6 DEF EInv, CellsOK
  <2> QED
    BY Zenon, <2>1, <2>2, <2>3 DEF EInv, CellsOK
<1>11. PinnedOK'
  <2> SUFFICES ASSUME pinned # 0
               PROVE  PinnedOK'
    BY Zenon DEF PinnedOK
  <2>1. pinned \in Readable /\ cells'[pinned] = cells[pinned] /\ pinned # c
    BY Zenon, <1>6 DEF EInv, PinnedOK
  <2>2. pinned \in Cell
    BY Zenon DEF EInv, TypeOK
  <2>3. 3 - pinned = c
    BY <2>1, <2>2, <1>2 DEF Cell
  <2>4. 3 - pinned \notin Readable'
    BY Zenon, <2>3, <1>2, <1>6
  <2> QED
    BY Zenon, <1>1, <1>6, <2>1, <2>4 DEF EInv, PinnedOK
<1>12. SequencesOK'
  <2>1. ASSUME NEW d \in Cell PROVE cells'[d].record.sequence <= sequence
    BY Zenon, <1>5 DEF EInv, SequencesOK
  <2> QED
    BY Zenon, <2>1, <1>1 DEF SequencesOK, Held
<1> QED
  BY Zenon, <1>1, <1>7, <1>8, <1>9, <1>10, <1>11, <1>12 DEF EInv

(* The activation that stores, before and after a store.                   *)
StoresAt(n, place, next, content) ==
    /\ Held(n) /\ n \in Depths /\ Top = stack[n]
    /\ stack[n].at = place /\ stack'[n].at = next
    /\ stack'[n].script = stack[n].script
    /\ stack'[n].record = stack[n].record
    /\ stack'[n].version = stack[n].version
    /\ stack'[n].cell = stack[n].cell
    /\ stack[n].record \in Records /\ stack[n].record.sequence <= sequence
    /\ stack[n].version \in Nat
    /\ stack[n].cell \in Cell /\ cells[stack[n].cell] \in CellContents
    /\ StoreOK(n) /\ (place = "odd" => OddOK(n))
    /\ place \in Unfinished => UnfinishedOK(n)
    /\ content \in CellContents => Stored(stack[n].cell, content)
    /\ UNCHANGED <<claim, next_version, pinned, sequence>>

LEMMA StorePlaces ==
    ASSUME EInv, NEW place \in Storing, NEW next \in Storing \union {"pin", "release"},
           NEW content, Store(place, next, content), NEW n, n = Len(stack)
    PROVE  StoresAt(n, place, next, content)
<1>1. /\ stack # <<>> /\ Top.at = place /\ Goes(next)
      /\ cells' = [cells EXCEPT ![Top.cell] = content]
      /\ UNCHANGED <<claim, next_version, pinned, sequence>>
  BY DEF Store, At
<1>2. /\ stack \in Seq(Activations) /\ Top \in Activations /\ Top = stack[n]
      /\ n \in Depths /\ Top.record \in Records /\ Top.record.sequence <= sequence
  BY Zenon, <1>1, TopFacts
<1>3. place \in Holding \ {"inspect"} /\ next \in Holding
  BY DEF Storing, Holding
<1>4. \A i \in Depths : stack[i].at # "count"
  BY Zenon, <1>1, <1>3, TopFacts
<1>5. /\ stack' \in Seq(Activations) /\ Len(stack') = n
      /\ \A i \in 1..n : i # n => stack'[i] = stack[i]
      /\ stack'[n].at = next /\ stack'[n].script = Top.script
      /\ stack'[n].record = Top.record /\ stack'[n].version = Top.version
      /\ stack'[n].cell = Top.cell
  <2>1. next \in {"start", "claim", "inspect", "odd", "clear", "fields",
                  "even", "commit", "pin", "release", "dropped", "count"}
    BY DEF Storing
  <2> QED
    BY Zenon, <2>1, <1>1, <1>2, GoesEffect
<1>6. Held(n)
  BY Zenon, <1>1, <1>2, <1>3, <1>4, <1>5 DEF Held, Publishing
<1>7. /\ StoreOK(n) /\ (place = "odd" => OddOK(n))
      /\ place \in Unfinished => UnfinishedOK(n)
  BY Zenon, <1>1, <1>2 DEF EInv, StoresOK
<1>8. /\ stack[n].cell \in Cell /\ cells \in [Cell -> CellContents]
      /\ cells[stack[n].cell] \in CellContents
  BY Zenon, <1>7 DEF StoreOK, EInv, TypeOK
<1>9. content \in CellContents => Stored(stack[n].cell, content)
  BY Zenon, <1>1, <1>2, <1>8, StoreEffect
<1>10. stack[n].version \in Nat
  BY Zenon, <1>2 DEF Activations
<1> QED
  BY Zenon, <1>1, <1>2, <1>5, <1>6, <1>7, <1>8, <1>9, <1>10 DEF StoresAt

LEMMA StoreClearStep ==
    ASSUME EInv, StoreClear
    PROVE  EInv'
<1> DEFINE x == [Written EXCEPT !.committed = FALSE]
<1>1. PICK n : n = Len(stack)
  BY Zenon
<1>2. Store("clear", "fields", x) /\ UNCHANGED <<newest, cancelled>>
  BY DEF StoreClear, history
<1>3. "clear" \in Storing /\ "fields" \in Storing \union {"pin", "release"}
      /\ "clear" \in Unfinished /\ "fields" \in Unfinished
  BY DEF Storing, Unfinished
<1> HIDE DEF x
<1>4. /\ Held(n) /\ n \in Depths /\ Top = stack[n]
      /\ stack[n].at = "clear" /\ stack'[n].at = "fields"
      /\ stack'[n].record = stack[n].record
      /\ stack'[n].version = stack[n].version /\ stack'[n].cell = stack[n].cell
      /\ stack[n].cell \in Cell /\ cells[stack[n].cell] \in CellContents
      /\ UnfinishedOK(n)
      /\ x \in CellContents => Stored(stack[n].cell, x)
      /\ UNCHANGED <<next_version, pinned>>
  <2>1. StoresAt(n, "clear", "fields", x)
    BY Zenon, <1>1, <1>2, <1>3, StorePlaces
  <2> QED
    BY Zenon, <2>1, <1>3 DEF StoresAt
<1>5. Written = cells[stack[n].cell]
  BY Zenon, <1>4 DEF Written
<1>6. /\ x \in CellContents /\ x.committed = FALSE
      /\ x.version = cells[stack[n].cell].version
      /\ x.record = cells[stack[n].cell].record
  BY Zenon, <1>4, <1>5 DEF x, CellContents
<1>7. ~Accepted(x)
  BY Zenon, <1>6 DEF Accepted
<1>8. x.record.sequence <= sequence
  BY Zenon, <1>4, <1>6 DEF EInv, SequencesOK
<1>9. UnfinishedOK(n)'
  BY Zenon, <1>4, <1>6 DEF UnfinishedOK, Stored
<1> QED
  BY Zenon, <1>2, <1>3, <1>4, <1>6, <1>7, <1>8, <1>9, UnreadStore

LEMMA StoreFieldsStep ==
    ASSUME EInv, StoreFields
    PROVE  EInv'
<1> DEFINE x == [Written EXCEPT !.record = Top.record, !.checksum = Checksum(Top.record)]
<1>1. PICK n : n = Len(stack)
  BY Zenon
<1>2. Store("fields", "even", x) /\ UNCHANGED <<newest, cancelled>>
  BY DEF StoreFields, history
<1>3. "fields" \in Storing /\ "even" \in Storing \union {"pin", "release"}
      /\ "fields" \in Unfinished /\ "even" \in Unfinished
  BY DEF Storing, Unfinished
<1> HIDE DEF x
<1>4. /\ Held(n) /\ n \in Depths /\ Top = stack[n]
      /\ stack[n].at = "fields" /\ stack'[n].at = "even"
      /\ stack'[n].record = stack[n].record
      /\ stack'[n].version = stack[n].version /\ stack'[n].cell = stack[n].cell
      /\ stack[n].record \in Records /\ stack[n].record.sequence <= sequence
      /\ stack[n].cell \in Cell /\ cells[stack[n].cell] \in CellContents
      /\ UnfinishedOK(n)
      /\ x \in CellContents => Stored(stack[n].cell, x)
      /\ UNCHANGED <<next_version, pinned>>
  <2>1. StoresAt(n, "fields", "even", x)
    BY Zenon, <1>1, <1>2, <1>3, StorePlaces
  <2> QED
    BY Zenon, <2>1, <1>3 DEF StoresAt
<1>5. Written = cells[stack[n].cell]
  BY Zenon, <1>4 DEF Written
<1>6. Checksum(Top.record) \in Records
  BY Zenon, <1>4 DEF Checksum, Records
<1>7. /\ x \in CellContents /\ x.committed = cells[stack[n].cell].committed
      /\ x.version = cells[stack[n].cell].version
      /\ x.record = stack[n].record /\ x.checksum = Checksum(stack[n].record)
  BY Zenon, <1>4, <1>5, <1>6 DEF x, CellContents
<1>8. ~cells[stack[n].cell].committed
  BY Zenon, <1>4 DEF UnfinishedOK
<1>9. ~Accepted(x)
  BY Zenon, <1>7, <1>8 DEF Accepted
<1>10. UnfinishedOK(n)'
  BY Zenon, <1>4, <1>7, <1>8 DEF UnfinishedOK, Stored
<1>11. x.record.sequence <= sequence
  BY Zenon, <1>4, <1>7
<1> QED
  BY Zenon, <1>2, <1>3, <1>4, <1>7, <1>9, <1>10, <1>11, UnreadStore

LEMMA StoreEvenStep ==
    ASSUME EInv, StoreEven
    PROVE  EInv'
<1> DEFINE x == [Written EXCEPT !.version = Top.version]
<1>1. PICK n : n = Len(stack)
  BY Zenon
<1>2. Store("even", "commit", x) /\ UNCHANGED <<newest, cancelled>>
  BY DEF StoreEven, history
<1>3. "even" \in Storing /\ "commit" \in Storing \union {"pin", "release"}
      /\ "even" \in Unfinished /\ "commit" \in Unfinished
  BY DEF Storing, Unfinished
<1> HIDE DEF x
<1>4. /\ Held(n) /\ n \in Depths /\ Top = stack[n]
      /\ stack[n].at = "even" /\ stack'[n].at = "commit"
      /\ stack'[n].record = stack[n].record
      /\ stack'[n].version = stack[n].version /\ stack'[n].cell = stack[n].cell
      /\ stack[n].version \in Nat
      /\ stack[n].cell \in Cell /\ cells[stack[n].cell] \in CellContents
      /\ UnfinishedOK(n)
      /\ x \in CellContents => Stored(stack[n].cell, x)
      /\ UNCHANGED <<next_version, pinned>>
  <2>1. StoresAt(n, "even", "commit", x)
    BY Zenon, <1>1, <1>2, <1>3, StorePlaces
  <2> QED
    BY Zenon, <2>1, <1>3 DEF StoresAt
<1>5. Written = cells[stack[n].cell]
  BY Zenon, <1>4 DEF Written
<1>6. /\ x \in CellContents /\ x.committed = cells[stack[n].cell].committed
      /\ x.version = stack[n].version
      /\ x.record = cells[stack[n].cell].record
      /\ x.checksum = cells[stack[n].cell].checksum
  BY <1>4, <1>5 DEF x, CellContents
<1>7. ~cells[stack[n].cell].committed
  BY Zenon, <1>4 DEF UnfinishedOK
<1>8. ~Accepted(x)
  BY Zenon, <1>6, <1>7 DEF Accepted
<1>9. x.record.sequence <= sequence
  BY Zenon, <1>4, <1>6 DEF EInv, SequencesOK
<1>10. UnfinishedOK(n)'
  BY Zenon, <1>4, <1>6, <1>7 DEF UnfinishedOK, Stored
<1> QED
  BY Zenon, <1>2, <1>3, <1>4, <1>6, <1>8, <1>9, <1>10, UnreadStore

(* The first store takes the cell from the readers.  What they are left    *)
(* with is the pinned intent, the newest record, or, when an intent is     *)
(* being replaced, an older record.                                        *)
LEMMA StoreOddStep ==
    ASSUME EInv, StoreOdd
    PROVE  EInv'
<1> DEFINE x == [Written EXCEPT !.version = Top.version + 1]
<1>1. PICK n : n = Len(stack)
  BY Zenon
<1>2. PICK c : c = stack[n].cell
  OBVIOUS
<1>3. /\ Store("odd", "clear", x) /\ newest' = newest
      /\ cancelled' = cancelled \union ({Top.replaces} \ {0})
  BY DEF StoreOdd
<1>4. "odd" \in Storing /\ "clear" \in Storing \union {"pin", "release"}
  BY DEF Storing
<1> HIDE DEF x
<1>5. /\ Held(n) /\ n \in Depths /\ Top = stack[n]
      /\ stack[n].at = "odd" /\ stack'[n].at = "clear"
      /\ stack'[n].script = stack[n].script
      /\ stack'[n].record = stack[n].record
      /\ stack'[n].version = stack[n].version /\ stack'[n].cell = c
      /\ stack[n].version \in Nat
      /\ c \in Cell /\ cells[c] \in CellContents
      /\ StoreOK(n) /\ OddOK(n)
      /\ x \in CellContents => Stored(c, x)
      /\ UNCHANGED <<next_version, pinned, sequence, claim>>
  <2>1. StoresAt(n, "odd", "clear", x)
    BY Zenon, <1>1, <1>3, <1>4, StorePlaces
  <2> QED
    BY Zenon, <2>1, <1>2 DEF StoresAt
<1>6. /\ x \in CellContents /\ x.version = stack[n].version + 1
      /\ x.record = cells[c].record
  BY <1>2, <1>5 DEF x, CellContents, Written
<1>7. /\ cells' \in [Cell -> CellContents] /\ cells'[c] = x
      /\ 3 - c \in Cell /\ 3 - c # c /\ cells'[3 - c] = cells[3 - c]
      /\ \A d \in Cell : d = c \/ d = 3 - c
      /\ c \notin Readable' /\ (3 - c \in Readable' <=> 3 - c \in Readable)
  <2>1. x.version % 2 # 0
    <3>1. next_version \in Nat /\ next_version >= 2 /\ next_version % 2 = 0
          /\ stack[n].version = next_version - 2
      BY Zenon, <1>5 DEF EInv, TypeOK, StoreOK
    <3>2. next_version - 2 \in Nat /\ (next_version - 2) % 2 = 0
      BY <3>1, Parity
    <3> QED
      BY <3>1, <3>2, <1>6, Parity
  <2>2. ~Accepted(x)
    BY <2>1 DEF Accepted
  <2> QED
    BY Zenon, <2>2, <1>5, <1>6 DEF Stored
<1>8. /\ Depths' = Depths
      /\ ScriptsOK' /\ OneHolder' /\ IntentsOK' /\ CountsOK'
      /\ \A i \in Depths : i # n =>
             /\ stack'[i] = stack[i] /\ stack[i].at \notin Holding
             /\ stack[i].at \notin Storing /\ stack[i].at # "pin"
      /\ \A i \in Depths : stack'[i].record.sequence <= sequence
      /\ pinned # 0 => \A i \in Depths : stack'[i].at \in Publishing =>
             stack'[i].record.sequence > cells[pinned].record.sequence
  BY Zenon, <1>5, HeldStep
<1>9. /\ cells \in [Cell -> CellContents] /\ newest \in Nat /\ cancelled \subseteq Nat
      /\ pinned \in Cell \union {0} /\ stack[n] \in Activations
  <2>1. /\ cells \in [Cell -> CellContents] /\ newest \in Nat /\ cancelled \subseteq Nat
        /\ pinned \in Cell \union {0} /\ stack \in Seq(Activations)
    BY Zenon DEF EInv, TypeOK
  <2>2. stack[n] \in Activations
    <3>1. n \in 1..Len(stack)
      BY Zenon, <1>5 DEF Depths
    <3> QED
      BY <2>1, <3>1
  <2> QED
    BY Zenon, <2>1, <2>2
<1>10. stack[n].replaces \in Nat
  BY Zenon, <1>9 DEF Activations
<1>11. \A d \in Readable : /\ d \in Cell /\ cells[d].record.of = cells[d].version
                           /\ cells[d].version <= newest /\ cells[d].version # 0
                           /\ cells[d].version \notin cancelled
  BY Zenon DEF EInv, CellsOK, Readable, ReadableOf, Accepted
<1>12. \A d \in Readable' : d = 3 - c /\ d \in Readable /\ cells'[d] = cells[d]
  BY <1>7 DEF Readable, ReadableOf
<1>13. \A d, e \in Readable : d # e => cells[d].version # cells[e].version
  BY Zenon DEF EInv, CellsOK, Readable, ReadableOf, Cell
<1>14. TypeOK'
  BY Zenon, <1>3, <1>5, <1>7, <1>9, <1>10 DEF Held, EInv, TypeOK
<1>15. PinnedOK'
  <2> SUFFICES ASSUME pinned # 0
               PROVE  PinnedOK'
    BY Zenon, <1>5 DEF PinnedOK
  <2>1. pinned = 3 - c
    BY Zenon, <1>2, <1>5, <1>7, <1>9 DEF StoreOK
  <2>2. 3 - pinned = c
    BY SMTT(30), <2>1, <1>5 DEF Cell
  <2>3. /\ pinned \in Readable /\ cells[pinned].record.type = "TerminationIntent"
    BY DEF EInv, PinnedOK
  <2> QED
    BY Zenon, <2>1, <2>2, <2>3, <1>5, <1>7, <1>8 DEF PinnedOK
<1>16. ~Cancels(n) => ~ShowsGap'
  <2> SUFFICES ASSUME ~Cancels(n) PROVE ~GapOf(cells')
    BY ReadsTheCells
  <2>1. CASE Readable' = {}
    BY <2>1, NothingReadable DEF Readable
  <2>2. CASE 3 - c \in Readable'
    <3>1. /\ 3 - c \in ReadableOf(cells')
          /\ \A d \in ReadableOf(cells') : d # 3 - c =>
                 cells'[d].version < cells'[3 - c].version
      BY Zenon, <2>2, <1>12 DEF Readable
    <3>2. GapOf(cells') <=> cells[3 - c].record.type = "CoverageGap"
      BY Zenon, <3>1, <1>7, NewestIsLatest
    <3>3. CASE pinned # 0
      <4>1. pinned = 3 - c
        BY Zenon, <3>3, <1>2, <1>5, <1>7, <1>9 DEF StoreOK
      <4>2. cells[pinned].record.type = "TerminationIntent"
        BY Zenon, <3>3 DEF EInv, PinnedOK
      <4> QED
        BY <3>2, <4>1, <4>2
    <3>4. CASE pinned = 0
      <4>1. newest # 0
        BY <2>2, <1>9, <1>11, <1>12 DEF CellContents
      <4>2. 3 - c \in Readable /\ cells[3 - c].version = newest
        BY Zenon, <1>2, <1>5, <3>4, <4>1 DEF OddOK
      <4>3. \A d \in ReadableOf(cells) : d # 3 - c =>
                cells[d].version < cells[3 - c].version
        <5> SUFFICES ASSUME NEW d \in Readable, d # 3 - c
                     PROVE  cells[d].version < cells[3 - c].version
          BY Zenon DEF Readable
        <5>1. cells[d].version <= newest /\ cells[d].version # newest
          BY Zenon, <4>2, <1>11, <1>13
        <5>2. cells[d].version \in Nat
          BY Zenon, <1>9, <1>11 DEF CellContents
        <5> QED
          BY <4>2, <5>1, <5>2, <1>9
      <4>4. GapOf(cells) <=> cells[3 - c].record.type = "CoverageGap"
        BY Zenon, <4>2, <4>3, <1>9, NewestIsLatest DEF Readable
      <4>5. ~GapOf(cells)
        BY Zenon, <1>5, ReadsTheCells DEF StoreOK
      <4> QED
        BY Zenon, <3>2, <4>4, <4>5
    <3> QED
      BY <3>3, <3>4
  <2> QED
    BY Zenon, <2>1, <2>2, <1>12
<1>17. StoresOK'
  <2> SUFFICES ASSUME NEW i \in Depths', stack'[i].at \in Storing
               PROVE  /\ StoreOK(i)'
                      /\ stack'[i].at = "odd" => OddOK(i)'
                      /\ stack'[i].at \in Unfinished => UnfinishedOK(i)'
    BY Zenon DEF StoresOK
  <2>1. i = n
    BY Zenon, <1>8
  <2>2. StoreOK(i)'
    BY Zenon, <2>1, <1>2, <1>3, <1>5, <1>16 DEF StoreOK, Cancels
  <2>3. UnfinishedOK(i)'
    BY Zenon, <2>1, <1>5, <1>6, <1>7 DEF UnfinishedOK
  <2> QED
    BY Zenon, <2>1, <2>2, <2>3, <1>5
<1>18. PinsOK'
  BY Zenon, <1>5, <1>8 DEF PinsOK
<1>19. CellsOK'
  <2>1. newest' < next_version' /\ \A v \in cancelled' : v <= newest'
    <3>1. stack[n].replaces # 0 => stack[n].replaces <= newest
      BY Zenon, <1>2, <1>5, <1>11 DEF OddOK
    <3> QED
      BY Zenon, <3>1, <1>3, <1>5, <1>9 DEF EInv, CellsOK
  <2>2. ASSUME NEW d \in Cell, d \in Readable'
        PROVE  /\ cells'[d].record.of = cells'[d].version
               /\ cells'[d].version <= newest'
               /\ cells'[d].version \notin cancelled'
    <3>1. d = 3 - c /\ d \in Readable /\ cells'[d] = cells[d]
      BY Zenon, <2>2, <1>12
    <3>2. stack[n].replaces # 0 => cells[d].version # stack[n].replaces
      BY Zenon, <3>1, <1>2, <1>5, <1>7, <1>13 DEF OddOK
    <3>3. cells[d].version # 0 /\ cells[d].version \notin cancelled
      BY Zenon, <3>1, <1>11
    <3>4. cells[d].version \notin cancelled'
      BY Zenon, <3>2, <3>3, <1>3, <1>5
    <3> QED
      BY Zenon, <3>1, <3>4, <1>3, <1>11
  <2>3. ~(1 \in Readable' /\ 2 \in Readable')
    BY <1>12
  <2>4. newest' # 0 =>
           \/ \E d \in Cell : d \in Readable' /\ cells'[d].version = newest'
           \/ \E i \in Depths' :
                  stack'[i].at \in Unfinished /\ (pinned' # 0 \/ Cancels(i)')
    <3>1. CASE pinned # 0 \/ Cancels(n)
      <4>1. n \in Depths' /\ stack'[n].at \in Unfinished
            /\ (pinned' # 0 \/ Cancels(n)')
        BY Zenon, <3>1, <1>5, <1>8 DEF Cancels, Unfinished
      <4> QED
        BY Zenon, <4>1
    <3>2. CASE pinned = 0 /\ ~Cancels(n)
      BY Zenon, <3>2, <1>2, <1>3, <1>5, <1>7 DEF OddOK
    <3> QED
      BY Zenon, <3>1, <3>2
  <2> QED
    BY Zenon, <2>1, <2>2, <2>3, <2>4 DEF CellsOK
<1>20. SequencesOK'
  <2>1. ASSUME NEW d \in Cell PROVE cells'[d].record.sequence <= sequence
    BY Zenon, <1>5, <1>6, <1>7 DEF EInv, SequencesOK
  <2> QED
    BY Zenon, <2>1, <1>5, <1>8 DEF SequencesOK
<1> QED
  BY Zenon, <1>8, <1>14, <1>15, <1>17, <1>18, <1>19, <1>20 DEF EInv

(* The last store gives the cell to the readers, with a version that is    *)
(* newer than any other.                                                   *)
LEMMA StoreCommitStep ==
    ASSUME EInv, StoreCommit
    PROVE  EInv'
<1> DEFINE x == [Written EXCEPT !.committed = TRUE]
           next == IF Op = "intent" THEN "pin" ELSE "release"
<1>1. PICK n : n = Len(stack)
  BY Zenon
<1>2. PICK c : c = stack[n].cell
  OBVIOUS
<1>3. /\ Store("commit", next, x) /\ newest' = Top.version /\ cancelled' = cancelled
  BY DEF StoreCommit
<1>4. /\ "commit" \in Storing /\ next \in Storing \union {"pin", "release"}
      /\ "commit" \in Unfinished
      /\ next \in {"pin", "release"} /\ (next = "pin" => Op = "intent")
  BY DEF Storing, Unfinished
<1> HIDE DEF x, next
<1>5. /\ Held(n) /\ n \in Depths /\ Top = stack[n]
      /\ stack[n].at = "commit" /\ stack'[n].at = next
      /\ stack'[n].script = stack[n].script
      /\ stack'[n].record = stack[n].record
      /\ stack'[n].version = stack[n].version /\ stack'[n].cell = c
      /\ stack[n].version \in Nat
      /\ stack[n].record \in Records /\ stack[n].record.sequence <= sequence
      /\ c \in Cell /\ cells[c] \in CellContents
      /\ StoreOK(n) /\ UnfinishedOK(n)
      /\ x \in CellContents => Stored(c, x)
      /\ UNCHANGED <<next_version, pinned, sequence, claim>>
  <2>1. StoresAt(n, "commit", next, x)
    BY Zenon, <1>1, <1>3, <1>4, StorePlaces
  <2> QED
    BY Zenon, <2>1, <1>2, <1>4 DEF StoresAt
<1>6. /\ x \in CellContents /\ x.committed = TRUE /\ x.version = stack[n].version
      /\ x.record = stack[n].record /\ x.checksum = Checksum(stack[n].record)
  <2>1. /\ cells[c].version = stack[n].version /\ cells[c].record = stack[n].record
        /\ cells[c].checksum = Checksum(stack[n].record)
    BY Zenon, <1>2, <1>5 DEF UnfinishedOK
  <2>2. Written = cells[c]
    BY Zenon, <1>2, <1>5 DEF Written
  <2> QED
    BY Zenon, <2>1, <2>2, <1>5 DEF x, CellContents
<1>7. /\ next_version \in Nat /\ next_version >= 2 /\ next_version % 2 = 0
      /\ stack[n].version = next_version - 2 /\ newest < stack[n].version
      /\ newest \in Nat /\ stack[n].record.of = stack[n].version
  BY Zenon, <1>5 DEF EInv, TypeOK, StoreOK
<1>8. Accepted(x)
  <2>1. (next_version - 2) % 2 = 0
    BY Zenon, <1>7, Parity
  <2>2. x.version # 0 /\ x.version % 2 = 0
    BY <2>1, <1>6, <1>7
  <2> QED
    BY <2>2, <1>6 DEF Accepted
<1>9. /\ cells' \in [Cell -> CellContents] /\ cells'[c] = x
      /\ 3 - c \in Cell /\ 3 - c # c /\ cells'[3 - c] = cells[3 - c]
      /\ \A d \in Cell : d = c \/ d = 3 - c
      /\ c \in Readable' /\ (3 - c \in Readable' <=> 3 - c \in Readable)
  BY Zenon, <1>5, <1>6, <1>8 DEF Stored
<1>10. /\ Depths' = Depths
       /\ ScriptsOK' /\ OneHolder' /\ IntentsOK' /\ CountsOK'
       /\ \A i \in Depths : i # n =>
              /\ stack'[i] = stack[i] /\ stack[i].at \notin Holding
              /\ stack[i].at \notin Storing /\ stack[i].at # "pin"
       /\ \A i \in Depths : stack'[i].record.sequence <= sequence
       /\ pinned # 0 => \A i \in Depths : stack'[i].at \in Publishing =>
              stack'[i].record.sequence > cells[pinned].record.sequence
  BY Zenon, <1>5, HeldStep
<1>11. TypeOK'
  BY Zenon, <1>3, <1>5, <1>9 DEF Held, EInv, TypeOK
<1>12. StoresOK'
  <2>1. \A i \in Depths' : stack'[i].at \notin Storing
    BY Zenon, <1>4, <1>5, <1>10 DEF Storing
  <2> QED
    BY Zenon, <2>1 DEF StoresOK
<1>13. PinsOK'
  <2> SUFFICES ASSUME NEW i \in Depths', stack'[i].at = "pin"
               PROVE  /\ i = 1 /\ stack'[i].cell \in Cell
                      /\ stack'[i].cell \in Readable'
                      /\ cells'[stack'[i].cell].version = newest'
                      /\ cells'[stack'[i].cell].record.type = "TerminationIntent"
    BY Zenon DEF PinsOK
  <2>1. i = n
    BY Zenon, <1>10
  <2>2. Op = "intent" /\ stack # <<>> /\ Top.at \in Publishing
    BY Zenon, <2>1, <1>4, <1>5 DEF Held, Publishing
  <2>3. Op \notin NestedOps
    BY Zenon, <2>2 DEF NestedOps
  <2>4. /\ ~(Len(stack) > 1) /\ Len(stack) \in Nat /\ Len(stack) >= 1
        /\ Top.record.type = "TerminationIntent"
    BY Zenon, <2>2, <2>3, TopFacts
  <2>5. n = 1
    BY SMTT(30), <2>4, <1>1
  <2> QED
    BY Zenon, <2>1, <2>4, <2>5, <1>3, <1>5, <1>6, <1>9
<1>14. \A d \in Readable : /\ d \in Cell /\ cells[d].record.of = cells[d].version
                           /\ cells[d].version <= newest
                           /\ cells[d].version \notin cancelled
                           /\ cells[d].version \in Nat
  BY Zenon DEF EInv, TypeOK, CellsOK, CellContents, Readable, ReadableOf
<1>15. CellsOK'
  <2>1. /\ newest' = stack[n].version /\ newest' \in Nat
        /\ cancelled' = cancelled /\ next_version' = next_version
    BY Zenon, <1>3, <1>5
  <2>2. \A v \in cancelled : v \in Nat /\ v <= newest
    BY Zenon DEF EInv, TypeOK, CellsOK
  <2>3. newest' < next_version' /\ \A v \in cancelled' : v <= newest'
    BY <2>1, <2>2, <1>7
  <2>4. ASSUME NEW d \in Cell, d \in Readable'
        PROVE  /\ cells'[d].record.of = cells'[d].version
               /\ cells'[d].version <= newest'
               /\ cells'[d].version \notin cancelled'
    <3>1. CASE d = c
      <4>1. stack[n].version \notin cancelled /\ stack[n].version <= newest'
        BY <2>1, <2>2, <1>7
      <4> QED
        BY Zenon, <3>1, <4>1, <2>1, <1>6, <1>7, <1>9
    <3>2. CASE d # c
      <4>1. d \in Readable /\ cells'[d] = cells[d]
        BY Zenon, <2>4, <3>2, <1>9
      <4> QED
        BY <4>1, <2>1, <1>7, <1>14
    <3> QED
      BY Zenon, <3>1, <3>2
  <2>5. (1 \in Readable' /\ 2 \in Readable') => cells'[1].version # cells'[2].version
    <3>1. 3 - c \in Readable' => cells'[3 - c].version # cells'[c].version
      BY <1>6, <1>7, <1>9, <1>14
    <3>2. CASE c = 1
      BY <3>1, <3>2
    <3>3. CASE c = 2
      BY <3>1, <3>3
    <3> QED
      BY Zenon, <3>2, <3>3, <1>5 DEF Cell
  <2>6. c \in Readable' /\ cells'[c].version = newest'
    BY Zenon, <1>3, <1>5, <1>6, <1>9
  <2> QED
    BY Zenon, <2>3, <2>4, <2>5, <2>6, <1>5 DEF CellsOK
<1>16. PinnedOK'
  <2> SUFFICES ASSUME pinned # 0
               PROVE  PinnedOK'
    BY Zenon, <1>5 DEF PinnedOK
  <2>1. pinned = 3 - c /\ 3 - pinned = c
    BY <1>2, <1>5 DEF StoreOK, EInv, TypeOK, Cell
  <2>2. /\ pinned \in Readable /\ cells[pinned].record.type = "TerminationIntent"
    BY DEF EInv, PinnedOK
  <2>3. stack[n].record.sequence > cells[pinned].record.sequence
    BY Zenon, <1>5 DEF EInv, PinnedOK, Publishing, Storing
  <2> QED
    BY Zenon, <2>1, <2>2, <2>3, <1>5, <1>6, <1>9, <1>10 DEF PinnedOK
<1>17. SequencesOK'
  <2>1. ASSUME NEW d \in Cell PROVE cells'[d].record.sequence <= sequence
    BY Zenon, <1>5, <1>6, <1>9 DEF EInv, SequencesOK
  <2>2. sequence' = sequence
    BY Zenon, <1>5
  <2>3. \A i \in Depths' : stack'[i].record.sequence <= sequence
    BY Zenon, <1>10
  <2> QED
    BY <2>1, <2>2, <2>3 DEF SequencesOK
<1> QED
  BY Zenon, <1>10, <1>11, <1>12, <1>13, <1>15, <1>16, <1>17 DEF EInv

LEMMA PinStep ==
    ASSUME EInv, Pin
    PROVE  EInv'
<1>1. PICK n : n = Len(stack)
  BY Zenon
<1>2. /\ stack # <<>> /\ Top.at = "pin" /\ pinned' = Top.cell /\ Goes("release")
      /\ UNCHANGED <<cells, claim, next_version, sequence, newest, cancelled>>
  BY Zenon DEF Pin, At, history
<1>3. /\ stack \in Seq(Activations) /\ Top = stack[n] /\ n \in Depths
  BY Zenon, <1>1, <1>2, TopFacts
<1>4. /\ stack' \in Seq(Activations) /\ Len(stack') = n
      /\ \A i \in 1..n : i # n => stack'[i] = stack[i]
      /\ stack'[n].at = "release" /\ stack'[n].script = Top.script
      /\ stack'[n].record = Top.record
  BY Zenon, <1>1, <1>2, <1>3, GoesEffect
<1>5. Held(n)
  <2>1. "pin" \in Holding \ {"inspect"} /\ "release" \in Holding
        /\ "release" \notin Publishing
    BY DEF Holding, Publishing, Storing
  <2>2. \A i \in Depths : stack[i].at # "count"
    BY Zenon, <2>1, <1>2, TopFacts
  <2> QED
    BY Zenon, <2>1, <2>2, <1>1, <1>2, <1>3, <1>4 DEF Held
<1>6. /\ Depths' = Depths
      /\ ScriptsOK' /\ OneHolder' /\ IntentsOK' /\ CountsOK'
      /\ \A i \in Depths : i # n =>
             /\ stack'[i] = stack[i] /\ stack[i].at \notin Holding
             /\ stack[i].at \notin Storing /\ stack[i].at # "pin"
      /\ \A i \in Depths : stack'[i].record.sequence <= sequence
  BY Zenon, <1>5, HeldStep
<1>7. PICK c : c = Top.cell
  OBVIOUS
<1>8. /\ n = 1 /\ c \in Cell /\ c \in Readable /\ cells[c].version = newest
      /\ cells[c].record.type = "TerminationIntent"
  BY Zenon, <1>2, <1>3, <1>7 DEF EInv, PinsOK
<1>9. /\ Readable' = Readable /\ Latest' = Latest /\ (ShowsGap' <=> ShowsGap)
  BY <1>2, SameCells
<1>10. \A i \in Depths' : i = n
  BY <1>1, <1>6, <1>8 DEF Depths
<1>11. TypeOK'
  BY Zenon, <1>2, <1>4, <1>7, <1>8 DEF EInv, TypeOK
<1>12. StoresOK' /\ PinsOK'
  BY Zenon, <1>4, <1>10 DEF StoresOK, PinsOK, Storing
<1>13. PinnedOK'
  <2>1. 3 - c \in Readable => ~(cells[3 - c].version > cells[c].version)
    BY <1>8 DEF EInv, CellsOK, TypeOK, CellContents, Readable, ReadableOf
  <2>2. \A i \in Depths' : stack'[i].at \notin Publishing
    BY Zenon, <1>4, <1>10 DEF Publishing, Storing
  <2>3. pinned' = c /\ cells' = cells
    BY <1>2, <1>7
  <2> QED
    BY Zenon, <1>8, <1>9, <2>1, <2>2, <2>3 DEF PinnedOK
<1>14. CellsOK'
  <2>1. c \in Readable' /\ cells'[c].version = newest'
    BY <1>2, <1>8, <1>9
  <2> QED
    BY Zenon, <1>2, <1>8, <1>9, <2>1 DEF EInv, CellsOK
<1>15. SequencesOK'
  BY Zenon, <1>2, <1>6 DEF EInv, SequencesOK
<1> QED
  BY Zenon, <1>6, <1>11, <1>12, <1>13, <1>14, <1>15 DEF EInv

(* Counting changes nothing that the checksum covers.                      *)
LEMMA CountedRecord ==
    ASSUME NEW r \in Records, NEW k \in Nat
    PROVE  /\ [r EXCEPT !.count = k] \in Records
           /\ [r EXCEPT !.count = k].type = r.type
           /\ [r EXCEPT !.count = k].of = r.of
           /\ [r EXCEPT !.count = k].sequence = r.sequence
           /\ r.type = "CoverageGap" =>
                  Checksum([r EXCEPT !.count = k]) = Checksum(r)
<1> DEFINE q == [r EXCEPT !.count = k]
<1>1. q \in Records /\ q.type = r.type /\ q.of = r.of /\ q.sequence = r.sequence
  BY DEF Records
<1>2. [q EXCEPT !.count = 0] = [r EXCEPT !.count = 0]
  BY Zenon DEF Records
<1>3. r.type = "CoverageGap" => Checksum(q) = Checksum(r)
  BY <1>1, <1>2 DEF Checksum
<1> QED
  BY <1>1, <1>3

LEMMA CountAlike ==
    ASSUME EInv, Count
    PROVE  /\ Alike /\ ShowsGap /\ stack # <<>> /\ Top.at = "count" /\ Ends
           /\ UNCHANGED <<claim, next_version, pinned, sequence, newest, cancelled>>
<1> DEFINE r == cells[Latest].record
           k == IF r.count = MaxCount THEN r.count ELSE r.count + 1
           x == [cells[Latest] EXCEPT !.record = [r EXCEPT !.count = k]]
<1>1. /\ stack # <<>> /\ Top.at = "count" /\ Ends
      /\ UNCHANGED <<claim, next_version, pinned, sequence, newest, cancelled>>
  BY DEF Count, At, history
<1>2. Top = stack[Len(stack)] /\ Len(stack) \in Depths
  BY Zenon, <1>1, TopFacts
<1>3. ShowsGap /\ Top.cell = Latest
  BY Zenon, <1>1, <1>2 DEF EInv, CountsOK
<1>4. cells' = [cells EXCEPT ![Latest] = x]
  BY <1>3 DEF Count
<1>5. Latest \in Cell /\ Latest \in Readable /\ r.type = "CoverageGap"
  <2>1. LatestOf(cells) # 0 => LatestOf(cells) \in ReadableOf(cells)
    BY Zenon DEF LatestOf, ReadableOf, Cell
  <2> QED
    BY Zenon, <2>1, <1>3, ReadsTheCells DEF Readable, ReadableOf, ShowsGap
<1>6. cells \in [Cell -> CellContents] /\ cells[Latest] \in CellContents
  BY Zenon, <1>5 DEF EInv, TypeOK
<1>7. r \in Records /\ k \in Nat
  BY <1>6 DEF CellContents, Records
<1> HIDE DEF k
<1>8. /\ [r EXCEPT !.count = k] \in Records
      /\ [r EXCEPT !.count = k].type = r.type
      /\ [r EXCEPT !.count = k].of = r.of
      /\ [r EXCEPT !.count = k].sequence = r.sequence
      /\ Checksum([r EXCEPT !.count = k]) = Checksum(r)
  BY <1>5, <1>7, CountedRecord
<1> DEFINE q == [r EXCEPT !.count = k]
<1> HIDE DEF q
<1>9. /\ x \in CellContents /\ x.record = q
      /\ x.version = cells[Latest].version
      /\ x.committed = cells[Latest].committed
      /\ x.checksum = cells[Latest].checksum
  <2>1. q \in Records /\ x = [cells[Latest] EXCEPT !.record = q]
    BY <1>8 DEF q
  <2> HIDE DEF x
  <2> QED
    BY <2>1, <1>6 DEF CellContents
<1>10. /\ x.record.type = r.type /\ x.record.of = r.of
       /\ x.record.sequence = r.sequence /\ Checksum(x.record) = Checksum(r)
  BY Zenon, <1>8, <1>9 DEF q
<1>11. Accepted(x)
  <2>1. Accepted(cells[Latest])
    BY <1>5 DEF Readable, ReadableOf
  <2> HIDE DEF x
  <2> QED
    BY Zenon, <2>1, <1>9, <1>10 DEF Accepted
<1>12. PICK c \in Cell : c = Latest
  BY <1>5
<1> HIDE DEF x, r
<1>13. Stored(c, x)
  BY Zenon, <1>4, <1>6, <1>9, <1>12, StoreEffect
<1>14. /\ cells' \in [Cell -> CellContents] /\ cells'[c] = x
       /\ 3 - c \in Cell /\ cells'[3 - c] = cells[3 - c]
       /\ \A d \in Cell : d = c \/ d = 3 - c
       /\ c \in Readable' /\ (3 - c \in Readable' <=> 3 - c \in Readable)
  BY Zenon, <1>11, <1>13 DEF Stored
<1>15. \A d \in Cell :
           /\ cells'[d].version = cells[d].version
           /\ cells'[d].record.type = cells[d].record.type
           /\ cells'[d].record.of = cells[d].record.of
           /\ cells'[d].record.sequence = cells[d].record.sequence
           /\ d \notin Readable => cells'[d] = cells[d]
  BY Zenon, <1>5, <1>9, <1>10, <1>12, <1>14 DEF r
<1>16. Readable' = Readable
  <2>1. \A d \in Cell : d \in Readable' <=> d \in Readable
    BY <1>5, <1>12, <1>14
  <2>2. Readable \subseteq Cell /\ Readable' \subseteq Cell
    BY DEF Readable, ReadableOf
  <2> QED
    BY <2>1, <2>2
<1>17. Latest' = Latest
  <2>1. LatestOf(cells') = LatestOf(cells)
    <3>1. ReadableOf(cells') = ReadableOf(cells)
      BY <1>16 DEF Readable
    <3>2. cells'[1].version = cells[1].version /\ cells'[2].version = cells[2].version
      BY <1>15 DEF Cell
    <3> QED
      BY Zenon, <3>1, <3>2 DEF LatestOf
  <2> QED
    BY <2>1, ReadsTheCells
<1>18. ShowsGap'
  BY Zenon, <1>5, <1>15, <1>17, <1>3 DEF ShowsGap
<1>19. Alike
  BY Zenon, <1>3, <1>14, <1>15, <1>16, <1>17, <1>18 DEF Alike
<1> QED
  BY <1>1, <1>3, <1>19

LEMMA CountStep ==
    ASSUME EInv, Count
    PROVE  EInv'
<1>1. /\ Alike /\ stack # <<>> /\ Top.at = "count" /\ Ends
      /\ UNCHANGED <<claim, next_version, pinned, sequence, newest, cancelled>>
  BY CountAlike
<1>2. Top.at \notin Storing \union {"pin"} /\ Top.at \notin Holding
  BY <1>1 DEF Storing, Holding
<1> QED
  BY Zenon, <1>1, <1>2, EndStep
-----------------------------------------------------------------------------
(* The claim is taken and a cell is chosen: the one that the pin and the   *)
(* newest record leave, or the one of the intent that is replaced.         *)
LEMMA TargetIsOld ==
    ASSUME EInv, \A i \in Depths : stack[i].at \notin Unfinished
    PROVE  /\ Target \in Cell
           /\ pinned # 0 => Target # pinned
           /\ (pinned = 0 /\ newest # 0) =>
                  /\ 3 - Target \in Readable
                  /\ cells[3 - Target].version = newest
<1>1. pinned \in Cell \union {0}
  BY DEF EInv, TypeOK
<1>2. Target \in Cell /\ (pinned # 0 => Target # pinned)
  BY <1>1 DEF Target, Cell
<1>3. ASSUME pinned = 0, newest # 0
      PROVE  /\ 3 - Target \in Readable
             /\ cells[3 - Target].version = newest
  <2>1. PICK c \in Cell : c \in Readable /\ cells[c].version = newest
    BY Zenon, <1>3 DEF EInv, CellsOK
  <2>2. /\ Newer(1, 2) <=> (1 \in Readable /\ (2 \notin Readable
                                              \/ cells[1].version > cells[2].version))
    BY Zenon, ReadsTheCells DEF Newer, Cell
  <2>3. /\ 1 \in Readable => cells[1].version <= newest
        /\ 2 \in Readable => cells[2].version <= newest
        /\ cells[1].version \in Nat /\ cells[2].version \in Nat
        /\ (1 \in Readable /\ 2 \in Readable) => cells[1].version # cells[2].version
    BY Zenon DEF EInv, TypeOK, CellsOK, CellContents, Cell
  <2>4. newest \in Nat
    BY Zenon DEF EInv, TypeOK
  <2>5. CASE Newer(1, 2)
    <3>1. Target = 2
      BY <2>5, <1>3 DEF Target
    <3>2. c = 1
      BY <2>1, <2>2, <2>3, <2>4, <2>5 DEF Cell
    <3> QED
      BY <3>1, <3>2, <2>1
  <2>6. CASE ~Newer(1, 2)
    <3>1. Target = 1
      BY <2>6, <1>3 DEF Target
    <3>2. c = 2
      BY <2>1, <2>2, <2>3, <2>4, <2>6 DEF Cell
    <3> QED
      BY <3>1, <3>2, <2>1
  <2> QED
    BY <2>5, <2>6
<1> QED
  BY <1>2, <1>3

LEMMA AllocateStep ==
    ASSUME EInv, stack # <<>>, Top.at = "inspect",
           NEW cell \in Cell, NEW replaces \in Nat,
           Becomes([Top EXCEPT
              !.at = "odd", !.version = next_version, !.record.of = next_version,
              !.cell = cell, !.replaces = replaces]),
           next_version' = next_version + 2,
           UNCHANGED <<cells, claim, sequence, newest, cancelled>>,
           \/ /\ Op # "cancel" /\ ~ShowsGap /\ pinned' = pinned
              /\ cell = Target /\ replaces = 0
           \/ /\ Op = "cancel" /\ pinned # 0 /\ pinned' = 0
              /\ cell = pinned /\ replaces = cells[cell].version
    PROVE  EInv'
<1> DEFINE q == [Top.record EXCEPT !.of = next_version]
           a == [Top EXCEPT
                   !.at = "odd", !.version = next_version, !.record = q,
                   !.cell = cell, !.replaces = replaces]
<1>1. PICK n : n = Len(stack)
  OBVIOUS
<1>2. /\ stack \in Seq(Activations) /\ Top \in Activations /\ Top = stack[n]
      /\ n \in Depths /\ n \in Nat /\ Top.record \in Records
      /\ (n > 1 => Op \in NestedOps)
      /\ \A i \in Depths : i # n => stack[i].at \notin Holding
  <2>1. Top.at \in Holding
    BY DEF Holding
  <2> QED
    BY <1>1, <2>1, TopFacts
<1>3. next_version \in Nat /\ next_version >= 2 /\ next_version % 2 = 0
  BY DEF EInv, TypeOK
<1>4. /\ q \in Records /\ q.of = next_version /\ q.type = Top.record.type
      /\ q.sequence = Top.record.sequence
  BY Zenon, <1>2, <1>3 DEF Records
<1>5. Becomes(a)
  OBVIOUS
<1> HIDE DEF q
<1>6. /\ a \in Activations /\ a.at = "odd" /\ a.version = next_version
      /\ a.record = q /\ a.cell = cell /\ a.replaces = replaces
      /\ a.script = Top.script
  BY Zenon, <1>2, <1>3, <1>4 DEF Activations
<1> HIDE DEF a
<1>7. /\ stack' \in Seq(Activations) /\ Len(stack') = n /\ stack'[n] = a
      /\ \A i \in 1..n : i # n => stack'[i] = stack[i]
  BY <1>1, <1>2, <1>5, <1>6, BecomesEffect
<1>8. \A i \in Depths : stack[i].at # "count"
  <2>1. CASE ~ShowsGap
    BY <2>1 DEF EInv, CountsOK
  <2>2. CASE Op = "cancel"
    <3>1. Op \notin NestedOps
      BY <2>2 DEF NestedOps
    <3>2. \A i \in Depths : i = n
      BY <3>1, <1>1, <1>2 DEF Depths
    <3> QED
      BY <3>2, <1>2
  <2> QED
    BY <2>1, <2>2
<1>9. Held(n)
  BY <1>1, <1>2, <1>4, <1>6, <1>7, <1>8 DEF Held, Holding, Publishing
<1>10. /\ Depths' = Depths
       /\ ScriptsOK' /\ OneHolder' /\ IntentsOK' /\ CountsOK'
       /\ \A i \in Depths : i # n =>
              /\ stack'[i] = stack[i] /\ stack[i].at \notin Holding
              /\ stack[i].at \notin Storing /\ stack[i].at # "pin"
       /\ \A i \in Depths : stack'[i].record.sequence <= sequence
       /\ pinned # 0 => \A i \in Depths : stack'[i].at \in Publishing =>
              stack'[i].record.sequence > cells[pinned].record.sequence
  BY <1>9, HeldStep
<1>11. /\ Readable' = Readable /\ Latest' = Latest /\ (ShowsGap' <=> ShowsGap)
  BY SameCells
<1>12. \A i \in Depths : stack[i].at \notin Unfinished
  BY <1>2 DEF Holding, Unfinished
<1>13. TypeOK'
  <2>1. /\ next_version' \in Nat /\ next_version' >= 2 /\ next_version' % 2 = 0
    BY <1>3, Parity
  <2>2. pinned' \in Cell \union {0}
    BY DEF EInv, TypeOK
  <2> QED
    BY Zenon, <2>1, <2>2, <1>7 DEF EInv, TypeOK
<1>14. CellsOK'
  <2>1. newest \in Nat /\ newest < next_version
    BY DEF EInv, TypeOK, CellsOK
  <2>2. newest' < next_version'
    BY <2>1, <1>3
  <2>3. newest # 0 =>
            \E c \in Cell : c \in Readable' /\ cells'[c].version = newest'
    BY <1>11, <1>12 DEF EInv, CellsOK
  <2> QED
    BY <2>2, <2>3, <1>11 DEF EInv, CellsOK
<1>15. PinsOK'
  BY Zenon, <1>6, <1>7, <1>10 DEF PinsOK
<1>16. SequencesOK'
  BY <1>10 DEF EInv, SequencesOK
<1>17. PinnedOK'
  <2> SUFFICES ASSUME pinned' # 0
               PROVE  PinnedOK'
    BY DEF PinnedOK
  <2>1. pinned' = pinned /\ pinned # 0
    OBVIOUS
  <2> QED
    BY Zenon, <2>1, <1>10, <1>11 DEF EInv, PinnedOK
<1>18. StoresOK'
  <2> SUFFICES ASSUME NEW i \in Depths', stack'[i].at \in Storing
               PROVE  /\ StoreOK(i)'
                      /\ stack'[i].at = "odd" => OddOK(i)'
                      /\ stack'[i].at \in Unfinished => UnfinishedOK(i)'
    BY DEF StoresOK
  <2>1. i = n
    BY <1>10
  <2>2. stack'[i].at \notin Unfinished
    BY <2>1, <1>6, <1>7 DEF Unfinished
  <2>3. newest < next_version /\ next_version = next_version' - 2
    BY <1>3 DEF EInv, CellsOK
  <2>4. Head(stack'[i].script) = Op
    BY <2>1, <1>6, <1>7 DEF Op
  <2>5. stack'[i].version = next_version /\ stack'[i].record.of = next_version
        /\ stack'[i].cell = cell /\ stack'[i].replaces = replaces
    BY <2>1, <1>4, <1>6, <1>7
  <2>6. CASE /\ Op # "cancel" /\ ~ShowsGap /\ pinned' = pinned
             /\ cell = Target /\ replaces = 0
    <3>1. /\ pinned # 0 => cell # pinned
          /\ (pinned = 0 /\ newest # 0) =>
                  /\ 3 - cell \in Readable
                  /\ cells[3 - cell].version = newest
      BY <2>6, <1>12, TargetIsOld
    <3>2. StoreOK(i)'
      BY <2>3, <2>4, <2>5, <2>6, <3>1, <1>11 DEF StoreOK, Cancels
    <3>3. OddOK(i)'
      BY <2>5, <2>6, <3>1, <1>11 DEF OddOK
    <3> QED
      BY <2>2, <3>2, <3>3
  <2>7. CASE /\ Op = "cancel" /\ pinned # 0 /\ pinned' = 0
             /\ cell = pinned /\ replaces = cells[cell].version
    <3>1. cell \in Readable
      BY <2>7 DEF EInv, PinnedOK
    <3>2. StoreOK(i)'
      BY <2>3, <2>4, <2>5, <2>7 DEF StoreOK, Cancels
    <3>3. OddOK(i)'
      BY <2>4, <2>5, <2>7, <3>1, <1>11 DEF OddOK, Cancels
    <3> QED
      BY <2>2, <3>2, <3>3
  <2> QED
    BY <2>6, <2>7
<1> QED
  BY <1>10, <1>13, <1>14, <1>15, <1>16, <1>17, <1>18 DEF EInv

(* An intent that is not the pinned one: the outcome is an ordinary        *)
(* publication, which has to claim again.                                  *)
LEMMA NoMatchStep ==
    ASSUME EInv, stack # <<>>, Top.at = "inspect", Op = "cancel", claim' = FALSE,
           Becomes([Top EXCEPT !.at = "claim", !.script[1] = "signal"]),
           UNCHANGED <<cells, next_version, pinned, sequence, newest, cancelled>>
    PROVE  EInv'
<1> DEFINE n == Len(stack)
           t == [Top.script EXCEPT ![1] = "signal"]
           a == [Top EXCEPT !.at = "claim", !.script = t]
<1>1. /\ stack \in Seq(Activations) /\ Top \in Activations /\ n \in Nat /\ n >= 1
      /\ Top.script \in Seq(Ops) /\ Top.script # <<>> /\ sequence \in Nat
      /\ Top.record.sequence <= sequence /\ (n > 1 => Op \in NestedOps)
      /\ pinned # 0 => Top.record.sequence > cells[pinned].record.sequence
  BY TopFacts DEF Publishing
<1>2. ~(n > 1)
  BY <1>1 DEF NestedOps
<1>3. /\ t \in Seq(Ops) /\ t # <<>> /\ Head(t) = "signal"
  <2>1. Len(Top.script) \in Nat /\ Len(Top.script) # 0
    BY <1>1, SequenceLength
  <2>2. 1 \in 1..Len(Top.script) /\ "signal" \in Ops
    BY <2>1 DEF Ops
  <2>3. t \in Seq(Ops) /\ Len(t) = Len(Top.script) /\ t[1] = "signal"
    BY <1>1, <2>2
  <2> HIDE DEF t
  <2>4. t # <<>>
    BY <2>1, <2>3, SequenceLength
  <2> QED
    BY <2>3, <2>4
<1>4. Becomes(a)
  OBVIOUS
<1> HIDE DEF t
<1>5. /\ a \in Activations /\ a.at = "claim" /\ a.script = t /\ a.record = Top.record
  BY Zenon, <1>1, <1>3 DEF Activations
<1> HIDE DEF a
<1>6. /\ stack' \in Seq(Activations) /\ Len(stack') = n /\ stack'[n] = a
      /\ \A i \in 1..n : i # n => stack'[i] = stack[i]
  BY <1>1, <1>4, <1>5, BecomesEffect
<1>7. \A i \in Depths' : i = n => Calm(i)'
  BY <1>1, <1>2, <1>3, <1>5, <1>6 DEF Calm
<1>8. /\ Top.at \in Holding /\ Top.at \notin Storing \union {"pin"}
      /\ \A i \in Depths' : i = n => stack'[i].at \notin Holding
  BY <1>5, <1>6 DEF Holding, Storing
<1>9. /\ Len(stack') \in {n - 1, n} /\ sequence' \in Nat /\ sequence' >= sequence
      /\ \A i \in 1..Len(stack') : i # n => stack'[i] = stack[i]
  BY <1>1, <1>6
<1> QED
  BY Zenon, <1>6, <1>7, <1>8, <1>9, TopStep, SameIsAlike

LEMMA InspectStep ==
    ASSUME EInv, Inspect
    PROVE  EInv'
<1>1. stack # <<>> /\ Top.at = "inspect"
  BY DEF Inspect, At
<1>2. UNCHANGED <<cells, sequence, newest, cancelled>>
  BY DEF Inspect, history
<1>3. /\ Top.at \in Holding /\ Top.at \notin Storing \union {"pin"}
  BY <1>1 DEF Holding, Storing
<1>4. \A i \in Depths : stack[i].at \notin Storing
  BY Zenon, <1>1, <1>3, TopFacts DEF Storing, Holding
<1>5. ASSUME NEW forced \in Cell \union {0}, NEW cell \in Cell,
             Allocated(forced, cell), UNCHANGED <<cells, sequence, newest, cancelled>>,
             \/ /\ Op # "cancel" /\ ~ShowsGap /\ pinned' = pinned
                /\ cell = Target /\ forced = 0
             \/ /\ Op = "cancel" /\ pinned # 0 /\ pinned' = 0
                /\ cell = pinned /\ forced = pinned
      PROVE  EInv'
  <2>1. CASE next_version > MaxVersion
    <3>1. /\ claim' = FALSE /\ next_version' = next_version
          /\ Ends \/ Goes("dropped")
      <4>1. ~(next_version <= MaxVersion)
        BY <2>1, EmergencyAssumption DEF EInv, TypeOK
      <4> QED
        BY <4>1, <1>5 DEF Allocated
    <3>2. CASE Ends
      BY Zenon, <3>1, <3>2, <1>1, <1>2, <1>3, <1>4, <1>5, EndStep, SameIsAlike
    <3>3. CASE Goes("dropped")
      BY Zenon, <3>1, <3>3, <1>1, <1>2, <1>3, <1>4, <1>5, GoesStep
    <3> QED
      BY <3>1, <3>2, <3>3
  <2>2. CASE ~(next_version > MaxVersion)
    <3> DEFINE replaces == IF forced # 0 THEN cells[forced].version ELSE 0
    <3>1. replaces \in Nat
      BY DEF EInv, TypeOK, CellContents
    <3>2. /\ next_version' = next_version + 2 /\ claim' = claim
          /\ Becomes([Top EXCEPT
                 !.at = "odd", !.version = next_version, !.record.of = next_version,
                 !.cell = cell, !.replaces = replaces])
      BY <2>2, <1>5 DEF Allocated
    <3>3. /\ forced = 0 => replaces = 0
          /\ (forced # 0 /\ forced = cell) => replaces = cells[cell].version
      OBVIOUS
    <3> HIDE DEF replaces
    <3>4. \/ /\ Op # "cancel" /\ ~ShowsGap /\ pinned' = pinned
             /\ cell = Target /\ replaces = 0
          \/ /\ Op = "cancel" /\ pinned # 0 /\ pinned' = 0
             /\ cell = pinned /\ replaces = cells[cell].version
      BY Zenon, <3>3, <1>5
    <3> QED
      BY Zenon, <3>1, <3>2, <3>4, <1>1, <1>5, AllocateStep
  <2> QED
    BY <2>1, <2>2
<1>6. CASE Op = "cancel" /\ Matches /\ pinned' = 0 /\ Allocate(pinned)
  <2>1. pinned # 0 /\ pinned \in Cell
    BY Zenon, <1>6 DEF Matches, EInv, TypeOK
  <2>2. Allocated(pinned, pinned)
    BY <1>6, <2>1 DEF Allocate
  <2> QED
    BY Zenon, <2>1, <2>2, <1>2, <1>5, <1>6
<1>7. CASE Op # "cancel" /\ ~ShowsGap /\ Allocate(0) /\ pinned' = pinned
  <2>1. Target \in Cell
    BY DEF Target, Cell, EInv, TypeOK
  <2>2. Allocated(0, Target)
    BY <1>7 DEF Allocate
  <2> QED
    BY Zenon, <2>1, <2>2, <1>2, <1>5, <1>7
<1>8. CASE /\ Op = "cancel" /\ claim' = FALSE /\ UNCHANGED <<next_version, pinned>>
           /\ Becomes([Top EXCEPT !.at = "claim", !.script[1] = "signal"])
  BY Zenon, <1>1, <1>2, <1>8, NoMatchStep
<1>9. CASE claim' = FALSE /\ Goes("dropped") /\ UNCHANGED <<next_version, pinned>>
  BY Zenon, <1>1, <1>2, <1>3, <1>9, GoesStep
<1> QED
  BY Zenon, <1>6, <1>7, <1>8, <1>9 DEF Inspect
-----------------------------------------------------------------------------
(* EInv holds in every reachable state, for every number of nested         *)
(* deliveries, every set of signals and however many versions there are.   *)
THEOREM EmergencyInvariant == Spec => []EInv
<1>1. Init => EInv
  <2> SUFFICES ASSUME Init PROVE EInv
    OBVIOUS
  <2>1. /\ stack = <<>> /\ Depths = {} /\ stack \in Seq(Activations)
        /\ claim = FALSE /\ pinned = 0 /\ newest = 0 /\ cancelled = {}
        /\ next_version = 2 /\ sequence = 0
    BY DEF Init, Depths
  <2>2. Blank \in Records /\ Blank.sequence = 0
    BY Zenon DEF Blank, Records
  <2>3. cells = [i \in Cell |-> [version |-> 0, committed |-> FALSE,
                                record |-> Blank, checksum |-> Blank]]
    BY DEF Init
  <2>4. /\ cells \in [Cell -> CellContents]
        /\ \A c \in Cell : ~cells[c].committed /\ cells[c].record = Blank
    BY Zenon, <2>2, <2>3 DEF CellContents
  <2>5. Readable = {}
    BY <2>4 DEF Readable, ReadableOf, Accepted
  <2>6. TypeOK
    <3>1. next_version \in Nat /\ next_version >= 2 /\ next_version % 2 = 0
      BY <2>1
    <3>2. claim \in BOOLEAN /\ pinned \in Cell \union {0} /\ sequence \in Nat
          /\ newest \in Nat /\ cancelled \subseteq Nat
      BY Zenon, <2>1
    <3> QED
      BY <2>1, <2>4, <3>1, <3>2 DEF TypeOK
  <2>7. ScriptsOK /\ OneHolder /\ IntentsOK /\ StoresOK /\ PinsOK /\ CountsOK
    BY Zenon, <2>1 DEF ScriptsOK, OneHolder, IntentsOK, StoresOK, PinsOK, CountsOK
  <2>8. CellsOK /\ PinnedOK
    BY <2>1, <2>5 DEF CellsOK, PinnedOK
  <2>9. SequencesOK
    BY <2>1, <2>2, <2>4 DEF SequencesOK
  <2> QED
    BY <2>6, <2>7, <2>8, <2>9 DEF EInv
<1>2. EInv /\ [Next]_vars => EInv'
  <2> SUFFICES ASSUME EInv, [Next]_vars PROVE EInv'
    OBVIOUS
  <2>1. CASE Callbacks
    <3>1. /\ <<"intent">> \in Seq(Ops) /\ <<"intent">> # <<>>
          /\ <<"intent", "gap">> \in Seq(Ops) /\ <<"intent", "gap">> # <<>>
          /\ <<"syscall">> \in Seq(Ops) /\ <<"syscall">> # <<>>
          /\ <<>> \in Seq(Ops)
      BY DEF Ops
    <3>2. ASSUME NEW stored \in BOOLEAN, NEW signal \in Signals \union {NoSignal},
                 NEW directed \in BOOLEAN, Intent(signal, directed, stored)
          PROVE  EInv'
      BY Zenon, <3>1, <3>2, CallbackStep DEF Intent
    <3>3. ASSUME NEW stored \in BOOLEAN, NEW signal \in Signals,
                 QueuedSignal(signal, stored)
          PROVE  EInv'
      BY Zenon, <3>1, <3>3, CallbackStep DEF QueuedSignal
    <3>4. ASSUME NEW stored \in BOOLEAN, RtSigaction(stored)
          PROVE  EInv'
      BY Zenon, <3>1, <3>4, CallbackStep DEF RtSigaction
    <3>5. ASSUME SnapshotFails PROVE EInv'
      BY Zenon, <3>1, <3>5, CallbackStep DEF SnapshotFails
    <3>6. ASSUME Instruction PROVE EInv'
      BY <3>6, InstructionStep
    <3> QED
      BY <2>1, <3>2, <3>3, <3>4, <3>5, <3>6 DEF Callbacks
  <2>2. CASE Deliveries
    BY <2>2, DeliveryStep DEF Deliveries
  <2>3. CASE Stores
    BY <2>3, StoreOddStep, StoreClearStep, StoreFieldsStep, StoreEvenStep,
       StoreCommitStep, PinStep, ReleaseStep DEF Stores
  <2>4. CASE UNCHANGED vars
    <3>1. UNCHANGED <<cells, claim, next_version, pinned, sequence, stack, newest,
                      cancelled>>
      BY <2>4 DEF vars, slot, history
    <3>2. Depths' = Depths /\ OneHolder'
      BY <3>1 DEF EInv, OneHolder, Depths
    <3>3. sequence' \in Nat /\ sequence' >= sequence /\ claim' \in BOOLEAN
          /\ stack' \in Seq(Activations)
      BY <3>1 DEF EInv, TypeOK
    <3> QED
      BY Zenon, <3>1, <3>2, <3>3, CalmStep, SameIsAlike
  <2> QED
    BY <2>1, <2>2, <2>3, <2>4, StartStep, ClaimStep, InspectStep, DroppedStep,
       CountStep DEF Next
<1> QED
  BY <1>1, <1>2, PTL DEF Spec

(* What the readers take from the slot (select_emergency): the record of a *)
(* cell they accept, the newest of them included, and the older one too    *)
(* when it is an intent whose outcome is the newer.                        *)
LEMMA RecoveredRecords ==
    ASSUME EInv
    PROVE  /\ \A r \in Recovered : \E c \in Readable : r = cells[c].record
           /\ \A c \in Readable :
                  (\A d \in Readable : d # c => cells[d].version < cells[c].version)
                      => cells[c].record \in Recovered
           /\ \A c, d \in Readable :
                  (/\ cells[d].version > cells[c].version
                   /\ cells[d].record.sequence > cells[c].record.sequence
                   /\ Pair(cells[c].record, cells[d].record))
                      => cells[c].record \in Recovered
<1>1. /\ Valid(1) <=> 1 \in Readable
      /\ Valid(2) <=> 2 \in Readable
      /\ Readable \subseteq {1, 2}
  BY ReadsTheCells DEF Cell, Readable, ReadableOf
<1>2. cells[1].version \in Nat /\ cells[2].version \in Nat
  BY DEF EInv, TypeOK, CellContents, Cell
<1>3. (1 \in Readable /\ 2 \in Readable) => cells[1].version # cells[2].version
  BY Zenon DEF EInv, CellsOK
<1>4. Newer(2, 1) <=> (2 \in Readable /\ (1 \notin Readable
                                         \/ cells[2].version > cells[1].version))
  BY Zenon, <1>1 DEF Newer
<1>5. CASE ~(1 \in Readable /\ 2 \in Readable)
  <2>1. Recovered = {cells[c].record : c \in Readable}
    <3>1. {j \in Cell : Valid(j)} = Readable
      BY ReadsTheCells DEF Readable, ReadableOf
    <3> QED
      BY Zenon, <3>1, <1>1, <1>5 DEF Recovered
  <2>2. \A c, d \in Readable : c = d
    BY <1>1, <1>5
  <2> QED
    BY Zenon, <2>1, <2>2, <1>1, <1>2
<1>6. CASE 1 \in Readable /\ 2 \in Readable
  <2>1. ASSUME NEW new \in {1, 2}, NEW old \in {1, 2}, new # old,
               new = IF Newer(2, 1) THEN 2 ELSE 1
        PROVE  /\ cells[new].version > cells[old].version
               /\ Recovered =
                    {cells[new].record} \union
                    {r \in {cells[old].record} :
                        /\ cells[new].record.sequence > r.sequence
                        /\ cells[new].version = cells[old].version + 2
                            \/ Pair(r, cells[new].record)}
    <3>1. cells[new].version > cells[old].version
      BY <2>1, <1>2, <1>3, <1>4, <1>6
    <3>2. cells[1].version # cells[2].version /\ Valid(1) /\ Valid(2)
      BY <1>1, <1>3, <1>6
    <3>3. CASE Newer(2, 1)
      <4>1. new = 2 /\ old = 1
        BY <2>1, <3>3
      <4> QED
        BY Zenon, <3>1, <3>2, <3>3, <4>1 DEF Recovered
    <3>4. CASE ~Newer(2, 1)
      <4>1. new = 1 /\ old = 2
        BY <2>1, <3>4
      <4> QED
        BY Zenon, <3>1, <3>2, <3>4, <4>1 DEF Recovered
    <3> QED
      BY Zenon, <3>3, <3>4
  <2>2. PICK new \in {1, 2}, old \in {1, 2} :
            new # old /\ new = IF Newer(2, 1) THEN 2 ELSE 1
    <3>1. CASE Newer(2, 1)
      BY <3>1
    <3>2. CASE ~Newer(2, 1)
      BY <3>2
    <3> QED
      BY <3>1, <3>2
  <2>3. /\ cells[new].version > cells[old].version
        /\ Recovered =
             {cells[new].record} \union
             {r \in {cells[old].record} :
                 /\ cells[new].record.sequence > r.sequence
                 /\ cells[new].version = cells[old].version + 2
                     \/ Pair(r, cells[new].record)}
    BY Zenon, <2>1, <2>2
  <2>4. /\ new \in Readable /\ old \in Readable
        /\ \A c \in Readable : c = new \/ c = old
    BY <2>2, <1>1, <1>6
  <2>5. cells[new].version \in Nat /\ cells[old].version \in Nat
    BY Zenon, <1>2
  <2>6. \A r \in Recovered : r = cells[new].record \/ r = cells[old].record
    BY Zenon, <2>3
  <2>7. cells[new].record \in Recovered
    BY Zenon, <2>3
  <2>8. (/\ cells[new].record.sequence > cells[old].record.sequence
         /\ Pair(cells[old].record, cells[new].record))
            => cells[old].record \in Recovered
    BY Zenon, <2>3
  <2>9. ~(cells[old].version > cells[new].version)
        /\ ~(cells[new].version < cells[old].version)
        /\ ~(cells[old].version > cells[old].version)
    BY <2>3, <2>5
  <2>10. \A r \in Recovered : \E c \in Readable : r = cells[c].record
    BY <2>4, <2>6
  <2>11. ASSUME NEW c \in Readable,
                \A d \in Readable : d # c => cells[d].version < cells[c].version
         PROVE  cells[c].record \in Recovered
    BY Zenon, <2>2, <2>4, <2>7, <2>9, <2>11
  <2>12. ASSUME NEW c \in Readable, NEW d \in Readable,
                cells[d].version > cells[c].version,
                cells[d].record.sequence > cells[c].record.sequence,
                Pair(cells[c].record, cells[d].record)
         PROVE  cells[c].record \in Recovered
    BY Zenon, <2>4, <2>7, <2>8, <2>9, <2>12
  <2> QED
    BY Zenon, <2>10, <2>11, <2>12
<1> QED
  BY Zenon, <1>5, <1>6

(* Wherever the process dies, the readers find the last record that was    *)
(* committed, or the pinned intent while the other cell is being written.  *)
THEOREM EvidenceIsKept == Spec => []EvidenceSurvives
<1>1. EInv => EvidenceSurvives
  <2> SUFFICES ASSUME EInv PROVE EvidenceSurvives
    OBVIOUS
  <2>1. \A c \in Cell : Valid(c) => cells[c].record.of = cells[c].version
    BY Zenon, ReadsTheCells DEF EInv, CellsOK
  <2>2. ASSUME newest # 0, ~Cancelling
        PROVE  \E r \in Recovered :
                   r.of = newest \/ (pinned # 0 /\ r = cells[pinned].record)
    <3>1. /\ \A c \in Readable : /\ c \in Cell /\ cells[c].version <= newest
                                 /\ cells[c].record.of = cells[c].version
                                 /\ cells[c].version \in Nat
          /\ newest \in Nat
      BY Zenon DEF EInv, TypeOK, CellsOK, CellContents, Readable, ReadableOf
    <3>2. \A c, d \in Readable : c # d => cells[c].version # cells[d].version
      BY Zenon DEF EInv, CellsOK, Readable, ReadableOf, Cell
    <3>3. CASE \E c \in Cell : c \in Readable /\ cells[c].version = newest
      <4>1. PICK c \in Cell : c \in Readable /\ cells[c].version = newest
        BY <3>3
      <4>2. ASSUME NEW d \in Readable, d # c
            PROVE  cells[d].version < cells[c].version
        <5>1. cells[d].version # cells[c].version
          BY <4>1, <4>2, <3>2
        <5> QED
          BY <5>1, <4>1, <3>1
      <4>3. cells[c].record \in Recovered
        BY Zenon, <4>1, <4>2, RecoveredRecords
      <4> QED
        BY Zenon, <4>1, <4>3, <3>1
    <3>4. CASE \E i \in Depths :
                   stack[i].at \in Unfinished /\ (pinned # 0 \/ Cancels(i))
      <4>1. PICK i \in Depths :
                stack[i].at \in Unfinished /\ (pinned # 0 \/ Cancels(i))
        BY <3>4
      <4>2. stack[i].at \in Storing
        BY <4>1 DEF Unfinished, Storing
      <4>3. ~Cancels(i)
        BY <2>2, <4>2 DEF Cancelling, Cancels, Depths
      <4>4. pinned # 0 /\ pinned \in Readable
        BY Zenon, <4>1, <4>3 DEF EInv, PinnedOK
      <4>5. stack[i].cell \in Cell /\ stack[i].cell \notin Readable
        BY <4>1, UnfinishedUnread
      <4>6. \A d \in Readable : d = pinned
        BY Zenon, <4>4, <4>5, <3>1 DEF Cell
      <4>7. cells[pinned].record \in Recovered
        BY Zenon, <4>4, <4>6, RecoveredRecords
      <4> QED
        BY <4>4, <4>7
    <3> QED
      BY Zenon, <2>2, <3>3, <3>4 DEF EInv, CellsOK
  <2> QED
    BY <2>1, <2>2 DEF EvidenceSurvives
<1> QED
  BY <1>1, EmergencyInvariant, PTL

(* The readers report a pinned intent together with the first delivery of  *)
(* its signal, and never an intent that was cancelled.                     *)
THEOREM IntentsStayTruthful == Spec => []IntentsAreTruthful
<1>1. EInv => IntentsAreTruthful
  <2> SUFFICES ASSUME EInv PROVE IntentsAreTruthful
    OBVIOUS
  <2>1. CancelledIsGone
    <3> SUFFICES ASSUME NEW r \in Recovered PROVE r.of \notin cancelled
      BY DEF CancelledIsGone
    <3>1. PICK c \in Readable : r = cells[c].record
      BY Zenon, RecoveredRecords
    <3> QED
      BY Zenon, <3>1 DEF EInv, CellsOK, Readable, ReadableOf
  <2>2. ASSUME pinned # 0
        PROVE  /\ Valid(pinned) /\ cells[pinned].record.type = "TerminationIntent"
               /\ (/\ Valid(3 - pinned) /\ 3 - pinned = Latest
                   /\ Pair(cells[pinned].record, cells[3 - pinned].record))
                      => cells[pinned].record \in Recovered
    <3>1. /\ pinned \in Readable /\ pinned \in Cell /\ 3 - pinned \in Cell
          /\ 3 - pinned # pinned
          /\ cells[pinned].record.type = "TerminationIntent"
      BY <2>2 DEF EInv, PinnedOK, TypeOK, Cell
    <3>2. ASSUME Valid(3 - pinned), 3 - pinned = Latest,
                 Pair(cells[pinned].record, cells[3 - pinned].record)
          PROVE  cells[pinned].record \in Recovered
      <4>1. 3 - pinned \in Readable
        BY Zenon, <3>1, <3>2, ReadsTheCells
      <4>2. /\ cells[1].version \in Nat /\ cells[2].version \in Nat
            /\ 1 \in Readable /\ 2 \in Readable
            /\ cells[1].version # cells[2].version
        BY <3>1, <4>1 DEF EInv, TypeOK, CellContents, CellsOK, Cell
      <4>3. LatestOf(cells) = IF cells[2].version > cells[1].version THEN 2 ELSE 1
        BY Zenon, <4>2 DEF LatestOf, Readable
      <4>4. 3 - pinned = IF cells[2].version > cells[1].version THEN 2 ELSE 1
        BY Zenon, <3>2, <4>3, ReadsTheCells
      <4>5. cells[3 - pinned].version > cells[pinned].version
        BY <4>2, <4>4, <3>1 DEF Cell
      <4>6. cells[3 - pinned].record.sequence > cells[pinned].record.sequence
        BY Zenon, <2>2, <4>1, <4>5 DEF EInv, PinnedOK
      <4> QED
        BY Zenon, <3>1, <3>2, <4>1, <4>5, <4>6, RecoveredRecords
    <3> QED
      BY Zenon, <3>1, <3>2, ReadsTheCells
  <2>3. PairIsRecovered
    BY Zenon, <2>2 DEF PairIsRecovered
  <2> QED
    BY <2>1, <2>3 DEF IntentsAreTruthful
<1> QED
  BY <1>1, EmergencyInvariant, PTL

(* While a coverage gap is the latest record, no step replaces it, except  *)
(* the replacement of a pinned intent by its outcome.                      *)
THEOREM GapStays == Spec => GapIsKept
<1> DEFINE Keeps == ShowsGap /\ ~Cancelling =>
               ShowsGap' /\ cells'[Latest'].record.of = cells[Latest].record.of
<1>1. EInv /\ [Next]_vars => [Keeps]_vars
  <2> SUFFICES ASSUME EInv, [Next]_vars, ShowsGap, ~Cancelling
               PROVE  ShowsGap' /\ cells'[Latest'].record.of = cells[Latest].record.of
    BY Zenon
  <2>1. \A i \in Depths : stack[i].at \notin Storing
    <3> SUFFICES ASSUME NEW i \in Depths, stack[i].at \in Storing PROVE FALSE
      OBVIOUS
    <3>1. StoreOK(i)
      BY Zenon DEF EInv, StoresOK
    <3> QED
      BY Zenon, <3>1 DEF StoreOK, Cancels, Cancelling, Depths
  <2>2. CASE cells' = cells
    BY <2>2, SameCells
  <2>3. CASE Count
    <3>1. Alike
      BY <2>3, CountAlike
    <3>2. Latest \in Cell
      BY DEF ShowsGap, Latest, Cell
    <3> QED
      BY <3>1, <3>2 DEF Alike
  <2>4. ASSUME NEW place \in Storing, NEW next, NEW content,
               Store(place, next, content)
        PROVE  FALSE
    <3>1. stack # <<>> /\ Top.at \in Storing
      BY <2>4 DEF Store, At
    <3> QED
      BY Zenon, <3>1, <2>1, TopFacts
  <2>5. CASE StoreOdd \/ StoreClear \/ StoreFields \/ StoreEven \/ StoreCommit
    BY <2>4, <2>5 DEF StoreOdd, StoreClear, StoreFields, StoreEven, StoreCommit, Storing
  <2>6. CASE Callbacks \/ Deliveries
    BY Zenon, <2>2, <2>6 DEF Callbacks, Deliveries, Intent, QueuedSignal, RtSigaction,
       SnapshotFails, Callback, Delivery, Enters, Instruction, slot
  <2>7. CASE Start \/ Claim \/ Inspect \/ Pin \/ Release \/ Dropped \/ UNCHANGED vars
    BY <2>2, <2>7 DEF Start, Claim, Inspect, Pin, Release, Dropped, vars, slot
  <2> QED
    BY Zenon, <2>3, <2>5, <2>6, <2>7 DEF Next, Stores
<1> QED
  BY <1>1, EmergencyInvariant, PTL DEF Spec, GapIsKept
=============================================================================
