-------------------------- MODULE TraceWriterProofs --------------------------
(***************************************************************************)
(* The invariant of the asynchronous writer: the file, the published       *)
(* buffers and the producer's buffer make up what was committed, in this   *)
(* order, whatever the consumer, the producer and the finishing thread do. *)
(* TraceFileProofs uses it for the trace file.                             *)
(***************************************************************************)
EXTENDS BinaryTraceWriter, TLAPS

RecordSet == [kind : Kinds, op : Opcodes \union {0, "Completed", "Stopped"},
              size : Nat \ {0}]

States == {"Free", "Filling", "Ready", "Writing"}
Lives == {"new", "open", "joining", "joined", "unjoined", "finished", "destroyed"}
Places == {"none", "scan", "write", "finish", "release", "exited"}
Waits == {"none", "check", "reserve", "drain"}

ConsumerSet == [at : Places, buffer : 0..2, ok : BOOLEAN]
MetricSet == [encoded : Int, swaps : Int, waits : Int]

WriterTypeOK ==
    /\ life \in Lives /\ finish_result \in BOOLEAN /\ error \in BOOLEAN
    /\ state \in [Buffer -> States] /\ content \in [Buffer -> Seq(RecordSet)]
    /\ used \in [Buffer -> Nat] /\ order \in [Buffer -> Nat]
    /\ next_order \in Nat /\ active_buffer \in 0..2 /\ reservation \in Int
    /\ producer_done \in BOOLEAN /\ waiting \in Waits
    /\ consumer \in ConsumerSet
    /\ frames \in Seq({"torn", "complete"}) /\ written \in Seq(RecordSet)
    /\ compressed \in BOOLEAN
    /\ compressed_bytes \in Int /\ target \in Int /\ measured \in Int /\ padding \in Int
    /\ metrics \in MetricSet
    /\ stream \in Seq(RecordSet)

(* Who works on which buffer.                                              *)
BuffersAreOwned ==
    /\ consumer.buffer # 0 <=> consumer.at \in {"write", "finish", "release"}
    /\ consumer.buffer # 0 => active_buffer # consumer.buffer
    /\ \A i \in Buffer : used[i] = 0 => content[i] = <<>>
    /\ ~error => \A i \in Buffer :
           /\ state[i] = "Filling" <=> active_buffer = i
           /\ state[i] = "Writing" <=> consumer.buffer = i

(* What has not begun, what waits and what is over.                        *)
PhasesAgree ==
    /\ life = "new" => /\ stream = <<>> /\ ~error /\ ~producer_done
                       /\ \A i \in Buffer : state[i] = "Free" /\ content[i] = <<>>
    /\ life = "new" \/ consumer.at = "none" => active_buffer = 0 /\ consumer.at = "none"
    /\ consumer.at = "none" => life \in {"new", "finished"}
    /\ producer_done <=> life \notin {"new", "open"} /\ consumer.at # "none"
    /\ life # "open" => active_buffer = 0 /\ waiting = "none"
    /\ waiting = "check" => active_buffer # 0
    /\ waiting \in {"reserve", "drain"} => active_buffer = 0
    /\ life \in {"joined", "destroyed"} => consumer.at = "exited"
    /\ life = "finished" => consumer.at \in {"exited", "none"}
    /\ life \in {"unjoined", "destroyed"} => error
    /\ consumer.at = "exited" => error \/ (Ready = {} /\ producer_done)
    /\ consumer.at = "none" /\ life = "finished" => error

(* The records of a sequence lie in the stream behind the first `from`.    *)
LiesAt(str, records, from) ==
    /\ from + Len(records) <= Len(str)
    /\ \A k \in 1..Len(records) : str[from + k] = records[k]

(* What was published before buffer i is in the other one.                 *)
Ahead(i, st, cont, ord) ==
    IF st[Other(i)] = "Ready" /\ (st[i] = "Ready" => ord[Other(i)] < ord[i])
    THEN Len(cont[Other(i)]) ELSE 0

Holds(i, st) == st[i] = "Ready" \/ st[i] = "Filling"
Held(i, st, cont) == IF Holds(i, st) THEN Len(cont[i]) ELSE 0

(* Behind the first `base` records of the stream come the published        *)
(* buffers, in the order of their numbers, and the producer's buffer.      *)
Chain(str, base, st, cont, ord) ==
    /\ \A i \in Buffer : Holds(i, st) =>
           LiesAt(str, cont[i], base + Ahead(i, st, cont, ord))
    /\ base + Held(1, st, cont) + Held(2, st, cont) = Len(str)

Ordered(st, ord, next) ==
    /\ \A i \in Buffer : st[i] = "Ready" => ord[i] < next
    /\ st[1] = "Ready" /\ st[2] = "Ready" => ord[1] # ord[2]

(* The consumer will write all of what it has, unless it has just failed.  *)
Sound == ~error /\ (consumer.at = "release" => consumer.ok)

(* What the consumer has written or is about to write.                     *)
Base == Len(written)
        + IF consumer.at = "write" THEN Len(content[consumer.buffer]) ELSE 0

FileFollows ==
    /\ LiesAt(stream, written, 0)
    /\ consumer.at = "write" =>
           LiesAt(stream, content[consumer.buffer], Len(written))
    /\ Sound => Chain(stream, Base, state, content, order)
    /\ ~error => Ordered(state, order, next_order)

(* Only the last frame may be torn, by a write that goes on or has failed. *)
FramesFollow ==
    /\ \A k \in 1..(Len(frames) - 1) : frames[k] = "complete"
    /\ \/ frames = <<>> \/ frames[Len(frames)] = "complete"
       \/ consumer.at = "finish" \/ (consumer.at = "release" /\ ~consumer.ok)
       \/ consumer.at = "exited" /\ error
    /\ consumer.at = "finish" => frames # <<>>

ResultFollows ==
    finish_result => life = "finished" /\ ~error /\ consumer.at = "exited"

WInv == /\ WriterTypeOK /\ BuffersAreOwned /\ PhasesAgree /\ FileFollows
        /\ FramesFollow /\ ResultFollows
-----------------------------------------------------------------------------
(* Sequences with the same elements are the same.                          *)
LEMMA SameElements ==
    ASSUME NEW S, NEW s \in Seq(S), NEW t \in Seq(S), NEW n \in Nat,
           Len(s) = n, Len(t) = n, \A k \in 1..n : s[k] = t[k]
    PROVE  s = t
OBVIOUS

(* Short sequences.                                                        *)
LEMMA ShortSequences ==
    ASSUME NEW S, NEW a \in S, NEW b \in S, NEW c \in S
    PROVE  /\ <<>> \in Seq(S) /\ <<a>> \in Seq(S) /\ <<a, b>> \in Seq(S)
           /\ <<a, b, c>> \in Seq(S)
           /\ <<>> \o <<a>> = <<a>> /\ <<a>> \o <<b>> = <<a, b>>
<1>1. <<>> \in Seq(S) /\ <<a>> \in Seq(S) /\ <<a, b>> \in Seq(S)
  OBVIOUS
<1>2. <<a, b, c>> \in Seq(S)
  OBVIOUS
<1>3. <<>> \o <<a>> = <<a>>
  OBVIOUS
<1>4. <<a>> \o <<b>> = <<a, b>>
  <2>1. /\ <<a>> \o <<b>> \in Seq(S) /\ Len(<<a>> \o <<b>>) = 2
        /\ (<<a>> \o <<b>>)[1] = a /\ (<<a>> \o <<b>>)[2] = b
    OBVIOUS
  <2>2. /\ <<a, b>> \in Seq(S) /\ Len(<<a, b>>) = 2
        /\ <<a, b>>[1] = a /\ <<a, b>>[2] = b
    OBVIOUS
  <2>3. \A k \in 1..2 : k = 1 \/ k = 2
    OBVIOUS
  <2>4. \A k \in 1..2 : (<<a>> \o <<b>>)[k] = <<a, b>>[k]
    BY <2>1, <2>2, <2>3, Zenon
  <2>5. QED
    BY Zenon, <2>1, <2>2, <2>4, SameElements
<1>5. QED
  BY <1>1, <1>2, <1>3, <1>4

(* A sequence without elements.                                            *)
LEMMA NoElements ==
    ASSUME NEW S, NEW s \in Seq(S), Len(s) = 0
    PROVE  s = <<>>
OBVIOUS

(* Sequences that lie in the stream.                                       *)

(* A record more in the stream moves nothing.                              *)
LEMMA LiesExtends ==
    ASSUME NEW S, NEW str \in Seq(S), NEW records \in Seq(S), NEW from \in Nat,
           NEW r \in S, LiesAt(str, records, from)
    PROVE  LiesAt(Append(str, r), records, from)
BY DEF LiesAt

(* A record appended to the stream and to the records at its end.          *)
LEMMA LiesAppended ==
    ASSUME NEW S, NEW str \in Seq(S), NEW records \in Seq(S), NEW from \in Nat,
           NEW r \in S, LiesAt(str, records, from),
           from + Len(records) = Len(str)
    PROVE  LiesAt(Append(str, r), Append(records, r), from)
<1>1. /\ Len(Append(records, r)) = Len(records) + 1 /\ Len(records) \in Nat
      /\ Len(Append(str, r)) = Len(str) + 1 /\ Len(str) \in Nat
  OBVIOUS
<1>2. ASSUME NEW k \in 1..(Len(records) + 1)
      PROVE  Append(str, r)[from + k] = Append(records, r)[k]
  <2>1. CASE k = Len(records) + 1
    BY <1>1, <2>1
  <2>2. CASE k # Len(records) + 1
    <3>1. k \in 1..Len(records) /\ from + k \in 1..Len(str)
      BY <1>1, <2>2
    <3>2. /\ Append(records, r)[k] = records[k]
          /\ Append(str, r)[from + k] = str[from + k]
      BY <3>1
    <3>3. QED
      BY <3>1, <3>2 DEF LiesAt
  <2>3. QED
    BY Zenon, <2>1, <2>2
<1>3. from + Len(Append(records, r)) <= Len(Append(str, r))
  BY <1>1
<1>4. \A k \in 1..Len(Append(records, r)) :
          Append(str, r)[from + k] = Append(records, r)[k]
  BY <1>1, <1>2, Zenon
<1>5. QED
  BY <1>3, <1>4, Zenon DEF LiesAt

(* Two sequences that follow each other.                                   *)
LEMMA LiesJoined ==
    ASSUME NEW S, NEW str \in Seq(S), NEW a \in Seq(S), NEW b \in Seq(S),
           NEW from \in Nat, LiesAt(str, a, from), LiesAt(str, b, from + Len(a))
    PROVE  LiesAt(str, a \o b, from)
<1>1. /\ Len(a \o b) = Len(a) + Len(b)
      /\ Len(a) \in Nat /\ Len(b) \in Nat
  OBVIOUS
<1>2. ASSUME NEW k \in 1..Len(a \o b)
      PROVE  str[from + k] = (a \o b)[k]
  <2>1. CASE k <= Len(a)
    <3>1. (a \o b)[k] = a[k]
      BY <1>1, <2>1
    <3>2. QED
      BY <1>1, <2>1, <3>1 DEF LiesAt
  <2>2. CASE k > Len(a)
    <3>1. (a \o b)[k] = b[k - Len(a)]
      BY <1>1, <2>2
    <3>2. k - Len(a) \in 1..Len(b)
      BY <1>1, <2>2
    <3>3. from + Len(a) + (k - Len(a)) = from + k
      BY <1>1
    <3>4. QED
      BY <3>1, <3>2, <3>3 DEF LiesAt
  <2>3. QED
    BY <1>1, <2>1, <2>2
<1>3. QED
  BY <1>1, <1>2 DEF LiesAt

(* What lies at the beginning of the stream is a prefix of it, and all of  *)
(* it when it is as long.                                                  *)
LEMMA LiesFirst ==
    ASSUME NEW S, NEW str \in Seq(S), NEW w \in Seq(S), LiesAt(str, w, 0)
    PROVE  /\ Len(w) <= Len(str)
           /\ w = SubSeq(str, 1, Len(w))
           /\ \A k \in 1..Len(w) : str[k] = w[k]
           /\ Len(w) = Len(str) => w = str
<1>1. /\ Len(w) <= Len(str) /\ Len(w) \in Nat /\ Len(str) \in Nat
      /\ \A k \in 1..Len(w) : str[k] = w[k]
  BY DEF LiesAt
<1>2. w = SubSeq(str, 1, Len(w))
  <2>1. /\ SubSeq(str, 1, Len(w)) \in Seq(S)
        /\ Len(SubSeq(str, 1, Len(w))) = Len(w)
        /\ \A k \in 1..Len(w) : SubSeq(str, 1, Len(w))[k] = str[k]
    BY <1>1
  <2>2. QED
    BY <1>1, <2>1
<1>3. Len(w) = Len(str) => w = str
  BY <1>1
<1>4. QED
  BY <1>1, <1>2, <1>3
-----------------------------------------------------------------------------
(* The chain of the buffers, under what is done to one of them.            *)

Contents(cont) == cont \in [Buffer -> Seq(RecordSet)]
Numbers(ord) == ord \in [Buffer -> Nat]
Stages(st) == st \in [Buffer -> States]

OneFilling(st) == ~(st[1] = "Filling" /\ st[2] = "Filling")

(* Publishing: the producer's buffer becomes the last of the ready ones.   *)
LEMMA ChainPublished ==
    ASSUME NEW str \in Seq(RecordSet), NEW base \in Nat, NEW st, NEW cont,
           NEW ord, NEW next \in Nat, NEW i \in Buffer,
           Stages(st), Contents(cont), Numbers(ord), OneFilling(st),
           st[i] = "Filling", Ordered(st, ord, next)
    PROVE  /\ Ordered([st EXCEPT ![i] = "Ready"], [ord EXCEPT ![i] = next], next + 1)
           /\ Chain(str, base, st, cont, ord) =>
                  Chain(str, base, [st EXCEPT ![i] = "Ready"], cont,
                        [ord EXCEPT ![i] = next])
<1> DEFINE st2 == [st EXCEPT ![i] = "Ready"]
           ord2 == [ord EXCEPT ![i] = next]
<1>1. /\ st2[i] = "Ready" /\ st2[Other(i)] = st[Other(i)]
      /\ ord2[i] = next /\ ord2[Other(i)] = ord[Other(i)]
      /\ Other(i) \in Buffer /\ Other(i) # i /\ Other(Other(i)) = i
      /\ Buffer = {i, Other(i)}
  BY DEF Stages, Numbers, Buffer, Other
<1>2. ord[1] \in Nat /\ ord[2] \in Nat
  BY DEF Numbers, Buffer
<1>3. Ordered(st2, ord2, next + 1)
  BY <1>1, <1>2 DEF Ordered, Buffer
<1>4. \A j \in Buffer : /\ Holds(j, st2) = Holds(j, st)
                        /\ Held(j, st2, cont) = Held(j, st, cont)
  BY <1>1 DEF Holds, Held
<1>5. Ahead(i, st2, cont, ord2) = Ahead(i, st, cont, ord)
  BY <1>1, <1>2 DEF Ahead, Ordered, Buffer
<1>6. Holds(Other(i), st) =>
          Ahead(Other(i), st2, cont, ord2) = Ahead(Other(i), st, cont, ord)
  BY <1>1, <1>2 DEF Ahead, Ordered, Buffer, Holds, OneFilling
<1> HIDE DEF st2, ord2
<1>7. Chain(str, base, st, cont, ord) => Chain(str, base, st2, cont, ord2)
  BY <1>1, <1>4, <1>5, <1>6 DEF Chain, Buffer
<1>8. QED
  BY <1>3, <1>7 DEF st2, ord2

(* An empty buffer is given back.                                          *)
LEMMA ChainGivenBack ==
    ASSUME NEW str \in Seq(RecordSet), NEW base \in Nat, NEW st, NEW cont,
           NEW ord, NEW next \in Nat, NEW i \in Buffer,
           Stages(st), Contents(cont), Numbers(ord),
           st[i] = "Filling", cont[i] = <<>>, Ordered(st, ord, next)
    PROVE  /\ Ordered([st EXCEPT ![i] = "Free"], ord, next)
           /\ Chain(str, base, st, cont, ord) =>
                  Chain(str, base, [st EXCEPT ![i] = "Free"], cont, ord)
<1> DEFINE st2 == [st EXCEPT ![i] = "Free"]
<1>1. /\ st2[i] = "Free" /\ st2[Other(i)] = st[Other(i)]
      /\ Other(i) \in Buffer /\ Other(i) # i /\ Other(Other(i)) = i
      /\ Buffer = {i, Other(i)}
  BY DEF Stages, Buffer, Other
<1>2. Ordered(st2, ord, next)
  BY <1>1 DEF Ordered, Buffer
<1>3. /\ Holds(Other(i), st2) = Holds(Other(i), st) /\ ~Holds(i, st2)
      /\ Held(Other(i), st2, cont) = Held(Other(i), st, cont)
      /\ Held(i, st2, cont) = 0 /\ Held(i, st, cont) = 0
      /\ Ahead(Other(i), st2, cont, ord) = Ahead(Other(i), st, cont, ord)
  BY <1>1 DEF Holds, Held, Ahead
<1> HIDE DEF st2
<1>4. Chain(str, base, st, cont, ord) => Chain(str, base, st2, cont, ord)
  BY <1>1, <1>3 DEF Chain, Buffer
<1>5. QED
  BY <1>2, <1>4 DEF st2

(* A buffer that is free and was taken is empty and comes last.            *)
LEMMA ChainTaken ==
    ASSUME NEW str \in Seq(RecordSet), NEW base \in Nat, NEW st, NEW cont,
           NEW ord, NEW next \in Nat, NEW i \in Buffer,
           Stages(st), Contents(cont), Numbers(ord),
           st[i] = "Free", st[Other(i)] # "Filling", Ordered(st, ord, next)
    PROVE  /\ Ordered([st EXCEPT ![i] = "Filling"], ord, next)
           /\ Chain(str, base, st, cont, ord) =>
                  Chain(str, base, [st EXCEPT ![i] = "Filling"],
                        [cont EXCEPT ![i] = <<>>], ord)
<1> DEFINE st2 == [st EXCEPT ![i] = "Filling"]
           cont2 == [cont EXCEPT ![i] = <<>>]
<1>1. /\ st2[i] = "Filling" /\ st2[Other(i)] = st[Other(i)]
      /\ cont2[i] = <<>> /\ cont2[Other(i)] = cont[Other(i)]
      /\ Other(i) \in Buffer /\ Other(i) # i /\ Other(Other(i)) = i
      /\ Buffer = {i, Other(i)}
  BY DEF Stages, Contents, Buffer, Other
<1>2. Ordered(st2, ord, next)
  BY <1>1 DEF Ordered, Buffer
<1>3. /\ Holds(Other(i), st2) = Holds(Other(i), st) /\ ~Holds(i, st)
      /\ Held(Other(i), st2, cont2) = Held(Other(i), st, cont)
      /\ Held(i, st2, cont2) = 0 /\ Held(i, st, cont) = 0
      /\ Ahead(Other(i), st2, cont2, ord) = Ahead(Other(i), st, cont, ord)
      /\ Ahead(i, st2, cont2, ord) = Held(Other(i), st, cont)
  BY <1>1 DEF Holds, Held, Ahead
<1>4. Held(Other(i), st, cont) \in Nat
  BY <1>1 DEF Held, Contents
<1> HIDE DEF st2, cont2
<1>5. ASSUME Chain(str, base, st, cont, ord)
      PROVE  Chain(str, base, st2, cont2, ord)
  <2>1. base + Held(Other(i), st, cont) = Len(str)
    BY <1>1, <1>3, <1>4, <1>5 DEF Chain, Buffer
  <2>2. LiesAt(str, cont2[i], base + Ahead(i, st2, cont2, ord))
    BY <1>1, <1>3, <1>4, <2>1 DEF LiesAt
  <2>3. base + Held(1, st2, cont2) + Held(2, st2, cont2) = Len(str)
    BY <1>1, <1>3, <1>4, <2>1 DEF Buffer
  <2>4. QED
    BY Zenon, <1>1, <1>3, <1>5, <2>2, <2>3 DEF Chain
<1>6. QED
  BY <1>2, <1>5 DEF st2, cont2

(* The oldest ready buffer goes to the consumer: it lies behind what is    *)
(* written, and the rest behind it.                                        *)
LEMMA ChainScanned ==
    ASSUME NEW str \in Seq(RecordSet), NEW base \in Nat, NEW st, NEW cont,
           NEW ord, NEW next \in Nat, NEW i \in Buffer,
           Stages(st), Contents(cont), Numbers(ord), Ordered(st, ord, next),
           st[i] = "Ready", st[Other(i)] = "Ready" => ord[i] <= ord[Other(i)]
    PROVE  /\ Ordered([st EXCEPT ![i] = "Writing"], ord, next)
           /\ Chain(str, base, st, cont, ord) =>
                  /\ LiesAt(str, cont[i], base)
                  /\ Chain(str, base + Len(cont[i]),
                           [st EXCEPT ![i] = "Writing"], cont, ord)
<1> DEFINE st2 == [st EXCEPT ![i] = "Writing"]
<1>1. /\ st2[i] = "Writing" /\ st2[Other(i)] = st[Other(i)]
      /\ Other(i) \in Buffer /\ Other(i) # i /\ Other(Other(i)) = i
      /\ Buffer = {i, Other(i)} /\ Len(cont[i]) \in Nat
      /\ ord[i] \in Nat /\ ord[Other(i)] \in Nat
  BY DEF Stages, Contents, Numbers, Buffer, Other
<1>2. Ordered(st2, ord, next)
  BY <1>1 DEF Ordered, Buffer
<1>3. st[Other(i)] = "Ready" => ord[i] < ord[Other(i)]
  BY <1>1 DEF Ordered, Buffer
<1>4. /\ Holds(Other(i), st2) = Holds(Other(i), st) /\ Holds(i, st)
      /\ ~Holds(i, st2)
      /\ Held(Other(i), st2, cont) = Held(Other(i), st, cont)
      /\ Held(i, st2, cont) = 0 /\ Held(i, st, cont) = Len(cont[i])
      /\ Ahead(Other(i), st2, cont, ord) = 0
      /\ Ahead(Other(i), st, cont, ord) = Len(cont[i])
  BY <1>1, <1>3 DEF Holds, Held, Ahead
<1>5. Ahead(i, st, cont, ord) = 0
  BY <1>1, <1>3 DEF Ahead
<1>6. Held(Other(i), st, cont) \in Nat
  BY <1>1 DEF Held, Contents
<1> HIDE DEF st2
<1>7. ASSUME Chain(str, base, st, cont, ord)
      PROVE  /\ LiesAt(str, cont[i], base)
             /\ Chain(str, base + Len(cont[i]), st2, cont, ord)
  <2>1. LiesAt(str, cont[i], base + 0)
    BY <1>4, <1>5, <1>7 DEF Chain
  <2>2. base + Len(cont[i]) + Held(1, st2, cont) + Held(2, st2, cont) = Len(str)
    <3>1. base + Held(1, st, cont) + Held(2, st, cont) = Len(str)
      BY <1>7 DEF Chain
    <3>2. CASE i = 1
      <4>1. Other(i) = 2
        BY <3>2 DEF Other
      <4>2. /\ Held(2, st2, cont) = Held(2, st, cont)
            /\ Held(1, st2, cont) = 0 /\ Held(1, st, cont) = Len(cont[i])
            /\ Held(2, st, cont) \in Nat /\ Len(cont[i]) \in Nat
        BY <1>1, <1>4, <1>6, <3>2, <4>1
      <4>3. QED
        BY <3>1, <4>2
    <3>3. CASE i = 2
      <4>1. Other(i) = 1
        BY <3>3 DEF Other
      <4>2. /\ Held(1, st2, cont) = Held(1, st, cont)
            /\ Held(2, st2, cont) = 0 /\ Held(2, st, cont) = Len(cont[i])
            /\ Held(1, st, cont) \in Nat /\ Len(cont[i]) \in Nat
        BY <1>1, <1>4, <1>6, <3>3, <4>1
      <4>3. QED
        BY <3>1, <4>2
    <3>4. QED
      BY <3>2, <3>3 DEF Buffer
  <2>3. Holds(Other(i), st2) =>
            LiesAt(str, cont[Other(i)], base + Len(cont[i])
                                        + Ahead(Other(i), st2, cont, ord))
    <3>1. base + Len(cont[i]) + 0 = base + Len(cont[i])
      BY <1>1
    <3>2. QED
      BY Zenon, <1>1, <1>4, <1>7, <3>1 DEF Chain
  <2>4. QED
    BY <1>1, <1>4, <2>1, <2>2, <2>3 DEF Chain
<1>8. QED
  BY <1>2, <1>7 DEF st2

(* A record is committed to the producer's buffer.                         *)
LEMMA ChainCommitted ==
    ASSUME NEW str \in Seq(RecordSet), NEW base \in Nat, NEW st, NEW cont,
           NEW ord, NEW i \in Buffer, NEW r \in RecordSet,
           Stages(st), Contents(cont), Numbers(ord), OneFilling(st),
           st[i] = "Filling", Chain(str, base, st, cont, ord)
    PROVE  Chain(Append(str, r), base, st, [cont EXCEPT ![i] = Append(@, r)], ord)
<1> DEFINE cont2 == [cont EXCEPT ![i] = Append(@, r)]
<1>1. /\ cont2[i] = Append(cont[i], r) /\ cont2[Other(i)] = cont[Other(i)]
      /\ Other(i) \in Buffer /\ Other(i) # i /\ Other(Other(i)) = i
      /\ Buffer = {i, Other(i)}
      /\ cont[i] \in Seq(RecordSet) /\ cont[Other(i)] \in Seq(RecordSet)
  BY DEF Contents, Buffer, Other
<1>2. /\ Len(cont2[i]) = Len(cont[i]) + 1 /\ Len(cont[i]) \in Nat
      /\ Len(Append(str, r)) = Len(str) + 1 /\ Len(str) \in Nat
      /\ Len(cont[Other(i)]) \in Nat
  BY <1>1
<1> HIDE DEF cont2
<1>3. /\ Held(Other(i), st, cont2) = Held(Other(i), st, cont)
      /\ Held(i, st, cont2) = Held(i, st, cont) + 1
      /\ Held(i, st, cont) = Len(cont[i])
      /\ Held(Other(i), st, cont) \in Nat
      /\ Ahead(Other(i), st, cont2, ord) = 0
      /\ Ahead(Other(i), st, cont, ord) = 0
      /\ Ahead(i, st, cont2, ord) = Held(Other(i), st, cont)
      /\ Ahead(i, st, cont, ord) = Held(Other(i), st, cont)
  BY Zenon, <1>1, <1>2 DEF Held, Holds, Ahead, OneFilling, Buffer
<1>4. base + Held(Other(i), st, cont) + Len(cont[i]) = Len(str)
  <2>1. base + Held(1, st, cont) + Held(2, st, cont) = Len(str)
    BY Zenon DEF Chain
  <2>2. CASE i = 1 /\ Other(i) = 2
    BY <1>2, <1>3, <2>1, <2>2
  <2>3. CASE i = 2 /\ Other(i) = 1
    BY <1>2, <1>3, <2>1, <2>3
  <2>4. QED
    BY <2>2, <2>3 DEF Other, Buffer
<1>5. base + Held(1, st, cont2) + Held(2, st, cont2) = Len(Append(str, r))
  <2>1. base + Held(Other(i), st, cont2) + Held(i, st, cont2) = Len(Append(str, r))
    BY <1>2, <1>3, <1>4
  <2>2. Held(Other(i), st, cont2) \in Nat /\ Held(i, st, cont2) \in Nat
    BY <1>2, <1>3
  <2>3. CASE i = 1 /\ Other(i) = 2
    BY <2>1, <2>2, <2>3
  <2>4. CASE i = 2 /\ Other(i) = 1
    BY <2>1, <2>2, <2>4
  <2>5. QED
    BY <2>3, <2>4 DEF Other, Buffer
<1>6. LiesAt(Append(str, r), cont2[i], base + Ahead(i, st, cont2, ord))
  <2>1. LiesAt(str, cont[i], base + Held(Other(i), st, cont))
    BY <1>3 DEF Chain, Holds
  <2>2. base + Held(Other(i), st, cont) \in Nat
    BY <1>3
  <2>3. QED
    BY Zenon, <1>1, <1>3, <1>4, <2>1, <2>2, LiesAppended
<1>7. Holds(Other(i), st) =>
          LiesAt(Append(str, r), cont2[Other(i)],
                 base + Ahead(Other(i), st, cont2, ord))
  <2>1. Holds(Other(i), st) => LiesAt(str, cont[Other(i)], base + 0)
    BY <1>1, <1>3 DEF Chain
  <2>2. base + 0 \in Nat
    OBVIOUS
  <2>3. QED
    BY Zenon, <1>1, <1>3, <2>1, <2>2, LiesExtends
<1>8. QED
  BY <1>1, <1>5, <1>6, <1>7 DEF Chain, cont2

(* A written buffer is freed.                                              *)
LEMMA ChainReleased ==
    ASSUME NEW str \in Seq(RecordSet), NEW base \in Nat, NEW st, NEW cont,
           NEW ord, NEW next \in Nat, NEW i \in Buffer,
           Stages(st), Contents(cont), st[i] = "Writing", Ordered(st, ord, next)
    PROVE  /\ Ordered([st EXCEPT ![i] = "Free"], ord, next)
           /\ Chain(str, base, st, cont, ord) =>
                  Chain(str, base, [st EXCEPT ![i] = "Free"],
                        [cont EXCEPT ![i] = <<>>], ord)
<1> DEFINE st2 == [st EXCEPT ![i] = "Free"]
           cont2 == [cont EXCEPT ![i] = <<>>]
<1>1. /\ st2[i] = "Free" /\ st2[Other(i)] = st[Other(i)]
      /\ cont2[Other(i)] = cont[Other(i)]
      /\ Other(i) \in Buffer /\ Other(i) # i /\ Other(Other(i)) = i
      /\ Buffer = {i, Other(i)}
  BY DEF Stages, Contents, Buffer, Other
<1>2. Ordered(st2, ord, next)
  BY <1>1 DEF Ordered, Buffer
<1>3. /\ Holds(Other(i), st2) = Holds(Other(i), st)
      /\ ~Holds(i, st) /\ ~Holds(i, st2)
      /\ Held(Other(i), st2, cont2) = Held(Other(i), st, cont)
      /\ Held(i, st2, cont2) = 0 /\ Held(i, st, cont) = 0
      /\ Ahead(Other(i), st2, cont2, ord) = Ahead(Other(i), st, cont, ord)
  BY <1>1 DEF Holds, Held, Ahead
<1> HIDE DEF st2, cont2
<1>4. Chain(str, base, st, cont, ord) => Chain(str, base, st2, cont2, ord)
  BY Zenon, <1>1, <1>3 DEF Chain, Buffer
<1>5. QED
  BY <1>2, <1>4 DEF st2, cont2
-----------------------------------------------------------------------------
(* Steps of the writer that leave the buffers and the file alone.          *)

(* The file holds a number of records, also with those on their way.       *)
LEMMA BaseIsNat ==
    ASSUME WriterTypeOK, BuffersAreOwned
    PROVE  /\ Base \in Nat /\ Len(written) \in Nat
           /\ consumer.at = "write" => consumer.buffer \in Buffer
<1>1. /\ written \in Seq(RecordSet) /\ content \in [Buffer -> Seq(RecordSet)]
      /\ consumer.buffer \in 0..2
      /\ consumer.at = "write" => consumer.buffer # 0
  BY Zenon DEF WriterTypeOK, BuffersAreOwned, ConsumerSet
<1>2. consumer.at = "write" => consumer.buffer \in Buffer
  BY <1>1 DEF Buffer
<1>3. QED
  BY <1>1, <1>2 DEF Base

(* The counters remain numbers.                                            *)
LEMMA MetricsTyped ==
    ASSUME metrics \in MetricSet, NEW swapped \in BOOLEAN, NEW waited \in BOOLEAN
    PROVE  /\ Metrics(swapped, waited) \in MetricSet
           /\ Metrics(swapped, waited).encoded = metrics.encoded
           /\ Metrics(swapped, waited).swaps
                  = metrics.swaps + (IF swapped THEN 1 ELSE 0)
           /\ Metrics(swapped, waited).waits
                  = metrics.waits + (IF waited THEN 1 ELSE 0)
<1>1. /\ metrics.swaps + (IF swapped THEN 1 ELSE 0) \in Int
      /\ metrics.waits + (IF waited THEN 1 ELSE 0) \in Int
  BY DEF MetricSet
<1>2. QED
  BY <1>1, Zenon DEF MetricSet, Metrics

(* Where the consumer can be.                                              *)
LEMMA PlacesAre ==
    /\ {"none", "scan", "write", "finish", "release", "exited"} \subseteq Places
    /\ "scan" \in Places /\ "write" \in Places /\ "finish" \in Places
    /\ "release" \in Places /\ "exited" \in Places /\ 0 \in 0..2
    /\ TRUE \in BOOLEAN /\ FALSE \in BOOLEAN
BY DEF Places

Untouched == /\ UNCHANGED <<state, content, used, order, next_order,
                            active_buffer, consumer, written, frames, stream>>
             /\ error => error'

(* A failure that is only noted disturbs nothing that is said of the file. *)
LEMMA UntouchedKeeps ==
    ASSUME WInv, Untouched
    PROVE  BuffersAreOwned' /\ FileFollows' /\ FramesFollow'
<1>1. BuffersAreOwned'
  BY DEF WInv, Untouched, BuffersAreOwned
<1>2. FileFollows'
  BY Zenon DEF WInv, Untouched, FileFollows, Sound, Base
<1>3. FramesFollow'
  BY DEF WInv, Untouched, FramesFollow
<1>4. QED
  BY <1>1, <1>2, <1>3

(* Nothing the invariant speaks of changes.                                *)
LEMMA StutterKeeps ==
    ASSUME WInv, CloseFrame
    PROVE  WInv'
<1>1. Untouched
  BY DEF CloseFrame, Untouched, buffers, producing, output
<1>2. WriterTypeOK' /\ ResultFollows' /\ PhasesAgree'
  BY Zenon DEF WInv, CloseFrame, buffers, producing, sizing, ending, output,
         WriterTypeOK, ResultFollows, PhasesAgree, Ready
<1>3. QED
  BY <1>1, <1>2, UntouchedKeeps DEF WInv

LEMMA OpenKeeps ==
    ASSUME WInv, Open
    PROVE  WInv'
<1>1. CASE life' = "finished" /\ error' = TRUE
           /\ UNCHANGED <<state, active_buffer, consumer>>
  <2>1. Untouched
    BY <1>1 DEF Open, Untouched, output
  <2>2. WriterTypeOK'
    BY <1>1 DEF WInv, Open, output, sizing, WriterTypeOK, Lives
  <2>3. ResultFollows' /\ PhasesAgree'
    BY <1>1 DEF WInv, Open, ResultFollows, PhasesAgree
  <2>4. QED
    BY <2>1, <2>2, <2>3, UntouchedKeeps DEF WInv
<1>2. CASE /\ life' = "open" /\ state' = [state EXCEPT ![1] = "Filling"]
           /\ active_buffer' = 1 /\ error' = error
           /\ consumer' = [consumer EXCEPT !.at = "scan"]
  <2>1. /\ consumer' \in ConsumerSet /\ consumer'.at = "scan"
        /\ consumer'.buffer = consumer.buffer
    BY Zenon, <1>2 DEF WInv, WriterTypeOK, ConsumerSet, Places
  <2>2. /\ consumer.at = "none" /\ consumer.buffer = 0 /\ ~error
        /\ \A i \in Buffer : state[i] = "Free" /\ content[i] = <<>>
        /\ stream = <<>>
    BY DEF WInv, Open, PhasesAgree, BuffersAreOwned
  <2>3. WriterTypeOK'
    BY <1>2, <2>1 DEF WInv, Open, output, sizing, WriterTypeOK, Lives, States, Buffer
  <2>4. BuffersAreOwned'
    BY Zenon, <1>2, <2>1, <2>2 DEF WInv, Open, WriterTypeOK, BuffersAreOwned, Buffer
  <2>5. PhasesAgree'
    BY <1>2, <2>1, <2>2 DEF WInv, Open, PhasesAgree
  <2>6. FileFollows'
    <3>1. LiesAt(stream, written, 0)
      BY Zenon DEF WInv, FileFollows
    <3>2. Len(written) = 0 /\ Len(stream) = 0
      BY <2>2, <3>1 DEF WInv, WriterTypeOK, LiesAt
    <3>3. Chain(stream, 0, state, content, order) /\ Ordered(state, order, next_order)
      BY <2>2, <3>2 DEF WInv, FileFollows, Sound, Base
    <3>4. /\ Other(1) = 2 /\ 1 \in Buffer /\ 2 \in Buffer
      BY DEF Other, Buffer
    <3>5. Base = 0 /\ Base' = 0
      BY <2>1, <2>2, <3>2 DEF Base, Open, output
    <3>6. [content EXCEPT ![1] = <<>>] = content
      BY Zenon, <3>4, <2>2 DEF WInv, WriterTypeOK
    <3>7. /\ Stages(state) /\ Contents(content) /\ Numbers(order)
          /\ stream \in Seq(RecordSet) /\ next_order \in Nat
      BY DEF WInv, WriterTypeOK, Stages, Contents, Numbers
    <3>8. /\ Chain(stream, 0, state', content, order)
          /\ Ordered(state', order, next_order)
      <4>1. state[1] = "Free" /\ state[Other(1)] # "Filling" /\ 0 \in Nat
        BY <2>2, <3>4
      <4>2. /\ Chain(stream, 0, [state EXCEPT ![1] = "Filling"],
                     [content EXCEPT ![1] = <<>>], order)
            /\ Ordered([state EXCEPT ![1] = "Filling"], order, next_order)
        BY <3>3, <3>4, <3>7, <4>1, ChainTaken, Zenon
      <4>3. QED
        BY <1>2, <3>6, <4>2
    <3>9. QED
      BY <2>1, <3>1, <3>5, <3>8 DEF Open, output, FileFollows
  <2>7. FramesFollow' /\ ResultFollows'
    BY <1>2, <2>1, <2>2 DEF WInv, Open, output, FramesFollow, ResultFollows
  <2>8. QED
    BY <2>3, <2>4, <2>5, <2>6, <2>7 DEF WInv
<1>3. QED
  BY Zenon, <1>1, <1>2 DEF Open

(* reserve that fits, commit(0) and the checks of drain.                   *)
LEMMA ReservationKeeps ==
    ASSUME WInv,
           \/ \E minimum \in Int : ReserveFits(minimum)
           \/ CommitNothing \/ DrainCheck
    PROVE  WInv'
<1>1. Untouched
  BY DEF ReserveFits, CommitNothing, DrainCheck, Untouched, buffers, output
<1>2. /\ reservation' \in Int /\ waiting' \in Waits
      /\ waiting' = waiting \/ (waiting' = "check" /\ active_buffer # 0)
      /\ life = "open"
  <2>1. /\ used \in [Buffer -> Nat] /\ active_buffer \in 0..2 /\ waiting \in Waits
        /\ reservation \in Int /\ BufferBytes \in Int
    BY WriterAssumption DEF WInv, WriterTypeOK
  <2>2. CASE \E minimum \in Int : ReserveFits(minimum)
    BY <2>1, <2>2 DEF ReserveFits, Reservable, Idle, Buffer
  <2>3. CASE CommitNothing \/ DrainCheck
    BY <2>1, <2>3 DEF CommitNothing, DrainCheck, Idle, Waits
  <2>4. QED
    BY <2>2, <2>3
<1>3. /\ UNCHANGED <<buffers, next_order, active_buffer, producer_done, sizing,
                     ending, error, consumer, output, metrics, stream>>
  BY DEF ReserveFits, CommitNothing, DrainCheck
<1>4. WriterTypeOK'
  BY Zenon, <1>2, <1>3 DEF WInv, WriterTypeOK, buffers, sizing, ending, output
<1>5. PhasesAgree' /\ ResultFollows'
  BY Zenon, <1>2, <1>3 DEF WInv, PhasesAgree, ResultFollows, buffers, ending, Ready
<1>6. QED
  BY <1>1, <1>4, <1>5, UntouchedKeeps DEF WInv

(* The announcement of the file's size.                                    *)
LEMMA SizingKeeps ==
    ASSUME WInv,
           \/ \E bytes \in Int : FinalFileTarget(bytes)
           \/ \E record \in RecordSet : FinalFramePadding(record)
    PROVE  WInv'
<1>1. /\ SizingFrame /\ error' \in BOOLEAN /\ (error => error')
      /\ life = "open" /\ ~error
  BY Zenon DEF WInv, WriterTypeOK, FinalFileTarget, FinalFramePadding, Drained, Idle
<1>2. {target', measured', padding'} \subseteq Int
  <2>1. {target, measured, padding, compressed_bytes} \subseteq Int
    BY Zenon DEF WInv, WriterTypeOK
  <2>2. Overhead \in Int /\ Header \in Int
    BY WriterAssumption
  <2>3. CASE \E bytes \in Int : FinalFileTarget(bytes)
    BY <2>1, <2>2, <2>3 DEF FinalFileTarget, FrameBound
  <2>4. CASE \E record \in RecordSet : FinalFramePadding(record)
    BY <2>1, <2>2, <2>4 DEF FinalFramePadding, FrameBound, RecordSet
  <2>5. QED
    BY <2>3, <2>4
<1>3. Untouched
  BY <1>1 DEF SizingFrame, Untouched, buffers, producing, output
<1>4. WriterTypeOK'
  BY Zenon, <1>1, <1>2 DEF WInv, WriterTypeOK, SizingFrame, buffers, producing, ending, output
<1>5. PhasesAgree' /\ ResultFollows'
  BY Zenon, <1>1 DEF WInv, PhasesAgree, ResultFollows, SizingFrame, buffers,
              producing, ending, output, Ready
<1>6. QED
  BY <1>3, <1>4, <1>5, UntouchedKeeps DEF WInv

(* finish joins the consumer, or keeps everything; the destructor; a       *)
(* wakeup.                                                                 *)
LEMMA JoinKeeps ==
    ASSUME WInv, FinishJoin \/ DestroyWriter \/ SpuriousWakeup
    PROVE  WInv'
<1>1. /\ UNCHANGED <<finish_result, buffers, producing, sizing, consumer,
                     output, metrics, stream>>
      /\ error' \in BOOLEAN /\ (error => error') /\ life' \in Lives
  BY Zenon DEF WInv, WriterTypeOK, FinishJoin, DestroyWriter, SpuriousWakeup, ending, Lives
<1>2. Untouched
  BY <1>1 DEF Untouched, buffers, producing, output
<1>3. WriterTypeOK'
  BY Zenon, <1>1 DEF WInv, WriterTypeOK, buffers, producing, sizing, output
<1>4. \/ UNCHANGED <<life, error>>
      \/ /\ life = "joining" /\ life' = "joined" /\ consumer.at = "exited"
         /\ error' = error
      \/ life = "joining" /\ life' = "unjoined" /\ error' = TRUE
      \/ /\ life = "unjoined" /\ life' = "destroyed" /\ consumer.at = "exited"
         /\ error' = error
  BY Zenon DEF FinishJoin, DestroyWriter, SpuriousWakeup, ending
<1>5. PhasesAgree'
  BY Zenon, <1>1, <1>4 DEF WInv, PhasesAgree, buffers, producing, Ready
<1>6. ResultFollows'
  BY <1>1, <1>4 DEF WInv, ResultFollows
<1>7. QED
  BY <1>2, <1>3, <1>5, <1>6, UntouchedKeeps DEF WInv

(* The padding frame is whole, and a failure of the close is the result.   *)
LEMMA FinishReleaseKeeps ==
    ASSUME WInv, FinishRelease
    PROVE  WInv'
<1>1. /\ UNCHANGED <<buffers, producing, sizing, consumer, metrics, stream,
                     written>>
      /\ error' \in BOOLEAN /\ (error => error') /\ life = "joined"
      /\ life' = "finished" /\ finish_result' = ~error'
      /\ consumer.at = "exited"
      /\ \/ UNCHANGED <<frames, compressed_bytes>>
         \/ /\ ~error /\ frames' = Append(frames, "complete")
            /\ compressed_bytes' = compressed_bytes + padding
  BY Zenon DEF WInv, WriterTypeOK, PhasesAgree, FinishRelease, Pad, NoPad, output
<1>2. WriterTypeOK'
  <2>1. frames' \in Seq({"torn", "complete"}) /\ compressed_bytes' \in Int
    <3>1. /\ frames \in Seq({"torn", "complete"}) /\ compressed_bytes \in Int
          /\ padding \in Int
      BY DEF WInv, WriterTypeOK
    <3>2. QED
      BY <1>1, <3>1
  <2>2. QED
    BY Zenon, <1>1, <2>1 DEF WInv, WriterTypeOK, buffers, producing, sizing, Lives
<1>3. BuffersAreOwned'
  BY Zenon, <1>1 DEF WInv, BuffersAreOwned, buffers, producing
<1>4. FileFollows'
  BY Zenon, <1>1 DEF WInv, FileFollows, Sound, Base, buffers, producing
<1>5. PhasesAgree' /\ ResultFollows'
  BY Zenon, <1>1 DEF WInv, PhasesAgree, ResultFollows, buffers, producing, Ready
<1>6. FramesFollow'
  <2>1. CASE UNCHANGED frames
    BY Zenon, <1>1, <2>1 DEF WInv, FramesFollow
  <2>2. CASE ~error /\ frames' = Append(frames, "complete")
    <3>1. \A k \in 1..Len(frames) : frames[k] = "complete"
      BY <1>1, <2>2 DEF WInv, WriterTypeOK, FramesFollow
    <3>2. /\ Len(frames') = Len(frames) + 1 /\ Len(frames) \in Nat
          /\ frames'[Len(frames) + 1] = "complete"
          /\ \A k \in 1..Len(frames) : frames'[k] = frames[k]
      BY <2>2 DEF WInv, WriterTypeOK
    <3>3. QED
      BY <1>1, <3>1, <3>2 DEF FramesFollow
  <2>3. QED
    BY <1>1, <2>1, <2>2
<1>7. QED
  BY <1>2, <1>3, <1>4, <1>5, <1>6 DEF WInv
-----------------------------------------------------------------------------
(* commit.                                                                 *)
LEMMA CommitKeeps ==
    ASSUME WInv, NEW record \in RecordSet, Commit(record)
    PROVE  WInv'
<1> DEFINE i == active_buffer
<1>1. /\ i \in Buffer /\ life = "open" /\ waiting = "none"
      /\ record.size \in Nat \ {0}
      /\ consumer.buffer # i
  <2>1. active_buffer \in 0..2
    BY Zenon DEF WInv, WriterTypeOK
  <2>2. active_buffer \in Buffer /\ life = "open" /\ waiting = "none"
    BY <2>1 DEF Commit, Idle, Buffer
  <2>3. consumer.buffer # active_buffer
    BY <2>2 DEF WInv, BuffersAreOwned, Buffer
  <2>4. QED
    BY <2>2, <2>3 DEF RecordSet
<1>2. /\ content' = [content EXCEPT ![i] = Append(@, record)]
      /\ used' = [used EXCEPT ![i] = @ + record.size]
      /\ stream' = Append(stream, record)
      /\ metrics' = [metrics EXCEPT !.encoded = @ + record.size]
      /\ reservation' = 0
      /\ UNCHANGED <<state, order, next_order, active_buffer, producer_done,
                     waiting, sizing, ending, error, consumer, output>>
  BY DEF Commit
<1> HIDE DEF i
<1>3. /\ content' \in [Buffer -> Seq(RecordSet)] /\ used' \in [Buffer -> Nat]
      /\ stream' \in Seq(RecordSet)
      /\ content'[i] = Append(content[i], record)
      /\ \A j \in Buffer : j # i => content'[j] = content[j] /\ used'[j] = used[j]
      /\ used'[i] # 0
  <2>1. /\ content \in [Buffer -> Seq(RecordSet)] /\ used \in [Buffer -> Nat]
        /\ stream \in Seq(RecordSet)
    BY Zenon DEF WInv, WriterTypeOK
  <2>2. used[i] + record.size \in Nat \ {0} /\ Append(content[i], record) \in Seq(RecordSet)
    BY <1>1, <2>1
  <2>3. QED
    BY <1>1, <1>2, <2>1, <2>2
<1>4. WriterTypeOK'
  <2>1. metrics' \in MetricSet
    <3>1. metrics \in MetricSet
      BY DEF WInv, WriterTypeOK
    <3>2. QED
      BY <1>1, <1>2, <3>1 DEF MetricSet
  <2>2. WriterTypeOK
    BY DEF WInv
  <2>3. QED
    <3>1. reservation' \in Int
      BY <1>2
    <3>2. QED
      BY Zenon, <1>2, <1>3, <2>1, <2>2, <3>1 DEF WriterTypeOK, sizing, ending, output
<1>5. BuffersAreOwned'
  BY <1>1, <1>2, <1>3 DEF WInv, BuffersAreOwned
<1>6. PhasesAgree' /\ ResultFollows'
  BY <1>1, <1>2 DEF WInv, PhasesAgree, ResultFollows, ending, Ready
<1>7. FramesFollow'
  BY <1>2 DEF WInv, FramesFollow, output
<1>8. FileFollows'
  <2>1. /\ stream \in Seq(RecordSet) /\ written \in Seq(RecordSet)
        /\ Stages(state) /\ Contents(content) /\ Numbers(order)
        /\ \A j \in Buffer : content[j] \in Seq(RecordSet)
    BY Zenon DEF WInv, WriterTypeOK, Stages, Contents, Numbers
  <2>2. /\ Base \in Nat /\ Len(written) \in Nat
        /\ consumer.at = "write" => consumer.buffer \in Buffer
    BY BaseIsNat DEF WInv
  <2>3. Base' = Base
    BY <1>1, <1>2, <1>3, <2>2 DEF Base, output
  <2>4. LiesAt(stream', written', 0)
    <3>1. LiesAt(stream, written, 0) /\ 0 \in Nat
      BY Zenon DEF WInv, FileFollows
    <3>2. QED
      BY Zenon, <1>2, <2>1, <3>1, LiesExtends DEF output
  <2>5. ASSUME consumer'.at = "write"
        PROVE  LiesAt(stream', content'[consumer'.buffer], Len(written'))
    <3>1. /\ consumer.at = "write" /\ consumer.buffer \in Buffer
          /\ LiesAt(stream, content[consumer.buffer], Len(written))
      BY <1>2, <2>2, <2>5 DEF WInv, FileFollows
    <3>2. LiesAt(stream', content[consumer.buffer], Len(written))
      BY Zenon, <1>2, <2>1, <2>2, <3>1, LiesExtends
    <3>3. QED
      BY <1>1, <1>2, <1>3, <3>1, <3>2 DEF output
  <2>6. ASSUME Sound'
        PROVE  Chain(stream', Base', state', content', order')
    <3>1. /\ Sound /\ ~error
      BY <1>2, <2>6 DEF Sound
    <3>2. Chain(stream, Base, state, content, order)
      BY Zenon, <3>1 DEF WInv, FileFollows
    <3>3. state[i] = "Filling" /\ OneFilling(state)
      BY <1>1, <3>1 DEF WInv, BuffersAreOwned, OneFilling, i, Buffer
    <3>4. Chain(Append(stream, record), Base, state,
                [content EXCEPT ![i] = Append(@, record)], order)
      BY Zenon, <1>1, <2>1, <2>2, <3>2, <3>3, ChainCommitted
    <3>5. QED
      BY <1>2, <2>3, <3>4
  <2>7. ~error' => Ordered(state', order', next_order')
    BY <1>2 DEF WInv, FileFollows
  <2>8. QED
    BY Zenon, <2>4, <2>5, <2>6, <2>7 DEF FileFollows
<1>9. QED
  BY <1>4, <1>5, <1>6, <1>7, <1>8 DEF WInv
-----------------------------------------------------------------------------
(* The producer's locked sections.                                         *)

(* No buffer is the producer's: `now`, with the numbers `ord`, is what the *)
(* loop of the section looks at.                                           *)
Handed(now, ord, next) ==
    /\ Stages(now) /\ Numbers(ord) /\ next \in Nat
    /\ ~error => /\ \A i \in Buffer : /\ now[i] # "Filling"
                                      /\ now[i] = "Writing" <=> consumer.buffer = i
                 /\ Ordered(now, ord, next)
    /\ Sound => Chain(stream, Base, now, content, ord)

LEMMA HandedOver ==
    ASSUME WInv, active_buffer # 0
    PROVE  Handed(Published(active_buffer),
                  [order EXCEPT ![active_buffer] = next_order], next_order + 1)
<1> DEFINE now == Published(active_buffer)
           ord == [order EXCEPT ![active_buffer] = next_order]
<1>1. /\ active_buffer \in Buffer /\ Stages(state) /\ Numbers(order)
      /\ Contents(content) /\ stream \in Seq(RecordSet) /\ next_order \in Nat
      /\ Base \in Nat
  BY BaseIsNat DEF WInv, WriterTypeOK, Stages, Numbers, Contents, Buffer
<1>2. Stages(now) /\ Numbers(ord)
  BY <1>1 DEF Stages, Numbers, Published, States
<1>3. ASSUME ~error
      PROVE  \A i \in Buffer : /\ now[i] # "Filling"
                               /\ now[i] = "Writing" <=> consumer.buffer = i
  BY Zenon, <1>1, <1>3 DEF WInv, BuffersAreOwned, Published, Stages
<1>4. ASSUME ~error
      PROVE  state[active_buffer] = "Filling" /\ OneFilling(state)
  <2>1. \A i \in Buffer : state[i] = "Filling" <=> active_buffer = i
    BY Zenon, <1>4 DEF WInv, BuffersAreOwned
  <2>2. 1 \in Buffer /\ 2 \in Buffer /\ 1 # 2
    BY DEF Buffer
  <2>3. QED
    BY Zenon, <1>1, <2>1, <2>2 DEF OneFilling
<1>5. ~error => Ordered(state, order, next_order)
  BY Zenon DEF WInv, FileFollows
<1>6. ASSUME ~error
      PROVE  /\ Ordered(now, ord, next_order + 1)
             /\ Chain(stream, Base, state, content, order) =>
                    Chain(stream, Base, now, content, ord)
  BY <1>1, <1>4, <1>5, <1>6, ChainPublished, Zenon DEF Published
<1>7. Sound => ~error /\ Chain(stream, Base, state, content, order)
  BY Zenon DEF WInv, FileFollows, Sound
<1> HIDE DEF now, ord
<1>8. Handed(now, ord, next_order + 1)
  BY <1>1, <1>2, <1>3, <1>6, <1>7 DEF Handed
<1>9. QED
  BY <1>8 DEF now, ord

LEMMA HandedBack ==
    ASSUME WInv, active_buffer # 0, used[active_buffer] = 0
    PROVE  Handed([state EXCEPT ![active_buffer] = "Free"], order, next_order)
<1> DEFINE now == [state EXCEPT ![active_buffer] = "Free"]
<1>1. /\ active_buffer \in Buffer /\ Stages(state) /\ Numbers(order)
      /\ Contents(content) /\ stream \in Seq(RecordSet) /\ next_order \in Nat
      /\ Base \in Nat
  BY BaseIsNat DEF WInv, WriterTypeOK, Stages, Numbers, Contents, Buffer
<1>2. Stages(now)
  BY <1>1 DEF Stages, States
<1>3. ASSUME ~error
      PROVE  \A i \in Buffer : /\ now[i] # "Filling"
                               /\ now[i] = "Writing" <=> consumer.buffer = i
  BY Zenon, <1>1, <1>3 DEF WInv, BuffersAreOwned, Stages
<1>4. /\ ~error => state[active_buffer] = "Filling"
      /\ content[active_buffer] = <<>>
  BY Zenon, <1>1 DEF WInv, BuffersAreOwned
<1>5. ~error => Ordered(state, order, next_order)
  BY Zenon DEF WInv, FileFollows
<1>6. ASSUME ~error
      PROVE  /\ Ordered(now, order, next_order)
             /\ Chain(stream, Base, state, content, order) =>
                    Chain(stream, Base, now, content, order)
  BY <1>1, <1>4, <1>5, <1>6, ChainGivenBack, Zenon
<1>7. Sound => ~error /\ Chain(stream, Base, state, content, order)
  BY Zenon DEF WInv, FileFollows, Sound
<1> HIDE DEF now
<1>8. Handed(now, order, next_order)
  BY <1>1, <1>2, <1>3, <1>6, <1>7 DEF Handed
<1>9. QED
  BY <1>8 DEF now

LEMMA HandedAlready ==
    ASSUME WInv, active_buffer = 0
    PROVE  Handed(state, order, next_order)
<1>1. Stages(state) /\ Numbers(order) /\ next_order \in Nat
  BY Zenon DEF WInv, WriterTypeOK, Stages, Numbers
<1>2. ~error => \A i \in Buffer : /\ state[i] # "Filling"
                                  /\ state[i] = "Writing" <=> consumer.buffer = i
  BY DEF WInv, BuffersAreOwned, Buffer
<1>3. QED
  BY Zenon, <1>1, <1>2 DEF WInv, FileFollows, Handed, Sound

(* The loop leaves without a buffer.                                       *)
LEMMA LeaveKeeps ==
    ASSUME WInv, NEW now, Handed(now, order', next_order'), Leave(now),
           UNCHANGED <<consumer, written, stream, error>>
    PROVE  /\ BuffersAreOwned' /\ FileFollows'
           /\ state' \in [Buffer -> States] /\ content' \in [Buffer -> Seq(RecordSet)]
           /\ used' \in [Buffer -> Nat] /\ active_buffer' \in 0..2
           /\ order' \in [Buffer -> Nat] /\ next_order' \in Nat
<1>1. state' = now /\ active_buffer' = 0 /\ UNCHANGED <<content, used>>
  BY DEF Leave
<1>2. BuffersAreOwned'
  <2>1. \A i \in Buffer : i # 0
    BY DEF Buffer
  <2>2. QED
    BY Zenon, <1>1, <2>1 DEF WInv, BuffersAreOwned, Handed
<1>3. Base' = Base /\ Sound' = Sound
  BY <1>1 DEF Base, Sound
<1>4. FileFollows'
  BY Zenon, <1>1, <1>3 DEF WInv, FileFollows, Handed
<1>5. QED
  <2>1. active_buffer' \in 0..2
    BY <1>1
  <2>2. QED
    BY Zenon, <1>1, <1>2, <1>4, <2>1 DEF WInv, WriterTypeOK, Handed, Stages, Numbers

(* The loop takes a free buffer.                                           *)
LEMMA TakeKeeps ==
    ASSUME WInv, NEW now, Handed(now, order', next_order'), ~error,
           NEW i \in Buffer, now[i] = "Free", Take(i, now),
           UNCHANGED <<consumer, written, stream, error>>
    PROVE  /\ BuffersAreOwned' /\ FileFollows'
           /\ state' \in [Buffer -> States] /\ content' \in [Buffer -> Seq(RecordSet)]
           /\ used' \in [Buffer -> Nat] /\ active_buffer' \in 0..2
           /\ order' \in [Buffer -> Nat] /\ next_order' \in Nat
<1>1. /\ state' = [now EXCEPT ![i] = "Filling"]
      /\ content' = [content EXCEPT ![i] = <<>>]
      /\ used' = [used EXCEPT ![i] = 0] /\ active_buffer' = i
  BY DEF Take
<1>2. /\ Stages(now) /\ Numbers(order') /\ Contents(content)
      /\ used \in [Buffer -> Nat] /\ stream \in Seq(RecordSet)
      /\ next_order' \in Nat
  BY Zenon DEF WInv, WriterTypeOK, Handed, Contents
<1>3. /\ state' \in [Buffer -> States] /\ content' \in [Buffer -> Seq(RecordSet)]
      /\ used' \in [Buffer -> Nat] /\ active_buffer' \in 0..2
      /\ state'[i] = "Filling" /\ content'[i] = <<>>
      /\ \A j \in Buffer : j # i => /\ state'[j] = now[j] /\ content'[j] = content[j]
                                    /\ used'[j] = used[j]
  BY <1>1, <1>2 DEF Stages, Contents, States, Buffer
<1>4. /\ consumer.buffer # i
      /\ \A j \in Buffer : /\ now[j] # "Filling"
                           /\ now[j] = "Writing" <=> consumer.buffer = j
      /\ Ordered(now, order', next_order')
      /\ Sound => Chain(stream, Base, now, content, order')
  BY Zenon DEF Handed
<1>5. BuffersAreOwned'
  BY <1>1, <1>3, <1>4 DEF WInv, BuffersAreOwned
<1>6. /\ Base \in Nat
      /\ consumer.at = "write" => consumer.buffer \in Buffer
  BY Zenon, BaseIsNat DEF WInv
<1>7. Base' = Base /\ Sound' = Sound
  BY Zenon, <1>3, <1>4, <1>6 DEF Base, Sound
<1>8. now[Other(i)] # "Filling"
  BY <1>4 DEF Other, Buffer
<1>9. /\ Ordered(state', order', next_order')
      /\ Chain(stream, Base, now, content, order') =>
             Chain(stream, Base, state', content', order')
  BY <1>1, <1>2, <1>4, <1>6, <1>8, ChainTaken, Zenon
<1>10. consumer.at = "write" =>
           content'[consumer.buffer] = content[consumer.buffer]
  BY Zenon, <1>3, <1>4, <1>6
<1>11. FileFollows'
  BY Zenon, <1>4, <1>7, <1>9, <1>10 DEF WInv, FileFollows
<1>12. QED
  BY Zenon, <1>2, <1>3, <1>5, <1>11 DEF Numbers

(* What a locked section leaves, from what its loop did.                   *)
LEMMA SectionKeeps ==
    ASSUME WInv, SectionFrame, life = "open",
           BuffersAreOwned', FileFollows',
           state' \in [Buffer -> States], content' \in [Buffer -> Seq(RecordSet)],
           used' \in [Buffer -> Nat], active_buffer' \in 0..2,
           order' \in [Buffer -> Nat], next_order' \in Nat,
           reservation' \in Int, metrics' \in MetricSet,
           \/ waiting' = "none"
           \/ waiting' \in {"reserve", "drain"} /\ active_buffer' = 0
    PROVE  WInv'
<1>1. UNCHANGED <<producer_done, sizing, ending, error, consumer, output, stream>>
  BY DEF SectionFrame
<1>2. WriterTypeOK'
  <2>1. WriterTypeOK /\ waiting' \in Waits
    BY DEF WInv, Waits
  <2>2. QED
    BY Zenon, <1>1, <2>1 DEF WriterTypeOK, sizing, ending, output
<1>3. ~producer_done /\ consumer.at # "none"
  BY Zenon DEF WInv, PhasesAgree
<1>4. PhasesAgree'
  BY Zenon, <1>1, <1>3 DEF WInv, PhasesAgree, ending
<1>5. FramesFollow' /\ ResultFollows'
  BY Zenon, <1>1 DEF WInv, FramesFollow, ResultFollows, ending, output
<1>6. QED
  BY <1>2, <1>4, <1>5 DEF WInv

(* The loop of publish_and_acquire.                                        *)
LEMMA AcquireKeeps ==
    ASSUME WInv, NEW now, Handed(now, order', next_order'),
           NEW swapped \in BOOLEAN, AcquireLoop(now, swapped), SectionFrame,
           life = "open"
    PROVE  WInv'
<1>1. UNCHANGED <<consumer, written, stream, error>>
  BY DEF SectionFrame, output
<1>2. metrics' \in MetricSet
  BY Zenon, MetricsTyped DEF AcquireLoop, WInv, WriterTypeOK
<1>3. BufferBytes \in Int
  BY WriterAssumption
<1>4. CASE Leave(now) /\ waiting' \in {"none", "reserve"} /\ reservation' = 0
  <2>1. active_buffer' = 0
    BY <1>4 DEF Leave
  <2>2. QED
    BY <1>1, <1>2, <1>4, <2>1, LeaveKeeps, SectionKeeps
<1>5. CASE /\ ~error /\ \E i \in FirstFree(now) : Take(i, now)
           /\ waiting' = "none" /\ reservation' = BufferBytes
  <2>1. PICK i \in Buffer : now[i] = "Free" /\ Take(i, now)
    BY <1>5 DEF FirstFree
  <2>2. QED
    BY Zenon, <1>1, <1>2, <1>3, <1>5, <2>1, TakeKeeps, SectionKeeps
<1>6. QED
  BY <1>4, <1>5 DEF AcquireLoop

(* The loop of drain.                                                      *)
LEMMA DrainKeeps ==
    ASSUME WInv, NEW now, Handed(now, order', next_order'),
           NEW swapped \in BOOLEAN, DrainLoop(now, swapped), SectionFrame,
           life = "open"
    PROVE  WInv'
<1>1. UNCHANGED <<consumer, written, stream, error>>
  BY DEF SectionFrame, output
<1>2. metrics' \in MetricSet
  BY Zenon, MetricsTyped DEF DrainLoop, WInv, WriterTypeOK
<1>3. reservation' \in Int
  BY Zenon DEF DrainLoop, WInv, WriterTypeOK
<1>4. CASE Leave(now) /\ waiting' \in {"none", "drain"}
  <2>1. active_buffer' = 0
    BY <1>4 DEF Leave
  <2>2. QED
    BY Zenon, <1>1, <1>2, <1>3, <1>4, <2>1, LeaveKeeps, SectionKeeps
<1>5. CASE /\ ~error /\ \A i \in Buffer : now[i] = "Free"
           /\ Take(1, now) /\ waiting' = "none"
  <2>1. 1 \in Buffer /\ now[1] = "Free"
    BY <1>5 DEF Buffer
  <2>2. QED
    BY Zenon, <1>1, <1>2, <1>3, <1>5, <2>1, TakeKeeps, SectionKeeps
<1>6. QED
  BY Zenon, <1>4, <1>5 DEF DrainLoop

(* reserve that swaps, the section of drain, and a wakeup in either loop.  *)
LEMMA SectionsKeep ==
    ASSUME WInv,
           \/ \E minimum \in Int : ReserveSwaps(minimum)
           \/ DrainSection \/ ProducerWakes
    PROVE  WInv'
<1>1. CASE \E minimum \in Int : ReserveSwaps(minimum)
  <2>1. /\ active_buffer # 0 /\ life = "open"
        /\ order' = [order EXCEPT ![active_buffer] = next_order]
        /\ next_order' = next_order + 1
        /\ AcquireLoop(Published(active_buffer), TRUE) /\ SectionFrame
    BY Zenon, <1>1 DEF ReserveSwaps, Reservable, Idle, Publish
  <2>2. Handed(Published(active_buffer), order', next_order')
    BY <2>1, HandedOver
  <2>3. QED
    BY Zenon, <2>1, <2>2, AcquireKeeps
<1>2. CASE DrainSection
  <2>1. active_buffer # 0 /\ life = "open" /\ SectionFrame
    BY Zenon, <1>2 DEF DrainSection, WInv, PhasesAgree
  <2>2. CASE /\ order' = [order EXCEPT ![active_buffer] = next_order]
             /\ next_order' = next_order + 1
             /\ DrainLoop(Published(active_buffer), TRUE)
    <3>1. Handed(Published(active_buffer), order', next_order')
      BY <2>1, <2>2, HandedOver
    <3>2. QED
      BY Zenon, <2>1, <2>2, <3>1, DrainKeeps
  <2>3. CASE /\ used[active_buffer] = 0 /\ UNCHANGED <<order, next_order>>
             /\ DrainLoop([state EXCEPT ![active_buffer] = "Free"], FALSE)
    <3>1. Handed([state EXCEPT ![active_buffer] = "Free"], order', next_order')
      BY Zenon, <2>1, <2>3, HandedBack
    <3>2. QED
      BY Zenon, <2>1, <2>3, <3>1, DrainKeeps
  <2>4. QED
    BY Zenon, <1>2, <2>2, <2>3 DEF DrainSection, Publish
<1>3. CASE ProducerWakes
  <2>1. /\ active_buffer = 0 /\ life = "open" /\ SectionFrame
        /\ UNCHANGED <<order, next_order>>
        /\ AcquireLoop(state, FALSE) \/ DrainLoop(state, FALSE)
    BY Zenon, <1>3 DEF ProducerWakes, WInv, PhasesAgree
  <2>2. Handed(state, order', next_order')
    BY <2>1, HandedAlready
  <2>3. QED
    BY Zenon, <2>1, <2>2, AcquireKeeps, DrainKeeps
<1>4. QED
  BY <1>1, <1>2, <1>3

(* The first section of finish.                                            *)
LEMMA FinishBeginKeeps ==
    ASSUME WInv, FinishBegin
    PROVE  WInv'
<1>1. /\ life = "open" /\ life' = "joining" /\ active_buffer' = 0
      /\ producer_done' = TRUE /\ waiting = "none"
      /\ UNCHANGED <<finish_result, content, used, reservation, waiting, sizing,
                     consumer, output, stream>>
      /\ FinishPublishes
  BY Zenon DEF FinishBegin, Idle
<1>2. consumer.at # "none" /\ (consumer.at = "exited" => error)
  BY Zenon, <1>1 DEF WInv, PhasesAgree
<1>3. /\ BuffersAreOwned' /\ FileFollows' /\ error' \in BOOLEAN
      /\ error => error'
      /\ state' \in [Buffer -> States] /\ order' \in [Buffer -> Nat]
      /\ next_order' \in Nat /\ metrics' \in MetricSet
  <2>1. /\ metrics \in MetricSet /\ error \in BOOLEAN /\ order \in [Buffer -> Nat]
        /\ next_order \in Nat /\ state \in [Buffer -> States]
        /\ content \in [Buffer -> Seq(RecordSet)]
    BY Zenon DEF WInv, WriterTypeOK
  <2>2. CASE SetFailure /\ FinishFrame
    <3>1. /\ error' = TRUE /\ state' = [i \in Buffer |-> "Free"]
          /\ UNCHANGED <<order, next_order, metrics>>
      BY Zenon, <2>2 DEF SetFailure, FinishFrame
    <3>2. BuffersAreOwned'
      BY Zenon, <1>1, <3>1 DEF WInv, BuffersAreOwned
    <3>3. FileFollows'
      BY Zenon, <1>1, <3>1 DEF WInv, FileFollows, Sound, output
    <3>4. QED
      BY Zenon, <2>1, <3>1, <3>2, <3>3 DEF States
  <2>3. ASSUME Handed(state', order', next_order'), UNCHANGED error,
               metrics' \in MetricSet
        PROVE  /\ BuffersAreOwned' /\ FileFollows' /\ error' \in BOOLEAN
               /\ error => error'
               /\ state' \in [Buffer -> States] /\ order' \in [Buffer -> Nat]
               /\ next_order' \in Nat /\ metrics' \in MetricSet
    <3>1. Leave(state')
      BY Zenon, <1>1 DEF Leave
    <3>2. QED
      BY Zenon, <1>1, <2>1, <2>3, <3>1, LeaveKeeps DEF output
  <2>4. CASE /\ ~error /\ active_buffer # 0 /\ Publish(active_buffer)
             /\ state' = Published(active_buffer)
             /\ metrics' = Metrics(TRUE, FALSE) /\ UNCHANGED error
    <3>1. metrics' \in MetricSet
      BY Zenon, <2>1, <2>4, MetricsTyped
    <3>2. Handed(Published(active_buffer), order', next_order')
      BY <2>4, HandedOver DEF Publish
    <3>3. Handed(state', order', next_order')
      BY <2>4, <3>2, Zenon
    <3>4. QED
      BY <2>3, <2>4, <3>1, <3>3, Zenon
  <2>5. CASE /\ ~error /\ active_buffer # 0 /\ used[active_buffer] = 0
             /\ state' = [state EXCEPT ![active_buffer] = "Free"]
             /\ FinishFrame /\ UNCHANGED error
    <3>1. Handed([state EXCEPT ![active_buffer] = "Free"], order', next_order')
      BY <2>5, HandedBack DEF FinishFrame
    <3>2. Handed(state', order', next_order')
      BY <2>5, <3>1, Zenon
    <3>3. metrics' \in MetricSet
      BY <2>1, <2>5 DEF FinishFrame
    <3>4. QED
      BY <2>3, <2>5, <3>2, <3>3, Zenon
  <2>6. CASE /\ error \/ active_buffer = 0
             /\ UNCHANGED <<state, error>> /\ FinishFrame
    <3>1. Handed(state, order', next_order')
      <4>1. CASE active_buffer = 0
        BY <2>6, <4>1, HandedAlready DEF FinishFrame
      <4>2. CASE error
        BY <2>1, <2>6, <4>2 DEF Handed, Stages, Numbers, Sound, FinishFrame
      <4>3. QED
        BY <2>6, <4>1, <4>2
    <3>2. QED
      BY Zenon, <2>1, <2>3, <2>6, <3>1 DEF FinishFrame
  <2>7. QED
    BY Zenon, <1>1, <2>2, <2>4, <2>5, <2>6 DEF FinishPublishes
<1>4. WriterTypeOK'
  <2>1. WriterTypeOK
    BY DEF WInv
  <2>2. QED
    <3>1. 0 \in 0..2
      OBVIOUS
    <3>2. QED
      BY Zenon, <1>1, <1>3, <2>1, <3>1 DEF WriterTypeOK, sizing, output, Lives
<1>5. PhasesAgree'
  BY Zenon, <1>1, <1>2, <1>3 DEF WInv, PhasesAgree
<1>6. FramesFollow' /\ ResultFollows'
  BY Zenon, <1>1, <1>3 DEF WInv, FramesFollow, ResultFollows, output
<1>7. QED
  BY Zenon, <1>3, <1>4, <1>5, <1>6 DEF WInv
-----------------------------------------------------------------------------
(* The consumer.                                                           *)

ConsumerFrame ==
    UNCHANGED <<order, next_order, active_buffer, reservation, producer_done,
                waiting, sizing, ending, metrics, stream>>

(* Where the consumer's steps may lead.                                    *)
LEMMA ConsumerPhases ==
    ASSUME WInv, ConsumerFrame,
           consumer.at \in {"scan", "write", "finish", "release"},
           consumer' \in ConsumerSet, error' \in BOOLEAN, error => error',
           consumer'.at # "none",
           consumer'.at = "exited" => error' \/ (Ready' = {} /\ producer_done)
    PROVE  PhasesAgree' /\ ResultFollows'
<1>1. /\ life \in {"open", "joining", "unjoined"} /\ ~finish_result
      /\ life = "unjoined" => error
  BY Zenon DEF WInv, PhasesAgree, ResultFollows, WriterTypeOK, Lives
<1>2. PhasesAgree'
  BY Zenon, <1>1 DEF WInv, PhasesAgree, ConsumerFrame, ending
<1>3. QED
  BY Zenon, <1>1, <1>2 DEF ResultFollows, ConsumerFrame, ending

(* The types that a step of the consumer has to keep.                      *)
LEMMA ConsumerTyped ==
    ASSUME WInv, ConsumerFrame, consumer' \in ConsumerSet, error' \in BOOLEAN,
           state' \in [Buffer -> States], content' \in [Buffer -> Seq(RecordSet)],
           used' \in [Buffer -> Nat], frames' \in Seq({"torn", "complete"}),
           written' \in Seq(RecordSet), compressed_bytes' \in Int
    PROVE  WriterTypeOK'
BY Zenon DEF WInv, WriterTypeOK, ConsumerFrame, ending, sizing

LEMMA ScanKeeps ==
    ASSUME WInv, Scan
    PROVE  WInv'
<1>1. /\ consumer.at = "scan" /\ ConsumerFrame
      /\ UNCHANGED <<content, used, error, frames, written, compressed_bytes>>
  BY Zenon DEF Scan, ConsumerFrame, output, producing
<1>2. /\ consumer.buffer = 0 /\ consumer \in ConsumerSet /\ error \in BOOLEAN
      /\ state \in [Buffer -> States] /\ content \in [Buffer -> Seq(RecordSet)]
      /\ used \in [Buffer -> Nat] /\ frames \in Seq({"torn", "complete"})
      /\ written \in Seq(RecordSet) /\ compressed_bytes \in Int
      /\ stream \in Seq(RecordSet)
  BY Zenon, <1>1 DEF WInv, WriterTypeOK, BuffersAreOwned
<1>3. CASE /\ error \/ (Ready = {} /\ producer_done)
           /\ consumer' = [consumer EXCEPT !.at = "exited"]
           /\ UNCHANGED state
  <2>1. /\ consumer' \in ConsumerSet /\ consumer'.at = "exited"
        /\ consumer'.buffer = 0
    BY <1>2, <1>3, PlacesAre, Zenon DEF ConsumerSet
  <2>2. WriterTypeOK'
    BY <1>1, <1>2, <1>3, <2>1, ConsumerTyped
  <2>3. PhasesAgree' /\ ResultFollows'
    <3>1. Ready' = Ready
      BY <1>3 DEF Ready
    <3>2. QED
      BY <1>1, <1>2, <1>3, <2>1, <3>1, ConsumerPhases
  <2>4. BuffersAreOwned'
    BY <1>1, <1>2, <1>3, <2>1 DEF WInv, BuffersAreOwned, ConsumerFrame
  <2>5. FileFollows'
    BY <1>1, <1>3, <2>1 DEF WInv, FileFollows, Sound, Base, ConsumerFrame
  <2>6. FramesFollow'
    BY <1>1, <2>1 DEF WInv, FramesFollow
  <2>7. QED
    BY <2>2, <2>3, <2>4, <2>5, <2>6 DEF WInv
<1>4. CASE UNCHANGED <<state, consumer>>
  <2>1. Untouched
    BY <1>1, <1>4 DEF Untouched, ConsumerFrame
  <2>2. WriterTypeOK'
    BY Zenon, <1>1, <1>2, <1>4, ConsumerTyped
  <2>3. PhasesAgree' /\ ResultFollows'
    BY Zenon, <1>1, <1>2, <1>4, ConsumerPhases
  <2>4. QED
    BY <2>1, <2>2, <2>3, UntouchedKeeps DEF WInv
<1>5. ASSUME ~error, NEW i \in Oldest,
             consumer' = [consumer EXCEPT !.at = "write", !.buffer = i],
             state' = [state EXCEPT ![i] = "Writing"]
      PROVE  WInv'
  <2>1. /\ i \in Buffer /\ state[i] = "Ready" /\ i \in 0..2 /\ i # 0
        /\ state[Other(i)] = "Ready" => order[i] <= order[Other(i)]
    BY <1>5 DEF Oldest, Ready, Other, Buffer
  <2>2. /\ consumer' \in ConsumerSet /\ consumer'.at = "write"
        /\ consumer'.buffer = i
    BY <1>2, <1>5, <2>1, PlacesAre, Zenon DEF ConsumerSet
  <2>3. /\ state' \in [Buffer -> States] /\ state'[i] = "Writing"
        /\ \A j \in Buffer : j # i => state'[j] = state[j]
    BY <1>2, <1>5, <2>1 DEF States
  <2>4. WriterTypeOK'
    BY Zenon, <1>1, <1>2, <2>2, <2>3, ConsumerTyped
  <2>5. PhasesAgree' /\ ResultFollows'
    BY Zenon, <1>1, <1>2, <2>2, ConsumerPhases
  <2>6. BuffersAreOwned'
    <3>1. active_buffer' = active_buffer /\ active_buffer # i
      BY <1>1, <1>5, <2>1 DEF WInv, BuffersAreOwned, ConsumerFrame
    <3>2. \A j \in Buffer : /\ state[j] = "Filling" <=> active_buffer = j
                            /\ state[j] # "Writing"
                            /\ used'[j] = 0 => content'[j] = <<>>
      BY <1>1, <1>2, <1>5 DEF WInv, BuffersAreOwned, Buffer
    <3>3. QED
      BY Zenon, <2>1, <2>2, <2>3, <3>1, <3>2 DEF BuffersAreOwned
  <2>7. FileFollows'
    <3>1. /\ Stages(state) /\ Contents(content) /\ Numbers(order)
          /\ Len(written) \in Nat /\ next_order \in Nat
      BY <1>2 DEF WInv, WriterTypeOK, Stages, Contents, Numbers
    <3>2. /\ Ordered(state, order, next_order)
          /\ Chain(stream, Len(written), state, content, order)
          /\ LiesAt(stream, written, 0)
      BY <1>1, <1>5, <3>1 DEF WInv, FileFollows, Sound, Base
    <3>3. /\ Ordered(state', order, next_order)
          /\ LiesAt(stream, content[i], Len(written))
          /\ Chain(stream, Len(written) + Len(content[i]), state', content, order)
      BY <1>2, <1>5, <2>1, <3>1, <3>2, ChainScanned, Zenon
    <3>4. Base' = Len(written) + Len(content[i])
      BY <1>1, <2>2 DEF Base
    <3>5. QED
      BY Zenon, <1>1, <2>2, <3>2, <3>3, <3>4 DEF FileFollows, ConsumerFrame
  <2>8. FramesFollow'
    BY <1>1, <2>2 DEF WInv, FramesFollow
  <2>9. QED
    BY <2>4, <2>5, <2>6, <2>7, <2>8 DEF WInv
<1>6. QED
  BY Zenon, <1>3, <1>4, <1>5 DEF Scan

(* A write that fails leaves the file as it was and the consumer on its    *)
(* way to set the failure.                                                 *)
LEMMA WriteFailsKeeps ==
    ASSUME WInv, consumer.at \in {"write", "finish"}, WriteFails,
           UNCHANGED <<state, content, used, error>>, ConsumerFrame
    PROVE  WInv'
<1>1. /\ consumer' = [consumer EXCEPT !.at = "release", !.ok = FALSE]
      /\ UNCHANGED <<frames, written, compressed_bytes>>
  BY DEF WriteFails, output
<1>2. consumer \in ConsumerSet /\ error \in BOOLEAN
  BY Zenon DEF WInv, WriterTypeOK
<1>3. /\ consumer' \in ConsumerSet /\ consumer'.at = "release"
      /\ consumer'.buffer = consumer.buffer /\ ~consumer'.ok
  BY <1>1, <1>2, PlacesAre, Zenon DEF ConsumerSet
<1>4. WriterTypeOK'
  BY Zenon, <1>1, <1>2, <1>3, ConsumerTyped DEF WInv, WriterTypeOK
<1>5. PhasesAgree' /\ ResultFollows'
  BY Zenon, <1>2, <1>3, ConsumerPhases
<1>6. BuffersAreOwned'
  BY Zenon, <1>3 DEF WInv, BuffersAreOwned, ConsumerFrame
<1>7. FileFollows'
  BY <1>1, <1>3 DEF WInv, FileFollows, Sound, ConsumerFrame
<1>8. FramesFollow'
  BY <1>1, <1>3 DEF WInv, FramesFollow
<1>9. QED
  BY <1>4, <1>5, <1>6, <1>7, <1>8 DEF WInv

LEMMA WriteBeginsKeeps ==
    ASSUME WInv, WriteBegins
    PROVE  WInv'
<1>1. /\ consumer.at = "write" /\ ConsumerFrame
      /\ UNCHANGED <<state, content, used, error>>
  BY DEF WriteBegins, ConsumerFrame, buffers, producing
<1>2. CASE WriteFails
  BY Zenon, <1>1, <1>2, WriteFailsKeeps
<1>3. CASE /\ frames' = Append(frames, "torn")
           /\ written' = written \o content[consumer.buffer]
           /\ consumer' = [consumer EXCEPT !.at = "finish"]
           /\ UNCHANGED compressed_bytes
  <2>1. /\ consumer \in ConsumerSet /\ error \in BOOLEAN
        /\ state \in [Buffer -> States] /\ content \in [Buffer -> Seq(RecordSet)]
        /\ used \in [Buffer -> Nat] /\ frames \in Seq({"torn", "complete"})
        /\ written \in Seq(RecordSet) /\ compressed_bytes \in Int
        /\ stream \in Seq(RecordSet)
    BY Zenon DEF WInv, WriterTypeOK
  <2>2. /\ consumer' \in ConsumerSet /\ consumer'.at = "finish"
        /\ consumer'.buffer = consumer.buffer
    BY <1>3, <2>1, PlacesAre, Zenon DEF ConsumerSet
  <2>3. /\ Base \in Nat /\ Len(written) \in Nat
        /\ consumer.buffer \in Buffer
    BY Zenon, <1>1, BaseIsNat DEF WInv
  <2>4. content[consumer.buffer] \in Seq(RecordSet)
    BY <2>1, <2>3
  <2>5. frames' \in Seq({"torn", "complete"}) /\ written' \in Seq(RecordSet)
    BY <1>3, <2>1, <2>4
  <2>6. WriterTypeOK'
    BY <1>1, <1>3, <2>1, <2>2, <2>5, ConsumerTyped
  <2>7. PhasesAgree' /\ ResultFollows'
    BY Zenon, <1>1, <2>1, <2>2, ConsumerPhases
  <2>8. BuffersAreOwned'
    BY Zenon, <1>1, <2>2 DEF WInv, BuffersAreOwned, ConsumerFrame
  <2>9. FileFollows'
    <3>1. /\ LiesAt(stream, written, 0)
          /\ LiesAt(stream, content[consumer.buffer], Len(written))
      BY Zenon, <1>1 DEF WInv, FileFollows
    <3>2. 0 + Len(written) = Len(written) /\ 0 \in Nat
      BY <2>3
    <3>3. LiesAt(stream, written', 0)
      BY Zenon, <1>3, <2>1, <2>4, <3>1, <3>2, LiesJoined
    <3>4. Base' = Base
      BY <1>1, <1>3, <2>1, <2>2, <2>4 DEF Base
    <3>5. Sound' => Sound
      BY <1>1 DEF Sound
    <3>6. QED
      BY Zenon, <1>1, <2>2, <3>3, <3>4, <3>5 DEF WInv, FileFollows, ConsumerFrame
  <2>10. FramesFollow'
    <3>1. \A k \in 1..Len(frames) : frames[k] = "complete"
      BY <1>1, <2>1 DEF WInv, FramesFollow
    <3>2. /\ Len(frames') = Len(frames) + 1 /\ Len(frames) \in Nat
          /\ \A k \in 1..Len(frames) : frames'[k] = frames[k]
      BY <1>3, <2>1
    <3>3. frames' # <<>>
      BY <3>2
    <3>4. QED
      BY <2>2, <3>1, <3>2, <3>3 DEF FramesFollow
  <2>11. QED
    BY <2>6, <2>7, <2>8, <2>9, <2>10 DEF WInv
<1>4. QED
  BY <1>2, <1>3 DEF WriteBegins

LEMMA WriteEndsKeeps ==
    ASSUME WInv, WriteEnds
    PROVE  WInv'
<1>1. /\ consumer.at = "finish" /\ ConsumerFrame
      /\ UNCHANGED <<state, content, used, error>>
  BY DEF WriteEnds, ConsumerFrame, buffers, producing
<1>2. CASE WriteFails
  BY Zenon, <1>1, <1>2, WriteFailsKeeps
<1>3. CASE /\ frames' = [frames EXCEPT ![Len(frames)] = "complete"]
           /\ compressed_bytes' = compressed_bytes
                + FrameSize(content[consumer.buffer], used[consumer.buffer])
           /\ consumer' = [consumer EXCEPT !.at = "release", !.ok = TRUE]
           /\ UNCHANGED written
  <2>1. /\ consumer \in ConsumerSet /\ error \in BOOLEAN
        /\ state \in [Buffer -> States] /\ content \in [Buffer -> Seq(RecordSet)]
        /\ used \in [Buffer -> Nat] /\ frames \in Seq({"torn", "complete"})
        /\ written \in Seq(RecordSet) /\ compressed_bytes \in Int
        /\ measured \in Int
    BY Zenon DEF WInv, WriterTypeOK
  <2>2. /\ consumer' \in ConsumerSet /\ consumer'.at = "release"
        /\ consumer'.buffer = consumer.buffer /\ consumer'.ok
    BY <1>3, <2>1, PlacesAre, Zenon DEF ConsumerSet
  <2>3. consumer.buffer \in Buffer
    BY <1>1, <2>1 DEF WInv, BuffersAreOwned, ConsumerSet, Buffer
  <2>4. compressed_bytes' \in Int
    <3>1. used[consumer.buffer] \in Int /\ Overhead \in Int
      BY <2>1, <2>3, WriterAssumption
    <3>2. used[consumer.buffer] + Overhead \in Int
      BY <3>1
    <3>3. FrameSize(content[consumer.buffer], used[consumer.buffer]) \in Int
      BY Zenon, <2>1, <3>1, <3>2 DEF FrameSize, FrameBound
    <3>4. QED
      BY <1>3, <2>1, <3>3
  <2>5. /\ frames' \in Seq({"torn", "complete"}) /\ Len(frames') = Len(frames)
        /\ Len(frames) \in Nat \ {0} /\ frames'[Len(frames)] = "complete"
        /\ \A k \in 1..(Len(frames) - 1) : frames'[k] = frames[k]
    <3>1. frames # <<>>
      BY Zenon, <1>1 DEF WInv, FramesFollow
    <3>2. QED
      BY <1>3, <2>1, <3>1
  <2>6. WriterTypeOK'
    BY <1>1, <1>3, <2>1, <2>2, <2>4, <2>5, ConsumerTyped
  <2>7. PhasesAgree' /\ ResultFollows'
    BY Zenon, <1>1, <2>1, <2>2, ConsumerPhases
  <2>8. BuffersAreOwned'
    BY Zenon, <1>1, <2>2 DEF WInv, BuffersAreOwned, ConsumerFrame
  <2>9. FileFollows'
    BY <1>1, <1>3, <2>2 DEF WInv, FileFollows, Sound, Base, ConsumerFrame
  <2>10. FramesFollow'
    BY Zenon, <2>2, <2>5 DEF WInv, FramesFollow
  <2>11. QED
    BY <2>6, <2>7, <2>8, <2>9, <2>10 DEF WInv
<1>4. QED
  BY <1>2, <1>3 DEF WriteEnds

LEMMA ReleaseKeeps ==
    ASSUME WInv, Release
    PROVE  WInv'
<1> DEFINE b == consumer.buffer
<1>1. /\ consumer.at = "release" /\ ConsumerFrame
      /\ UNCHANGED <<frames, written, compressed_bytes>>
      /\ used' = [used EXCEPT ![b] = 0]
      /\ content' = [content EXCEPT ![b] = <<>>]
  BY DEF Release, ConsumerFrame, producing, output
<1>2. /\ consumer \in ConsumerSet /\ error \in BOOLEAN
      /\ state \in [Buffer -> States] /\ content \in [Buffer -> Seq(RecordSet)]
      /\ used \in [Buffer -> Nat] /\ frames \in Seq({"torn", "complete"})
      /\ written \in Seq(RecordSet) /\ compressed_bytes \in Int
      /\ stream \in Seq(RecordSet)
  BY Zenon DEF WInv, WriterTypeOK
<1>3. b \in Buffer
  BY <1>1, <1>2 DEF WInv, BuffersAreOwned, ConsumerSet, Buffer
<1> HIDE DEF b
<1>4. /\ used' \in [Buffer -> Nat] /\ content' \in [Buffer -> Seq(RecordSet)]
      /\ content'[b] = <<>>
      /\ \A j \in Buffer : j # b => content'[j] = content[j] /\ used'[j] = used[j]
  BY <1>1, <1>2, <1>3
<1>5. CASE /\ ~consumer.ok /\ SetFailure
           /\ consumer' = [consumer EXCEPT !.at = "exited", !.buffer = 0]
  <2>1. /\ consumer' \in ConsumerSet /\ consumer'.at = "exited"
        /\ consumer'.buffer = 0
    BY <1>2, <1>5, PlacesAre, Zenon DEF ConsumerSet
  <2>2. error' = TRUE /\ state' \in [Buffer -> States]
    BY <1>5 DEF SetFailure, States
  <2>3. WriterTypeOK'
    BY Zenon, <1>1, <1>2, <1>4, <2>1, <2>2, ConsumerTyped
  <2>4. PhasesAgree' /\ ResultFollows'
    BY Zenon, <1>1, <1>2, <2>1, <2>2, ConsumerPhases
  <2>5. BuffersAreOwned'
    BY Zenon, <1>4, <2>1, <2>2 DEF WInv, BuffersAreOwned
  <2>6. FileFollows'
    BY Zenon, <1>1, <2>1, <2>2 DEF WInv, FileFollows, Sound, ConsumerFrame
  <2>7. FramesFollow'
    BY Zenon, <1>1, <2>1, <2>2 DEF WInv, FramesFollow
  <2>8. QED
    BY <2>3, <2>4, <2>5, <2>6, <2>7 DEF WInv
<1>6. CASE /\ consumer.ok /\ UNCHANGED error
           /\ state' = [state EXCEPT ![b] = "Free"]
           /\ consumer' = [consumer EXCEPT !.at = "scan", !.buffer = 0]
  <2>1. /\ consumer' \in ConsumerSet /\ consumer'.at = "scan"
        /\ consumer'.buffer = 0
    BY <1>2, <1>6, PlacesAre, Zenon DEF ConsumerSet
  <2>2. /\ state' \in [Buffer -> States] /\ state'[b] = "Free"
        /\ \A j \in Buffer : j # b => state'[j] = state[j]
    BY <1>2, <1>3, <1>6 DEF States
  <2>3. WriterTypeOK'
    BY <1>1, <1>2, <1>4, <1>6, <2>1, <2>2, ConsumerTyped
  <2>4. PhasesAgree' /\ ResultFollows'
    BY <1>1, <1>2, <1>6, <2>1, ConsumerPhases
  <2>5. active_buffer # b
    BY <1>3 DEF WInv, BuffersAreOwned, b, Buffer
  <2>6. BuffersAreOwned'
    <3>1. \A i \in Buffer : used'[i] = 0 => content'[i] = <<>>
      BY Zenon, <1>4 DEF WInv, BuffersAreOwned
    <3>2. ASSUME ~error', NEW i \in Buffer
          PROVE  /\ state'[i] = "Filling" <=> active_buffer' = i
                 /\ state'[i] = "Writing" <=> consumer'.buffer = i
      <4>1. /\ state[i] = "Filling" <=> active_buffer = i
            /\ state[i] = "Writing" <=> b = i
        BY <1>6, <3>2 DEF WInv, BuffersAreOwned, b
      <4>2. active_buffer' = active_buffer
        BY <1>1 DEF ConsumerFrame
      <4>3. i # 0
        BY DEF Buffer
      <4>4. QED
        BY Zenon, <2>1, <2>2, <2>5, <4>1, <4>2, <4>3
    <3>3. QED
      BY Zenon, <2>1, <3>1, <3>2 DEF BuffersAreOwned
  <2>7. FileFollows'
    <3>1. /\ Stages(state) /\ Contents(content) /\ Numbers(order)
          /\ Len(written) \in Nat /\ next_order \in Nat
      BY <1>2 DEF WInv, WriterTypeOK, Stages, Contents, Numbers
    <3>2. LiesAt(stream, written, 0)
      BY Zenon DEF WInv, FileFollows
    <3>3. ASSUME ~error
          PROVE  /\ Ordered(state, order, next_order)
                 /\ Chain(stream, Len(written), state, content, order)
                 /\ state[b] = "Writing"
      BY <1>1, <1>3, <1>6, <3>1, <3>3
         DEF WInv, FileFollows, Sound, Base, BuffersAreOwned, b
    <3>4. ASSUME ~error
          PROVE  /\ Ordered(state', order, next_order)
                 /\ Chain(stream, Len(written), state', content', order)
      BY <1>1, <1>2, <1>3, <1>6, <3>1, <3>3, <3>4, ChainReleased, Zenon
    <3>5. Base' = Len(written)
      BY <1>1, <2>1, <3>1 DEF Base
    <3>6. Sound' => ~error
      BY <1>6 DEF Sound
    <3>7. QED
      BY <1>1, <1>6, <2>1, <3>2, <3>4, <3>5, <3>6 DEF FileFollows, ConsumerFrame
  <2>8. FramesFollow'
    BY <1>1, <1>6, <2>1 DEF WInv, FramesFollow
  <2>9. QED
    BY <2>3, <2>4, <2>6, <2>7, <2>8 DEF WInv
<1>7. QED
  BY <1>5, <1>6 DEF Release, b
-----------------------------------------------------------------------------
(* Every step of the facade is a step of its writer, or none.              *)

WriterStep ==
    \/ Open \/ CommitNothing \/ DrainCheck \/ FinishBegin
    \/ \E minimum \in Int : ReserveFits(minimum) \/ ReserveSwaps(minimum)
    \/ \E bytes \in Int : FinalFileTarget(bytes)
    \/ \E record \in RecordSet : Commit(record) \/ FinalFramePadding(record)
    \/ Internal \/ SpuriousWakeup \/ CloseFrame

LEMMA WriterStepKeeps ==
    ASSUME WInv, WriterStep
    PROVE  WInv'
BY Zenon, OpenKeeps, ReservationKeeps, SizingKeeps, JoinKeeps, FinishReleaseKeeps,
   CommitKeeps, SectionsKeep, FinishBeginKeeps, ScanKeeps, WriteBeginsKeeps,
   WriteEndsKeeps, ReleaseKeeps, StutterKeeps
   DEF WriterStep, Internal, Consumer, Retirement

(* The result of finish is given once.                                     *)
LEMMA ResultStays ==
    ASSUME WInv, WriterStep, finish_result
    PROVE  finish_result'
<1>1. life = "finished"
  BY DEF WInv, ResultFollows
<1>2. ~FinishRelease
  BY <1>1 DEF FinishRelease
<1>3. CASE Open \/ CommitNothing \/ DrainCheck \/ FinishBegin \/ CloseFrame
  BY Zenon, <1>3 DEF Open, CommitNothing, DrainCheck, FinishBegin, CloseFrame, ending
<1>4. CASE \E minimum \in Int : ReserveFits(minimum) \/ ReserveSwaps(minimum)
  BY Zenon, <1>4 DEF ReserveFits, ReserveSwaps, SectionFrame, ending
<1>5. CASE \/ \E bytes \in Int : FinalFileTarget(bytes)
           \/ \E record \in RecordSet : Commit(record) \/ FinalFramePadding(record)
  BY Zenon, <1>5 DEF FinalFileTarget, Commit, FinalFramePadding, SizingFrame, ending
<1>6. CASE Internal \/ SpuriousWakeup
  BY Zenon, <1>2, <1>6 DEF Internal, Consumer, Scan, WriteBegins, WriteEnds, Release,
              DrainSection, ProducerWakes, SectionFrame, Retirement, FinishJoin,
              DestroyWriter, SpuriousWakeup, ending
<1>7. QED
  BY Zenon, <1>3, <1>4, <1>5, <1>6 DEF WriterStep

(* Nothing is open yet.                                                    *)
LEMMA WriterBegins ==
    ASSUME WriterInit
    PROVE  WInv
<1>1. /\ <<>> \in Seq(RecordSet)
      /\ <<>> \in Seq({"torn", "complete"})
      /\ Len(<<>>) = 0
  OBVIOUS
<1>2. WriterTypeOK
  <2>1. content \in [Buffer -> Seq(RecordSet)] /\ metrics \in MetricSet
    <3>1. 0 \in Int
      OBVIOUS
    <3>2. QED
      BY Zenon, <1>1, <3>1 DEF WriterInit, MetricSet
  <2>2. consumer \in ConsumerSet
    BY Zenon, PlacesAre DEF WriterInit, ConsumerSet, Places
  <2>3. compressed \in BOOLEAN
    BY Zenon, WriterAssumption DEF WriterInit
  <2>4. /\ life \in Lives /\ finish_result \in BOOLEAN /\ error \in BOOLEAN
        /\ producer_done \in BOOLEAN /\ waiting \in Waits
    BY Zenon DEF WriterInit, Lives, Waits
  <2>5. /\ state \in [Buffer -> States] /\ used \in [Buffer -> Nat]
        /\ order \in [Buffer -> Nat]
    BY Zenon DEF WriterInit, States
  <2>6. /\ next_order \in Nat /\ active_buffer \in 0..2 /\ reservation \in Int
        /\ compressed_bytes \in Int /\ target \in Int /\ measured \in Int
        /\ padding \in Int
    <3>1. 1 \in Nat /\ 0 \in Int /\ 0 \in 0..2
      OBVIOUS
    <3>2. QED
      BY Zenon, <3>1 DEF WriterInit
  <2>7. /\ frames \in Seq({"torn", "complete"}) /\ written \in Seq(RecordSet)
        /\ stream \in Seq(RecordSet)
    BY Zenon, <1>1 DEF WriterInit
  <2>8. QED
    BY Zenon, <2>1, <2>2, <2>3, <2>4, <2>5, <2>6, <2>7 DEF WriterTypeOK
<1>3. BuffersAreOwned
  <2>1. \A i \in Buffer : i # 0
    BY DEF Buffer
  <2>2. QED
    BY Zenon, <2>1 DEF WriterInit, BuffersAreOwned
<1>4. PhasesAgree
  BY Zenon DEF WriterInit, PhasesAgree, Buffer
<1>5. FileFollows
  <2>1. Base = 0
    <3>1. written = <<>> /\ consumer.at = "none"
      BY Zenon DEF WriterInit
    <3>2. QED
      BY <1>1, <3>1 DEF Base
  <2>2. /\ stream = <<>> /\ written = <<>> /\ consumer.at = "none"
        /\ \A i \in Buffer : state[i] = "Free"
    BY Zenon DEF WriterInit
  <2>3. LiesAt(stream, written, 0)
    BY <1>1, <2>2 DEF LiesAt
  <2>4. Chain(stream, 0, state, content, order)
    <3>1. \A i \in Buffer : ~Holds(i, state)
      BY <2>2 DEF Holds
    <3>2. Held(1, state, content) = 0 /\ Held(2, state, content) = 0
      BY <3>1 DEF Held, Buffer
    <3>3. QED
      <4>1. 0 + Held(1, state, content) + Held(2, state, content) = Len(stream)
        BY <1>1, <2>2, <3>2
      <4>2. QED
        BY Zenon, <3>1, <4>1 DEF Chain
  <2>5. Ordered(state, order, next_order)
    BY <2>2 DEF Ordered, Buffer
  <2>6. QED
    BY Zenon, <2>1, <2>2, <2>3, <2>4, <2>5 DEF FileFollows
<1>6. FramesFollow /\ ResultFollows
  <2>1. frames = <<>> /\ ~finish_result /\ consumer.at = "none"
    BY Zenon DEF WriterInit
  <2>2. QED
    BY <1>1, <2>1 DEF FramesFollow, ResultFollows
<1>7. QED
  BY <1>2, <1>3, <1>4, <1>5, <1>6 DEF WInv
==============================================================================
