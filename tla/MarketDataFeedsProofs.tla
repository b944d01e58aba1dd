------------------------ MODULE MarketDataFeedsProofs ------------------------
(***************************************************************************)
(* Proofs about MarketDataFeeds: wherever the stream flushes and the       *)
(* program crashes, the file holds the oldest of the accepted ticks, and   *)
(* every pass over the feeds gives every tick in order and in turn, for    *)
(* any lists of feeds, any file and any number of passes.                  *)
(***************************************************************************)
EXTENDS MarketDataFeeds, SumTheorems, SequenceTheorems, TLAPS

-----------------------------------------------------------------------------
(* The inductive invariant                                                 *)

\* One if the first item of the buffer is the header that open wrote.
Lead(items) == IF items # << >> /\ items[1].kind = "header" THEN 1 ELSE 0

\* The items hold the ticks of list from position n + 1 on, behind the header.
HoldsFrom(items, list, n) ==
    /\ Lead(items) = 1 => items[1] = Tape!Header(0)
    /\ \A i \in Lead(items) + 1 .. Len(items) :
          /\ n + (i - Lead(items)) \in 1 .. Len(list)
          /\ items[i] = Tape!Record(list[n + (i - Lead(items))])

Begins(s, t) == Len(s) <= Len(t) /\ \A i \in 1 .. Len(s) : s[i] = t[i]

Item == [kind : {"header", "tick"}, value : Nat]

TapeTyped ==
    /\ disk = [header |-> disk.header, ticks |-> disk.ticks]
    /\ disk.ticks \in Seq(Nat) /\ saved \in Seq(Nat) /\ buffer \in Seq(Item)
    /\ writer \in {"none", "fresh", "open", "closing", "closed"} /\ failed \in BOOLEAN
    /\ ticks_written \in Nat
    /\ calls \in [write : Nat, open : Nat]

FileSound ==
    /\ disk.header \in {Absent} \cup 0 .. calls.write /\ ticks_written <= calls.write
    /\ disk.header = Absent => disk.ticks = << >>
    /\ disk.header \notin {Absent, 0} => disk.header >= Len(disk.ticks)
    /\ calls.open = 0 => writer \in {"none", "fresh"} /\ disk.header = Absent
    /\ Begins(disk.ticks, saved)

\* The buffer of an open stream has the ticks after those in the file, all of them
\* if the stream has not failed.
StreamSound ==
    IF writer \in {"open", "closing"}
    THEN /\ disk.header \in {Absent, 0}
         /\ ticks_written >= Len(saved)
         /\ HoldsFrom(buffer, saved, Len(disk.ticks))
         /\ disk.header = Absent => Lead(buffer) = 1
         /\ ~failed => Len(disk.ticks) + Len(buffer) - Lead(buffer) = Len(saved)
         /\ writer = "closing" /\ ~failed => buffer = << >>
    ELSE buffer = << >>

\* While there has been one open, the stream is sound and the count is right.
FirstFileSound ==
    /\ writer = "fresh" => ticks_written = 0 /\ ~failed
    /\ calls.open = 1 /\ writer \in {"open", "closing", "closed"} =>
          ~failed /\ ticks_written = Len(saved)
    /\ calls.open = 1 /\ writer = "closed" =>
          Len(disk.ticks) = Len(saved) /\ disk.header = Len(saved)

TapeInv == TapeTyped /\ FileSound /\ StreamSound /\ FirstFileSound

FeedState == [open : BOOLEAN, pos : Nat, spent : BOOLEAN, total : Nat, price : Nat]

\* How far a feed can go, and the tick at a position of one that has no bad lines.
Extent(kind, tape) ==
    CASE kind = "vector" -> Len(VectorTicks)
      [] kind = "csv" -> Len(Lines)
      [] kind = "binary" -> Len(tape.ticks)
      [] kind = "synthetic" -> Duration
TickAt(kind, tape, i) ==
    CASE kind = "vector" -> VectorTicks[i]
      [] kind = "binary" -> tape.ticks[i]
      [] kind = "synthetic" -> i - 1

\* What a feed k, the ticks g it gave in this pass and e of the longest pass have
\* to do with each other; opened says that there is a file.
FeedSound(kind, k, g, e, tape, opened) ==
    /\ k \in FeedState /\ g \in Seq(Nat) /\ e \in Seq(Nat)
    /\ k.pos <= Extent(kind, tape)
    /\ IF kind = "csv"
       THEN /\ g = Parsed(k.pos) /\ Len(e) <= Len(Parsed(Len(Lines)))
            /\ k.spent => k.pos = Len(Lines)
       ELSE /\ Len(g) = k.pos /\ \A i \in 1 .. k.pos : g[i] = TickAt(kind, tape, i)
            /\ Len(e) <= Extent(kind, tape)
    /\ kind = "binary" =>
          /\ k.spent => k.pos = Len(tape.ticks)
          /\ k.open => opened /\ k.total = IF tape.header = Absent THEN 0 ELSE tape.header

\* The feed can give a tick now or after lines that do not parse.
More(kind, k, tape, opened) ==
    CASE kind = "csv" -> ~ k.spent /\ \E i \in 1 .. Len(Lines) : i > k.pos /\ Lines[i]
      [] kind = "binary" ->
            /\ opened /\ k.pos < Len(tape.ticks)
            /\ ~ (IF k.open THEN k.spent ELSE tape.header = Absent)
      [] OTHER -> k.pos < Extent(kind, tape)

\* In r whole rounds and the begun one every feed up to the one in turn was asked
\* once more than the others, and one with ticks left has answered each time.
Asked(i, t, r) == IF i <= t + 1 THEN r + 1 ELSE r
InTurn(list, f, t, r, tape, opened) ==
    \A i \in 1 .. Len(list) :
        /\ f[list[i]].pos <= Asked(i, t, r)
        /\ More(list[i], f[list[i]], tape, opened) => f[list[i]].pos = Asked(i, t, r)

FeedsInv ==
    /\ feeds \in FeedLists
    /\ turn \in -1 .. Len(feeds) - 1
    /\ DOMAIN feed = Kinds /\ DOMAIN got = Kinds /\ DOMAIN earlier = Kinds
    /\ at = "recording" =>
          /\ turn = -1
          /\ \A kind \in Kinds : feed[kind] = NewFeed /\ got[kind] = << >> /\ earlier[kind] = << >>
    /\ \A i \in 1 .. Len(feeds) :
          FeedSound(feeds[i], feed[feeds[i]], got[feeds[i]], earlier[feeds[i]], disk, calls.open # 0)
    /\ \E r \in Nat : InTurn(feeds, feed, turn, r, disk, calls.open # 0)

ReplayInv == TapeInv /\ FeedsInv

-----------------------------------------------------------------------------
(* The file and its stream                                                 *)

LEMMA BeginsIsPrefix ==
    ASSUME NEW s \in Seq(Nat), NEW t \in Seq(Nat), Begins(s, t)
    PROVE  IsPrefix(s, t)
<1>1. Len(s) \in Nat /\ Len(t) \in Nat /\ Len(s) <= Len(t)
  BY DEF Begins
<1>2. SubSeq(s, 1, Len(s)) = s
  BY SubSeqFull
<1>3. /\ SubSeq(t, 1, Len(s)) \in Seq(Nat)
      /\ Len(SubSeq(t, 1, Len(s))) = Len(s)
      /\ \A i \in 1 .. Len(s) : SubSeq(t, 1, Len(s))[i] = t[i]
  <2>1. \A i \in 1 .. Len(s) : t[i] \in Nat
    BY <1>1, ElementOfSeq
  <2>2. /\ SubSeq(t, 1, Len(s)) \in Seq(Nat)
        /\ Len(SubSeq(t, 1, Len(s))) = IF 1 <= Len(s) THEN Len(s) - 1 + 1 ELSE 0
        /\ \A i \in 1 .. Len(s) - 1 + 1 : SubSeq(t, 1, Len(s))[i] = t[1 + i - 1]
    BY <1>1, <2>1, SubSeqProperties
  <2> QED
    BY <1>1, <2>2
<1>4. \A i \in 1 .. Len(s) : s[i] = SubSeq(t, 1, Len(s))[i]
  BY <1>3 DEF Begins
<1>5. s = SubSeq(t, 1, Len(s))
  BY <1>3, <1>4, SeqEqual
<1> QED
  BY <1>1, <1>2, <1>5 DEF IsPrefix

LEMMA BeginsWhole ==
    ASSUME NEW s \in Seq(Nat), NEW t \in Seq(Nat), Begins(s, t), Len(s) = Len(t)
    PROVE  s = t
  BY SeqEqual DEF Begins

LEMMA LeadFacts ==
    /\ Lead(<< >>) = 0
    /\ \A items \in Seq(Item) : Lead(items) \in {0, 1} /\ Lead(items) <= Len(items)
  BY DEF Lead, Item

LEMMA SomeItems ==
    ASSUME NEW items \in Seq(Item), NEW list \in Seq(Nat), NEW n \in Nat,
           HoldsFrom(items, list, n), NEW m \in 1 .. Len(items)
    PROVE  /\ SubSeq(items, 1, m) \in Seq(Item)
           /\ Len(SubSeq(items, 1, m)) = m
           /\ Lead(SubSeq(items, 1, m)) = Lead(items)
           /\ HoldsFrom(SubSeq(items, 1, m), list, n)
<1> DEFINE part == SubSeq(items, 1, m)
<1>1. Len(items) \in Nat /\ m \in Nat /\ 1 <= m /\ m <= Len(items)
  OBVIOUS
<1>2. /\ part \in Seq(Item) /\ Len(part) = m
      /\ \A i \in 1 .. m : part[i] = items[i]
  <2>1. \A i \in 1 .. m : items[i] \in Item
    BY <1>1, ElementOfSeq
  <2>2. /\ part \in Seq(Item)
        /\ Len(part) = IF 1 <= m THEN m - 1 + 1 ELSE 0
        /\ \A i \in 1 .. m - 1 + 1 : part[i] = items[1 + i - 1]
    BY <1>1, <2>1, SubSeqProperties
  <2> QED
    BY <1>1, <2>2
<1> HIDE DEF part
<1>3. part # << >> /\ items # << >> /\ part[1] = items[1]
  BY <1>1, <1>2
<1>4. Lead(part) = Lead(items)
  BY <1>3 DEF Lead
<1>5. HoldsFrom(part, list, n)
  <2>1. \A i \in Lead(items) + 1 .. m : i \in Lead(items) + 1 .. Len(items) /\ i \in 1 .. m
    BY <1>1, LeadFacts
  <2> QED
    BY <1>2, <1>3, <1>4, <2>1 DEF HoldsFrom
<1> QED
  BY <1>2, <1>4, <1>5 DEF part

LEMMA OtherItems ==
    ASSUME NEW items \in Seq(Item), NEW list \in Seq(Nat), NEW n \in Nat,
           HoldsFrom(items, list, n), NEW m \in 1 .. Len(items)
    PROVE  LET rest == SubSeq(items, m + 1, Len(items))
           IN  /\ rest \in Seq(Item)
               /\ Len(rest) = Len(items) - m
               /\ Lead(rest) = 0
               /\ HoldsFrom(rest, list, n + (m - Lead(items)))
<1> DEFINE rest == SubSeq(items, m + 1, Len(items))
<1>1. Len(items) \in Nat /\ m \in Nat /\ 1 <= m /\ m <= Len(items)
  OBVIOUS
<1>2. /\ rest \in Seq(Item) /\ Len(rest) = Len(items) - m
      /\ \A i \in 1 .. Len(items) - m : rest[i] = items[m + i]
  <2>1. \A i \in m + 1 .. Len(items) : items[i] \in Item
    BY <1>1, ElementOfSeq
  <2>2. /\ rest \in Seq(Item)
        /\ Len(rest) = IF m + 1 <= Len(items) THEN Len(items) - (m + 1) + 1 ELSE 0
        /\ \A i \in 1 .. Len(items) - (m + 1) + 1 : rest[i] = items[m + 1 + i - 1]
    BY <1>1, <2>1, SubSeqProperties
  <2> QED
    BY <1>1, <2>2
<1> HIDE DEF rest
<1>3. Lead(items) \in {0, 1}
  BY LeadFacts
<1>4. \A i \in 1 .. Len(items) - m :
         /\ m + i \in Lead(items) + 1 .. Len(items)
         /\ n + ((m + i) - Lead(items)) = n + (m - Lead(items)) + i
  BY <1>1, <1>3
<1>5. \A i \in 1 .. Len(items) - m :
         /\ n + (m - Lead(items)) + i \in 1 .. Len(list)
         /\ rest[i] = Tape!Record(list[n + (m - Lead(items)) + i])
  <2> TAKE i \in 1 .. Len(items) - m
  <2>1. /\ n + ((m + i) - Lead(items)) \in 1 .. Len(list)
        /\ items[m + i] = Tape!Record(list[n + ((m + i) - Lead(items))])
    BY <1>4 DEF HoldsFrom
  <2> QED
    BY <1>2, <1>4, <2>1
<1>6. Lead(rest) = 0
  <2>1. CASE rest = << >>
    BY <2>1 DEF Lead
  <2>2. CASE rest # << >>
    <3>1. 1 \in 1 .. Len(items) - m
      BY <1>1, <1>2, <2>2
    <3>2. rest[1] = Tape!Record(list[n + (m - Lead(items)) + 1])
      BY <1>5, <3>1
    <3>3. rest[1].kind = "tick"
      BY <3>2 DEF Tape!Record
    <3> QED
      BY <3>3 DEF Lead
  <2> QED
    BY <2>1, <2>2
<1>7. HoldsFrom(rest, list, n + (m - Lead(items)))
  <2>1. \A i \in 0 + 1 .. Len(items) - m : i \in 1 .. Len(items) - m /\ i - 0 = i
    BY <1>1
  <2> QED
    BY <1>2, <1>5, <1>6, <2>1 DEF HoldsFrom
<1> QED
  BY <1>2, <1>6, <1>7 DEF rest

LEMMA MoreItems ==
    ASSUME NEW items \in Seq(Item), NEW list \in Seq(Nat), NEW n \in Nat,
           HoldsFrom(items, list, n), NEW tick \in Nat
    PROVE  /\ HoldsFrom(items, Append(list, tick), n)
           /\ Lead(Append(items, Tape!Record(tick))) = Lead(items)
           /\ n + Len(items) - Lead(items) = Len(list) =>
                 HoldsFrom(Append(items, Tape!Record(tick)), Append(list, tick), n)
<1> DEFINE longer == Append(list, tick)
           more == Append(items, Tape!Record(tick))
<1>1. /\ longer \in Seq(Nat) /\ Len(longer) = Len(list) + 1 /\ Len(list) \in Nat
      /\ \A i \in 1 .. Len(list) : longer[i] = list[i]
      /\ longer[Len(list) + 1] = tick
  BY AppendProperties
<1>2. Tape!Record(tick) \in Item
  BY DEF Tape!Record, Item
<1>3. /\ more \in Seq(Item) /\ Len(more) = Len(items) + 1 /\ Len(items) \in Nat /\ more # << >>
      /\ \A i \in 1 .. Len(items) : more[i] = items[i]
      /\ more[Len(items) + 1] = Tape!Record(tick)
  BY <1>2, AppendProperties
<1>4. Lead(items) \in {0, 1} /\ Lead(items) <= Len(items)
  BY LeadFacts
<1> HIDE DEF longer, more
<1>5. Lead(more) = Lead(items)
  <2>1. CASE items = << >>
    <3>1. Len(items) = 0
      BY <2>1
    <3>2. more[1].kind = "tick"
      BY <1>3, <3>1 DEF Tape!Record
    <3> QED
      BY <2>1, <3>2 DEF Lead
  <2>2. CASE items # << >>
    <3>1. 1 \in 1 .. Len(items)
      BY <1>3, <2>2
    <3> QED
      BY <1>3, <2>2, <3>1 DEF Lead
  <2> QED
    BY <2>1, <2>2
<1>6. ASSUME NEW i \in Lead(items) + 1 .. Len(items)
      PROVE  /\ n + (i - Lead(items)) \in 1 .. Len(longer)
             /\ items[i] = Tape!Record(longer[n + (i - Lead(items))])
  <2>1. /\ n + (i - Lead(items)) \in 1 .. Len(list)
        /\ items[i] = Tape!Record(list[n + (i - Lead(items))])
    BY DEF HoldsFrom
  <2> QED
    BY <1>1, <2>1
<1>7. HoldsFrom(items, longer, n)
  BY <1>6 DEF HoldsFrom
<1>8. ASSUME n + Len(items) - Lead(items) = Len(list)
      PROVE  HoldsFrom(more, longer, n)
  <2>1. Lead(items) = 1 => more[1] = Tape!Header(0)
    <3>1. Lead(items) = 1 => 1 \in 1 .. Len(items)
      BY <1>3, <1>4
    <3> QED
      BY <1>3, <3>1 DEF HoldsFrom
  <2>2. ASSUME NEW i \in Lead(items) + 1 .. Len(items) + 1
        PROVE  /\ n + (i - Lead(items)) \in 1 .. Len(longer)
               /\ more[i] = Tape!Record(longer[n + (i - Lead(items))])
    <3>1. CASE i = Len(items) + 1
      <4>1. n + (i - Lead(items)) = Len(list) + 1
        <5>1. n \in Int /\ Len(items) \in Int /\ Lead(items) \in Int /\ Len(list) \in Int
          BY <1>1, <1>3, <1>4
        <5>2. \A a, b, c, d \in Int : a + b - c = d => a + ((b + 1) - c) = d + 1
          OBVIOUS
        <5> QED
          BY <1>8, <3>1, <5>1, <5>2
      <4> QED
        BY <1>1, <1>3, <3>1, <4>1
    <3>2. CASE i # Len(items) + 1
      <4>1. i \in Lead(items) + 1 .. Len(items) /\ i \in 1 .. Len(items)
        BY <1>3, <1>4, <3>2
      <4> QED
        BY <1>3, <1>6, <4>1
    <3> QED
      BY <3>1, <3>2
  <2> QED
    BY <1>3, <1>5, <2>1, <2>2 DEF HoldsFrom
<1> QED
  BY <1>5, <1>7, <1>8 DEF longer, more

\* What reaches the file is what the buffer held next.
LEMMA StoredFacts ==
    ASSUME TapeTyped, Begins(disk.ticks, saved), NEW items \in Seq(Item),
           HoldsFrom(items, saved, Len(disk.ticks))
    PROVE  LET file == Tape!Stored(items)
           IN  /\ file = [header |-> file.header, ticks |-> file.ticks]
               /\ file.header = IF Lead(items) = 1 THEN 0 ELSE disk.header
               /\ file.ticks \in Seq(Nat)
               /\ Len(file.ticks) = Len(disk.ticks) + (Len(items) - Lead(items))
               /\ Begins(file.ticks, saved)
<1> DEFINE file == Tape!Stored(items)
           lead == Lead(items)
           new == [i \in 1 .. Len(items) - lead |-> items[i + lead].value]
<1>1. lead \in {0, 1} /\ lead <= Len(items) /\ Len(items) \in Nat
  BY LeadFacts
<1>2. file = [header |-> IF lead = 1 THEN items[1].value ELSE disk.header,
              ticks |-> disk.ticks \o new]
  BY DEF Tape!Stored, Lead
<1>3. /\ disk.ticks \in Seq(Nat) /\ saved \in Seq(Nat)
      /\ Len(disk.ticks) \in Nat /\ Len(saved) \in Nat
  BY DEF TapeTyped
<1>4. ASSUME NEW i \in 1 .. Len(items) - lead
      PROVE  /\ new[i] = saved[Len(disk.ticks) + i] /\ new[i] \in Nat
             /\ Len(disk.ticks) + i <= Len(saved)
  <2>1. i + lead \in lead + 1 .. Len(items) /\ (i + lead) - lead = i
    BY <1>1
  <2>2. /\ Len(disk.ticks) + i \in 1 .. Len(saved)
        /\ items[i + lead] = Tape!Record(saved[Len(disk.ticks) + i])
    BY <2>1 DEF HoldsFrom
  <2>3. new[i] = saved[Len(disk.ticks) + i]
    BY <2>2 DEF Tape!Record
  <2>4. saved[Len(disk.ticks) + i] \in Nat
    BY <1>3, <2>2, ElementOfSeq
  <2> QED
    BY <1>1, <1>3, <2>2, <2>3, <2>4
<1>5. DOMAIN new = 1 .. Len(items) - lead /\ Len(items) - lead \in Nat
  BY <1>1
<1>6. new \in [1 .. Len(items) - lead -> Nat]
  BY <1>4
<1> HIDE DEF new, lead
<1>7. new \in Seq(Nat) /\ Len(new) = Len(items) - lead
  BY <1>5, <1>6
<1>8. /\ disk.ticks \o new \in Seq(Nat)
      /\ Len(disk.ticks \o new) = Len(disk.ticks) + (Len(items) - lead)
      /\ \A i \in 1 .. Len(disk.ticks) + (Len(items) - lead) :
            (disk.ticks \o new)[i] = IF i <= Len(disk.ticks) THEN disk.ticks[i]
                                     ELSE new[i - Len(disk.ticks)]
  <2>1. /\ disk.ticks \o new \in Seq(Nat)
        /\ Len(disk.ticks \o new) = Len(disk.ticks) + Len(new)
        /\ \A i \in 1 .. Len(disk.ticks) + Len(new) :
              (disk.ticks \o new)[i] = IF i <= Len(disk.ticks) THEN disk.ticks[i]
                                       ELSE new[i - Len(disk.ticks)]
    BY <1>3, <1>7, ConcatProperties
  <2> QED
    BY <1>7, <2>1
<1>9. Begins(disk.ticks \o new, saved)
  <2>1. Len(disk.ticks) + (Len(items) - lead) <= Len(saved)
    <3>1. CASE Len(items) - lead = 0
      BY <1>3, <3>1 DEF Begins
    <3>2. CASE Len(items) - lead # 0
      <4>1. Len(items) - lead \in 1 .. Len(items) - lead
        BY <1>5, <3>2
      <4> QED
        BY <1>4, <4>1
    <3> QED
      BY <3>1, <3>2
  <2>2. ASSUME NEW i \in 1 .. Len(disk.ticks) + (Len(items) - lead)
        PROVE  (disk.ticks \o new)[i] = saved[i]
    <3>1. CASE i <= Len(disk.ticks)
      <4>1. i \in 1 .. Len(disk.ticks)
        BY <1>3, <3>1
      <4>2. disk.ticks[i] = saved[i]
        BY <4>1 DEF Begins
      <4> QED
        BY <1>8, <3>1, <4>2
    <3>2. CASE ~ (i <= Len(disk.ticks))
      <4>1. i - Len(disk.ticks) \in 1 .. Len(items) - lead
            /\ Len(disk.ticks) + (i - Len(disk.ticks)) = i
        BY <1>3, <1>5, <3>2
      <4> QED
        BY <1>4, <1>8, <3>2, <4>1
    <3> QED
      BY <3>1, <3>2
  <2> QED
    BY <1>8, <2>1, <2>2 DEF Begins
<1>10. file.header = IF lead = 1 THEN 0 ELSE disk.header
  <2>1. lead = 1 => items[1].value = 0
    BY DEF lead, HoldsFrom, Tape!Header
  <2> QED
    BY <1>2, <2>1
<1>11. file.ticks = disk.ticks \o new /\ file = [header |-> file.header, ticks |-> file.ticks]
  BY <1>2
<1> HIDE DEF file
<1> QED
  BY <1>8, <1>9, <1>10, <1>11 DEF file, lead

LEMMA AbsentFact == Absent \notin Nat /\ Absent # 0
  BY FeedsAssumption DEF FeedsAssumption

LEMMA EmptyItems == << >> \in Seq(Nat) /\ << >> \in Seq(Item) /\ Len(<< >>) = 0
  OBVIOUS

LEMMA EmptyBuffer ==
    ASSUME NEW list, NEW n
    PROVE  HoldsFrom(<< >>, list, n)
  BY LeadFacts DEF HoldsFrom

LEMMA TapeStarts == ASSUME Tape!Init PROVE TapeInv
<1> USE DEF Tape!Init
<1>1. TapeTyped
  <2>1. disk.ticks \in Seq(Nat) /\ saved \in Seq(Nat) /\ buffer \in Seq(Item)
    BY EmptyItems
  <2>2. calls \in [write : Nat, open : Nat]
    OBVIOUS
  <2> QED
    BY <2>1, <2>2 DEF TapeTyped
<1>2. FileSound
  BY DEF FileSound, Begins
<1>3. StreamSound
  BY DEF StreamSound
<1>4. FirstFileSound
  BY DEF FirstFileSound
<1> QED
  BY <1>1, <1>2, <1>3, <1>4 DEF TapeInv

LEMMA NewWriterKeepsTape == ASSUME TapeInv, Tape!NewWriter PROVE TapeInv'
<1> USE DEF Tape!NewWriter, TapeInv
<1>1. TapeTyped'
  BY DEF TapeTyped
<1>2. FileSound'
  BY DEF TapeTyped, FileSound, Begins
<1>3. StreamSound'
  BY DEF StreamSound
<1>4. FirstFileSound'
  BY DEF FirstFileSound
<1> QED
  BY <1>1, <1>2, <1>3, <1>4

LEMMA OpenKeepsTape == ASSUME TapeInv, Tape!Open PROVE TapeInv'
<1>1. /\ calls.open \in Nat /\ calls.write \in Nat /\ ticks_written \in Nat
      /\ calls'.open = calls.open + 1 /\ calls'.write = calls.write
      /\ calls' \in [write : Nat, open : Nat] /\ ticks_written' = ticks_written
  <2>1. ticks_written \in Nat /\ calls \in [write : Nat, open : Nat]
    BY DEF TapeInv, TapeTyped
  <2>2. calls' = [calls EXCEPT !.open = calls.open + 1] /\ ticks_written' = ticks_written
    BY DEF Tape!Open
  <2> QED
    BY <2>1, <2>2
<1>2. CASE writer = "open"
  <2>1. /\ failed' = TRUE /\ disk' = disk /\ buffer' = buffer /\ saved' = saved /\ writer' = "open"
    BY <1>2 DEF Tape!Open
  <2>2. calls'.open > 1
    BY <1>1, <1>2 DEF TapeInv, FileSound
  <2>3. TapeTyped'
    BY <1>1, <2>1 DEF TapeInv, TapeTyped
  <2>4. FileSound'
    BY <1>1, <2>1, <2>2 DEF TapeInv, FileSound, Begins
  <2>5. StreamSound'
    BY <1>1, <1>2, <2>1 DEF TapeInv, StreamSound
  <2>6. FirstFileSound'
    BY <2>1, <2>2 DEF FirstFileSound
  <2> QED
    BY <2>3, <2>4, <2>5, <2>6 DEF TapeInv
<1>3. CASE writer # "open"
  <2>1. /\ disk' = [header |-> Absent, ticks |-> << >>] /\ buffer' = <<Tape!Header(0)>>
        /\ saved' = << >> /\ writer' = "open" /\ failed' = FALSE
        /\ writer \in {"fresh", "closed"}
    BY <1>3 DEF Tape!Open
  <2>2. Tape!Header(0) \in Item /\ Tape!Header(0).kind = "header"
    BY DEF Tape!Header, Item
  <2>3. Lead(buffer') = 1 /\ Len(buffer') = 1 /\ buffer'[1] = Tape!Header(0)
    BY <2>1, <2>2 DEF Lead
  <2>4. TapeTyped'
    <3>1. buffer' \in Seq(Item)
      BY <2>1, <2>2
    <3>2. disk'.ticks \in Seq(Nat) /\ saved' \in Seq(Nat)
      BY <2>1, EmptyItems
    <3>3. /\ disk' = [header |-> disk'.header, ticks |-> disk'.ticks]
          /\ writer' \in {"none", "fresh", "open", "closing", "closed"} /\ failed' \in BOOLEAN
      BY <2>1
    <3> QED
      BY <1>1, <3>1, <3>2, <3>3 DEF TapeTyped
  <2>5. FileSound'
    BY <1>1, <2>1 DEF TapeInv, FileSound, Begins
  <2>6. HoldsFrom(buffer', saved', 0)
    BY <2>3 DEF HoldsFrom
  <2>7. StreamSound'
    BY <1>1, <2>1, <2>3, <2>6 DEF StreamSound
  <2>8. calls'.open = 1 => ticks_written' = 0
    BY <1>1, <2>1 DEF TapeInv, FileSound, FirstFileSound
  <2>9. FirstFileSound'
    BY <2>1, <2>8 DEF FirstFileSound
  <2> QED
    BY <2>4, <2>5, <2>7, <2>9 DEF TapeInv
<1> QED
  BY <1>2, <1>3

LEMMA WriteKeepsTape == ASSUME TapeInv, Tape!Write PROVE TapeInv'
<1> DEFINE tick == calls.write + 1
<1>1. /\ writer = "open" /\ writer' = "open" /\ disk' = disk /\ failed' = failed
      /\ calls' = [calls EXCEPT !.write = tick] /\ saved' = Append(saved, tick)
      /\ buffer' = IF failed THEN buffer ELSE Append(buffer, Tape!Record(tick))
      /\ ticks_written' = ticks_written + 1
  BY DEF Tape!Write
<1>2. /\ calls.write \in Nat /\ calls.open \in Nat /\ ticks_written \in Nat /\ failed \in BOOLEAN
      /\ saved \in Seq(Nat) /\ buffer \in Seq(Item) /\ disk.ticks \in Seq(Nat)
      /\ disk = [header |-> disk.header, ticks |-> disk.ticks]
  BY DEF TapeInv, TapeTyped
<1>3. /\ calls' \in [write : Nat, open : Nat]
      /\ calls'.write = tick /\ calls'.open = calls.open /\ tick \in Nat
  <2>1. calls \in [write : Nat, open : Nat] /\ calls' = [calls EXCEPT !.write = tick]
    BY <1>1 DEF TapeInv, TapeTyped
  <2>2. tick \in Nat
    BY <1>2
  <2> HIDE DEF tick
  <2> QED
    BY <2>1, <2>2
<1>4. Tape!Record(tick) \in Item
  BY <1>3 DEF Tape!Record, Item
<1>5. /\ saved' \in Seq(Nat) /\ Len(saved') = Len(saved) + 1 /\ Len(saved) \in Nat
      /\ \A i \in 1 .. Len(saved) : saved'[i] = saved[i]
  BY <1>1, <1>2, <1>3, AppendProperties
<1>6. /\ Append(buffer, Tape!Record(tick)) \in Seq(Item)
      /\ Len(Append(buffer, Tape!Record(tick))) = Len(buffer) + 1 /\ Len(buffer) \in Nat
  BY <1>2, <1>4, AppendProperties
<1>7. /\ Len(disk.ticks) \in Nat /\ Lead(buffer) \in {0, 1}
      /\ disk.header \in {Absent, 0} /\ HoldsFrom(buffer, saved, Len(disk.ticks))
      /\ disk.header = Absent => Lead(buffer) = 1
      /\ ~failed => Len(disk.ticks) + Len(buffer) - Lead(buffer) = Len(saved)
      /\ ticks_written >= Len(saved)
  BY <1>1, <1>2, LeadFacts DEF TapeInv, StreamSound
<1> HIDE DEF tick
<1>8. /\ HoldsFrom(buffer, saved', Len(disk.ticks))
      /\ Lead(Append(buffer, Tape!Record(tick))) = Lead(buffer)
      /\ ~failed => HoldsFrom(Append(buffer, Tape!Record(tick)), saved', Len(disk.ticks))
  BY <1>1, <1>2, <1>3, <1>7, MoreItems
<1>9. TapeTyped'
  BY <1>1, <1>2, <1>3, <1>5, <1>6 DEF TapeTyped
<1>10. FileSound'
  <2>1. Begins(disk.ticks, saved')
    BY <1>5 DEF TapeInv, FileSound, Begins
  <2>2. /\ disk.header \in {Absent} \cup 0 .. calls.write /\ ticks_written <= calls.write
        /\ disk.header = Absent => disk.ticks = << >>
        /\ calls.open # 0
    BY <1>1 DEF TapeInv, FileSound
  <2>3. disk'.header \in {Absent} \cup 0 .. calls'.write /\ ticks_written' <= calls'.write
    BY <1>1, <1>2, <1>3, <2>2 DEF tick
  <2> QED
    BY <1>1, <1>3, <1>7, <2>1, <2>2, <2>3 DEF FileSound
<1>11. StreamSound'
  <2>1. CASE failed
    BY <1>1, <1>2, <1>5, <1>7, <1>8, <2>1 DEF StreamSound
  <2>2. CASE ~failed
    <3>1. Len(disk.ticks) + (Len(buffer) + 1) - Lead(buffer) = Len(saved) + 1
      BY <1>5, <1>6, <1>7, <2>2
    <3> QED
      BY <1>1, <1>2, <1>5, <1>6, <1>7, <1>8, <2>2, <3>1 DEF StreamSound
  <2> QED
    BY <2>1, <2>2
<1>12. FirstFileSound'
  BY <1>1, <1>3, <1>5 DEF TapeInv, FirstFileSound
<1> QED
  BY <1>9, <1>10, <1>11, <1>12 DEF TapeInv

LEMMA FlushKeepsTape == ASSUME TapeInv, Tape!Flush PROVE TapeInv'
<1>1. PICK m \in 1 .. Len(buffer) :
         /\ disk' = Tape!Stored(SubSeq(buffer, 1, m))
         /\ buffer' = SubSeq(buffer, m + 1, Len(buffer))
  BY DEF Tape!Flush
<1>2. /\ writer = "open" /\ writer' = "open" /\ failed' = failed /\ calls' = calls
      /\ ticks_written' = ticks_written /\ saved' = saved
  BY DEF Tape!Flush
<1>3. /\ saved \in Seq(Nat) /\ buffer \in Seq(Item) /\ disk.ticks \in Seq(Nat)
      /\ Len(saved) \in Nat /\ Len(buffer) \in Nat /\ Len(disk.ticks) \in Nat /\ m \in Nat
      /\ TapeTyped /\ Begins(disk.ticks, saved)
      /\ calls.write \in Nat /\ ticks_written \in Nat /\ Lead(buffer) \in {0, 1}
  BY LeadFacts DEF TapeInv, TapeTyped, FileSound
<1>4. /\ disk.header \in {Absent, 0} /\ HoldsFrom(buffer, saved, Len(disk.ticks))
      /\ disk.header = Absent => Lead(buffer) = 1
      /\ ~failed => Len(disk.ticks) + Len(buffer) - Lead(buffer) = Len(saved)
      /\ ticks_written >= Len(saved) /\ calls.open # 0
  BY <1>2 DEF TapeInv, StreamSound, FileSound
<1> DEFINE part == SubSeq(buffer, 1, m)
<1>5. /\ part \in Seq(Item) /\ Len(part) = m /\ Lead(part) = Lead(buffer)
      /\ HoldsFrom(part, saved, Len(disk.ticks))
  BY <1>3, <1>4, SomeItems
<1>6. /\ buffer' \in Seq(Item) /\ Len(buffer') = Len(buffer) - m /\ Lead(buffer') = 0
      /\ HoldsFrom(buffer', saved, Len(disk.ticks) + (m - Lead(buffer)))
  BY <1>1, <1>3, <1>4, OtherItems
<1>7. disk' = Tape!Stored(part)
  BY <1>1
<1> HIDE DEF part
<1>8. /\ disk' = [header |-> disk'.header, ticks |-> disk'.ticks]
      /\ disk'.header = IF Lead(part) = 1 THEN 0 ELSE disk.header
      /\ disk'.ticks \in Seq(Nat)
      /\ Len(disk'.ticks) = Len(disk.ticks) + (Len(part) - Lead(part))
      /\ Begins(disk'.ticks, saved)
  BY <1>3, <1>5, <1>7, StoredFacts
<1>9. disk'.header = 0
  BY <1>3, <1>4, <1>5, <1>8
<1>10. TapeTyped'
  BY <1>2, <1>3, <1>6, <1>8 DEF TapeTyped
<1>11. FileSound'
  BY <1>2, <1>3, <1>4, <1>8, <1>9, AbsentFact DEF TapeInv, FileSound
<1>12. StreamSound'
  <2>1. HoldsFrom(buffer', saved, Len(disk'.ticks))
    BY <1>5, <1>6, <1>8
  <2>2. ~failed => Len(disk'.ticks) + Len(buffer') - Lead(buffer') = Len(saved)
    <3>1. /\ Len(disk'.ticks) = Len(disk.ticks) + (m - Lead(buffer))
          /\ Len(buffer') = Len(buffer) - m /\ Lead(buffer') = 0
      BY <1>5, <1>6, <1>8
    <3>2. Lead(buffer) \in Int
      BY <1>3
    <3>3. \A a, b, c, d, e \in Int : a + b - c = d => (a + (e - c)) + (b - e) - 0 = d
      OBVIOUS
    <3>4. Len(disk.ticks) + Len(buffer) - Lead(buffer) = Len(saved) =>
             (Len(disk.ticks) + (m - Lead(buffer))) + (Len(buffer) - m) - 0 = Len(saved)
      <4>1. /\ Len(disk.ticks) \in Int /\ Len(buffer) \in Int /\ Len(saved) \in Int
            /\ m \in Int
        BY <1>3
      <4> QED
        BY <3>2, <3>3, <4>1
    <3> QED
      BY <1>4, <3>1, <3>4
  <2> QED
    BY <1>2, <1>4, <1>9, <2>1, <2>2, AbsentFact DEF StreamSound
<1>13. FirstFileSound'
  BY <1>2 DEF TapeInv, FirstFileSound
<1> QED
  BY <1>10, <1>11, <1>12, <1>13 DEF TapeInv

LEMMA BeginCloseKeepsTape == ASSUME TapeInv, Tape!BeginClose PROVE TapeInv'
<1>1. /\ writer = "open" /\ writer' = "closing" /\ failed' = failed /\ calls' = calls
      /\ ticks_written' = ticks_written /\ saved' = saved
  BY DEF Tape!BeginClose
<1>2. /\ saved \in Seq(Nat) /\ buffer \in Seq(Item) /\ disk.ticks \in Seq(Nat)
      /\ Len(saved) \in Nat /\ Len(buffer) \in Nat /\ Len(disk.ticks) \in Nat
      /\ TapeTyped /\ Begins(disk.ticks, saved) /\ failed \in BOOLEAN
      /\ calls.write \in Nat /\ ticks_written \in Nat /\ Lead(buffer) \in {0, 1}
  BY LeadFacts DEF TapeInv, TapeTyped, FileSound
<1>3. /\ disk.header \in {Absent, 0} /\ HoldsFrom(buffer, saved, Len(disk.ticks))
      /\ disk.header = Absent => Lead(buffer) = 1
      /\ ~failed => Len(disk.ticks) + Len(buffer) - Lead(buffer) = Len(saved)
      /\ ticks_written >= Len(saved) /\ calls.open # 0
  BY <1>1 DEF TapeInv, StreamSound, FileSound
<1>4. FirstFileSound'
  BY <1>1 DEF TapeInv, FirstFileSound
<1>5. CASE failed
  <2>1. disk' = disk /\ buffer' = buffer
    BY <1>5 DEF Tape!BeginClose
  <2>2. TapeTyped'
    BY <1>1, <2>1 DEF TapeInv, TapeTyped
  <2>3. FileSound'
    BY <1>1, <1>3, <2>1 DEF TapeInv, FileSound
  <2>4. StreamSound'
    BY <1>1, <1>3, <1>5, <2>1 DEF StreamSound
  <2> QED
    BY <1>4, <2>2, <2>3, <2>4 DEF TapeInv
<1>6. CASE ~failed
  <2>1. disk' = Tape!Stored(buffer) /\ buffer' = << >>
    BY <1>6 DEF Tape!BeginClose
  <2>2. /\ disk' = [header |-> disk'.header, ticks |-> disk'.ticks]
        /\ disk'.header = IF Lead(buffer) = 1 THEN 0 ELSE disk.header
        /\ disk'.ticks \in Seq(Nat)
        /\ Len(disk'.ticks) = Len(disk.ticks) + (Len(buffer) - Lead(buffer))
        /\ Begins(disk'.ticks, saved)
    BY <1>2, <1>3, <2>1, StoredFacts
  <2>3. disk'.header = 0
    BY <1>2, <1>3, <2>2
  <2>4. Len(buffer') = 0 /\ Lead(buffer') = 0 /\ buffer' \in Seq(Item)
    BY <2>1, LeadFacts
  <2>5. TapeTyped'
    BY <1>1, <1>2, <2>2, <2>4 DEF TapeTyped
  <2>6. FileSound'
    BY <1>1, <1>2, <1>3, <2>2, <2>3, AbsentFact DEF TapeInv, FileSound
  <2>7. StreamSound'
    <3>1. Len(disk'.ticks) + Len(buffer') - Lead(buffer') = Len(saved)
      BY <1>2, <1>3, <1>6, <2>2, <2>4
    <3>2. HoldsFrom(buffer', saved, Len(disk'.ticks))
      BY <2>1, EmptyBuffer
    <3> QED
      BY <1>1, <1>3, <2>1, <2>3, <3>1, <3>2, AbsentFact DEF StreamSound
  <2> QED
    BY <1>4, <2>5, <2>6, <2>7 DEF TapeInv
<1> QED
  BY <1>2, <1>5, <1>6

LEMMA EndCloseKeepsTape == ASSUME TapeInv, Tape!EndClose PROVE TapeInv'
<1>1. /\ writer = "closing" /\ writer' = "closed" /\ failed' = failed /\ calls' = calls
      /\ ticks_written' = ticks_written /\ saved' = saved /\ buffer' = << >>
      /\ disk' = IF failed THEN Tape!Stored(buffer) ELSE [disk EXCEPT !.header = ticks_written]
  BY DEF Tape!EndClose
<1>2. /\ saved \in Seq(Nat) /\ buffer \in Seq(Item) /\ disk.ticks \in Seq(Nat)
      /\ Len(saved) \in Nat /\ Len(buffer) \in Nat /\ Len(disk.ticks) \in Nat
      /\ TapeTyped /\ Begins(disk.ticks, saved) /\ failed \in BOOLEAN
      /\ calls.write \in Nat /\ ticks_written \in Nat /\ Lead(buffer) \in {0, 1}
      /\ disk = [header |-> disk.header, ticks |-> disk.ticks]
  BY LeadFacts DEF TapeInv, TapeTyped, FileSound
<1>3. /\ disk.header \in {Absent, 0} /\ HoldsFrom(buffer, saved, Len(disk.ticks))
      /\ disk.header = Absent => Lead(buffer) = 1
      /\ ~failed => Len(disk.ticks) + Len(buffer) - Lead(buffer) = Len(saved) /\ buffer = << >>
      /\ ticks_written >= Len(saved) /\ calls.open # 0
      /\ Len(disk.ticks) <= Len(saved) /\ ticks_written <= calls.write
  BY <1>1 DEF TapeInv, StreamSound, FileSound, Begins
<1>4. StreamSound'
  BY <1>1 DEF StreamSound
<1>5. CASE failed
  <2>1. /\ disk' = [header |-> disk'.header, ticks |-> disk'.ticks]
        /\ disk'.header = IF Lead(buffer) = 1 THEN 0 ELSE disk.header
        /\ disk'.ticks \in Seq(Nat) /\ Begins(disk'.ticks, saved)
    BY <1>1, <1>2, <1>3, <1>5, StoredFacts
  <2>2. disk'.header = 0
    BY <1>2, <1>3, <2>1
  <2>3. TapeTyped'
    BY <1>1, <1>2, <2>1 DEF TapeTyped
  <2>4. FileSound'
    BY <1>1, <1>2, <1>3, <2>1, <2>2, AbsentFact DEF FileSound
  <2>5. FirstFileSound'
    BY <1>1, <1>5 DEF TapeInv, FirstFileSound
  <2> QED
    BY <1>4, <2>3, <2>4, <2>5 DEF TapeInv
<1>6. CASE ~failed
  <2>1. /\ disk' = [header |-> disk'.header, ticks |-> disk'.ticks]
        /\ disk'.header = ticks_written /\ disk'.ticks = disk.ticks
    <3>1. disk' = [disk EXCEPT !.header = ticks_written]
      BY <1>1, <1>6
    <3>2. disk = [header |-> disk.header, ticks |-> disk.ticks]
      BY <1>2
    <3> QED
      BY <3>1, <3>2
  <2>2. Len(disk.ticks) = Len(saved)
    <3>1. buffer = << >>
      BY <1>3, <1>6
    <3>2. Len(buffer) = 0 /\ Lead(buffer) = 0
      BY <3>1, LeadFacts
    <3>3. Len(disk.ticks) + Len(buffer) - Lead(buffer) = Len(saved)
      BY <1>3, <1>6
    <3>4. Len(disk.ticks) \in Int
      BY <1>2
    <3> QED
      BY <3>2, <3>3, <3>4
  <2>3. TapeTyped'
    BY <1>1, <1>2, <2>1 DEF TapeTyped
  <2>4. FileSound'
    BY <1>1, <1>2, <1>3, <2>1, AbsentFact DEF FileSound
  <2>5. FirstFileSound'
    BY <1>1, <2>1, <2>2 DEF TapeInv, FirstFileSound
  <2> QED
    BY <1>4, <2>3, <2>4, <2>5 DEF TapeInv
<1> QED
  BY <1>2, <1>5, <1>6

LEMMA WriterEndsKeepsTape == ASSUME TapeInv, Tape!Discard \/ Tape!Crash PROVE TapeInv'
<1>1. /\ writer' = "none" /\ buffer' = << >> /\ disk' = disk /\ failed' = failed
      /\ ticks_written' = ticks_written /\ saved' = saved /\ calls' = calls
  BY DEF Tape!Discard, Tape!Crash, TapeInv, StreamSound
<1>2. TapeTyped'
  BY <1>1 DEF TapeInv, TapeTyped
<1>3. FileSound'
  BY <1>1 DEF TapeInv, FileSound
<1>4. StreamSound' /\ FirstFileSound'
  BY <1>1 DEF StreamSound, FirstFileSound
<1> QED
  BY <1>2, <1>3, <1>4 DEF TapeInv

LEMMA RecordingKeepsTape == ASSUME TapeInv, Tape!Next PROVE TapeInv'
  BY NewWriterKeepsTape, OpenKeepsTape, WriteKeepsTape, FlushKeepsTape,
     BeginCloseKeepsTape, EndCloseKeepsTape, WriterEndsKeepsTape DEF Tape!Next

LEMMA SameTapeKeepsTape == ASSUME TapeInv, UNCHANGED tapeVars PROVE TapeInv'
<1> USE DEF tapeVars
<1>1. TapeTyped'
  BY DEF TapeInv, TapeTyped
<1>2. FileSound'
  BY DEF TapeInv, FileSound
<1>3. StreamSound'
  BY DEF TapeInv, StreamSound
<1>4. FirstFileSound'
  BY DEF TapeInv, FirstFileSound
<1> QED
  BY <1>1, <1>2, <1>3, <1>4 DEF TapeInv

LEMMA TapeHoldsWhatWasWritten == ASSUME TapeInv PROVE FileHoldsWhatWasWritten
<1>1. disk.ticks \in Seq(Nat) /\ saved \in Seq(Nat) /\ Begins(disk.ticks, saved)
  BY DEF TapeInv, TapeTyped, FileSound
<1>2. Tape!HoldsPrefix
  <2>1. Tape!IsPrefix(disk.ticks, saved)
    BY <1>1, BeginsIsPrefix DEF IsPrefix, Tape!IsPrefix
  <2> QED
    BY <2>1 DEF TapeInv, FileSound, Tape!HoldsPrefix
<1>3. Tape!ClosedIsComplete
  BY <1>1, BeginsWhole DEF TapeInv, FirstFileSound, Tape!ClosedIsComplete
<1>4. Tape!HeaderIsLate
  BY DEF TapeInv, FileSound, StreamSound, Tape!HeaderIsLate
<1> QED
  BY <1>2, <1>3, <1>4 DEF FileHoldsWhatWasWritten

-----------------------------------------------------------------------------
(* The lines that parse                                                    *)

UptoRound(f, i) == IF i = 0 THEN << >>
                   ELSE IF Lines[i] THEN Append(f[i - 1], i) ELSE f[i - 1]
IsUpto(f, n) == f = [i \in 0 .. n |-> UptoRound(f, i)]

LEMMA UptoAt ==
    ASSUME NEW n \in Nat, NEW f, IsUpto(f, n), NEW i \in 0 .. n
    PROVE  f[i] = UptoRound(f, i)
<1> DEFINE g == [k \in 0 .. n |-> UptoRound(f, k)]
<1>1. f = g
  BY DEF IsUpto
<1>2. g[i] = UptoRound(f, i)
  OBVIOUS
<1> HIDE DEF g
<1> QED
  BY <1>1, <1>2

LEMMA UptoExists ==
    ASSUME NEW n \in Nat
    PROVE  \E f : IsUpto(f, n)
<1> DEFINE Good == { k \in Nat : \E f : IsUpto(f, k) }
<1>1. 0 \in Good
  <2> DEFINE none == [i \in 0 .. 0 |-> << >>]
  <2>1. ASSUME NEW i \in 0 .. 0
        PROVE  none[i] = UptoRound(none, i)
    BY DEF UptoRound
  <2>2. none = [i \in 0 .. 0 |-> none[i]]
    OBVIOUS
  <2> HIDE DEF none
  <2>3. IsUpto(none, 0)
    BY <2>1, <2>2 DEF IsUpto
  <2> QED
    BY <2>3
<1>2. ASSUME NEW k \in Nat, k \in Good
      PROVE  k + 1 \in Good
  <2>1. PICK f : IsUpto(f, k)
    BY <1>2
  <2> DEFINE g == [i \in 0 .. k + 1 |-> IF i <= k THEN f[i] ELSE UptoRound(f, i)]
  <2>2. ASSUME NEW i \in 0 .. k + 1
        PROVE  g[i] = UptoRound(g, i)
    <3>1. i # 0 => i - 1 \in 0 .. k + 1 /\ i - 1 <= k
      OBVIOUS
    <3>2. i # 0 => g[i - 1] = f[i - 1]
      BY <3>1
    <3>3. i <= k => f[i] = UptoRound(f, i)
      BY <2>1, UptoAt
    <3>4. g[i] = UptoRound(f, i)
      BY <3>3
    <3>5. UptoRound(g, i) = UptoRound(f, i)
      <4> HIDE DEF g
      <4> QED
        BY <3>2 DEF UptoRound
    <3> QED
      BY <3>4, <3>5
  <2>3. IsUpto(g, k + 1)
    <3>1. g = [i \in 0 .. k + 1 |-> g[i]]
      OBVIOUS
    <3> HIDE DEF g
    <3> QED
      BY <2>2, <3>1 DEF IsUpto
  <2> QED
    BY <2>3
<1> HIDE DEF Good
<1>3. n \in Good
  BY <1>1, <1>2, NatSetInduction
<1> QED
  BY <1>3 DEF Good

LEMMA UptoUnique ==
    ASSUME NEW n \in Nat, NEW m \in Nat, NEW f, NEW g, IsUpto(f, n), IsUpto(g, m),
           NEW i \in Nat, i <= n, i <= m
    PROVE  f[i] = g[i]
<1> DEFINE Good == { k \in Nat : k <= n /\ k <= m => f[k] = g[k] }
<1>1. 0 \in Good
  <2>1. f[0] = UptoRound(f, 0) /\ g[0] = UptoRound(g, 0)
    BY UptoAt
  <2> QED
    BY <2>1 DEF UptoRound
<1>2. ASSUME NEW k \in Nat, k \in Good
      PROVE  k + 1 \in Good
  <2>1. SUFFICES ASSUME k + 1 <= n, k + 1 <= m PROVE f[k + 1] = g[k + 1]
    OBVIOUS
  <2>2. f[k] = g[k]
    BY <1>2, <2>1
  <2>3. f[k + 1] = UptoRound(f, k + 1) /\ g[k + 1] = UptoRound(g, k + 1)
    BY <2>1, UptoAt
  <2>4. (k + 1) - 1 = k /\ k + 1 # 0
    OBVIOUS
  <2> QED
    BY <2>2, <2>3, <2>4 DEF UptoRound
<1> HIDE DEF Good
<1>3. i \in Good
  BY <1>1, <1>2, NatSetInduction
<1> QED
  BY <1>3 DEF Good

LEMMA ParsedStep ==
    /\ Parsed(0) = << >>
    /\ \A n \in Nat : Parsed(n + 1) = IF Lines[n + 1] THEN Append(Parsed(n), n + 1) ELSE Parsed(n)
<1> DEFINE Of(n) == CHOOSE f : IsUpto(f, n)
<1>1. \A n \in Nat : IsUpto(Of(n), n)
  BY UptoExists
<1>2. \A n \in Nat : Parsed(n) = Of(n)[n]
  BY DEF Parsed, IsUpto, UptoRound
<1> HIDE DEF Of
<1>3. \A n \in Nat : Of(n)[n] = UptoRound(Of(n), n)
  BY <1>1, UptoAt
<1>4. Parsed(0) = << >>
  BY <1>2, <1>3 DEF UptoRound
<1>5. ASSUME NEW n \in Nat
      PROVE  Parsed(n + 1) = IF Lines[n + 1] THEN Append(Parsed(n), n + 1) ELSE Parsed(n)
  <2>1. n + 1 \in Nat /\ n <= n + 1 /\ n <= n /\ n + 1 # 0 /\ (n + 1) - 1 = n
    OBVIOUS
  <2>2. Of(n + 1)[n] = Of(n)[n]
    BY <1>1, <2>1, UptoUnique
  <2>3. Parsed(n + 1) = UptoRound(Of(n + 1), n + 1) /\ Parsed(n) = Of(n)[n]
    BY <1>2, <1>3, <2>1
  <2> QED
    BY <2>1, <2>2, <2>3 DEF UptoRound
<1> QED
  BY <1>4, <1>5

LEMMA ParsedTyped == \A n \in Nat : Parsed(n) \in Seq(Nat)
<1> DEFINE Good == { n \in Nat : Parsed(n) \in Seq(Nat) }
<1>1. 0 \in Good
  BY ParsedStep, EmptyItems
<1>2. ASSUME NEW n \in Nat, n \in Good
      PROVE  n + 1 \in Good
  <2>1. Append(Parsed(n), n + 1) \in Seq(Nat)
    BY <1>2, AppendProperties
  <2>2. Parsed(n + 1) = IF Lines[n + 1] THEN Append(Parsed(n), n + 1) ELSE Parsed(n)
    BY ParsedStep
  <2>3. Parsed(n + 1) \in Seq(Nat)
    BY <1>2, <2>1, <2>2
  <2> QED
    BY <2>3
<1> HIDE DEF Good
<1>3. Nat \subseteq Good
  BY <1>1, <1>2, NatSetInduction
<1> QED
  BY <1>3 DEF Good

LEMMA BeginsFacts ==
    /\ \A s \in Seq(Nat) : Begins(s, s)
    /\ \A s \in Seq(Nat), t \in Seq(Nat), x \in Nat : Begins(s, t) => Begins(s, Append(t, x))
<1>1. \A s \in Seq(Nat) : Begins(s, s)
  BY DEF Begins
<1>2. ASSUME NEW s \in Seq(Nat), NEW t \in Seq(Nat), NEW x \in Nat, Begins(s, t)
      PROVE  Begins(s, Append(t, x))
  <2>1. /\ Len(Append(t, x)) = Len(t) + 1 /\ Len(t) \in Nat /\ Len(s) \in Nat
        /\ \A i \in 1 .. Len(t) : Append(t, x)[i] = t[i]
    BY AppendProperties
  <2>2. Len(s) <= Len(t) /\ \A i \in 1 .. Len(s) : s[i] = t[i]
    BY <1>2 DEF Begins
  <2>3. \A i \in 1 .. Len(s) : i \in 1 .. Len(t)
    BY <2>1, <2>2
  <2> QED
    BY <2>1, <2>2, <2>3 DEF Begins
<1> QED
  BY <1>1, <1>2

\* Fewer lines give the beginning of what more lines give,
LEMMA ParsedBegins ==
    ASSUME NEW n \in Nat, NEW m \in Nat, n <= m
    PROVE  Begins(Parsed(n), Parsed(m))
<1> DEFINE Good == { d \in Nat : Begins(Parsed(n), Parsed(n + d)) }
<1>1. 0 \in Good
  BY ParsedTyped, BeginsFacts
<1>2. ASSUME NEW d \in Nat, d \in Good
      PROVE  d + 1 \in Good
  <2>1. n + d \in Nat /\ (n + d) + 1 = n + (d + 1)
    OBVIOUS
  <2>2. Parsed(n) \in Seq(Nat) /\ Parsed(n + d) \in Seq(Nat)
    BY <2>1, ParsedTyped
  <2>3. Begins(Parsed(n), Append(Parsed(n + d), n + d + 1))
    BY <1>2, <2>1, <2>2, BeginsFacts
  <2>4. Parsed(n + (d + 1)) = IF Lines[n + d + 1] THEN Append(Parsed(n + d), n + d + 1)
                              ELSE Parsed(n + d)
    BY <2>1, ParsedStep
  <2> QED
    BY <1>2, <2>3, <2>4
<1> HIDE DEF Good
<1>3. m - n \in Nat /\ n + (m - n) = m
  OBVIOUS
<1>4. m - n \in Good
  BY <1>1, <1>2, <1>3, NatSetInduction
<1> QED
  BY <1>3, <1>4 DEF Good

\* and the same if none of the others parses.
LEMMA ParsedSame ==
    ASSUME NEW n \in Nat, NEW m \in Nat, n <= m, \A i \in 1 .. m : i > n => ~Lines[i]
    PROVE  Parsed(m) = Parsed(n)
<1> DEFINE Good == { d \in Nat : n + d <= m => Parsed(n + d) = Parsed(n) }
<1>1. 0 \in Good
  OBVIOUS
<1>2. ASSUME NEW d \in Nat, d \in Good
      PROVE  d + 1 \in Good
  <2>1. n + d \in Nat /\ (n + d) + 1 = n + (d + 1)
    OBVIOUS
  <2>2. SUFFICES ASSUME n + (d + 1) <= m PROVE Parsed(n + (d + 1)) = Parsed(n)
    OBVIOUS
  <2>3. ~Lines[n + (d + 1)]
    BY <2>1, <2>2
  <2>4. Parsed(n + (d + 1)) = Parsed(n + d)
    BY <2>1, <2>3, ParsedStep
  <2> QED
    BY <1>2, <2>1, <2>2, <2>4
<1> HIDE DEF Good
<1>3. m - n \in Nat /\ n + (m - n) = m
  OBVIOUS
<1>4. m - n \in Good
  BY <1>1, <1>2, <1>3, NatSetInduction
<1> QED
  BY <1>3, <1>4 DEF Good

-----------------------------------------------------------------------------
(* Asking a feed                                                           *)

LEMMA ConstantFacts ==
    /\ VectorTicks \in Seq(Nat) /\ Lines \in Seq(BOOLEAN) /\ Duration \in Nat
    /\ Len(VectorTicks) \in Nat /\ Len(Lines) \in Nat /\ DOMAIN Lines = 1 .. Len(Lines)
  BY FeedsAssumption DEF FeedsAssumption

\* What the feed says when it is asked, what it then is, and what it was.
Answered(kind, k, a, g, e) ==
    /\ FeedSound(kind, a.feed, IF a.some THEN Append(g, a.tick) ELSE g, e, disk, calls.open # 0)
    /\ a.feed.pos \in {k.pos, k.pos + 1}
    /\ More(kind, a.feed, disk, calls.open # 0) =>
          a.feed.pos = k.pos + 1 /\ More(kind, k, disk, calls.open # 0)

LEMMA OneMore ==
    ASSUME NEW kind, NEW tape, NEW n \in Nat, NEW g \in Seq(Nat), Len(g) = n,
           \A i \in 1 .. n : g[i] = TickAt(kind, tape, i),
           NEW x \in Nat, x = TickAt(kind, tape, n + 1)
    PROVE  /\ Append(g, x) \in Seq(Nat) /\ Len(Append(g, x)) = n + 1
           /\ \A i \in 1 .. n + 1 : Append(g, x)[i] = TickAt(kind, tape, i)
<1>1. /\ Append(g, x) \in Seq(Nat) /\ Len(Append(g, x)) = n + 1
      /\ \A i \in 1 .. n : Append(g, x)[i] = g[i]
      /\ Append(g, x)[n + 1] = x
  BY AppendProperties
<1>2. ASSUME NEW i \in 1 .. n + 1
      PROVE  Append(g, x)[i] = TickAt(kind, tape, i)
  <2>1. i \in 1 .. n \/ i = n + 1
    OBVIOUS
  <2> QED
    BY <1>1, <2>1
<1> QED
  BY <1>1, <1>2

LEMMA VectorAnswers ==
    ASSUME NEW k, NEW g, NEW e, FeedSound("vector", k, g, e, disk, calls.open # 0)
    PROVE  Answered("vector", k, AskVector(k), g, e)
<1> DEFINE a == AskVector(k)
<1>1. /\ k \in FeedState /\ g \in Seq(Nat) /\ e \in Seq(Nat) /\ k.pos <= Len(VectorTicks)
      /\ Len(g) = k.pos /\ \A i \in 1 .. k.pos : g[i] = TickAt("vector", disk, i)
      /\ Len(e) <= Len(VectorTicks) /\ k.pos \in Nat
  BY DEF FeedSound, Extent, FeedState
<1>2. CASE k.pos < Len(VectorTicks)
  <2>1. /\ a.feed = [k EXCEPT !.pos = k.pos + 1] /\ a.some = TRUE
        /\ a.tick = VectorTicks[k.pos + 1]
    BY <1>2 DEF AskVector, Gives
  <2>2. a.feed \in FeedState /\ a.feed.pos = k.pos + 1
    BY <1>1, <2>1 DEF FeedState
  <2>3. a.tick \in Nat /\ a.tick = TickAt("vector", disk, k.pos + 1)
    <3>1. k.pos + 1 \in 1 .. Len(VectorTicks)
      BY <1>1, <1>2, ConstantFacts
    <3>2. VectorTicks[k.pos + 1] \in Nat
      BY <3>1, ConstantFacts, ElementOfSeq
    <3> QED
      BY <2>1, <3>2 DEF TickAt
  <2> HIDE DEF a
  <2>4. /\ Append(g, a.tick) \in Seq(Nat) /\ Len(Append(g, a.tick)) = k.pos + 1
        /\ \A i \in 1 .. k.pos + 1 : Append(g, a.tick)[i] = TickAt("vector", disk, i)
    BY <1>1, <2>3, OneMore
  <2>5. FeedSound("vector", a.feed, Append(g, a.tick), e, disk, calls.open # 0)
    BY <1>1, <1>2, <2>2, <2>4, ConstantFacts DEF FeedSound, Extent
  <2>6. More("vector", k, disk, calls.open # 0)
    BY <1>2 DEF More, Extent
  <2> QED
    BY <2>1, <2>2, <2>5, <2>6 DEF Answered, a
<1>3. CASE ~ (k.pos < Len(VectorTicks))
  <2>1. a.feed = k /\ a.some = FALSE
    BY <1>3 DEF AskVector, Nothing
  <2>2. ~ More("vector", k, disk, calls.open # 0)
    BY <1>3 DEF More, Extent
  <2> HIDE DEF a
  <2> QED
    BY <2>1, <2>2 DEF Answered, a
<1> QED
  BY <1>2, <1>3

LEMMA SyntheticAnswers ==
    ASSUME NEW k, NEW g, NEW e, FeedSound("synthetic", k, g, e, disk, calls.open # 0)
    PROVE  Answered("synthetic", k, AskSynthetic(k), g, e)
<1> DEFINE a == AskSynthetic(k)
<1>1. /\ k \in FeedState /\ g \in Seq(Nat) /\ e \in Seq(Nat) /\ k.pos <= Duration
      /\ Len(g) = k.pos /\ \A i \in 1 .. k.pos : g[i] = TickAt("synthetic", disk, i)
      /\ Len(e) <= Duration /\ k.pos \in Nat /\ k.price \in Nat
  BY DEF FeedSound, Extent, FeedState
<1>2. CASE k.pos < Duration
  <2>1. /\ a.feed = [k EXCEPT !.pos = k.pos + 1, !.price = k.price + 1] /\ a.some = TRUE
        /\ a.tick = k.pos
    BY <1>2 DEF AskSynthetic, Gives
  <2>2. a.feed \in FeedState /\ a.feed.pos = k.pos + 1
    <3>1. k.pos + 1 \in Nat /\ k.price + 1 \in Nat
      BY <1>1
    <3>2. a.feed = [k EXCEPT !.pos = k.pos + 1, !.price = k.price + 1] /\ k \in FeedState
      BY <1>1, <2>1
    <3> HIDE DEF a
    <3> QED
      BY <3>1, <3>2 DEF FeedState
  <2>3. a.tick \in Nat /\ a.tick = TickAt("synthetic", disk, k.pos + 1)
    BY <1>1, <2>1 DEF TickAt
  <2> HIDE DEF a
  <2>4. /\ Append(g, a.tick) \in Seq(Nat) /\ Len(Append(g, a.tick)) = k.pos + 1
        /\ \A i \in 1 .. k.pos + 1 : Append(g, a.tick)[i] = TickAt("synthetic", disk, i)
    BY <1>1, <2>3, OneMore
  <2>5. FeedSound("synthetic", a.feed, Append(g, a.tick), e, disk, calls.open # 0)
    <3>1. k.pos + 1 <= Duration
      BY <1>1, <1>2, ConstantFacts
    <3> QED
      BY <1>1, <2>2, <2>4, <3>1 DEF FeedSound, Extent
  <2>6. More("synthetic", k, disk, calls.open # 0)
    BY <1>2 DEF More, Extent
  <2> QED
    BY <2>1, <2>2, <2>5, <2>6 DEF Answered, a
<1>3. CASE ~ (k.pos < Duration)
  <2>1. a.feed = k /\ a.some = FALSE
    BY <1>3 DEF AskSynthetic, Nothing
  <2>2. ~ More("synthetic", k, disk, calls.open # 0)
    BY <1>3 DEF More, Extent
  <2> HIDE DEF a
  <2> QED
    BY <2>1, <2>2 DEF Answered, a
<1> QED
  BY <1>2, <1>3

LEMMA CsvAnswers ==
    ASSUME NEW k, NEW g, NEW e, FeedSound("csv", k, g, e, disk, calls.open # 0)
    PROVE  Answered("csv", k, AskCsv(k), g, e)
<1> DEFINE a == AskCsv(k)
           last == Len(Lines)
<1>1. /\ k \in FeedState /\ g \in Seq(Nat) /\ e \in Seq(Nat) /\ k.pos <= last
      /\ g = Parsed(k.pos) /\ Len(e) <= Len(Parsed(last))
      /\ k.spent => k.pos = last
      /\ k.pos \in Nat /\ k.spent \in BOOLEAN
  BY DEF FeedSound, Extent, FeedState
<1>2. CASE k.spent \/ k.pos = last
  <2>1. a.feed = [k EXCEPT !.open = TRUE, !.spent = TRUE] /\ a.some = FALSE
    BY <1>2 DEF AskCsv, Nothing
  <2>2. a.feed \in FeedState /\ a.feed.pos = k.pos /\ a.feed.spent = TRUE
    BY <1>1, <2>1 DEF FeedState
  <2>3. k.pos = last
    BY <1>1, <1>2
  <2> HIDE DEF a
  <2>4. FeedSound("csv", a.feed, g, e, disk, calls.open # 0)
    BY <1>1, <2>2, <2>3 DEF FeedSound, Extent
  <2>5. ~ More("csv", a.feed, disk, calls.open # 0)
    BY <2>2 DEF More
  <2> QED
    BY <2>1, <2>2, <2>4, <2>5 DEF Answered, a
<1>3. CASE ~ (k.spent \/ k.pos = last)
  <2> DEFINE next == k.pos + 1
             read == [k EXCEPT !.open = TRUE, !.pos = next,
                               !.spent = next = last /\ ~FinalNewline]
  <2>1. /\ next \in 1 .. last /\ next \in Nat
        /\ last \in Nat /\ FinalNewline \in BOOLEAN
    <3>1. last \in Nat /\ FinalNewline \in BOOLEAN
      BY ConstantFacts, FeedsAssumption DEF FeedsAssumption
    <3>2. k.pos # last /\ k.pos <= last /\ k.pos \in Nat
      BY <1>1, <1>3
    <3> HIDE DEF last
    <3> QED
      BY <3>1, <3>2
  <2>2. read \in FeedState /\ read.pos = next /\ (read.spent => next = last)
    BY <1>1, <2>1 DEF FeedState
  <2>3. a = IF Lines[next] THEN Gives(read, next) ELSE Nothing(read)
    BY <1>1, <1>3, <2>2 DEF AskCsv
  <2>4. a.feed = read /\ (a.some <=> Lines[next]) /\ (a.some => a.tick = next)
    BY <2>3 DEF Gives, Nothing
  <2>5. Parsed(next) = IF Lines[next] THEN Append(g, next) ELSE g
    <3>1. Parsed(k.pos + 1) = IF Lines[k.pos + 1] THEN Append(Parsed(k.pos), k.pos + 1)
                              ELSE Parsed(k.pos)
      BY <1>1, ParsedStep
    <3> QED
      BY <1>1, <3>1
  <2> HIDE DEF a, read
  <2>6. (IF a.some THEN Append(g, a.tick) ELSE g) = Parsed(next)
    BY <2>4, <2>5
  <2>7. FeedSound("csv", a.feed, Parsed(next), e, disk, calls.open # 0)
    <3>1. Parsed(next) \in Seq(Nat)
      BY <2>1, ParsedTyped
    <3> QED
      BY <1>1, <2>1, <2>2, <2>4, <3>1 DEF FeedSound, Extent
  <2>8. More("csv", a.feed, disk, calls.open # 0) => More("csv", k, disk, calls.open # 0)
    <3>1. \A i \in 1 .. Len(Lines) : i > next => i > k.pos
      BY <1>1, <2>1
    <3> QED
      BY <1>3, <2>2, <2>4, <3>1 DEF More
  <2> QED
    BY <2>2, <2>4, <2>6, <2>7, <2>8 DEF Answered, a
<1> QED
  BY <1>2, <1>3

LEMMA BinaryAnswers ==
    ASSUME TapeInv,
           NEW k, NEW g, NEW e, FeedSound("binary", k, g, e, disk, calls.open # 0)
    PROVE  Answered("binary", k, AskBinary(k), g, e)
<1> DEFINE a == AskBinary(k)
           last == Len(disk.ticks)
           count == IF disk.header = Absent THEN 0 ELSE disk.header
           k2 == IF k.open THEN k
                 ELSE [k EXCEPT !.open = TRUE, !.total = count, !.spent = disk.header = Absent]
<1>1. /\ k \in FeedState /\ g \in Seq(Nat) /\ e \in Seq(Nat) /\ k.pos <= last
      /\ Len(g) = k.pos /\ \A i \in 1 .. k.pos : g[i] = TickAt("binary", disk, i)
      /\ Len(e) <= last /\ k.pos \in Nat /\ k.spent \in BOOLEAN /\ k.open \in BOOLEAN
      /\ k.spent => k.pos = last
      /\ k.open => calls.open # 0 /\ k.total = count
  BY DEF FeedSound, Extent, FeedState
<1>2. disk.ticks \in Seq(Nat) /\ last \in Nat /\ count \in Nat
  BY DEF TapeInv, TapeTyped, FileSound
<1>3. disk.header = Absent => last = 0
  BY DEF TapeInv, FileSound
<1>4. CASE calls.open = 0
  <2>1. a.feed = k /\ a.some = FALSE
    BY <1>4 DEF AskBinary, Nothing
  <2>2. ~ More("binary", k, disk, calls.open # 0)
    BY <1>4 DEF More
  <2> HIDE DEF a
  <2> QED
    BY <2>1, <2>2 DEF Answered, a
<1>5. CASE calls.open # 0
  <2>1. /\ k2 \in FeedState /\ k2.pos = k.pos /\ k2.open = TRUE /\ k2.total = count
        /\ k2.spent = IF k.open THEN k.spent ELSE disk.header = Absent
    <3>1. CASE k.open
      BY <1>1, <3>1
    <3>2. CASE ~k.open
      BY <1>1, <1>2, <3>2 DEF FeedState
    <3> QED
      BY <3>1, <3>2
  <2>2. k2.spent => k.pos = last
    BY <1>1, <1>2, <1>3, <2>1
  <2>3. a = IF ~k2.spent /\ k2.pos < last
            THEN Gives([k2 EXCEPT !.pos = k2.pos + 1], disk.ticks[k2.pos + 1])
            ELSE Nothing([k2 EXCEPT !.spent = TRUE])
    BY <1>5 DEF AskBinary
  <2> HIDE DEF a, k2, count
  <2>4. CASE ~k2.spent /\ k.pos < last
    <3>1. /\ a.feed = [k2 EXCEPT !.pos = k.pos + 1] /\ a.some = TRUE
          /\ a.tick = disk.ticks[k.pos + 1]
      BY <2>1, <2>3, <2>4 DEF Gives
    <3>2. /\ a.feed \in FeedState /\ a.feed.pos = k.pos + 1 /\ a.feed.spent = k2.spent
          /\ a.feed.open = TRUE /\ a.feed.total = count
      BY <1>1, <2>1, <3>1 DEF FeedState
    <3>3. a.tick \in Nat /\ a.tick = TickAt("binary", disk, k.pos + 1)
      <4>1. k.pos + 1 \in 1 .. last
        BY <1>1, <1>2, <2>4
      <4>2. disk.ticks[k.pos + 1] \in Nat
        BY <1>2, <4>1, ElementOfSeq
      <4> QED
        BY <3>1, <4>2 DEF TickAt
    <3>4. /\ Append(g, a.tick) \in Seq(Nat) /\ Len(Append(g, a.tick)) = k.pos + 1
          /\ \A i \in 1 .. k.pos + 1 : Append(g, a.tick)[i] = TickAt("binary", disk, i)
      BY <1>1, <3>3, OneMore
    <3>5. k.pos + 1 <= last
      BY <1>1, <1>2, <2>4
    <3>6. FeedSound("binary", a.feed, Append(g, a.tick), e, disk, calls.open # 0)
      BY <1>1, <1>5, <2>4, <3>2, <3>4, <3>5 DEF FeedSound, Extent, count
    <3>7. More("binary", k, disk, calls.open # 0)
      BY <1>5, <2>1, <2>4 DEF More
    <3> QED
      BY <3>1, <3>2, <3>6, <3>7 DEF Answered, a
  <2>5. CASE ~ (~k2.spent /\ k.pos < last)
    <3>1. a.feed = [k2 EXCEPT !.spent = TRUE] /\ a.some = FALSE
      BY <2>1, <2>3, <2>5 DEF Nothing
    <3>2. /\ a.feed \in FeedState /\ a.feed.pos = k.pos /\ a.feed.spent = TRUE
          /\ a.feed.open = TRUE /\ a.feed.total = count
      BY <2>1, <3>1 DEF FeedState
    <3>3. k.pos = last
      BY <1>1, <1>2, <2>1, <2>2, <2>5
    <3>4. FeedSound("binary", a.feed, g, e, disk, calls.open # 0)
      BY <1>1, <1>5, <3>2, <3>3 DEF FeedSound, Extent, count
    <3>5. ~ More("binary", a.feed, disk, calls.open # 0)
      BY <1>2, <3>2, <3>3 DEF More
    <3> QED
      BY <3>1, <3>2, <3>4, <3>5 DEF Answered, a
  <2> QED
    BY <2>4, <2>5
<1> QED
  BY <1>4, <1>5

LEMMA FeedAnswers ==
    ASSUME TapeInv, NEW kind \in Kinds,
           NEW k, NEW g, NEW e, FeedSound(kind, k, g, e, disk, calls.open # 0)
    PROVE  Answered(kind, k, Ask(kind, k), g, e)
<1>1. CASE kind = "vector"
  BY <1>1, VectorAnswers DEF Ask
<1>2. CASE kind = "csv"
  BY <1>2, CsvAnswers DEF Ask
<1>3. CASE kind = "binary"
  BY <1>3, BinaryAnswers DEF Ask
<1>4. CASE kind = "synthetic"
  BY <1>4, SyntheticAnswers DEF Ask
<1> QED
  BY <1>1, <1>2, <1>3, <1>4 DEF Kinds

-----------------------------------------------------------------------------
(* The round                                                               *)

LEMMA ListFacts ==
    ASSUME NEW list \in FeedLists
    PROVE  /\ Len(list) \in Nat /\ DOMAIN list = 1 .. Len(list)
           /\ \A i \in 1 .. Len(list) : list[i] \in Kinds
           /\ \A i \in 1 .. Len(list), j \in 1 .. Len(list) : list[i] = list[j] => i = j
           /\ ToSet(list) = { list[i] : i \in 1 .. Len(list) }
<1>1. PICK n \in 0 .. 4 : list \in [1 .. n -> Kinds]
  BY FeedsAssumption DEF FeedsAssumption
<1>2. list \in Seq(Kinds) /\ Len(list) = n /\ n \in Nat
  BY <1>1
<1>3. IsInjective(list)
  BY FeedsAssumption DEF FeedsAssumption
<1>4. DOMAIN list = 1 .. Len(list)
  BY <1>1, <1>2
<1>5. \A i \in 1 .. Len(list), j \in 1 .. Len(list) : list[i] = list[j] => i = j
  BY <1>3, <1>4 DEF IsInjective
<1> QED
  BY <1>1, <1>2, <1>4, <1>5 DEF ToSet

\* The next feed in turn is asked once more, the others are not.
OneMoreAsked(n, t, r, t2, r2) ==
    \A i \in 1 .. n : Asked(i, t2, r2) = IF i = t2 + 1 THEN Asked(i, t, r) + 1 ELSE Asked(i, t, r)

LEMMA NextTurn ==
    ASSUME NEW n \in Nat, n # 0, NEW t \in -1 .. n - 1, NEW r \in Nat,
           NEW t2, t2 = (t + 1) % n
    PROVE  /\ t2 \in 0 .. n - 1
           /\ \E r2 \in Nat : OneMoreAsked(n, t, r, t2, r2)
<1>1. CASE t = n - 1
  <2>1. t2 = 0
    BY <1>1
  <2>2. OneMoreAsked(n, t, r, t2, r + 1)
    BY <1>1, <2>1 DEF Asked, OneMoreAsked
  <2> QED
    BY <2>1, <2>2
<1>2. CASE t # n - 1
  <2>1. t2 = t + 1
    BY <1>2
  <2>2. OneMoreAsked(n, t, r, t2, r)
    BY <1>2, <2>1 DEF Asked, OneMoreAsked
  <2> QED
    BY <1>2, <2>1, <2>2
<1> QED
  BY <1>1, <1>2

LEMMA NewFeedIsSound ==
    ASSUME NEW kind \in Kinds, NEW tape, tape.ticks \in Seq(Nat), NEW opened
    PROVE  FeedSound(kind, NewFeed, << >>, << >>, tape, opened)
<1>1. /\ NewFeed \in FeedState /\ NewFeed.pos = 0 /\ NewFeed.open = FALSE
      /\ NewFeed.spent = FALSE
  BY DEF NewFeed, FeedState
<1>2. Extent(kind, tape) \in Nat
  BY ConstantFacts DEF Extent, Kinds
<1>3. Len(Parsed(Len(Lines))) \in Nat
  BY ConstantFacts, ParsedTyped
<1>4. Parsed(0) = << >>
  BY ParsedStep
<1> QED
  BY <1>1, <1>2, <1>3, <1>4, EmptyItems DEF FeedSound

LEMMA ResetIsSound ==
    ASSUME NEW kind \in Kinds, NEW tape, tape.ticks \in Seq(Nat), NEW opened,
           NEW k, NEW g, NEW e, FeedSound(kind, k, g, e, tape, opened)
    PROVE  /\ FeedSound(kind, ResetOf(kind, k), << >>, Longer(e, g), tape, opened)
           /\ ResetOf(kind, k).pos = 0
<1> DEFINE k2 == ResetOf(kind, k)
<1>1. k \in FeedState /\ g \in Seq(Nat) /\ e \in Seq(Nat)
  BY DEF FeedSound
<1>2. /\ k2 \in FeedState /\ k2.pos = 0 /\ k2.spent = FALSE /\ k2.open = k.open
      /\ k2.total = k.total
  BY <1>1 DEF ResetOf, FeedState
<1> HIDE DEF k2
<1>3. Extent(kind, tape) \in Nat
  BY ConstantFacts DEF Extent, Kinds
<1>4. Len(Parsed(Len(Lines))) \in Nat
  BY ConstantFacts, ParsedTyped
<1>5. Longer(e, g) \in {e, g}
  BY DEF Longer
<1>6. kind # "csv" => Len(Longer(e, g)) <= Extent(kind, tape)
  BY <1>3, <1>5 DEF FeedSound
<1>7. kind = "csv" => Len(Longer(e, g)) <= Len(Parsed(Len(Lines)))
  <2>1. SUFFICES ASSUME kind = "csv" PROVE Len(g) <= Len(Parsed(Len(Lines)))
    BY <1>5 DEF FeedSound
  <2>2. k.pos \in Nat /\ k.pos <= Len(Lines) /\ g = Parsed(k.pos)
    BY <1>1, <2>1 DEF FeedSound, FeedState, Extent
  <2>3. Begins(g, Parsed(Len(Lines)))
    BY <2>2, ConstantFacts, ParsedBegins
  <2> QED
    BY <2>3 DEF Begins
<1>8. Parsed(0) = << >>
  BY ParsedStep
<1>9. kind = "binary" /\ k2.open => opened /\ k2.total = IF tape.header = Absent THEN 0 ELSE tape.header
  BY <1>2 DEF FeedSound
<1>10. FeedSound(kind, k2, << >>, Longer(e, g), tape, opened)
  BY <1>1, <1>2, <1>3, <1>5, <1>6, <1>7, <1>8, <1>9, EmptyItems DEF FeedSound
<1> QED
  BY <1>2, <1>10 DEF k2

\* Before the first call nobody has been asked.
LEMMA NobodyAsked ==
    ASSUME NEW list, NEW f, NEW tape, NEW opened, \A i \in 1 .. Len(list) : f[list[i]].pos = 0,
           Len(list) \in Nat
    PROVE  InTurn(list, f, -1, 0, tape, opened)
<1>1. \A i \in 1 .. Len(list) : Asked(i, -1, 0) = 0
  BY DEF Asked
<1> QED
  BY <1>1 DEF InTurn

-----------------------------------------------------------------------------
(* The invariant of the replay                                             *)

LEMMA FeedsStart ==
    ASSUME ReplayInit, TapeInv
    PROVE  FeedsInv
<1>1. disk.ticks \in Seq(Nat)
  BY DEF TapeInv, TapeTyped
<1>2. /\ feeds \in FeedLists /\ feed = [kind \in Kinds |-> NewFeed] /\ turn = -1
      /\ at = "recording"
      /\ got = [kind \in Kinds |-> << >>] /\ earlier = [kind \in Kinds |-> << >>]
  BY DEF ReplayInit
<1>3. /\ Len(feeds) \in Nat /\ \A i \in 1 .. Len(feeds) : feeds[i] \in Kinds
  BY <1>2, ListFacts
<1>4. \A i \in 1 .. Len(feeds) :
         FeedSound(feeds[i], feed[feeds[i]], got[feeds[i]], earlier[feeds[i]], disk, calls.open # 0)
  BY <1>1, <1>2, <1>3, NewFeedIsSound
<1>5. \A i \in 1 .. Len(feeds) : feed[feeds[i]].pos = 0
  BY <1>2, <1>3 DEF NewFeed
<1>6. InTurn(feeds, feed, turn, 0, disk, calls.open # 0)
  BY <1>2, <1>3, <1>5, NobodyAsked
<1>7. turn \in -1 .. Len(feeds) - 1
  BY <1>2, <1>3
<1>8. \A kind \in Kinds : feed[kind] = NewFeed /\ got[kind] = << >> /\ earlier[kind] = << >>
  BY <1>2
<1> QED
  BY <1>2, <1>4, <1>6, <1>7, <1>8 DEF FeedsInv

LEMMA RecordingKeepsFeeds ==
    ASSUME FeedsInv, Recording, TapeInv'
    PROVE  FeedsInv'
<1>1. disk'.ticks \in Seq(Nat)
  BY DEF TapeInv, TapeTyped
<1>2. /\ feeds' = feeds /\ feed' = feed /\ turn' = turn /\ at' = at /\ got' = got
      /\ earlier' = earlier /\ at = "recording"
  BY DEF Recording, feedVars, replayHistory
<1>3. /\ feeds \in FeedLists /\ turn = -1 /\ turn \in -1 .. Len(feeds) - 1
      /\ DOMAIN feed = Kinds /\ DOMAIN got = Kinds /\ DOMAIN earlier = Kinds
      /\ \A kind \in Kinds : feed[kind] = NewFeed /\ got[kind] = << >> /\ earlier[kind] = << >>
  BY <1>2 DEF FeedsInv
<1>4. Len(feeds) \in Nat /\ \A i \in 1 .. Len(feeds) : feeds[i] \in Kinds
  BY <1>3, ListFacts
<1>5. ASSUME NEW i \in 1 .. Len(feeds)
      PROVE  FeedSound(feeds[i], feed[feeds[i]], got[feeds[i]], earlier[feeds[i]],
                       disk', calls'.open # 0)
  BY <1>1, <1>3, <1>4, NewFeedIsSound
<1>6. \A i \in 1 .. Len(feeds) : feed[feeds[i]].pos = 0
  BY <1>3, <1>4 DEF NewFeed
<1>7. InTurn(feeds, feed, -1, 0, disk', calls'.open # 0)
  BY <1>4, <1>6, NobodyAsked
<1> QED
  BY <1>2, <1>3, <1>5, <1>7 DEF FeedsInv

LEMMA CallKeepsFeeds ==
    ASSUME FeedsInv, UNCHANGED <<tapeVars, feedVars, replayHistory>>,
           at' = at \/ at' # "recording"
    PROVE  FeedsInv'
<1>1. /\ feeds' = feeds /\ feed' = feed /\ turn' = turn /\ got' = got
      /\ earlier' = earlier /\ disk' = disk /\ calls' = calls
  BY DEF tapeVars, feedVars, replayHistory
<1> QED
  BY <1>1 DEF FeedsInv

LEMMA RoundKeepsFeeds ==
    ASSUME TapeInv, FeedsInv, Round
    PROVE  FeedsInv'
<1> DEFINE n == Len(feeds)
           kind == feeds[turn' + 1]
           answer == Ask(kind, feed[kind])
           opened == calls.open # 0
<1>1. /\ feeds \in FeedLists /\ turn \in -1 .. n - 1
      /\ DOMAIN feed = Kinds /\ DOMAIN got = Kinds /\ DOMAIN earlier = Kinds
      /\ \A i \in 1 .. n :
            FeedSound(feeds[i], feed[feeds[i]], got[feeds[i]], earlier[feeds[i]], disk, opened)
  BY DEF FeedsInv
<1>2. /\ at = "calling" /\ feeds # << >> /\ turn' = (turn + 1) % n
      /\ feed' = [feed EXCEPT ![kind] = answer.feed]
      /\ got' = IF answer.some THEN [got EXCEPT ![kind] = Append(got[kind], answer.tick)] ELSE got
      /\ at' \in {"idle", "calling"}
      /\ disk' = disk /\ calls' = calls /\ feeds' = feeds /\ earlier' = earlier
  BY DEF Round, tapeVars
<1>3. /\ n \in Nat /\ \A i \in 1 .. n : feeds[i] \in Kinds
      /\ \A i \in 1 .. n, j \in 1 .. n : feeds[i] = feeds[j] => i = j
  BY <1>1, ListFacts
<1>4. n # 0
  <2>1. PICK m \in 0 .. 4 : feeds \in [1 .. m -> Kinds]
    BY <1>1, FeedsAssumption DEF FeedsAssumption
  <2>2. feeds \in Seq(Kinds)
    BY <2>1
  <2> QED
    BY <1>2, <2>2, EmptySeq
<1>5. PICK r \in Nat : InTurn(feeds, feed, turn, r, disk, opened)
  BY DEF FeedsInv
<1>6. turn' \in 0 .. n - 1 /\ \E r2 \in Nat : OneMoreAsked(n, turn, r, turn', r2)
  <2>1. n \in Nat /\ n # 0 /\ turn \in -1 .. n - 1 /\ turn' = (turn + 1) % n
    BY <1>1, <1>2, <1>3, <1>4
  <2> HIDE DEF n
  <2> QED
    BY <2>1, NextTurn
<1>7. PICK r2 \in Nat : OneMoreAsked(n, turn, r, turn', r2)
  BY <1>6
<1> DEFINE k == feed[kind]
           g == got[kind]
           e == earlier[kind]
<1>8. turn' + 1 \in 1 .. n /\ kind \in Kinds
  <2>1. turn' + 1 \in 1 .. n
    <3>1. n \in Nat /\ turn' \in 0 .. n - 1
      BY <1>3, <1>6
    <3>2. \A a, b \in Int : a \in 0 .. b - 1 => a + 1 \in 1 .. b
      OBVIOUS
    <3>3. turn' \in Int /\ n \in Int
      BY <3>1
    <3> HIDE DEF n
    <3> QED
      BY <3>1, <3>2, <3>3
  <2> QED
    BY <1>3, <2>1
<1>9. FeedSound(kind, k, g, e, disk, opened)
  BY <1>1, <1>8
<1>10. Answered(kind, k, answer, g, e)
  BY <1>8, <1>9, FeedAnswers
<1>11. /\ feed'[kind] = answer.feed
       /\ got'[kind] = IF answer.some THEN Append(g, answer.tick) ELSE g
       /\ earlier'[kind] = e
       /\ DOMAIN feed' = Kinds /\ DOMAIN got' = Kinds /\ DOMAIN earlier' = Kinds
       /\ \A c \in Kinds : c # kind => feed'[c] = feed[c] /\ got'[c] = got[c]
  <2> HIDE DEF answer, kind
  <2> QED
    BY <1>1, <1>2, <1>8
<1> HIDE DEF answer
<1>12. /\ FeedSound(kind, feed'[kind], got'[kind], earlier'[kind], disk', opened')
       /\ feed'[kind].pos \in {k.pos, k.pos + 1}
       /\ More(kind, feed'[kind], disk, opened) =>
             feed'[kind].pos = k.pos + 1 /\ More(kind, k, disk, opened)
  BY <1>2, <1>10, <1>11 DEF Answered
<1>13. k.pos \in Nat
  BY <1>9 DEF FeedSound, FeedState
<1> HIDE DEF k, g, e
<1>14. ASSUME NEW i \in 1 .. n
       PROVE  /\ FeedSound(feeds[i], feed'[feeds[i]], got'[feeds[i]], earlier'[feeds[i]], disk', opened')
              /\ feed'[feeds[i]].pos <= Asked(i, turn', r2)
              /\ More(feeds[i], feed'[feeds[i]], disk, opened) =>
                    feed'[feeds[i]].pos = Asked(i, turn', r2)
  <2>1. /\ feed[feeds[i]].pos <= Asked(i, turn, r)
        /\ More(feeds[i], feed[feeds[i]], disk, opened) => feed[feeds[i]].pos = Asked(i, turn, r)
    BY <1>5 DEF InTurn
  <2>2. Asked(i, turn, r) \in Nat
    BY DEF Asked
  <2>3. CASE i = turn' + 1
    <3>1. feeds[i] = kind /\ feed[feeds[i]] = k
      BY <2>3 DEF k
    <3>2. Asked(i, turn', r2) = Asked(i, turn, r) + 1
      BY <1>7, <2>3 DEF OneMoreAsked
    <3>3. k.pos <= Asked(i, turn, r) /\ (More(kind, k, disk, opened) => k.pos = Asked(i, turn, r))
      BY <2>1, <3>1
    <3> HIDE DEF kind, n, opened
    <3>4. feed'[kind].pos <= Asked(i, turn, r) + 1
      BY <1>12, <1>13, <2>2, <3>3
    <3>5. More(kind, feed'[kind], disk, opened) => feed'[kind].pos = Asked(i, turn, r) + 1
      BY <1>12, <1>13, <2>2, <3>3
    <3> QED
      BY <1>12, <3>1, <3>2, <3>4, <3>5
  <2>4. CASE i # turn' + 1
    <3>1. feeds[i] # kind /\ feeds[i] \in Kinds
      BY <1>3, <1>8, <2>4
    <3>2. feed'[feeds[i]] = feed[feeds[i]] /\ got'[feeds[i]] = got[feeds[i]]
      BY <1>11, <3>1
    <3>3. Asked(i, turn', r2) = Asked(i, turn, r)
      BY <1>7, <2>4 DEF OneMoreAsked
    <3>4. FeedSound(feeds[i], feed'[feeds[i]], got'[feeds[i]], earlier'[feeds[i]], disk', opened')
      BY <1>1, <1>2, <3>2
    <3> QED
      BY <2>1, <3>2, <3>3, <3>4
  <2> QED
    BY <2>3, <2>4
<1>15. InTurn(feeds', feed', turn', r2, disk', opened')
  BY <1>2, <1>14 DEF InTurn
<1>16. turn' \in -1 .. Len(feeds') - 1
  BY <1>2, <1>3, <1>6
<1>17. \A i \in 1 .. Len(feeds') :
          FeedSound(feeds'[i], feed'[feeds'[i]], got'[feeds'[i]], earlier'[feeds'[i]], disk', opened')
  BY <1>2, <1>14
<1> QED
  BY <1>1, <1>2, <1>11, <1>15, <1>16, <1>17 DEF FeedsInv

LEMMA ResetKeepsFeeds ==
    ASSUME TapeInv, FeedsInv, ResetFeeds
    PROVE  FeedsInv'
<1> DEFINE n == Len(feeds)
           opened == calls.open # 0
<1>1. /\ feeds \in FeedLists
      /\ DOMAIN feed = Kinds /\ DOMAIN got = Kinds /\ DOMAIN earlier = Kinds
      /\ \A i \in 1 .. n :
            FeedSound(feeds[i], feed[feeds[i]], got[feeds[i]], earlier[feeds[i]], disk, opened)
  BY DEF FeedsInv
<1>2. /\ at = "idle" /\ at' = at /\ turn' = -1
      /\ feed' = [kind \in Kinds |-> IF kind \in ToSet(feeds) THEN ResetOf(kind, feed[kind])
                                                              ELSE feed[kind]]
      /\ earlier' = [kind \in Kinds |-> Longer(earlier[kind], got[kind])]
      /\ got' = [kind \in Kinds |-> << >>]
      /\ disk' = disk /\ calls' = calls /\ feeds' = feeds
  BY DEF ResetFeeds, tapeVars
<1>3. /\ n \in Nat /\ \A i \in 1 .. n : feeds[i] \in Kinds
      /\ ToSet(feeds) = { feeds[i] : i \in 1 .. n }
  BY <1>1, ListFacts
<1>4. disk.ticks \in Seq(Nat)
  BY DEF TapeInv, TapeTyped
<1>5. ASSUME NEW i \in 1 .. n
      PROVE  /\ FeedSound(feeds[i], feed'[feeds[i]], got'[feeds[i]], earlier'[feeds[i]], disk, opened)
             /\ feed'[feeds[i]].pos = 0
  <2>1. feeds[i] \in Kinds /\ feeds[i] \in ToSet(feeds)
    BY <1>3
  <2>2. /\ feed'[feeds[i]] = ResetOf(feeds[i], feed[feeds[i]]) /\ got'[feeds[i]] = << >>
        /\ earlier'[feeds[i]] = Longer(earlier[feeds[i]], got[feeds[i]])
    BY <1>2, <2>1
  <2> QED
    <3>1. FeedSound(feeds[i], feed[feeds[i]], got[feeds[i]], earlier[feeds[i]], disk, opened)
      BY <1>1
    <3>2. /\ FeedSound(feeds[i], ResetOf(feeds[i], feed[feeds[i]]), << >>,
                       Longer(earlier[feeds[i]], got[feeds[i]]), disk, opened)
          /\ ResetOf(feeds[i], feed[feeds[i]]).pos = 0
      <4> HIDE DEF opened
      <4> QED
        BY <1>4, <2>1, <3>1, ResetIsSound
    <3> QED
      BY <2>2, <3>2
<1>6. InTurn(feeds, feed', -1, 0, disk, opened)
  BY <1>3, <1>5, NobodyAsked
<1>7. -1 \in -1 .. n - 1
  BY <1>3
<1>8. DOMAIN feed' = Kinds /\ DOMAIN got' = Kinds /\ DOMAIN earlier' = Kinds
  BY <1>2
<1> QED
  BY <1>1, <1>2, <1>5, <1>6, <1>7, <1>8 DEF FeedsInv

LEMMA ReplayStarts == ASSUME ReplayInit PROVE ReplayInv
<1>1. TapeInv
  BY TapeStarts DEF ReplayInit
<1> QED
  BY <1>1, FeedsStart DEF ReplayInv

LEMMA ReplayGoesOn == ASSUME ReplayInv, [ReplayNext]_replayVars PROVE ReplayInv'
<1>1. TapeInv /\ FeedsInv
  BY DEF ReplayInv
<1>2. CASE Recording
  <2>1. TapeInv'
    BY <1>1, <1>2, RecordingKeepsTape DEF Recording
  <2> QED
    BY <1>1, <1>2, <2>1, RecordingKeepsFeeds DEF ReplayInv
<1>3. CASE StartReading \/ NextTick \/ NoFeeds \/ UNCHANGED replayVars
  <2>1. UNCHANGED tapeVars /\ UNCHANGED feedVars /\ UNCHANGED replayHistory
        /\ (at' = at \/ at' # "recording")
    BY <1>3 DEF StartReading, NextTick, NoFeeds, replayVars
  <2> QED
    BY <1>1, <2>1, SameTapeKeepsTape, CallKeepsFeeds DEF ReplayInv
<1>4. CASE Round
  <2>1. UNCHANGED tapeVars
    BY <1>4 DEF Round
  <2> QED
    BY <1>1, <1>4, <2>1, SameTapeKeepsTape, RoundKeepsFeeds DEF ReplayInv
<1>5. CASE ResetFeeds
  <2>1. UNCHANGED tapeVars
    BY <1>5 DEF ResetFeeds
  <2> QED
    BY <1>1, <1>5, <2>1, SameTapeKeepsTape, ResetKeepsFeeds DEF ReplayInv
<1> QED
  BY <1>2, <1>3, <1>4, <1>5 DEF ReplayNext

\* Whatever the stream flushes when, whatever crash or reset there is and whatever
\* feed runs out when, the file, the feeds and the turn stay consistent: the
\* invariant that holds in every reachable state.
THEOREM ReplayIsConsistent == ReplaySpec => []ReplayInv
<1>1. ReplayInit => ReplayInv
  BY ReplayStarts
<1>2. ReplayInv /\ [ReplayNext]_replayVars => ReplayInv'
  BY ReplayGoesOn
<1> QED
  BY <1>1, <1>2, PTL DEF ReplaySpec

\* The file holds the oldest of the ticks that were accepted, a writer that was
\* opened once and closed leaves them all and their number, and the header comes
\* last (tick_reader.cpp:159), for any number of writes, opens and crashes.
THEOREM FileKeepsWhatWasWritten == ReplaySpec => []FileHoldsWhatWasWritten
<1>1. ReplayInv => FileHoldsWhatWasWritten
  BY TapeHoldsWhatWasWritten DEF ReplayInv
<1> QED
  BY <1>1, ReplayIsConsistent, PTL

-----------------------------------------------------------------------------
(* What a pass gives                                                       *)

LEMMA CanGiveIsMore ==
    ASSUME NEW kind \in Kinds, feed[kind] \in FeedState
    PROVE  CanGive(kind) <=> More(kind, feed[kind], disk, calls.open # 0)
<1> DEFINE k == feed[kind]
<1>1. CASE kind = "vector"
  BY <1>1 DEF CanGive, More, Ask, AskVector, Gives, Nothing, Extent
<1>2. CASE kind = "csv"
  BY <1>2, ConstantFacts DEF CanGive, More
<1>3. CASE kind = "synthetic"
  BY <1>3 DEF CanGive, More, Ask, AskSynthetic, Gives, Nothing, Extent
<1>4. CASE kind = "binary"
  <2>1. CanGive(kind) <=> AskBinary(k).some
    BY <1>4 DEF CanGive, Ask
  <2>2. CASE calls.open = 0
    BY <1>4, <2>1, <2>2 DEF AskBinary, Nothing, More
  <2>3. CASE calls.open # 0 /\ k.open
    BY <1>4, <2>1, <2>3 DEF AskBinary, Gives, Nothing, More
  <2>4. CASE calls.open # 0 /\ ~k.open
    <3> DEFINE k2 == [k EXCEPT !.open = TRUE,
                               !.total = IF disk.header = Absent THEN 0 ELSE disk.header,
                               !.spent = disk.header = Absent]
    <3>1. AskBinary(k).some <=> ~k2.spent /\ k2.pos < Len(disk.ticks)
      BY <2>4 DEF AskBinary, Gives, Nothing
    <3>2. k2.spent = (disk.header = Absent) /\ k2.pos = k.pos
      BY DEF FeedState
    <3> HIDE DEF k2
    <3> QED
      BY <1>4, <2>1, <2>4, <3>1, <3>2 DEF More
  <2> QED
    BY <2>2, <2>3, <2>4
<1> QED
  BY <1>1, <1>2, <1>3, <1>4 DEF Kinds

LEMMA BeginsTransitive ==
    ASSUME NEW s \in Seq(Nat), NEW t \in Seq(Nat), NEW u \in Seq(Nat), Begins(s, t), Begins(t, u)
    PROVE  Begins(s, u)
<1>1. Len(s) \in Nat /\ Len(t) \in Nat /\ Len(s) <= Len(t) /\ Len(t) <= Len(u) /\ Len(u) \in Nat
  BY DEF Begins
<1>2. \A i \in 1 .. Len(s) : i \in 1 .. Len(t)
  BY <1>1
<1> QED
  BY <1>1, <1>2 DEF Begins

\* What a feed gave is the beginning of what it has.
LEMMA GivesInOrder ==
    ASSUME TapeInv, NEW kind \in Kinds, NEW k, NEW g, NEW e, NEW opened,
           FeedSound(kind, k, g, e, disk, opened)
    PROVE  IsPrefix(g, Content(kind))
<1>1. k \in FeedState /\ g \in Seq(Nat) /\ k.pos \in Nat /\ Len(g) \in Nat
      /\ k.pos <= Extent(kind, disk)
  BY DEF FeedSound, FeedState
<1>2. disk.ticks \in Seq(Nat) /\ saved \in Seq(Nat) /\ Begins(disk.ticks, saved)
  BY DEF TapeInv, TapeTyped, FileSound
<1>3. CASE kind = "csv"
  <2>1. g = Parsed(k.pos) /\ k.pos <= Len(Lines)
    BY <1>3, <1>1 DEF FeedSound, Extent
  <2>2. Begins(g, Parsed(Len(Lines)))
    BY <1>1, <2>1, ConstantFacts, ParsedBegins
  <2>3. IsPrefix(g, Parsed(Len(Lines)))
    BY <1>1, <2>2, ConstantFacts, ParsedTyped, BeginsIsPrefix
  <2> QED
    BY <1>3, <2>3 DEF Content
<1>4. CASE kind # "csv"
  <2>1. Len(g) = k.pos /\ \A i \in 1 .. k.pos : g[i] = TickAt(kind, disk, i)
    BY <1>4 DEF FeedSound
  <2>2. CASE kind = "vector"
    <3>1. Len(g) <= Len(VectorTicks) /\ \A i \in 1 .. Len(g) : g[i] = VectorTicks[i]
      BY <1>1, <2>1, <2>2 DEF Extent, TickAt
    <3>2. Begins(g, VectorTicks)
      BY <3>1 DEF Begins
    <3> QED
      BY <1>1, <2>2, <3>2, ConstantFacts, BeginsIsPrefix DEF Content
  <2>3. CASE kind = "binary"
    <3>1. Len(g) <= Len(disk.ticks) /\ \A i \in 1 .. Len(g) : g[i] = disk.ticks[i]
      BY <1>1, <2>1, <2>3 DEF Extent, TickAt
    <3>2. Begins(g, disk.ticks)
      BY <3>1 DEF Begins
    <3>3. Begins(g, saved)
      BY <1>1, <1>2, <3>2, BeginsTransitive
    <3> QED
      BY <1>1, <1>2, <2>3, <3>3, BeginsIsPrefix DEF Content
  <2>4. CASE kind = "synthetic"
    <3> DEFINE steps == [i \in 1 .. Duration |-> i - 1]
    <3>1. steps \in Seq(Nat) /\ Len(steps) = Duration /\ \A i \in 1 .. Duration : steps[i] = i - 1
      BY ConstantFacts
    <3>2. Len(g) <= Duration /\ \A i \in 1 .. Len(g) : g[i] = i - 1
      BY <1>1, <2>1, <2>4 DEF Extent, TickAt
    <3>3. \A i \in 1 .. Len(g) : i \in 1 .. Duration
      BY <1>1, <3>2, ConstantFacts
    <3> HIDE DEF steps
    <3>4. Begins(g, steps)
      BY <3>1, <3>2, <3>3 DEF Begins
    <3>5. IsPrefix(g, steps)
      BY <1>1, <3>1, <3>4, BeginsIsPrefix
    <3> QED
      BY <2>4, <3>5 DEF Content, steps
  <2> QED
    BY <1>4, <2>2, <2>3, <2>4 DEF Kinds
<1> QED
  BY <1>3, <1>4

\* A feed that can give no more has given no less than in an earlier pass.
LEMMA GivesNoLess ==
    ASSUME TapeInv, NEW kind \in Kinds, NEW k, NEW g, NEW e,
           FeedSound(kind, k, g, e, disk, calls.open # 0),
           ~ More(kind, k, disk, calls.open # 0)
    PROVE  Len(g) >= Len(e)
<1>1. /\ k \in FeedState /\ g \in Seq(Nat) /\ e \in Seq(Nat) /\ k.pos \in Nat
      /\ Len(g) \in Nat /\ Len(e) \in Nat /\ k.pos <= Extent(kind, disk)
  BY DEF FeedSound, FeedState
<1>2. CASE kind = "csv"
  <2>1. g = Parsed(k.pos) /\ k.pos <= Len(Lines) /\ Len(e) <= Len(Parsed(Len(Lines)))
        /\ (k.spent => k.pos = Len(Lines))
    BY <1>1, <1>2 DEF FeedSound, Extent
  <2>2. CASE k.spent
    BY <1>1, <2>1, <2>2
  <2>3. CASE ~k.spent
    <3>1. \A i \in 1 .. Len(Lines) : i > k.pos => ~Lines[i]
      BY <1>2, <2>3 DEF More
    <3>2. Parsed(Len(Lines)) = Parsed(k.pos)
      BY <1>1, <2>1, <3>1, ConstantFacts, ParsedSame
    <3> QED
      BY <1>1, <2>1, <3>2
  <2> QED
    BY <2>2, <2>3
<1>3. CASE kind = "binary"
  <2>1. /\ Len(g) = k.pos /\ Len(e) <= Len(disk.ticks) /\ k.pos <= Len(disk.ticks)
        /\ (k.spent => k.pos = Len(disk.ticks))
    BY <1>1, <1>3 DEF FeedSound, Extent
  <2>2. /\ disk.header = Absent => Len(disk.ticks) = 0
        /\ calls.open = 0 => disk.header = Absent
        /\ Len(disk.ticks) \in Nat
    BY DEF TapeInv, TapeTyped, FileSound
  <2>3. \/ calls.open = 0 \/ k.pos >= Len(disk.ticks) \/ k.spent \/ disk.header = Absent
    BY <1>1, <1>3, <2>2 DEF More
  <2> QED
    BY <1>1, <2>1, <2>2, <2>3
<1>4. CASE kind \in {"vector", "synthetic"}
  <2>1. Len(g) = k.pos /\ Len(e) <= Extent(kind, disk) /\ Extent(kind, disk) \in Nat
    BY <1>4, ConstantFacts DEF FeedSound, Extent
  <2>2. k.pos >= Extent(kind, disk)
    BY <1>1, <1>4, <2>1 DEF More
  <2> QED
    BY <1>1, <2>1, <2>2
<1> QED
  BY <1>2, <1>3, <1>4 DEF Kinds

\* An open feed that can give a tick says so, if the header of the file is right.
LEMMA SaysSo ==
    ASSUME TapeInv, NEW kind \in Kinds, NEW k, NEW g, NEW e,
           FeedSound(kind, k, g, e, disk, calls.open # 0),
           More(kind, k, disk, calls.open # 0)
    PROVE  \/ HasData(kind, k)
           \/ kind \in {"csv", "binary"} /\ ~k.open
           \/ kind = "binary" /\ disk.header = 0
<1>1. k \in FeedState /\ k.pos \in Nat /\ k.open \in BOOLEAN
  BY DEF FeedSound, FeedState
<1>2. CASE kind = "csv"
  BY <1>1, <1>2 DEF More, HasData
<1>3. CASE kind = "binary"
  <2>1. SUFFICES ASSUME k.open, disk.header # 0 PROVE HasData(kind, k)
    BY <1>1, <1>3
  <2>2. k.pos < Len(disk.ticks) /\ k.total = IF disk.header = Absent THEN 0 ELSE disk.header
    BY <1>3, <2>1 DEF More, FeedSound
  <2>3. /\ disk.header = Absent => Len(disk.ticks) = 0
        /\ disk.header \notin {Absent, 0} => disk.header >= Len(disk.ticks) /\ disk.header \in Nat
        /\ Len(disk.ticks) \in Nat
    BY DEF TapeInv, TapeTyped, FileSound
  <2>4. k.pos < k.total
    BY <1>1, <2>1, <2>2, <2>3
  <2> QED
    BY <1>3, <2>1, <2>4 DEF HasData
<1>4. CASE kind \in {"vector", "synthetic"}
  BY <1>1, <1>4 DEF More, HasData, Extent
<1> QED
  BY <1>2, <1>3, <1>4 DEF Kinds

\* In every pass each feed gives its ticks in order and none twice, none that has
\* ticks left is more than one turn behind another, one that has run out has given
\* no less than before a reset, and has_data() says so (market_data_feed.cpp:72),
\* for any files, lists of feeds and numbers of passes.
THEOREM PassesGiveAll == ReplaySpec => []EachPassGivesAll
<1>1. ASSUME ReplayInv
      PROVE  EachPassGivesAll
  <2> DEFINE opened == calls.open # 0
             n == Len(feeds)
  <2>1. TapeInv /\ FeedsInv
    BY <1>1 DEF ReplayInv
  <2>2. /\ feeds \in FeedLists /\ turn \in -1 .. n - 1
        /\ \A i \in 1 .. n :
              FeedSound(feeds[i], feed[feeds[i]], got[feeds[i]], earlier[feeds[i]], disk, opened)
    BY <2>1 DEF FeedsInv
  <2>3. PICK r \in Nat : InTurn(feeds, feed, turn, r, disk, opened)
    BY <2>1 DEF FeedsInv
  <2>4. /\ \A i \in 1 .. n : feeds[i] \in Kinds
        /\ ToSet(feeds) = { feeds[i] : i \in 1 .. n }
    BY <2>2, ListFacts
  <2>5. ASSUME NEW i \in 1 .. n
        PROVE  feed[feeds[i]].pos \in Nat /\ feed[feeds[i]] \in FeedState
    BY <2>2 DEF FeedSound, FeedState
  <2>6. ASSUME NEW i \in 1 .. n
        PROVE  LET kind == feeds[i]
               IN  /\ IsPrefix(got[kind], Content(kind))
                   /\ CanGive(kind) \/ Len(got[kind]) >= Len(earlier[kind])
                   /\ CanGive(kind) =>
                         /\ \A other \in ToSet(feeds) : feed[other].pos <= feed[kind].pos + 1
                         /\ \/ HasData(kind, feed[kind])
                            \/ kind \in {"csv", "binary"} /\ ~feed[kind].open
                            \/ kind = "binary" /\ disk.header = 0
    <3> DEFINE kind == feeds[i]
    <3>1. /\ kind \in Kinds
          /\ FeedSound(kind, feed[kind], got[kind], earlier[kind], disk, opened)
      BY <2>2, <2>4
    <3>2. CanGive(kind) <=> More(kind, feed[kind], disk, opened)
      BY <2>5, <3>1, CanGiveIsMore
    <3>3. IsPrefix(got[kind], Content(kind))
      BY <2>1, <3>1, GivesInOrder
    <3>4. CanGive(kind) \/ Len(got[kind]) >= Len(earlier[kind])
      BY <2>1, <3>1, <3>2, GivesNoLess
    <3>5. CanGive(kind) =>
             \/ HasData(kind, feed[kind])
             \/ kind \in {"csv", "binary"} /\ ~feed[kind].open
             \/ kind = "binary" /\ disk.header = 0
      BY <2>1, <3>1, <3>2, SaysSo
    <3>6. ASSUME CanGive(kind), NEW j \in 1 .. n
          PROVE  feed[feeds[j]].pos <= feed[kind].pos + 1
      <4>1. feed[kind].pos = Asked(i, turn, r)
        BY <2>3, <3>2, <3>6 DEF InTurn
      <4>2. feed[feeds[j]].pos <= Asked(j, turn, r)
        BY <2>3 DEF InTurn
      <4>3. /\ Asked(i, turn, r) \in {r, r + 1} /\ Asked(j, turn, r) \in {r, r + 1}
            /\ feed[feeds[j]].pos \in Nat
        BY <2>5 DEF Asked
      <4> QED
        BY <4>1, <4>2, <4>3
    <3>7. CanGive(kind) => \A other \in ToSet(feeds) : feed[other].pos <= feed[kind].pos + 1
      BY <2>4, <3>6
    <3> QED
      BY <3>3, <3>4, <3>5, <3>7
  <2>7. turn \in -1 .. (Len(feeds) - 1)
    BY <2>2
  <2> QED
    BY <2>4, <2>5, <2>6, <2>7 DEF EachPassGivesAll
<1> QED
  BY <1>1, ReplayIsConsistent, PTL
=============================================================================
