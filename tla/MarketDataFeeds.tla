-------------------------- MODULE MarketDataFeeds --------------------------
(***************************************************************************)
(* The feeds a replay draws ticks from: VectorDataFeed, CSVTickReader,     *)
(* BinaryTickReader on a TickFile, SyntheticTickGenerator, and the         *)
(* MultiSymbolFeed that goes round them.  A program first records a tick   *)
(* file, crashing perhaps, and then reads; a call of                       *)
(* MultiSymbolFeed::next_tick is one step per round of its loop.           *)
(***************************************************************************)
EXTENDS Integers, Sequences, FiniteSets, SequencesExt

CONSTANTS
    Absent, MaxWrites, MaxOpens,    \* of TickFile
    FeedLists,      \* what feeds_ may hold, as sequences of kinds
    VectorTicks,    \* ticks of the vector feed
    Lines,          \* for each line of the CSV file, whether it parses
    FinalNewline,   \* the last line ends like the others
    Duration,       \* ticks of the synthetic feed: one for each unit of time
    MaxPasses       \* bound: resets

Kinds == {"vector", "csv", "binary", "synthetic"}

ASSUME FeedsAssumption ==
    /\ FeedLists \subseteq UNION { [1..n -> Kinds] : n \in 0..4 }
    /\ \A list \in FeedLists : IsInjective(list)
    /\ VectorTicks \in Seq(Nat) /\ Lines \in Seq(BOOLEAN)
    /\ FinalNewline \in BOOLEAN
    /\ Absent \notin Nat
    /\ {Duration, MaxPasses, MaxWrites, MaxOpens} \subseteq Nat

VARIABLES
    disk, buffer, writer, failed, ticks_written, saved, calls,  \* of TickFile
    feeds,      \* feeds_
    feed,       \* the state of each feed
    turn,       \* current_feed_idx_
    at,         \* recording, idle, or calling next_tick
    got,        \* history: ticks each feed gave since the last reset
    earlier,    \* history: the longest a feed gave between two resets
    passes      \* history: resets

tapeVars == <<disk, buffer, writer, failed, ticks_written, saved, calls>>
feedVars == <<feeds, feed, turn>>
replayHistory == <<got, earlier, passes>>
replayVars == <<tapeVars, feedVars, at, replayHistory>>

Tape == INSTANCE TickFile

-----------------------------------------------------------------------------
(* The feeds                                                               *)

\* open: is_open_; pos: the position in the data; spent: the stream has met its
\* end; total: total_ticks_; price: steps of the synthetic price since it was made.
NewFeed == [open |-> FALSE, pos |-> 0, spent |-> FALSE, total |-> 0, price |-> 0]

\* A next_tick: the feed afterwards, and the tick, if any.
Gives(k, tick) == [feed |-> k, some |-> TRUE, tick |-> tick]
Nothing(k) == [feed |-> k, some |-> FALSE, tick |-> 0]

AskVector(k) ==
    IF k.pos < Len(VectorTicks)
    THEN Gives([k EXCEPT !.pos = @ + 1], VectorTicks[k.pos + 1])
    ELSE Nothing(k)

\* A line that does not parse counts as read and gives nothing.
AskCsv(k) ==
    IF k.spent \/ k.pos = Len(Lines)
    THEN Nothing([k EXCEPT !.open = TRUE, !.spent = TRUE])
    ELSE LET read == [k EXCEPT !.open = TRUE, !.pos = @ + 1,
                               !.spent = k.pos + 1 = Len(Lines) /\ ~FinalNewline]
         IN  IF Lines[read.pos] THEN Gives(read, read.pos) ELSE Nothing(read)

\* The records decide, not the header; ticks_read_ is the position.  Without a
\* file the next call tries to open it again.
AskBinary(k) ==
    LET count == IF disk.header = Absent THEN 0 ELSE disk.header
        k2 == IF k.open THEN k
              ELSE [k EXCEPT !.open = TRUE, !.total = count, !.spent = disk.header = Absent]
    IN  IF calls.open = 0 THEN Nothing(k)
        ELSE IF ~k2.spent /\ k2.pos < Len(disk.ticks)
        THEN Gives([k2 EXCEPT !.pos = @ + 1], disk.ticks[k2.pos + 1])
        ELSE Nothing([k2 EXCEPT !.spent = TRUE])

AskSynthetic(k) ==
    IF k.pos < Duration
    THEN Gives([k EXCEPT !.pos = @ + 1, !.price = @ + 1], k.pos)
    ELSE Nothing(k)

Ask(kind, k) ==
    CASE kind = "vector" -> AskVector(k)
      [] kind = "csv" -> AskCsv(k)
      [] kind = "binary" -> AskBinary(k)
      [] kind = "synthetic" -> AskSynthetic(k)

\* A reader that is not open has nothing to go back on.  The synthetic price
\* goes on from where it was.
\* Variants named ..._ are plausible slips in the definition that follows them;
\* no specification uses them, the mutation checks do.
ResetOf_StaysSpent(kind, k) == [k EXCEPT !.pos = 0]

ResetOf(kind, k) == [k EXCEPT !.pos = 0, !.spent = FALSE]

HasData(kind, k) ==
    CASE kind = "vector" -> k.pos < Len(VectorTicks)
      [] kind = "csv" -> k.open /\ ~k.spent
      [] kind = "binary" -> k.open /\ k.pos < k.total
      [] kind = "synthetic" -> k.pos < Duration

-----------------------------------------------------------------------------
(* Recording, and the MultiSymbolFeed                                      *)

ReplayInit ==
    /\ Tape!Init
    /\ feeds \in FeedLists
    /\ feed = [kind \in Kinds |-> NewFeed]
    /\ turn = -1
    /\ at = "recording"
    /\ got = [kind \in Kinds |-> << >>] /\ earlier = got /\ passes = 0

Recording ==
    /\ at = "recording" /\ "binary" \in ToSet(feeds)
    /\ Tape!Next
    /\ UNCHANGED <<feedVars, at, replayHistory>>

\* The file is read when nobody writes it.
StartReading ==
    /\ at = "recording" /\ writer \in {"none", "fresh", "closed"}
    /\ at' = "idle"
    /\ UNCHANGED <<tapeVars, feedVars, replayHistory>>

NextTick ==
    /\ at = "idle"
    /\ at' = "calling"
    /\ UNCHANGED <<tapeVars, feedVars, replayHistory>>

\* One round of the loop: the next feed in turn is asked.
\* Variants named ..._ are plausible slips in the definition that follows them;
\* no specification uses them, the mutation checks do.
Round_StaysOnEmpty ==
    /\ at = "calling" /\ feeds # << >>
    /\ LET next == (turn + 1) % Len(feeds)
           kind == feeds[next + 1]
           answer == Ask(kind, feed[kind])
       IN  /\ feed' = [feed EXCEPT ![kind] = answer.feed]
           /\ IF answer.some
              THEN at' = "idle" /\ turn' = next /\ got' = [got EXCEPT ![kind] = Append(@, answer.tick)]
              ELSE UNCHANGED <<at, turn, got>>
    /\ UNCHANGED <<tapeVars, feeds, earlier, passes>>

Round ==
    /\ at = "calling" /\ feeds # << >>
    /\ turn' = (turn + 1) % Len(feeds)
    /\ LET kind == feeds[turn' + 1]
           answer == Ask(kind, feed[kind])
       IN  /\ feed' = [feed EXCEPT ![kind] = answer.feed]
           /\ IF answer.some
              THEN at' = "idle" /\ got' = [got EXCEPT ![kind] = Append(@, answer.tick)]
              ELSE UNCHANGED <<at, got>>
    /\ UNCHANGED <<tapeVars, feeds, earlier, passes>>

\* Without feeds the loop is not entered and next_tick returns false.
NoFeeds ==
    /\ at = "calling" /\ feeds = << >>
    /\ at' = "idle"
    /\ UNCHANGED <<tapeVars, feedVars, replayHistory>>

Longer(s, t) == IF Len(s) < Len(t) THEN t ELSE s

ResetFeeds ==
    /\ at = "idle" /\ passes < MaxPasses
    /\ feed' = [kind \in Kinds |-> IF kind \in ToSet(feeds) THEN ResetOf(kind, feed[kind])
                                                           ELSE feed[kind]]
    /\ turn' = -1
    /\ earlier' = [kind \in Kinds |-> Longer(earlier[kind], got[kind])]
    /\ got' = [kind \in Kinds |-> << >>]
    /\ passes' = passes + 1
    /\ UNCHANGED <<tapeVars, feeds, at>>

ReplayNext == Recording \/ StartReading \/ NextTick \/ Round \/ NoFeeds \/ ResetFeeds

ReplaySpec == ReplayInit /\ [][ReplayNext]_replayVars

\* A call that has started goes on: the loop waits for nothing.
FairReplaySpec == ReplaySpec /\ WF_replayVars(Round) /\ WF_replayVars(NoFeeds)

-----------------------------------------------------------------------------
(* Properties                                                              *)

\* Whatever is flushed when, and wherever a crash falls, the file holds the
\* oldest of the ticks that were accepted (tick_reader.cpp:159); a writer that was
\* opened once and closed leaves them all and their number, and before close()
\* ends the header says zero, so has_data() of a reader says no after a crash.
FileHoldsWhatWasWritten ==
    Tape!HoldsPrefix /\ Tape!ClosedIsComplete /\ Tape!HeaderIsLate

\* The lines among the first n that parse, in their order.
Parsed(n) ==
    LET upto[i \in 0..n] == IF i = 0 THEN << >>
                            ELSE IF Lines[i] THEN Append(upto[i - 1], i) ELSE upto[i - 1]
    IN  upto[n]

Content(kind) ==
    CASE kind = "vector" -> VectorTicks
      [] kind = "csv" -> Parsed(Len(Lines))
      [] kind = "binary" -> saved
      [] kind = "synthetic" -> [i \in 1..Duration |-> i - 1]

\* The feed can still give a tick, possibly after lines that do not parse.
CanGive(kind) ==
    LET k == feed[kind]
    IN  CASE kind = "csv" -> ~k.spent /\ \E i \in DOMAIN Lines : i > k.pos /\ Lines[i]
          [] OTHER -> Ask(kind, k).some

\* Between two resets every feed gives its ticks in order and none twice, a feed
\* that has run out has given no less than it did before a reset, and no feed
\* that has ticks left falls more than one turn behind another
\* (market_data_feed.cpp:72), also when lines are bad or other feeds run out.  A
\* feed that is open and can give a tick says so in has_data(), but for a binary
\* reader of a file whose header was never rewritten.
EachPassGivesAll ==
    \A kind \in ToSet(feeds) :
        /\ feed[kind].pos \in Nat /\ turn \in -1..(Len(feeds) - 1)
        /\ IsPrefix(got[kind], Content(kind))
        /\ CanGive(kind) \/ Len(got[kind]) >= Len(earlier[kind])
        /\ CanGive(kind) =>
              /\ \A other \in ToSet(feeds) : feed[other].pos <= feed[kind].pos + 1
              /\ \/ HasData(kind, feed[kind])
                 \/ kind \in {"csv", "binary"} /\ ~feed[kind].open
                 \/ kind = "binary" /\ disk.header = 0

\* A call of MultiSymbolFeed::next_tick returns as long as some feed can give a
\* tick, or there is no feed (market_data_feed.cpp:76).  When all have run out it
\* does not: the loop asks them again and again.
CallReturns ==
    at = "calling" /\ (feeds = << >> \/ \E kind \in ToSet(feeds) : CanGive(kind))
        ~> at = "idle"
=============================================================================
