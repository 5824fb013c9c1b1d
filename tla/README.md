# A verification of lobcore in TLA+

lobcore rebuilds limit order books from venue feeds.  Its core, `lob-core`, has
two implementations of one trait, `OrderBook`: a plain one (`RefBook`) that
serves as oracle, and a fast one (`ArrayBook`) whose structures are linked by
hand.  Above it, `lob-feed` frames and parses ITCH files and keeps a book per
stock, `lob-features` computes exact ratios from the best levels, `lob-synth`
generates days of messages with their true books, and a Python extension
samples a replay into columns.

These modules model all of those.  They state what the trait promises and show
that both books, and a session that changes from one to the other in mid-day,
keep the promise; that the streaming framer gives the frames of the whole input
whatever its source does; that the statistics, the report and the samples of a
session are those of its books; and that a generated day played into the books
agrees with its sidecar.  For every value of their constants it is proved that both
books implement the trait, answer its queries and pass their self-checks, that the
framer and the gzip source keep their promises, that the price levels are indexed and
walked rightly, that operation files read back, and the identities of the features.

Run anything here with `tlc -config X.cfg M` and `tlapm M.tla`; the table under
"Runs" says which goes with which.

## The system

| component | state | operations | made correct by |
|---|---|---|---|
| vocabulary (`types.rs`, `api.rs`) | none | events, errors, `BookError::event` | an error is logged as a record that changes nothing |
| trait `OrderBook` (`api.rs`) | a FIFO per side and price | `add`, `cancel`, `delete`, `execute`, `replace`; `l1`, `l2`, `queue_ahead`, `snapshot`, `state_hash` | documented precedence of errors, no change on error, time priority |
| `RefBook` (`reference.rs`) | price map of FIFOs per side, id map | the same | its two maps agree; a level exists only while it holds an order |
| slab and id map (`slab.rs`) | slots, free list, live count; id to slot | `alloc`, `free`, map updates | each slot is on exactly one list |
| levels (`levels.rs`) | levels by tick, two-level bitmap, overflow map, counters | `set`, `clear`, `max`, `min`, `prev_set`, `next_set`, `note_add`, `after_count_change`, `best`, the merge iterator | the bitmap and the map index exactly the non-empty levels |
| `ArrayBook` (`book.rs`) | two sides of levels, slab, id map | the trait | invariants I1-I8 of `docs/DESIGN.md`, and agreement with `RefBook` (I11) |
| ops and log (`ops.rs`, `hash.rs`) | operation files, event log | `encode`, `decode`, `replay`, `logged_event` | a file is read back or refused; both books log the same |
| ITCH framing (`itch/frame.rs`) | buffer window, end-of-input flags | `refill`, `next_frame`, gzip members | frames are those of the whole input, whatever the reads return |
| ITCH parsing (`itch/msg.rs`) | none | `parse`, views | lengths are checked before fields are read; reader and writer agree |
| ITCH session (`itch/apply.rs`, `stats.rs`) | a book per locate, watchlist, counters, event log | one handler per message; `ensure_array`; `finish`, `into_stats` | the move loses nothing; counters and report are those of the books |
| MBO records (`mbo/record.rs`) | place of the iterator | `records`, `next`, `decode`, `encode` | a cut file gives its whole records, then one error |
| features (`lob-features`) | none | order-flow imbalance, weighted mid, imbalances | algebraic identities |
| generator, truth book (`lob-synth`) | a truth book and a list of live orders per stock, clock, message budget | header, mix, open, trailer; sidecar rows | the day is complete and its sidecar is what a replay shows |
| sampler (`python/lobcore/src/replay.rs`) | rows and last L1 per locate | one decision per message | rows when the cadence says, of the book after the message |
| bench, CLI, other bindings | none of their own | drive the above | not modelled |

The program is single-threaded and has no callbacks and no persistent state: a
book is owned by one caller, and each call runs to its end.  So there are no
interleavings of threads to explore and no crashes to survive.  What is hard is:

- in the books, that one call is up to five dependent updates of structures
  that refer to one another, and that a mistake surfaces calls later, when a
  list is walked or a slot reused;
- in the framing, the source: reads return less than was asked for, are
  interrupted, fail, or end in the middle of a frame or of a gzip member, and
  the call in progress must lose nothing;
- in the session, that counters are kept from returned events and never
  recounted, that the kind of a book changes under its orders, and that
  directory, trading-state and system messages come at any time;
- in the generator, a list with an index compacted by moving its last entry, a
  clock that is set back, and prices clamped from several sides;
- in the readers, fixed offsets, and files cut or damaged anywhere.

That is what the hazards in `PROJECT.json` list, each at its line, and what the
properties below are aimed at.

## The modules

    Maps            updates of a map
    PriceTime       FIFOs as sequences; prices in the priority of a side
    BookTypes       sides, events, errors, operations
    OrderBook       what the trait promises (abstract)
    RefOps          reference.rs as operators on a book value
    RefBook         ... as a component                 implements OrderBook
    Slab, Levels    order arena, one side's levels, as operators
    ArrayOps        book.rs on Slab and Levels, as operators
    ArrayBook       ... as a component                 implements OrderBook
    SideLevels      one side of ArrayBook on its own, for whole windows

    ByteSource      what the framer expects of a std::io::Read (abstract)
    FrameStream     SliceFrames, and what Framer promises (abstract)
    Framer          Framer, on ByteSource              implements FrameStream
    GzMembers       GzMembers                          implements ByteSource

    MarketBooks     one promised book per locate (abstract)
    Session         apply.rs, on RefOps and ArrayOps   implements MarketBooks
    SessionReport   Session with its log, finish and into_stats
    Features        the ratios of lob-features
    Sampler         replay.rs of the bindings, around Session and Features

    TruthBook       truth.rs as operators
    Generator       generator.rs, on TruthBook
    SynthReplay     Generator composed with a reference book that replays it

    ItchMessages    msg.rs and the writers of lob-synth: layouts
    ItchWire        one payload received and parsed
    MboRecords      record.rs: a file, its iterator
    OpsFile         ops.rs: a file written, damaged, read, replayed into RefOps
                    and ArrayOps
    SnapshotStream  features of a stream of snapshots
    Readers         FrameStream, ItchWire, MboRecords, OpsFile, SnapshotStream:
                    the parts that share nothing, one of them to a behaviour

    DataProofs      lemmas on naturals, sums of a FIFO, prices in priority
    RefBookProofs, ArrayBookProofs, FramerProofs, GzMembersProofs, GeneratorProofs,
    ReadersProofs   theorems about their modules
    LevelsProofs    theorems about Levels and SideLevels
    MC*             instances for TLC

A structure without behaviour of its own is a module of operators from value to
value; a component with calls is a module with variables.  The two books are
both (`RefOps`/`RefBook`, `ArrayOps`/`ArrayBook`): the session, the operation
files and the replay of a generated day call the operators on books of their
own.  In every module `op` and `result` are the last call with its arguments and
what it returned, so "same events, same errors" is part of each refinement, and a
call cannot be explained by the promise for another call.

| code | model |
|---|---|
| `Result<Event, BookError>` | `Ok(event)` or `Err(error)`, records with the fields of the Rust values |
| early returns of a call | `AddError` ... `ReplaceError`: the first error, in the code's order |
| the rest of a call | `AfterAdd`, `Take`, `AfterReplace`, ...: the updates, in the code's order |
| `Op::apply` | `Called(book, op)`: the book after the call and its result |
| `Level`, `Slot`, `Bitmap`, `SideLevels` | records with the same fields; bitmap words are sets of bit numbers |
| `NIL = u32::MAX` | `Nil = -1` |
| `u32` totals | integers; `Wrap` is the arithmetic of a release build, which has no overflow checks |
| `u32::MAX`, `i32::MAX`, 64-bit words | the constants `MaxQty`, `MaxPx`, `WordBits` |
| `state_hash` | `HashInput`, the sequence of records that it digests |
| `Framer.buf`, `end` | `buf`, the filled part; `end` is its length |
| `refill` and its `match` on the read | `Refill`, then `ReadData`, `ReadEnd`, `ReadFails`, `Filled` |
| `BufReader` under a gzip decoder | `buffered`, what `fill_buf` has left: anything up to the buffer's length |
| flate2's decoder of one member | external: a cursor over header, data and trailer |
| `LocateBook::Ref`, `LocateBook::Array` | `RefKind(book)`, `ArrayKind(book, base, tick)` |
| `ensure_book`, `ensure_array`, `record`, `check_crossed` | `BookOrNew`, `EnsureArray`, `LiveChange` and `Raised`, `CrossedCounters`; `CallBook` puts them together in the order of the handlers |
| counters that only grow | `counted`, the set of those the last message added one to |
| an ITCH or DBN field | its name, offset and width; a byte is the field and its place in it, so an overlap, a gap or a swap shows |
| a random draw | `\E` over the outcomes of its distribution with positive weight |
| `f64` features | ratios of integers, as in the code before the last conversion |

A session, a replay, a generated day and an array book each start from one of
several scenarios (`feed`, `replay`, `config`, `callers`), chosen in `Init` and
never changed: what the files or callers of the scenario may hold.  One run then
covers small instances that together reach what one large instance would.

Left out, because nothing observable depends on it: capacity reservation, the
order in which disjoint fields of one structure are written, and hashing inside
the id map.  `ArrayBook::check`, the program's own self-check, appears as the
invariant `CheckPasses`.

## Runs

| run | instance | shows |
|---|---|---|
| `ref_book` | 4 ids, prices 0 1 2, quantities 0..2, level limit 4 | `RefBook` keeps `OrderBook`'s promise; two maps in step; queries |
| `array_book` | window 2 4 6 in two words, prices 0 2 3 6, limit 3; two ids everywhere, three ids at one price, three ids of one share at a grid price and one off the grid | `ArrayBook` keeps the promise, with every bad argument; I1-I8; counters; queries from bitmap, overflow map and links |
| `side_levels` | window of 7 levels in words of 3 bits, 3 overflow prices | the index, `best`, neighbours and the walk, for every subset of the levels |
| `framer` | binary inputs of up to 8 bytes, three endings, the smallest buffer (5 bytes) | `Framer` keeps `FrameStream`'s promise; window exact; end reported truly and once; every call returns; a replay reaches the end |
| `gz_members` | up to 3 members of up to 2 bytes, whole, cut at each place, or with up to 3 bytes of junk; buffer of 3; reads fail in members and between them | `GzMembers` keeps `ByteSource`'s promise while its decoder lives, and reports a cut or trailing bytes only if they are there |
| `session` | five feeds, below | one promised book per locate, moves included; live counts, high-water marks and window; the crossing and at-head counters; what a handler returns |
| `session_report` | 2 ids, a placeholder and a real price, up to 3 log records and 3 messages | the report shows the books; the log rebuilds them and lists every rejection |
| `sampler` | a row per change and per two changes with a locate watched late; a row per 2 ns with times in any order; 4 changes | rows on time, of the book after the message; the ofi column telescopes |
| `synth_replay` | three kinds of day of 11 or 12 messages, below | no panic; live list, index and truth book in step; complete days; sidecar equal to the replay; no crossing but at the floor; heads executed; only dead references rejected |
| `readers` | all binary inputs of up to 8 bytes; every ITCH type at every length up to 52; DBN files of up to 2 records cut anywhere; operation files of up to 3 records, cut and damaged; 2 snapshots | see the comments of `Readers`; the identities of the features |
| `gz_lost_member` | as `gz_members`, interruptions only | a bug, see below |
| `generator_zero` | one day with `crossed_preopen` | a divergence, see below |

Why the bounds are enough to reach the interesting cases:

- Three ids give a FIFO with a middle order, a free list of three slots, and a
  replace that reuses the slot it has just freed while others rest.  `RefBook`
  is cheap enough for four.
- Price 0 is a bad price; 3 is off the grid between two grid prices, so the
  overflow map is better than the array on one side and worse on the other; 2
  and 6 lie in different bitmap words.
- Quantity 0 is a bad quantity; 1 and 2 under a limit of 3 or 4 give partial
  and full takes, cancels and executes beyond the order, and levels that refuse
  an order, with and without the old order of a replace in the same level.
- `MaxHits` and `MaxSideHits` bound the overflow counter, which only grows and
  which no other state depends on; `MaxCount` bounds the orders of a level in
  `SideLevels`, where a third order changes nothing a second does not.
- `side_levels` has a word that is full, one that is not, and a last word of
  which only one bit belongs to the window.
- With base 2 a payload has up to 3 bytes and the smallest buffer 5, so an input of
  8 bytes moves the window several times, with every way to cut it into reads.  The
  smallest buffer is where a full buffer and an incomplete frame meet.
- A `BufReader` of 3 bytes, which may also be filled short, ends at every place of
  a header; the lone last byte of `next_member` occurs with each byte behind it.
- Prices of a session are scaled so that few of them fall into every class of
  `is_placeholder`, `tick_for` and the cast to `i32` (see `MCSession`).  The feeds are:
  prices that centre a window of whole cents or turn negative; `Q`, `C` and trading states
  around crossings; two locates watched by symbol, with directory messages before,
  between and after orders, and the placeholder at the near end; a window of the
  smallest tick, and the placeholder at the far end; and a move to the array window with
  up to three orders at rest, in one FIFO and on both sides.  The window has 4 levels in words of 2 bits, so real prices fall outside.
- The days are: every kind of message with crossed quotes and the open in the middle;
  one-share orders, whose uncrossing at the open may use up the budget with a pair or in
  the middle of one; dead references on a grid of less than a cent.  The mid starts
  three ticks above zero, so that every clamp of a price is reached.
- `readers` tells each byte of a payload or record from every other, so two lengths
  or two records of a type show nothing more than one; operation files have an accepted
  and a refused call of every kind among three.

Views and symmetry.  A run with a `VIEW` leaves out of a state only what no guard,
assignment or invariant reads again: the last call and its result, the counters of the
last message, the last message of the generator.  TLC checks a step before it discards
its target state, so no step is missed.  Ids and locates are symmetric: no operator
orders them or compares them with anything but each other, and a feed that names a
locate is part of the state.  The run with liveness (`framer`) uses neither.

Fairness.  The books, the session and the generator's steps wait for nothing.  For the
framer, a call runs on by itself (weak fairness of its own steps), and a source that is
read again and again sooner or later delivers, ends or fails with something other than an
interruption; without that, the `continue` on `Interrupted` may repeat for ever, in the
code too.  `ReplayEnds` also assumes that the caller calls again, as `Session::replay`
does, and excuses runs in which reads fail for ever.  That a generated day ends is a
safety property here: the budget rises with every message, a finished day is the only
state where the generator stops (deadlock is checked), and `DayComplete` says what it is.

Deadlock is checked where the code always has a next step.  It is not where the
surroundings end: a source that has ended is read no more, a bounded log, table or file
is full.

Each property of a passing run has a mutant, a plausible bug of a definition that
models code, under which TLC finds it violated; the mutated forms stand before the
definitions they replace.

### What disagrees

`gz_lost_member`: `next_member` takes the decoder out of `self` and then returns early
when `fill_buf` fails (`frame.rs:300-302`, and again at 317).  `Framer::refill` repeats an
interrupted read; the repeated read finds no decoder and returns `Ok(0)`, the end of the
input.  The members left are dropped with no error, no `source_cut` and no
`trailing_bytes`.  The comment at `frame.rs:283` promises members "decoded one after
another (like `MultiGzDecoder`)", which keeps its state.  TLC's trace is one member and
one interrupted read.  Local files are rarely interrupted; network and user-space file
systems may be.  Failures inside a member are harmless (`gz_members`).

`generator_zero`: before the open, with `crossed_preopen`, an ask is anchored up to three
ticks below one tick above the mid, the mid may be two ticks, and only the ceiling is
clamped: an ask of price zero is generated, which the books refuse as `BadPrice` while the
truth keeps it.  `lob-synth/src/lib.rs:28` says "the truth keeps them as `i32`, positive on
both sides".  The base prices of the shipped configurations are too high to get there.

Smaller disagreements of code and comments, met while modelling and modelled as the code
has them:

- `types.rs:25` says a reject carries "b = kind code of the rejected op"; `BookError::event`
  (`api.rs:59`) logs every `DuplicateId` as a rejected add, that of a replace too.
- `stats.rs:83` says `array` tells whether "a watched locate with at least one
  non-placeholder add" ended in an `ArrayBook`; a locate watched only from a later
  directory message stays on its reference book until its next real price.
- `stats.rs:185` calls `no_directory` the order messages without a prior `R`; only the first
  one is counted, because it creates the book.
- `stats.rs:88` calls `msgs` the messages carrying a locate; a `P`, `Q`, `B` or other message is
  counted only once the table has reached that locate (`apply.rs:347`).
- `apply.rs:384` says `into_stats` finishes first if needed; messages applied after an explicit
  `finish` are missing from what it returns.
- `apply.rs` keeps `max_abs_offset_real` of real prices since the window was centred; the
  offsets of orders that already rested are not looked at.
- `lob-synth/src/lib.rs:25` promises crossed quotes only before the open; a bid one tick above
  zero locks an ask at one tick after it too, and a placeholder bid of a cent crosses an ask
  below a cent.  `CrossedOnlyAtFloor` states that there is nothing else.
- `lob-features/src/lib.rs:340` says that a step and its reverse cancel only when prices are
  unchanged; they always cancel (`StepsReverse`, proved).

## Proofs

What is proved holds for every value of the constants that their assumptions allow:
any ids, any integer prices, any quantities up to any width, any window, tick and word
size, any inputs.  The assumptions are `ArgumentTypes` (arguments have their Rust types),
`GridIsValid` (what the constructor of `ArrayBook` asserts), `SideArguments` (the
books let no price below 1 through), `FramerAssumption`, `GzAssumption` (`open` decodes
only a file that starts with both magic bytes), `ConfigIsValid` (what `check_args` asserts, and
the ranges of the draws), `PricesAreValid` (the constants of `generator.rs` and the base
prices of `new_locate`: no bid reaches the placeholder ask), `PricesAndQuantities`,
`ReadersInput` and `BooksInput` (what `OpsFile` takes over from `BookTypes` and `Levels`).

| module | theorems | of |
|---|---|---|
| `RefBookProofs` | `SpecIsConsistent`, `SpecAnswers`, `SpecKeepsPromise` | `RefBook`: maps in step, queries, refinement of `OrderBook` |
| `ArrayBookProofs` | `SpecPassesCheck`, `SpecAnswers`, `SpecKeepsPromise` | `ArrayBook`: I1-I8 and the counters, queries, refinement of `OrderBook` |
| `LevelsProofs` | `IndexIsSound`, `NeighboursFound`, `BestFound`, `WalkSorted` | one side's levels: index, searches, merge walk |
| `FramerProofs` | `StaysInStep`, `EndIsTrue`, `ImplementsSliceFrames` | `Framer`: window, end, refinement of `FrameStream` |
| `GzMembersProofs` | `SpecTellsTheTruth`, `SpecKeepsPromise` | `GzMembers`: what it reports, refinement of `ByteSource` |
| `GeneratorProofs` | `LedgersStayTogether`, `DaysAreComplete`, `OnlyHeadsExecuted`, `NoQuoteCrosses`, `PositiveIfShallow`, `SidecarIsTrue`, `OnlyDeadRejected` | `Generator`: ledgers, the finished day, executions, crossings, prices; `SynthReplay`: the sidecar and the replay |
| `ReadersProofs` | `FrameCounts`, `OpsAreReadBack`, `BooksAlwaysAgree`, `FeaturesOfReadersHold` | `SliceFrames`, operation files and both books that replay them, features |

Both books implement one abstract book, with the same result for every call and the same
answer to every query (l1, l2, snapshot, place in the queue, input of the state hash).
So the fast book and its oracle agree (I11); `BooksAlwaysAgree` draws that conclusion for
every operation file, damaged ones included, as `BooksAgree` states it (see "The readers").

### Induction

Two kinds of recursion had to be reasoned about: sums over a FIFO and walks along links
or bitmaps, of any length, and functions defined by recursion towards the end of a file.
`DataProofs` states induction over the naturals as a fact about sets (`NaturalsInducted`:
a set with 0 that is closed under successor holds all of them), from the least element of
a set of naturals.  With it a recursive function is shown to exist, by finite pieces that
agree (`SumExists`, `IterationExists`, `EndExists`, `FrameEndsExist`), and then to satisfy
its equations, which are all that is used of it afterwards (`SumOfNext`, `SumOfShifted`,
`EndIs`, `EndOfFrameIs`).  `InPriority` lists a set of prices best first:
`InPriorityLists` and `InPrioritySorted` say so, `NextInPriority` characterises each next
price by "best of those worse than the last", which is what every walk computes.

### The reference book

`IInv` (`Sound`) adds to `BookConsistent` that the price maps are finite and that no level is
empty.  `BookConsistent` alone is not inductive: with an empty level, `l1` and `l2` would
show a price where nothing rests, and removing an order from a level would not show
that its id is gone.  The whole invariant is stated of the FIFO of each side and price,
empty where the map has no level, so each change is one of three: an order is put behind
(`PushedIsSound`), reduced (`ReducedIsSound`), or taken out (`LeftIsSound`).  A call is one or
two of those behind its guards (`AddedIsSound` ... `ReplacedIsSound`).

The refinement maps the abstract queue to those FIFOs.  The first error of a call depends
on the same facts on both levels (`SameAddError` ... `SameReplaceError`), then each change of
the maps is the abstract change of the FIFO.  The queries rest on the keys of the price
map, in the order of the side, being `InPriority` of the occupied prices (`KeysInOrder`).

### The levels

1. `BitmapOf(S)` is the one bitmap that represents the index set S (`LevelsProofs`).
   `set` and `clear` map the representation of S to those of S with and without the
   index (`SetBitAdds`, `ClearBitRemoves`), `max`, `min`, `prev_set`, `next_set` return the
   extremes and neighbours of S (`ExtremesFound`, `PrevFound`, `NextFound`).  They rest
   on the order of indices being that of words, then bits (`IndexOrder`).
2. The inductive invariant of a side says that the bitmap *is* `BitmapOf` the non-empty
   levels, and that the overflow map is finite and holds only non-empty levels off the
   window.  `LevelsIndexed` itself is not inductive: it speaks of window indices only, so a
   stray bit beyond the window, which it allows, would keep a word non-empty when its
   last real bit is cleared, and `max` would read it.
3. Every step preserves it (`RecountInRange`, `RecountOverflow`, `NoteAddIndexed`).
4. The merge walk: after k steps the iterator has yielded the first k prices in priority
   and its cursor stands on the next non-empty level (`WalkedTo`); it ends when the count of
   levels is used up (`BestFirstIsInPriority`).

These lemmas are stated of any record of levels with a count, so they serve `SideLevels`,
where a level is a count, and both sides of `ArrayBook`, where it is a list of slots.

### The array book

`IInv` is `Sound(book) /\ Covered(book)`:

- every side is indexed, as above (`Shaped`);
- from the head of each level, following `next` gives a list of distinct slots that ends at
  the tail; `prev` inverts `next`; each slot holds an id, a positive quantity and the
  level's own side and price, and the level's count and total are those of the list
  (`Threaded`, `OnLevel`, `Listed`);
- the slot of every live id is on the list of its side and price (`Named`), and every
  slot on a list is that of its id, so two lists never meet (`ThreadsApart`);
- the free list is a list of distinct slots of no live id, and has all of them (`Freed`);
- a `prev`, of a free slot too, leads into the slab or nowhere (`BackIn`); the lists say so
  of the slots in use, and `free` clears it;
- the offsets and overflow adds noted cover what rests (`Covered`).

`SlabPartitioned`, `FifosLinked`, `LevelSums`, `LevelsIndexed` and `CountersCover`, the parts of
`CheckPasses`, follow from it (`SoundSlab` ... `CoveredCounts`).  None of them is inductive
alone: unlinking needs the links to invert one another, which needs the lists disjoint,
which needs the id map; reusing a slot needs the free list complete; and a total cannot
wrap because it is the sum of a list that the book has refused to let grow beyond
`MaxQty`.

Three changes carry all calls: `InsertSound` (allocate and link behind), `RemoveSound` (unlink
and give back), `ReduceSound`.  Each is shown first of the slots alone, as sequences of places
(`ThreadAppends`, `ThreadRemoves`, `ThreadReduces`; `FreeTaken`, `FreeGiven` for the free list),
then of the book; `InsertMoves`, `RemoveMoves`, `ReduceMoves` add what each does to the FIFO.
A replace is a removal and an insertion, which may take the slot just given back.  The
refinement maps the abstract queue to the orders met along the links; its lemmas
mirror those of `RefBook` (`SameAddError` ...).  The order of `note_add` and `link_new` in the
code does not matter to the invariant (`CountCommutes`).  The queries read the walk
(`WalkOfBook`) and the links.

### The framer and its source

The inductive invariant of the framer adds to `TypeOK` and `WindowExact` that the end of the
input is noted only once the source has delivered everything, and that nothing is read
after it: without the first, `TakeEnd` could discard the head of a frame whose rest is
yet to come.  The refinement maps the abstract place to `Consumed`, the bytes taken less
those in the window.  `TakeFrame` and `TakeEnd` are the abstract steps of the same name
(`FrameInInput`: a frame is whole in the window exactly when it is whole in what was read;
`PayloadInInput`: it is the same payload), a failed call is `Fail`, and every other step
leaves the abstract state alone.  `EndInv` adds that the flags a replay copies are set
together with the end, and that after a discarded tail, or a reported end, the window
stays empty: so a second tail cannot be counted.

For `GzMembers` the invariant says that the members from the decoder's place on end where
those of the whole file end, and that the bytes sent are the data before that place
(`Placed`, `DataIn`).  `WithinMember` and `BetweenMembers` draw from it what the next
symbol can be; one lemma per action shows the invariant and the promised step together
(`DecodeByteRight` ... `ReadWithoutDecoderRight`).  Once the decoder is lost (see
`gz_lost_member`) the promise is off, and the theorems say what remains: a cut or trailing
bytes are never reported falsely.

### The generator and its replay

The inductive invariant is `DayInv`.  `LedgersAgree` alone is not inductive: that an index
entry is right after a swap needs the list to hold no order twice, and a truth book that is
only said to have one entry per order does not tell which order a FIFO loses next.  So:

- each truth book is `Sound`: in the FIFO of every side and price are exactly the orders that
  the id map names there, each once, with positive quantities, and no level is empty;
- live list and index are inverses of one another over the orders of the id map (`Listed`);
- ids were handed out before `nextRef`, dead ones among them are in no book, the mid keeps
  two ticks from the floor, and prices respect the caps of `price_for` (`Kept`);
- the counters and the clock fit the phase (`Counts`, `Clock`), the events so far are those of the
  six that the phase has behind it (`Log`), and a pending second execution of the open is of the
  head of the best ask, for no more than it holds (`PairKept`).

Every step writes one message or none, and a message changes one locate in one of seven ways
(`Writes`: nothing, a dead reference, rest, leave, shrink, move, fill).  `Steps` shows this of each
action once; the rest of the proofs is about those seven (`WritesKept` and what follows it).
`Uncrossed` is carried beside `DayInv` for `NoQuoteCrosses`: while messages are written after the
open, each book is `Apart` up to the two exceptions the property names.

For the replay, `Mirror(b)` is the reference book that holds what the truth book `b` holds, and
`ReplayInv` says that the book replayed so far is the mirror of the truth and that the row
is what the truth showed.  Each of the seven ways becomes one call of the reference book that
is accepted and leads to the mirror of the result, or one on a dead reference that is refused
(`WrittenReplays`, from `MirrorPush`, `MirrorTakeAll` and `MirrorTakePart`); `BestShown`, `DepthShown`, `HashShown` give the row.

`SidecarIsTrue` and `OnlyDeadRejected` suppose `PricesPositive` and `TotalsFit` throughout the day.
Both are needed: a book refuses a price of zero, which the generator can write
(`generator_zero`), and a level of more than `u32::MAX` shares, which the truth keeps.
`PositiveIfShallow` discharges the first for every configuration whose pre-open orders cross by at
most two ticks, so for each without `crossed_preopen`; the second holds of any day whose
quantities add up to less than 2^32.

### The readers

`FrameCounts`: after any number of passes, `frames` names the frame that ends at the place
reached, or one message that is not whole was discarded after it; the invariant is
`CountsExact` with the type of the counters.  `OpsAreReadBack`: once a file is decoded, what
was returned stays `DecodeOps` of it, which has one operation for each record, and decoding
inverts encoding for each kind of operation (`DecodeInvertsEncode`); a record is refused exactly if no operation is written
with its kind or its side (`NoOperation`).  It needs that some operation of each kind may
be written (`ReadersInput`), or a kind byte that is alien to the file would not be to the
code.  The features: the weighted mid is the mid shifted by the signed imbalance times
half the spread, lies in the spread on the side the imbalance says, and a step of the
order-flow imbalance and its reverse cancel; the algebra is in lemmas on one or two
snapshots (`ShiftedMid`, `Leans`, `StepReverses`), products treated as numbers of their own.

`BooksAlwaysAgree`: both books are kept in `PlayedInv`: each is sound, both hold the same
orders in the same places, and both have logged the same.  The refinement proofs of the
books say, of a book value and one call, that the result and the book after it are those
promised (`CalledGives` in `ArrayBookProofs` and `RefBookProofs`); these lemmas are used
here for `BookIds`, `BookPrices` and `BookQtys`, the arguments that a damaged record may
give too: any second id, a price or a quantity of zero.  A decoded file holds only such
operations (`DecodedIsTaken`), so one call is taken alike by both (`TakenAlike`).  The
lemmas named `Fast...`, `Oracle...` and `Both...` say that the operators reached through
`OpsFile`, through the proofs of each book and through what each promises are the same ones;
to the prover each path to a definition is another operator.

### Only model-checked

- The session: its refinement of `MarketBooks`, `Bookkeeping`, the counters, the move of a
  book, the report (`ReportIsTrue`, `LogComplete`) and the sampler (`OfiTelescopes`,
  `RowsOnTime`, `RowShowsBook`).  They have one array book per locate, an instance with the
  locate's grid as its parameters (`Array(base, tick)`), and tlapm does not give the lemmas
  on a module for an instance that has parameters.
- `ViewsExact`: the tables of offsets are finite, and TLC takes every type at every length.
- `IteratorTells`: its statement uses filtered and flattened sequences of the library.
- `CallReturns` and `ReplayEnds`, which are liveness and out of the prover's reach; likewise
  that a state always has a next step (deadlock).

## Not modelled

- `frame.rs`: `open`'s choice between plain and gzip, and `read_all`, a plain loop over the
  same source.  A member that is corrupt inside is left to flate2, and so is what its
  decoder does when it is read again after an error other than an interruption: it stays
  failed if that hit the header of a later member.  No caller reads on after one.
- `stats.rs`: the text of a report and its splice into a document are formatting; the
  histograms by type and hour and the list of system events only count what is received.
- `Session::replay`: the loop that calls the framer and the session; each is modelled.
- `msg.rs` and `record.rs`: the conversions of prices and names to numbers and text.
- `lob-synth`: the tracking number, the csv of the sidecar, the random distributions.
- SHA-256: a digest is taken to be its input, `HashInput` and `LoggedEvent`.  (By design the
  state hash has no separator between the sides, so a book of bids alone hashes as the
  same orders on the ask side do; the model keeps that.)
- `lob-bench` and the command line: timing, arguments and reports.  The Python bindings
  other than the sampler convert arguments and call the crates above.
