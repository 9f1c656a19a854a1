# Verification of i04Dns

i04Dns is a forwarding DNS server: it answers names it has records for, refuses names
its blacklist matches, asks one of several upstream servers for the rest, filters their
answers and caches them. It is one C++ program with one main loop, a configuration file
and a small library of its own (mlib). This directory holds TLA+ models of its parts,
the TLC configurations that check them, and TLAPS proofs of what matters most.

Paths below are relative to the repository: `dns/` is `i04Dns/src/server/dns`, `server/`
is `i04Dns/src/server`, `util/` is `i04Dns/src/util`, `base/` is `i04Dns/src/base`.

Contents: 1 the system, 2 the modules, 3 the runs, 4 bounds and abstractions, 5 fairness,
6 proofs, 7 what the models found, 8 what is not modelled, 9 the plan.

## 1. The system

| Part | Source | State | Operations |
|---|---|---|---|
| Server loop and handlers | `dns/dnsServer.cpp` | socket, timer, one message at a time | `run`, `handleMsg`, `handleQuery`, `handleAnswer`, `answerWithError/LocalData/FromCache`, `forwardMsg`, `getBestServer`, `findBestSubnet` |
| Pending queries | `dns/dnsQueue.h` | last id, tree id -> query | `Enqueue`, `Get`, `Remove`, `ForEachExpired`, `GetNextID` |
| Upstream servers | `dns/CSecondaryServer.*` | counter, ring of delays, its index | `MessageSent`, `MessageReceived`, `DelayScore` |
| Answer cache | `dns/dnsCache.h` | tree name -> records, times of expiry | `Save`, `Get`, `RemoveExpired` |
| Messages and records | `dns/CMessage.h`, `CQuery.h`, `CResourceRecord.h`, `protocol.h`, `util/CBuffer*Stream.*` | one datagram, the offsets of names in it | `Decode`, `Encode`, `DecodeSN`, `EncodeSN`, `SanitizeRecords` |
| Name filters | `dns/CNameFilter.*` | text, three cursors | `Match` |
| Configuration | `server/CConfigFile.*` | four lists, a lock | `Load`, `ParseBuffer`, `ExecLine`, `IsBlackListed`, `IsWhiteListed`, `GetLocalRecord` |
| Local records | `dns/CLocalRecord.*` | name, addresses | `GetIP`, `GetIPsCount`, `GetName` |
| Library | `mlib/RedBlackBST.h`, `ArrayDeque.h`, `quicksort.h`, `enumip.cpp`, `system.c` | trees, arrays | see section 2 |
| Heap debugging | `base/heap_dbg.*` | table of allocations | `heap_dbg_alloc`, `heap_dbg_free` |
| Program start | `server/main.cpp`, the first half of `run` | where `main` is, the socket | `main`, `loadConfig`, the loop that opens the port |
| Log | `server/logger.*`, `locale.h` | ring of lines, its start and count, a lock | `logInfo/Warn/Error`, `logToJson` |
| Utilities | `util/util.*` | — | `strCmp`, `rand`, `ip4FromString` |

How they interact. `run` takes a datagram and calls `handleMsg`; when none is waiting it
looks at its timer and, every `CLEAN_UP_DELAY`, sweeps the cache and the queue
(dnsServer.cpp:448-462 — *only* when none is waiting). A query is refused, answered from a
local record, answered from the cache, or enqueued under a fresh id and sent to the best
upstream server. An answer takes the query of its id out of the queue, is filtered, sent
to the client that asked, and cached. Everything is one thread. The
configuration has a lock, which `Load` holds and every question takes: with one thread it only has
to be given back. The program loads its configuration once, before the loop; the branch of
`loadConfig` that loads it again has no caller. There is no persistent state.

What is hard in it:

* **Ids that are reused.** `GetNextID` never looks whether an id is in use, while answers
  are late, duplicated, or come from the wrong server.
* **Order within a handler.** The query leaves the queue before the answer is compared
  with it; the filter has to run before both sending and caching; a failed send changes
  nothing the code looks at.
* **Time.** Sweeps happen only when idle, the cache hands out expired records, seconds are
  kept in ints that wrap, an answer races the sweep.
* **Memory that was never set.** The ring of delays and its index are not initialised.
* **Data structures moved in place.** Rotations, deletions and shrinking arrays, records
  that trade places while they are filtered, lists cut out of one shared array.
* **Pointers on loan.** An answer borrows queries and records it must not free.
* **Strings.** The three cursors of `Match`, lines that begin past their end, names
  compressed by offsets into the message.

What makes each part correct — the properties — is in section 3, next to the run that
checks them.

## 2. The modules

| Module | Models | Built on |
|---|---|---|
| `DnsQueue` | `CDnsQueue` | |
| `DnsQueueHistory` | the same, with the number of ids drawn since each query came | extends `DnsQueue` |
| `Upstreams` | `CSecondaryServer`, and the best server as the code orders them | |
| `UpstreamLoad` | the loop of `getBestServer`, queries in flight, answers in any order | extends `Upstreams` |
| `DnsCache` | `CCache` | |
| `DnsCacheHistory` | the same, with the time to live each record may have: its own, and no more than the cap | extends `DnsCache` |
| `DnsServer` | the loop and the handlers | instances of `DnsQueue`, `Upstreams`, `DnsCache` |
| `DnsService` | abstract: what a client is promised | implemented by `DnsServer` |
| `DnsMessages` | decoding, encoding, filtering, at the level of bytes | |
| `Subnets` | `evalMask`, `findBestSubnet`, the interfaces that `enumip.cpp` lists | |
| `MessageRelay` | the way of a message through the handlers, as bytes, with the cache and a clock that wraps | extends `DnsMessages`, `Subnets` |
| `HeapDbg` | the table of allocations | |
| `ConfigMemory` | what `Load` allocates line by line, and what `Clear` releases | extends `HeapDbg` |
| `MessageMemory` | who owns what the handlers allocate, beside the configuration | extends `ConfigMemory` |
| `NameFilter` | `CNameFilter::Match`, one action per branch of its loop | |
| `ConfigLines`, `ConfigFile` | the file cut into lines; `Load` and `ExecLine`, one action per kind of line | |
| `AddressTexts` | `ip4FromString`, `net_addr_from_str`, the texts of servers and records | |
| `Log` | the ring of the log, `logToJson` | |
| `LogList` | abstract: the last lines said | implemented by `Log` |
| `Startup` | `main`, `loadConfig`, opening the port; the load with what it logs | extends `ConfigFile`, `Log` |
| `RedBlackBST` | the tree, the array deque, the two ways of sweeping | |
| `KeyOrders` | `strCmp`, `filterCmp`, `IntCmp` | |
| `QuickSort` | `quickSort` | |

`MC*` modules give the constants their values, `*_proofs` modules hold the theorems;
`Library_proofs` has the lemmas about numbers, sequences and finite sets that they share.

Names are the source's. How the state corresponds:

* `m_pQueue` and `m_pRecordTree` are functions from keys to entries or `NoQuery`/`NoNode`.
  That the tree behaves like that is what `RedBlackBST` is about.
* Moments are kept relative to the present: `m_CreationTime` as an age, `m_expirationTime`
  as what is left. `MessageRelay` keeps them as the code does, as ints that wrap.
* An uninitialised ring holds `Uninit`; a step from an uninitialised index goes to any slot.
* `rand()` is a choice from its range.
* `DnsServer`: one action per turn of the loop — `FromClient`, `FromServer`, `Idle` — and
  `Tick` for the clock. `out` is the datagram the last step sent, `owed` counts open
  questions, `forwarded` is the network: every query ever sent upstream may be answered at
  any time, any number of times, so that answers are lost, late, reordered and duplicated.
  `Unasked` is what servers answer without having been asked, or under an id or a name that was
  not in the question.
* `ConfigFile`: `pc` says where `Load` is; a list is the set of the numbers of its lines.
* `Startup`: `at` says where `main` is, `open` which descriptors are in use. A step of the
  configuration and the lines it logs are one action; `history`, `hStart` and `hCount` are the
  ring, and `Said` is the list it stands for.
* `MessageMemory`: an object is the sequence of its heap blocks; every decision that does
  not look at the heap is a choice. A line of the configuration is the way `ExecLine` takes.
* `RedBlackBST`: a node is a record, with the nodes it points to in it; a key is the number of a
  text, `compare` a constant operator, as it is a parameter of the constructor. `Walk` is a function that
  calls itself for a node below, or a loop that goes on with one: it is given what is done at a node.
* `NameFilter`: `NoStar` is the code's 0xFFFFFFFF.

## 3. The runs

Times to live, ticks and ids are small integers; the bounds are explained in section 4.

**queue_lap** (`DnsQueueHistory.cfg`) — enqueues, answers, sweeps and ticks in any order.
`IdsAndSizeInRange`: ids stay within `MIN_ID..MAX_ID` through every wrap, so none is
`INVALID_QUEUE_ID`, and there are at most `MAX_QUEUE_SIZE` entries. `ReuseTakesALap`: an id
that is pending is drawn again only after a whole lap (1478 ids or more with the constants of
the source), however long its query stays.

**upstream_load** — two servers, answers in any order, queries given up.
`ScoreReadsWritten`: `DelayScore` never adds up uninitialised slots. `WarmUpRoundRobin`: "give
new [servers] a chance". `LoopPicksBest`: the loop of `getBestServer` implements the order
`Upstreams` defines. `SequentialHistoryExact`: with one query in flight at a time the ring is
exact across its wrap. (With two it is not: section 7.)

**cache_ttl** — answers whose records agree, differ, have 0 or exceed the cap.
`NeverLivesLonger`: no record outlives its own time to live, nor `MAX_CACHE_TTL`. `StaleBySweep`: what `Get` hands
out is past its expiry by less than the time since the last sweep.

**server_reuse** — two clients, which may set the answer bit, two upstream servers, one of which also
answers what it was not asked, and three ids, so that ids are reused while late and duplicated answers
are under way. `ServiceProvided`: `DnsServer` implements
`DnsService`. `OwedCoversPending` is why it does. `UpstreamsUsed`: the handlers use the
upstream servers as `Upstreams` assumes — never a delay for a server nothing was sent to, whose
index is not set. `TakenOnlyByItsAnswer`: a query that is not too old leaves the queue with the answer
of its server, which is given the delay, to its client; or something that carries its id by mistake
(`Mistakable`) takes it out, and then nothing is sent, cached or given a delay. That the query is lost then
is what the code does (section 7); that nothing else happens is the property.

**server_handlers** — every header field off in turn, blocked, white-listed, local and plain
names, sends that fail. `CacheFiltered`, `ServiceProvided` again, and the liveness of clean-up:
`PendingLeaves`, `CachedLeaves`.

**message_relay** — some 400 answers, five queries and local names, encoded the way other
servers do (names compressed or not), decoded, filtered, encoded anew and cached, at every value
of a clock that wraps. A reader of datagrams that is written independently of the code's checks
`AnswerArrives`, `CacheAnswers`, `QueryArrives`, `LocalAnswerArrives`: the other side reads what was
meant. `AnswersFit`: what came in one datagram goes out in one. `NothingMadeUp`: of a datagram that
was cut anywhere, or lacks a record its counts promise, no query and no record is made that was not
in it, whatever an earlier datagram left behind it in the buffer. Two exceptions are the code's, and
named in the property: a query cut right after its name is answered as not implemented, its type and
class being read from the name; a pointer that ends the datagram is followed from behind its end.

**message_memory** — a configuration is loaded, whose lines are of every kind, or that is not there
or ends early; then four datagrams, clean-ups or another load, whole or cut before or within any record,
answered in every way. `ReleasedOnce`, `NothingElseLeaks`, `HeapDbgTellsTheTruth`: nothing is released
twice; all that leaks is pending queries that were missed, and the buffer of a file that ended
early; and the table of `heap_dbg.c` is right for as long as it does not overflow.

**filter_match** — every name of up to five and filter of up to four characters.
`CursorsMatch` (the inductive invariant), `NeverOverMatches`, `PrefixFiltersExact`, `MatchReturns`.
**filter_misses** is expected to fail: section 7.

**config_load** (`MCStartup`) — the program started with every file of up to four characters that
differ to the parser, and every file of up to three lines; the file not there, the network not
starting, the port taken for a while; loaded once more. `LinesAsMeant`
(against a definition of lines that does not go character by character), `LockIsReleased`.
`FollowsTheFile`: each entry of the file loaded last is in the list of its section and in no other; whether
a line of the servers section that is no server may be in the white list is left open, as
`InvalidLinesUnused` is about that. `LogTellsTheLoad`: after a load the log names exactly the lines that the
list of their section does not have, and the second records of a name, or says that the load failed. `LogIsTheLastLines`: the ring implements `LogList`.
`JsonIsAList`: `logToJson` makes a list of the oldest lines that fits, at sizes around every edge.
`ServesOrStops`: the server comes back to its questions, unless there is no network.
Its module also states, as assumptions that TLC evaluates, what is a function of its input:
`ServersAreRead` and `RecordsAreRead` (some 15000 texts, against "four numbers of a byte with dots
between"), `Servers6AreRead` (addresses in brackets) and `FiltersAreSorted` (every array of up to five
filters). **config_invalid_lines** is expected to fail: section 7.

**tree_map** — every tree of up to seven keys that `Put`, `DeleteKey` and the two sweeps can
build. `TreeTypeOK` (the counts of nodes; `Enqueue` compares that of the root with its limit),
`Balanced`, `IsMap`: every operation does to the tree what it would do to a map, and `ForEach` comes to
each key once, in order. Keys are texts in the order of `strCmp`; that `strCmp` and `IntCmp` are orders
is an assumption of the module (`StrCmpIsAnOrder`, over all texts of up to three bytes).

## 4. Bounds and abstractions

Bounds, and why they are enough:

* Ids: `MIN_ID = 2 .. MAX_ID = 4` in `DnsServer`, so that reuse comes early; 4 to 14 with steps
  of 2 or 3 in `DnsQueueHistory`, so that a lap has several steps and wraps differ. The proofs are
  for all values.
* `MaxAsked` bounds the datagrams of clients (4 and 2): two pending queries, one that meets a
  reused id and one with the answer bit, or one pending and one refused. Answers are not bounded.
  `Unasked` has one answer, under an id and a name that are in use or not.
* `DELAY_HISTORY_SIZE` 1 or 2 instead of 20, `MaxSent` 4: the ring wraps twice. `MaxInFlight` 2.
* `MaxTtl`, `MAX_CACHE_TTL` 1 to 4: times below, at and above the cap. `OverdueCap`: a time to
  live that is past stops counting there.
* `MaxSince`: the history of ids stops counting there. It is a lap at least (`MaxSinceIsALap`), and no
  guard: ids go on being drawn.
* `INT_BITS` 4 instead of 32: the clock and the expiry wrap within a run.
* `DNS_MSG_MAX_SIZE` 100 instead of 512: local answers of up to five addresses are below and above
  it. `DEFAULT_TIME_TO_LIVE` 3.
* `MIN_ARRAY_SIZE` 2 instead of 4, `MaxKeys` 7: three levels of nodes, an array that grows twice.
* `HEAP_DBG_MAX_OBJECTS` 30 instead of 8192: below the most objects a run holds, so that the
  table overflows. `MaxTurns` 4, of which `MaxLoads` 1 a load, `MaxLost` 1 (what leaks).
* `LOG_HISTORY_MAX_LINES` 3 in the run: the ring wraps while a file is loaded. Texts are 0, 9 and
  400 characters long, shorter and longer than a parameter of a line. `MaxLoads` 2: the load of `main`
  and one more, the call that `loadConfig` is written for.
* `ShortenedAt`: datagrams are cut at one time of the clock, which they do not depend on.
* `MaxName`, `MaxText`, `MaxChars`, `MaxLines`: long enough for two stars and two line ends.
* Deadlock is checked everywhere but in `upstream_load`, which stops when every server was sent
  `MaxSent` messages and nothing is in flight.
* The clients of `server_reuse` are interchangeable, and so are the values in the tree of `tree_map`,
  which no operation looks at (symmetry); neither run has a liveness property.

Abstractions:

* Ages stop at `TimeOut + 1`: no code tells older ones apart. The sum of a ring is far below 2^32.
* The clock does not run backwards. At most one tick falls on a turn of the loop (`ran`): a turn
  takes milliseconds, a tick stands for a second or a time-out.
* The address an answer comes from identifies the server. Clients send queries, or datagrams with the
  answer bit; upstream servers send answers, asked or not; other senders are not in the models.
* `DnsServer` keeps the three sections of an answer as one set; `MessageRelay` keeps them apart.
* Datagrams are complete, lack a record their counts promise, or are cut anywhere (`MessageRelay`), or
  are cut before any query or record, or in the data of a record (`MessageMemory`). Other malformed datagrams are one case, "does not decode" (`DnsServer`).
* A name longer than a label, or a buffer too small, make the same failure of `EncodeSN` as a message
  longer than `DNS_MSG_MAX_SIZE`: nothing is sent.
* Lists of the configuration are sets of line numbers: nothing depends on their order, which
  `quickSort` changes (`FindName` looks at all of them). Server texts fit the 32 bytes of
  `DnsServerFromString`. A name without an address in the records section is undefined behaviour
  (CConfigFile.cpp:158-164 reads past the end of the line) and either gives a record or not.
* Files that end in one line end right after text are outside `LinesAsMeant` (`EndsInOneNewline`): the
  code counts that character as part of the last line (CConfigFile.cpp:297-299), where it becomes a
  space. CONF ends in empty lines.
* Addresses of records in `AddressTexts` have at most three dots in a word: `ip4FromString` writes
  past its four bytes otherwise (util.cpp:72), which no model of values describes. IPv6 addresses are
  those of Linux, where the families 2 and 10 lie in memory low byte first.
* The nodes of trees and the arrays of `ArrayDeque` are not in the table of `heap_dbg.c`; `ConfigMemory`
  leaves them out.
* `HeapDbg` gives a new block an address above all live ones; an address is used again after the
  highest is freed. The order of allocations within one object is left out.
* Signed ints wrap in two's complement. Null names and filters do not occur.

## 5. Fairness

* `WF(Idle)` and `WF(Tick)` in `DnsServer` (`FairSpec`). The clock ticks. That the socket is found
  empty again and again is an assumption about the traffic, not about the code: clean-up happens
  only then (dnsServer.cpp:451-455), and under traffic without a gap of 10 ms nothing is ever swept.
  `PendingLeaves` and `CachedLeaves` hold under that assumption only.
* `WF(MatchStep)`: a call of `Match` runs on; nothing blocks it.
* `WF(MainStep)` and `WF(PortOpens)` in `Startup`: `main` and `Load` wait for nothing but the disk and
  the port, and the port is not taken by somebody else for ever. The log and the configuration
  have locks, which every operation gives back (`LockIsReleased`).

Nothing else is fair: clients need not ask, servers need not answer.

## 6. Proofs

All theorems hold for every value of the constants that satisfies the named assumptions
(`QueueConstants`, `MaxSinceIsALap`, `UpstreamConstants`, `LoadConstants`, `CacheConstants`,
`ServerConstants`, `NamesAndTexts`, `NoStarAbove`, `LowerAssumption`, `ConfigConstants`, `LogConstants`,
`StartConstants`, `HeapDbgAssumption`, `FilesAssumption`, `DatagramsAssumption`,
`LocalCountsAssumption`, `FiniteAssumption`, `TreeConstants`), in the modules that declare the constants. They give the types of the
constants, ask that ranges are not empty, and that a limit lies above what it limits. `ServerConstants` is
what the three parts ask for, the type of `Unasked`, that clients and upstream servers have different addresses, and that
upstream servers send answers; `LowerAssumption`, that `CHAR_LOWERCASE` makes letters of letters and
leaves blanks and line ends alone (util.h:21); `TreeConstants`, that `compare` is an order of finitely
many keys (`IsOrderOf`) and that 0 is no value.

### The parts of the server

* `DnsTables_proofs`, of the queue — `QueueTypeCorrect`, `QueueSizeBounded`, together `QueueInRange`, and
  `PendingIdSafeForALap`. That an id is reused only after a lap is an action property; behind it is
  `LapInv`: the id drawn last is, for every pending query, `n` steps ahead of its id, or has lost a
  lap. `GetNextID` keeps it because it moves forward, and the wrap goes back by no more than a lap
  (`NextIdStep`, `AheadStep`).
* `Upstreams_proofs` — `UpstreamTypeCorrect`; `ScoreNeverReadsUninit` follows from `RingsWritten`
  (the slots up to the index, counted backwards around the end, are written), which a step of
  the index keeps by `SlotBackShift`; `NewServersGetTheirChance` by cases of the score.
  `LoopImplementsChoice`: the loop of `getBestServer` is a recursive function over the list of
  servers; `ScanFindsBest` says that after `n` turns its result is the best of the first `n`, by the
  least `n` for which it is not. It needs `ScoreBound` — no score is greater than the value the loop starts
  with. `SequentialHistoryIsExact`: the ring, counted back from the index, holds the outcomes of the
  last messages, for each server whose queries never overlapped. It needs `LastInFlight` (what is in
  flight is then the message sent last, whose slot is the one at the index) and `RingsWritten`.
* `DnsTables_proofs`, of the cache — `CacheTypeCorrect`, `RecordsNeverLiveLonger` (neither than their own time
  nor than the cap) and `StalenessBounded`; what saving does is one lemma (`SaveKeeps`): the least time to
  live, capped, is no greater than any.
* `HistoryRestrictsNothing`, `CacheHistoryRestrictsNothing`: whatever the history so far, every start and
  every step of the queue, or of the cache, is one of the module with the history, for some history after
  it. A run of the code can so be given its history step by step, and what is proved there holds of it. The
  other direction, that the history adds no behaviour, are the lemmas `HistoryImplementsQueue` and
  `HistoryImplementsCache`.

### The server

`DnsServer_proofs` first says what each turn of the loop does to the state, whatever branch of the
handlers it took: a question is answered at once, forwarded or dropped; an answer is delivered,
rejected, or strays (`ClientTurn`, `ServerTurn`, `Turns`). Everything else is by these cases.

* `ServerInvariant` — the inductive invariant `ServerInv`, in four parts. `TypeOK` of the rings needs
  `SentBefore` (a message was sent to the server of every pending query): without it an answer would be
  recorded at an index that is not set. `SentBefore` itself needs that `forwardMsg` counts the message
  where it enqueues the query. `CacheFiltered` needs that the filter runs before `Save`, and is what makes
  an answer from the cache one the client may see. `OwedCoversPending` — for each client, id and name there
  are no more pending queries than questions that wait — needs that a query which is answered leaves the
  queue, and that one which is enqueued over another takes its place (`OwedStep`, by counting:
  `FewerPending`, `OneMorePending`).
* `QueueImplemented`, `CacheImplemented`, `UpstreamsUsedWell`: the handlers use each part as its
  module says. What is proved of the parts is then true inside the server: `IdsInRangeInServer`,
  `ScoresReadWrittenInServer`, `NewServersGetTheirChanceInServer`. The proofs of the parts are
  instantiated with the server's variables.
* `ServerImplementsService` — for any clients, ids, names, filters, zones and upstream servers,
  with answers lost, late, duplicated and out of order. Behind it are `OwedCoversPending` (what is
  delivered was owed) and `CacheFiltered` (what is shown may be).
* `QueryKeptForItsAnswer` — `TakenOnlyByItsAnswer`, for any clients and servers, with sends that fail,
  answers nobody asked for and clients that set the answer bit. By the cases of `Turns`: only an answer, a stray
  or a sweep empties a place of the queue; an answer is matched with server and name before anything is done
  with it; and what strays was not matched, so that it is one of `Mistakable` or finds nothing. Where a step
  enqueues over another query the place is not empty afterwards (`ReuseTakesALap` is about that).

### Filters, configuration, start and log

* `NameFilter_proofs` — `MatchTypeCorrect`, `CursorsAreSound`, `MatchIsSound`: for every alphabet, name
  and filter, a match is a match. A name matches a filter if it can be cut into one piece per
  character; the invariant `CursorsMatch` says that what is before the cursors is so cut. Three lemmas
  extend a cut by a character, by a star, and a star by a character. `PrefixMatchIsExact` is the other
  direction, for filters that are a name or end in a star: `OnlyCut` says that before the star there is
  one way to cut the name, and it goes through the cursors, so that a character that differs leaves none.
* `Startup_proofs`, first of `ConfigFile` — `ConfigTypeCorrect`, `ConfigFollowsTheFile`, from `ConfigInv`
  (`ConfigInvariant`), which adds to the property which section `cmd` stands for (`CmdFollows`) and that
  the variables of `ParseBuffer` are empty outside it (`LocalsEmpty`). `NextLineAdds` and
  `FirstRecordStays` say what one more line adds.
* `Startup_proofs`, of the start and the log — `StartUsesConfig`: a started server does nothing to the
  configuration that `ConfigFile` does not allow, so that `StartFollowsTheFile` carries over.
  `LogKeepsTheLastLines`: for every size of the ring it implements `LogList`; a step logs one line or none
  (`OneLineOrNone`), and what that does to the ring is what `Say` does to the list (`LogsAsTheListSays`),
  by cases of whether the ring is full and where its oldest line is.
  `LoadIsTold`: after a load the log names exactly the lines that the list of their section does not
  have, and the second records of a name, in their order, or says that the load failed — for any file, and a ring of any size. The property speaks of the end of a
  load only; `LoadLogInv` says what the log ends in while it goes on: the line that begins a load and what
  was reported of the lines executed so far (`LoadIsBeingTold`), and that no line which ends a load is
  the last one meanwhile (`NotDoneYet`). The log has forgotten the oldest lines, so that all is said of its end
  (`EndsIn`); one line of the file adds at most one to it (`LineIsTold`). It rests on `ConfigInv`: what is
  reported is what the list of its section lacks.
  `JsonOfTheLogFits`: whatever was logged, `logToJson` makes a list of the oldest lines that fits, for a
  buffer of any size. No line is longer than `LOG_MAX_JSON_OBJ_SIZE`, all `logToJson` looks at:
  at most 348 characters of 350, with four parameters of 63 (`LineFits`, from what `copyParam` keeps, which
  every line in the ring went through: `RingStaysShort`). After i rounds the buffer says the first n lines
  and is short enough for the end of the list, and n < i only if the longest line would not have fitted
  (`JsonInv`, `JsonRoundKeeps`).
* `Startup_proofs`, of the lines — `ConfigLinesAsMeant`, `StartLinesAsMeant`: a file of any length, that does not
  end in a single line end, is cut into the lines it says. The code goes through the file character by
  character, `MeantLines` says which positions belong to a line. In between stands `Spells`: a line
  is made of the characters at a set of positions, in order, and there is one way to list a set in
  order (`EnumUnique`). What is copied of a line comes before its first comment (`LineTexts`); after k
  characters the line is spelled by the words so far and the blank after each, and it is empty or
  ends in a space exactly if no word was just read (`CopiedSpells`); without its last space it is what is meant
  of it (`CookSpells`). The lines are then in order because the first positions of two lines are
  (`LinesAreMeant`). Line ends in a row are the case of a line that begins past its end in `LineTexts`, and
  the file that ends in one line end is where that lemma fails.
* `Library_proofs` — `StrCmpOrdersTexts`, `IntCmpOrdersNumbers`: what `RedBlackBST` asks of the function it is
  constructed with, for texts of any length and all numbers. (TLC evaluates the same on small sets.)

### The search tree

`RedBlackBST_proofs` — `TreeTypeOKHolds`, `BalancedHolds`, `IsMapHolds`: for any number of keys, any order of
them and any sequence of `Put`, `DeleteKey`, `Clear` and sweeps.

* The inductive invariant, `TreeInv` (`TreeInvHolds`): the root is a `Tree(x, E, b)`, black, of some entries
  `E`. Every node is `Sound`: its entry lies between those of its two sides, all ways down have as many
  black links (`b` of them from the root), red links lean left and do not follow each other, and it counts
  the nodes. `Tree` is taken apart and put together by `TreeParts` and `TreeMade`.
* Functions of the code that call themselves are `Walk`s. Their values for trees of n levels are made from
  those for trees of n - 1 (`PutIs`, `DeleteIs` ...), and `TreeFits` says that a tree has no more
  levels than keys. What such a function does is then proved for one node, assuming it of the nodes below
  (`PutStepGood`, `DeleteMinStepDone`, `DeleteStepDone`), and follows for all levels (`PutMade`, `DeleteMinDone`,
  `DeleteDone`).
* On the way, the invariant does not hold. After `Put` below a node its left side may begin with two
  reds (`Near`, `TwoReds`); a correction higher up mends it (`PutLeftBalanced`). A deletion goes down
  only into a node that is red or has a red left side (`Ready`), or that a rotation to the right has left with
  the key on the right (`Late`): `LeftMadeReady`, `AlreadyRight` and `MovedRight` say that the moves of red links
  bring that about, and `Done` that `Balance` mends what they leave, on the way up. `MoveRedLeft` and
  `MoveRedRight` read children of children: that these exist follows from the heights.
* A node whose key is deleted takes key and value from the first node on its right; that this is the first
  entry, and that `DeleteMin` takes it and no other, is `MinNodeIsFirst` and `DeleteMinDone`.
* `GetNodeFinds`: `GetNode` finds the entry of a key, and there is only one. `ConsumeVisits`: `ForEach` comes
  to the keys in their order.
* The list of a sweep is an `ArrayDeque` that grows, wraps and shrinks: while it is filled it begins at
  the first place of its array (`EnqueueLists`), which is why `At` may ignore where the first item is;
  `DequeueHolds` follows the items into a smaller array. (It is stated for items that go around the end of
  the array as well; in the two sweeps they never do.) `SweepMade`,
  `SweepOutMade`: what is left are the entries of the keys that were not collected.

### Memory

`MessageMemory_proofs` — `ReleasedOnceHolds`, `NothingElseLeaksHolds`, `HeapDbgTellsTheTruthHolds`: for
datagrams of any counts, cut anywhere, any number of ids and names, files of any lines and a table of any
size.

* The three properties do not follow from each other, and none is inductive. A release is right if
  what is released is still there, which depends on who else holds it. The invariant `HeapInv`
  (`HeapInvHolds`) therefore says where every block is: the permanent objects, the queue, the cache, the
  configuration and what was lost hold blocks that nobody else holds, and together hold all that is
  allocated (`Holders`, `Shared`); each entry, node and list is well-formed (`QueueOK`, `CacheOK`,
  `ListsOK`: no block twice, also within one object); and of the memory (`MemOK`) nothing was released
  wrongly, addresses are those of one block each, and the table agrees unless it has overflowed.
* An operation gives up some blocks and takes new ones, and leaves the rest alone: `Turns(m, A, n, B)`.
  There is a lemma of that form for each operation of the code, from `New` and `Delete` (`NewOK`,
  `DeleteOK`) over lists and messages (`NewListOK`, `DecodeOK`, `SanitizeRecordsOK`, `FreeListsOK`) to
  the cache (`SaveOK`, `RemoveExpiredOK`) and the load of a file (`ExecLineOK`, `LoadOK`). A handler
  is such operations in a row at whose end the message holds nothing any more (`answerFromCacheKeeps`,
  `handleAnswerKeeps` ...).
* `NotOurs` is needed where an answer borrows (`NotOursOK`, `AnsweredOK`): what is cleared is exactly
  what the question or the cache still holds.
* `Delete`, `NewObjects`, `Decode`, `Sanitize`, `CutLines` and `ExecLines` are recursive functions over as
  many blocks, records or lines as there are. That the function exists is proved for each (`DeletesExist`
  ...), and what its last value is by going up to it (`UpTo`).

Induction. The library's induction theorems cannot be used, as they take an operator; but a
statement about one recursive function is proved by its least counterexample, from `LeastNumber`, itself a
consequence of the order of the naturals being well-founded (`UpTo` is that, as a rule). `ScanFindsBest`, `FlattensUnique`,
`SameOrDiffer`, `LineFits` and `JsonOfTheRing` are so proved. What calls itself must then be a function,
as the `Walk`s of the tree are: RECURSIVE operators stay out of reach.

Checked by TLC only:

* Liveness: `PendingLeaves`, `CachedLeaves`, `MatchReturns`, `LockIsReleased`, `ServesOrStops`.
* `DnsMessages` and `MessageRelay` (its six properties), `AddressTexts`, `QuickSort`: names and texts are
  followed by RECURSIVE operators.

## 7. What the models found

Two runs show the program disagree with its own comments and messages:

* **filter_misses.** `Match` misses names its filter matches: after a mismatch the filter goes back to
  its star, but the character that did not match is not compared again, and a filter that ends
  before the name does not go back at all (`*ab` misses `aab`, `*.com` misses `mail.comcast.com`;
  dns/CNameFilter.cpp:46-64). It never matches too much (proved), and is exact for names and prefixes.
* **config_invalid_lines.** A line of the servers section that is no address is reported as invalid and
  becomes a filter of the white list: a `case` without `break` (CConfigFile.cpp:246-254).
  `FollowsTheFile` and `LogTellsTheLoad` hold with that `break` as well as without it.

Met while modelling; the models have them, the properties are stated around them:

* An answer with the id of a pending query that is not its answer takes the query out of the queue
  and does not release it (dnsServer.cpp:333-357); a query whose id is drawn again leaks too.
  `NothingElseLeaks` says that nothing else does, but for the next one.
* The buffer of a file that is shorter than its length was is not released (CConfigFile.cpp:398-410).
* `MessageReceived` writes the delay to the slot of the query sent last, not of the one answered
  (CSecondaryServer.cpp:48): with two in flight the delays are mixed up.
* `Get` of the cache does not look at the time to live; `StaleBySweep` bounds the consequence.
* The root name is encoded as two zero bytes instead of one (protocol.h:147): a message with a record
  of the root, such as an OPT record of a query, cannot be read. `QueryArrives` leaves these out.
* `evalMask` adds the shift at which the bytes agree, so that within a byte more common bits count less;
  `LocalAnswerArrives` promises whole bytes only.
* A text behind a server's address, as in `1.2.3.4 x`, makes it a server at port 0: `:53` is appended
  behind that text (`AddressTexts`, `ServersAsMeant`).
* An IPv6 server, as in `[2001:db8::1]`, is accepted and never reached: `inet_pton` writes the 16 bytes of
  the address to the beginning of the socket address, whose family is then read from the first two
  of them (system.c:676-681). It stays without a type, and `net_udp_send` sends nothing to it.
* A query that is cut right after its name has its type and class read from the name, and a pointer that
  ends the datagram is followed one or two bytes behind its end (protocol.h, `NothingMadeUp`).
* `logToJson` does not escape quotes, leaves out the newest lines, not the oldest, when its buffer
  is full, and has no caller.
* `CLocalRecord::ToString` goes on 15 characters after each address, whatever its length, so that the
  log ends after the first one.
* `loadConfig` can reload the configuration, but nothing calls it again; a failed first load is not looked
  at, and the server runs without a configuration.
* `quickSort` is called for empty filter lists with right = -1; it reads one element and leaves it.

## 8. What is not modelled

* `system.c` and `system.h`: a library over POSIX and Win32 of which the program calls about a quarter.
  Modelled are the functions whose results matter: `str_sanitize_strong`, `str_append`,
  `net_addr_from_str`, the failures of `net_udp_create` and `net_udp_send`, `io_length` and `io_read`,
  the clock. Locks are there as the steps that hold them.
* The printing of log lines to the console; of a text only its kind and its length are looked at.
* The Windows half of `enumip.cpp`; names and masks of interfaces, which nothing looks at.
* `ToString` and `ip4ToString`, which write to the log; `parsePort`, `Push`, `Pop`, `SetQueries`,
  `ReadQWord` and `WriteQWord`, which nothing calls; destructors at the end of `run`, which is never
  reached.
* `txtUtil.h`, `version.h`, the makefiles.

## 9. The plan

Done, in this order: queue, upstream servers and cache, each with its history and proofs; the
server that composes them and the service it implements; filters and configuration with proofs;
messages as bytes, whole and cut; memory of messages and of the configuration; the tree; addresses,
orders and sorting; the log and the start of the program, with proofs;
the server with its proofs, which rest on those of its parts; the orders of the trees, the loop
of `getBestServer`, the history of one query at a time, the lines a load logs, the list that
`logToJson` makes of them, with proofs; the proofs about the memory, the lines of a file and the tree.

Next, what is worth adding to the models:

1. The times to live of a record as ints that wrap, in a module without recursive operators, so that
   `CacheAnswers` has a proof of its arithmetic for every width.
2. The loop of `DnsServer` with the lists of `ConfigFile` in place of the constants `WhiteList`, `BlackList`
   and `LocalNames`: one load, then the questions of the loop. It would be worth having once the program
   loads its configuration again while it runs.

And what is worth proving:

3. The six properties of `MessageRelay`. Names and their compression would have to be written as
   functions over the bytes of a message, as the `Walk`s of `RedBlackBST` are over trees.
