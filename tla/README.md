# A verification of the BGP hijack detector

Hijack Detector reads BGP routes from a RIB file, from updates files and from
the live feed of RIPE RIS, keeps the active announcements in a trie of IPv4
subnets, and reports a conflict when two announcements overlap and differ in
their origin AS. This directory holds TLA+ modules of its core, TLC
configurations that check them on small instances, and proofs checked by TLAPS.

Every definition is translated from the Go code; `PROJECT.json` names the lines
for each of them under "map".

## The system

| component | state | operations | who calls it |
|---|---|---|---|
| prefix trie (`PrefixTrie.go`, `RelevantPrefixes.go`, `Conflicts.go`) | nodes with children, parent, active announcements, flag `relevant` | insert a special prefix, an announcement, a withdrawal; search up and down | main, for every message |
| origin AS counters (`ASsummary.go`) | `originCounters`, `mutex`, `recentFilesCounter` | count, look up, write and reset an interval, summary, final file | main, ticker goroutine, signal goroutine |
| live feed (`Livestream.go`) | channel, connection | `Listen`, `Get`, `handle` | goroutine `Listen`, main |
| main (`Main.go`) | flags, `stopT`, counters of what was found | `initialize`, `processBGPFiles`, `cleanup`, signal handler | the Go runtime |
| Routeviews files (`Routeviews.go`, `Scanner.go`) | position in a file | read a RIB, read updates, take the AS path from the attributes | main |
| peers (`Peers.go`) | list and two maps of peers, `highestPeerId` | insert the peer table of a RIB, find or add a peer | Routeviews files, live feed |
| conflicts file (`Json.go`) | the file | append a record | main, for every search with a result |
| conversions (`ConversionFunctions.go`, `Messages.go`, `HelperFunctions.go`) | none | address to bits, messages to text | all |
| `sortOrigins.sh` | none | sorts a finished csv file | the user |

How they interact. Main is the only goroutine that touches the trie: special
prefixes first, then the RIB, then the updates files, then the live feed, one
message at a time. A search with a result is written to the conflicts file and
then counted. The counters are shared with the ticker, which writes and resets
the recent ones every interval, and with `cleanup`, which runs in the goroutine
that waits for SIGTERM, in main at the end of the input, or in main when a
message comes after the stop time. Only some of these accesses are under
`mutex`. The live feed is a goroutine that decodes and a buffered channel.

What is hard in it, and the properties that answer for it:

- *The trie.* The loop of `insertMessage` deletes from the slice it iterates
  over; the mark `alreadyAnnounced` cuts later searches short and must not hide
  a conflict; the flag `relevant` is inherited only at creation. Correct means:
  one announcement per peer and subnet, as announced and withdrawn; no conflict
  between active routes unreported; no record with a route twice; alerts
  exactly for special prefixes.
- *The counters.* Three goroutines, a lock that is released between two steps
  that belong together, error returns that keep it, unlocked reads, `os.Exit`
  while others run. Correct means: mutual exclusion; a conflict counted for both
  origins and in one interval file; a complete final file; an end that comes.
- *The live feed.* A full buffer, broken connections, the end of the stream
  while messages are queued, a stop time that is looked at only now and then.
  Correct means: messages in order, once, all of them; the program ends.
- *Peers and files.* 16 bit IDs and peers found by address alone, one message
  variable reused in a loop, announcements before withdrawals in files and after
  them in the feed, file names compared as dates, errors that end a file, all
  files, or nobody notices. Correct means: the right files are read, in order; a
  peer's route is what the last record about it says; no peer touches another's
  routes; overlapping bits mean overlapping addresses; the reading ends.

`PROJECT.json` lists the hazards one by one at their lines.

## The modules

**AdjRib** states what the trie promises to store, without the trie: for every
peer and subnet the origin last announced and not withdrawn since.

**PrefixTrie** is the trie. A node is named by `representedNet`; the variables
`nodes`, `activeAnnouncments` and `relevant` are its fields, `phase` is what
main is reading. `ReadSpecialPrefix` is a line of the prefixes file, `Announce`
and `Withdraw` are calls of `insertAndFindConflicts` (insertion, search and
outcome in one step, as main is alone with the trie), `Discard` is its early
end for default and IPv6 routes, `StopTimeReached` its call of `cleanup`.
Parent and child pointers are not variables: they are the prefix relation
between names, which is faithful because nodes are never removed and because
`NothingOutOfReach` holds. A withdrawal of a prefix never announced creates
nodes like any other message. Operators give the code's traversals by what they
compute: `Deleted` is the set of indices the deleting loop removes (those of
the peer that are not skipped), `Visited` those it compares, `FindConflicts`
the union over the overlapping nodes. `search` is the outcome of the last step;
`listed`, `known` and `silent` are history variables that only the properties
read. AS paths and timestamps do not influence the trie and are left out, as is
the error message at depth 32, which needs a mask longer than 32 bits.

**TrieWalk** has the same traversals call by call and index by index, as the
code makes them, and compares them with PrefixTrie's operators in every state. It
is what ties PrefixTrie's definitions to the code. A loop is a function from the
number of iterations to its state (`Loop`, `AfterDescent`, `ThisLevel`,
`AboveAndSameLevel`), the recursion of `findConflictsBelow` a function from the
number of levels that can still come to the visit of a node (`Subtrie`).

**ASsummary** has the counters and the goroutines `main`, `ticker` and
`handler`. `pc` says where each is; the steps are the code between two
operations another goroutine can see: taking the lock, the lookup, the update
and unlock, the interval file, the reset, the unlocked summary, the creation
(truncation) of the final file, its rows, `os.Exit`. A conflict is written to the conflicts file
before it is counted, or the write fails and is only printed (`WriteJson`);
cleanup panics when the heap profile cannot be created (`HeapProfileFails`). `mutex` is "nil" until main
allocates it, and locking it then panics. Writing an interval file or the final
file may fail at any row, and then the lock is kept, as in the code.

**Feed** states what the live feed promises the trie: what has arrived is
handled once and in order, where an IPv6 prefix is handled by being skipped.
**Livestream** has `Listen`, the channel, `Get` and
`handle`, one step per decoded message, send, receive and prefix. A connection
can be refused, content can be undecodable (restart), the stream can end.

The program from its input to the trie is built in layers, each of which
extends the one before; the trie in it is AdjRib, which PrefixTrie implements.

**BGPMessages** has no state. It says what messages a record makes: `Record` is
a decoded MRT record, `RisMessage` one of the feed, and `MessagesOfRib`,
`MessagesOfUpdate` and `MessagesOfRis` are the sequences of messages that the
loops of `parseRIBAndInsert`, `parseUpdatesAndInsert` and `handle` insert, in
their order. `SetASpath` and `OriginOfDigestedPath` choose the origin,
`ConvertIPtoBits` converts an address. `Panic` stands where making a message
panics: the messages before it are still inserted.

**PeerTable** is `Peers.go`: the list `ourPeers`, the map by address, the counter
`highestPeerId`, and IDs modulo `IdCount`, which is 2^16 in the code.

**Routeviews** is `processBGPFiles` with the two readers of files. `pc` is where
main is, `records` what is left of the open file, `left` the names not yet
looked at, `todo` the messages of the last record that are still to be inserted
one by one; `read` and `failed` are history. A record that is skipped leaves a
mark in `read` with the record in it, so that the properties can tell what was
read from what was used. A file can fail to open, a record
can be unparsable (skipped), of another type (an error in a RIB, skipped in
updates) or broken (an error), the scanner can end early, a message can come
after the stop time. `ReadDir` sorts by name, so the order of names is the order
of times, and a name without date comes first.

**Detector** puts main around it: initialization, files, then the feed or the
end. It states the properties, against a reference of its own: `Leaves` says
record by record what a peer's route is afterwards, in terms of prefixes and
addresses, without messages, IDs and bits. `Sessions` is AdjRib once more, with
peers told apart by address instead of ID.

**MCPrefixTrie, MCTrieWalk, MCASsummary, MCLivestream, MCDetector** give the constants
values for TLC. Operators marked "Faulty variant" are the bugs that the
properties are tested against; no specification uses them.

## The runs

| run | what is checked |
|---|---|
| `Trie_prefixes` | default flags, special prefixes none of which contains another, the default route, an end: alerts exactly for special prefixes; only pairs that came from the RIB are unreported; one announcement per peer, and the trie implements AdjRib |
| `Trie_ribconflicts` | three nested subnets, RIB searched: trie connected, no conflict missed, no route twice in a record, a search cut short has nothing to report |
| `Trie_walk` | three peers: the code's loops and recursion compute the operators of PrefixTrie |
| `Sum_live` | two intervals, a signal and the end of the input, all failing files: lock, intervals, counts |
| `Sum_end` | files do not fail: signals and the end of the input end the program, conflicts are counted, and a cleanup that is alone writes a complete file |
| `Files_read` | directories, flags, failing and broken files, then a message of the feed: the right files are read to their end, a peer's route is what the last record about it says and never an origin of another subnet, sessions do not touch each other's routes, IDs are distinct and indices are IDs, bits overlap as addresses do, and the reading ends |
| `Live_feed` | a buffer of two, a restart, the end of the stream: order, no loss, no duplicate; all is handled at last; the stop time works when a message for an IPv4 prefix comes |

Five more runs expect a violation. Each checks one sentence of the repository
that the code does not keep:

| run | the sentence | what happens |
|---|---|---|
| `Trie_repeat` | `PrefixTrie.go:60`, no conflict "over and over again" | the skipped entry is the one that would have marked the announcement |
| `Trie_prefixorder` | `README.md:33`, alerts for more specific prefixes | a longer special prefix is listed before a shorter one |
| `Sum_interval` | `README.md:56-58`, interval files | a conflict counted between write and reset is in no file |
| `Sum_leak` | `README.md:84`, SIGTERM ends gracefully | a failed write leaves the lock locked |
| `Live_stop` | `Main.go:77`, the livestream ends at the stop time | failed connection or silent service |

Other things that can go wrong are steps or conditions of the passing runs
rather than runs of their own. With `-ribconflicts=false` a search is cut short
although `PrefixTrie.go:164` takes it that its conflicts have been found
(`silent` in PrefixTrie). The unlocked summary may meet an insertion into the
map (`MapRace`), and a signal may come before the lock is allocated (`Lock` on
"nil"). A second cleanup truncates the final file before the first one exits,
and a signal can come between the conflicts file and the counters; the
conditions of `FinalFileComplete` and `AllOriginsWritten` say so.

### Bounds

The trie needs two or three bits to have a node above, a node at and a node
below a message, plus a node that overlaps nothing. Two peers and two origins
make every case of the mark; the skip in the deleting loop shows with two
announcements at a node, and `Trie_walk` has lists of three. The trie runs have
no bound but these constants: any number of messages is covered. `Trie_walk`
uses a view without the outcome of the last search and the history variables,
which no step that changes the trie and no invariant of that run reads. Peers and origins are symmetric: no definition tells two of them apart.

The counter runs bound the conflicts (`MaxConflicts`, 1 or 2, each counted in
two critical sections), the intervals (`MaxTicks`, up to 2, so that a file can
follow a reset) and the signals (`MaxSignals`, 1, which the handler takes or, when
it does not wait yet, misses).
`Files_read` has addresses of two octets of two bits, which is enough for a
prefix that ends within the first octet, within the second, and nowhere; four
IDs for up to six peers, so that IDs wrap around; directories with no RIB, one or
two, updates before, at and after the time of the last, and names without date
or time of day. Its RIBs and updates are chosen one for each case of the code: an
entry without path, AS4_PATH with and without AS_PATH, several paths, an AS set,
a repeated address, a second table, an index out of range, a prefix announced
and withdrawn in one update. One RIS message (`MaxHandled`) follows the files.
IDs that are shared are only in the premise `IdsFit` of the properties: beyond
it nothing is promised about routes.

The feed runs bound RIS messages (4, more than the buffer and the places a
message can be in between) and restarts (1). Deadlock is not checked
(`CHECK_DEADLOCK FALSE`): all systems stop for good when the program exits, and
the bounded ones when a bound is reached.

### Fairness

The Go scheduler runs every goroutine that can run: weak fairness of main's,
the ticker's and cleanup's own steps. A lock that is free again and again is
handed over to one that waits (`sync.Mutex` in its starvation mode): strong
fairness of taking it. The lookup of an AS and an HTTP request answer or fail.
Main reads its files without waiting for anybody: weak fairness of its steps in
Detector. Nothing is assumed to make a scanner fail, or a conflict, a tick, a
signal, a message or the end of the stream happen. The stop time comes.

## The proofs

**PrefixTrieProofs** holds for every address width, every set of subnets, peers,
origins and special prefixes, and both flags; the assumptions are
`ConstantsAssumption` of PrefixTrie, and `FindConflictsInRib` or `Disjoint` where
a theorem says so.

- The lemmas about lists come first. In a list with one entry per peer the
  deleting loop removes exactly the peer's entry (`DeletedIsOwnEntries`), so
  what remains, renumbered by `Nth`, is the rest in its order
  (`RemainingEntries`, `EntriesAfterAnnouncement`). Without that invariant the
  loop may leave an entry behind, which is why type correctness alone is not
  inductive: `IInv` is TypeOK, the two root nodes, and OneAnnouncementPerPeer.
- `DeepestNodeExists`: the CHOOSE of the inherited flag always has a node to
  choose, because the two root nodes are always there.
- `NoMissedConflictAlways` adds to `IInv` that the trie is connected and
  `SilenceInv`, that every active route is silent while the RIB is read without
  searching, and none is with `-ribconflicts`. The argument for a search that is
  cut short: the mark says that a route with the same subnet and origin was
  active before, so all its pairs were known or silent already.
- `TrieImplementsAdjRib` maps every announcement and withdrawal to the same
  step of AdjRib and all other steps to stuttering.
- `EveryAlertGivenAlways`, for special prefixes none of which contains another
  (`Disjoint`; without it `Trie_prefixorder` is the counterexample). While the
  prefixes are read, all nodes but the roots are on the way to a listed prefix
  (`OnlyWaysToListed`), so a new prefix has no nodes below it yet; from then on
  `AllMarked`, that every node at a listed prefix or below has the flag, survives
  each descent because the node it starts from is below that prefix too.
- `NoFalseAlertEver`, `RoutesReportedOnceAlways`, `SuppressedWasReportedAlways`
  and `AllConflictsKnownAlways` each have an invariant of their own on top.

**ASsummaryProofs** holds for every set of ASes and all bounds, with failing
files included but for the final file. `LockInv` (who is in a critical section holds the lock, and
there is no lock before main has allocated it) gives `MutualExclusionAlways`.
`IntervalInv` gives `CountedInOneIntervalAlways`: outside of write-to-reset the
files and the recent counters together are at most the counters; between the
two, when the recent counters are in a file already, only the files are.
`TypeInv` adds to TypeOK that main has a conflict to count wherever it counts,
and that the ticker has an interval left wherever it writes; with it follow
`TypeCorrect` and `RelatedAtMostTotalAlways`. `FileInv` is about the final file
when files do not fail: what has a counter has a row to come, what was counted
when cleanup started is still counted, what is in the conflicts file is counted
or among the updates to come, and a cleanup that is alone at `os.Exit` has left
all of that in the file. That it is alone can only stop being true, so no step
of another goroutine comes between its rows and its exit that could matter; this
gives `FinalFileCompleteAlways` and `AllOriginsWrittenAlways`.
`CountInv` leads to `EveryConflictCountedTwiceAlways`. The property is about the
moments when nothing is left to count; the invariant says for every moment that
the sums over all ASes and the updates to come are twice the conflicts found,
and that the sums of the two opposite levels differ by what the second update of
a conflict has still to add. `SumOf` folds over the ASes in an order nobody
knows; `Sums` (Recursion) says what any such fold returns, `SumsDiffer` what one
more conflict of one AS changes. It needs the set of ASes to be finite.

**LivestreamProofs** is about the live feed, for every size of the buffer and
any contents the service sends. Its invariant `FeedInv` says where in the
history each message still under way stands: `ResultInv` that the update main
works on begins `i` places before the next message to be handled, and
`QueueInv` that the channel, followed by what Listen is about to send, holds
exactly what comes after that update (`Holds`, by a sequence of places). Nothing
less is inductive: the order in `handled` alone says nothing about what the next
receive takes out. It gives `ImplementsFeedAlways`, where decoding is Feed's
`Arrive`, inserting and skipping are `Handle`, and all other steps stutter; and
`NothingLostAtEndAlways`, since Get returns nil only when both parts of the
queue are empty.

**DetectorProofs** is about the composition, for every directory,
every feed, all flags and any number of peers, IDs, octets and bits.

- `PeersInv`: the peer at position k has ID k - 1 modulo `IdCount`, and the map
  leads from an address to a peer with this address. It is not inductive alone:
  the table of a RIB replaces `ourPeers` but goes on counting, so `FilesInv` says
  that no peer has been added before the table and that a second one is an
  error. Together they give `IndexIsIdAlways` and `DistinctIDsAlways`.
- `ImplementsSessionsAlways`: a step changes one route of one session. The case
  to prove is a new peer, whose ID must have no routes yet; `RoutesInv` says that
  only IDs below the counter have any.
- `TypeOKAlways` adds `PlacesInv`, where main can be. `RoutesInv` types the
  messages still to be inserted, and most of its proof is about the conversions:
  for every record they return messages of known peers, or `Panic`.
- `NoGhostRouteAlways`: `FoundInv` says that every ID given out is found by an
  address, or is at a position of the table whose address comes again later. A
  table that is read once settles `TablePeers`, and the last position of an
  address exists (`LastPosition`).

**TrieWalkProofs** proves that the loops and the recursion of `PrefixTrie.go` compute
what PrefixTrie says, for every number of bits, peers and origins. A recursive
function in a LET is a CHOOSE for the provers: `Recursion` gives a function that
follows the rule, so that the chosen one follows it too, and induction over its
argument does the rest.

- `LoopAgreesAlways`: with one entry per peer at most (`IInv`) the loop deletes one
  entry d, skips the comparison of d + 1 and ends an iteration early; `LoopWithOwn`
  writes down its state after each iteration.
- `DescentAgreesAlways`: `DescentGoesOn` is one level. If the next node exists so do
  all above it (`NothingOutOfReach`); if not, its flag is that of the deepest node
  that was there, which is the same for its parent.
- `WalkAgreesAlways`: `Found(t, c, d, S)` says that the search has gone from c to d by
  finding S, none of it twice, with the flag that follows. It composes
  (`FoundTogether`); `ThisLevelFinds`, `ClimbFinds` and `SubtrieFinds` give it for a
  node, for the way up and for the subtrie, each for lists that have nothing yet of
  the nodes it visits. At most W calls of `findConflictsBelow` are one in the other,
  as a net of more than W bits has no node below it.

**Recursion** has no model of its own. It states induction and definition by
recursion with sets and functions where the library has predicates and
operators: a set of numbers with 0 and all successors has all of them
(`InductiveSet`, from `LeastNumber`), a step function has exactly one function
that follows it (`RecursionOverNat`, `RecursionUpTo`), a collection of finite
sets that is closed under one more element has them all (`InductiveSubsets`).
With them the recursive functions of the model (`Pow2`, `Number`, `Rest`) and the
folds it uses (`SumOf`, `FlattenSeq`) can be reasoned about, as can the loops of
TrieWalk.

**RoutesProofs** is about addresses and what the routes in the trie say.

- `OverlapIsSharedHolds` is for every number of octets and of bits of an octet. `Rest` subtracts powers of two from an octet as
  `convertIPtoBits` does; the lemmas say that what is left is the remainder, so
  that bit i of an address is the i-th binary digit of its number. Two prefixes
  agree on their first k bits just when their numbers agree divided by
  2^(bits - k), and a prefix owns the numbers that agree with its own there. It
  rests on the assumption that prefixes are masked, which `net.ParseCIDR` and the
  MRT library do; without it the address is one of several of the same prefix.
  It also follows that different subnets have different bits.
- `NoInventedRouteAlways`: `MentionedInv` adds to the routes the announcements
  that are still to be inserted: the origin of each has been read in a record
  about its subnet. The message of a RIB record that keeps the origin of the
  entry before it stays within this, as that entry is in the same record.
- `RoutesAsSaidAlways`: the property is about moments without messages to
  insert, so `SaidInv` speaks of `Outcome`, the route a peer will have once
  `todo` has been inserted: it is among those the last record that mentions the
  two leaves behind. `After` gives it without stepping, as the last message
  about the route decides (`LastSays`), and inserting the first message does
  not change it. For a record just read, the sequence of its messages is compared
  with `Leaves`: for a RIB this needs `TableInv` (while the RIB is read the peers
  are those of its table, and the map leads to the last position of an address)
  and `SettledInv` (the indices of its entries are in the table); for an update
  that withdrawals come after announcements, for a RIS message that they come
  before them.

**FilesProofs** proves `FollowingFilesReadAlways` for every finite directory whose
names differ by their times. `FollowInv` says that what has been read of the open
file, with what is left of it, is `SoFar`: the RIB, then the files that have been
looked at and follow it. Taking the first name of those left adds the content of
exactly the next rank (`SoFarNext`), or nothing (`SoFarSkip`); `LeftInOrder`, that
no file left is before one already read, makes it the next.

Attempts at these proofs corrected the properties and assumptions in five places:

- `AnnouncedBy` took a path of empty AS sets for one that announces; the digested
  path is empty then, and `handle` returns.
- `Ends` left out an attribute after another one without segments, and AS 0 where
  there is no AS_PATH.
- A skipped record of a RIB's type in an updates file counted as said; it
  is marked in `read` now, and only `FollowingFilesRead` looks inside the mark.
- Prefixes have to be masked, directories and the set of ASes finite; all of that
  was true of the instances and is an assumption now.
- `OriginsOf` and `ConvertIPtoBits` were written with `SelectSeq` and a recursive
  append; they say the same by quantifiers and by the index of a bit.

Only model-checked: liveness under fairness (`SignalEnds`, `ConflictsCounted`,
`FilesEnd`, `EveryMessageHandled`, `NextMessageEnds`), which the provers cannot
reach. Every invariant that a run checks is a theorem.

## Not modelled

- The libraries: MRT decoder, HTTP, JSON, decompression. What they can answer is
  in the model (records of every kind, failures, an early end), not how.
- Texts, colours, numbers that are only printed, the order of rows, AS names, the
  CPU profile, and `sortOrigins.sh`.
- Timestamps and the AS path but for its last AS, which nothing but the output
  reads. IPv6 is discarded by the code, and so here; the error message at depth
  32 of the trie needs a mask longer than 32 bits.
- The service of RIS Live is taken to send prefixes that can be parsed and
  messages with data. File names are taken to have the documented form up to
  missing parts: a name that contains "rib" or "updates" elsewhere is left out.
- The limits of ten million records in a RIB and a hundred million in an updates
  file, which are there for debugging.
- Flags are constants or initial values: a mistyped one is left out.
- The goroutines of ASsummary are not composed with Detector. They share the
  counters only, which main updates after the search; the interleavings are those
  of ASsummary, whatever messages main reads.

## The plan

1. *The core* (done): AdjRib, PrefixTrie, TrieWalk, ASsummary, Feed, Livestream.
2. *From the input to the trie* (done): BGPMessages, PeerTable, Routeviews,
   Detector, with the theorems about peers and sessions.
3. *The feed proved to implement its promise, the types and bounds of the
   counters, the final file, the alerts for disjoint prefixes* (done).
4. *The conversions, the routes, the files that follow and the sums over all
   ASes proved* (done).
5. *The traversals of the trie proved to compute the definitions that the other
   proofs use* (done).
