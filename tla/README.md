# Specifications of nopfs

nopfs blocks IPFS content: it reads *denylists*, files of rules about CIDs,
IPFS and IPNS paths and hashes of them, keeps following those files while they
grow, and answers whether a CID or a path is blocked. These modules model its
core, TLC checks them on small instances, and TLAPS proves the main safety
properties for every value of the constants.

## The system

| part | code | state | operations | interacts with |
|---|---|---|---|---|
| follower | `denylist.go`: `NewDenylist`, `NewDenylistReader`, `parseAndFollow`, `followLines`, `Close` | file handle and offset, fsnotify watcher, `bufio.Reader` over `io.LimitedReader`, the local `line` | open, read on, wait for an event, hand a line over, close | one goroutine per denylist; the owner of the file; inotify; `Close` from any goroutine |
| rules and lookups | `denylist.go`: `parseLine`, `Is*Blocked`; `entry.go`; `blocksdb.go` | one `BlocksDB` (a `sync.Map`) each for IPFS, IPNS and path rules, a Go map of them by hash function, the slice `PathPrefixBlocks`, `Entries` | store the entry of a line, look up a path or a CID | the follower's goroutine writes, every goroutine that asks reads |
| header | `denylist.go`: `DenylistHeader.Decode`, `readHeader` | header fields, header length in lines and bytes | decode up to `---`, seek behind it | runs once, before the follower |
| HTTP subscription | `subscription.go` | local file, timer, stop channel | first sync, range request and append at an interval, stop | an HTTP server; appends to a file that a follower follows |
| Blocker | `blocker.go` | a Go map of denylists by file name | open all, close all, ask each until one has an answer | owns the denylists |
| IPFS wrappers | `ipfs/*.go` | a Blocker and what is wrapped | ask, then call or refuse | Boxo's BlockService, NameSystem, Resolver |
| status | `status.go` | none | turn a status into an error or not | everything |
| denylist files | `util.go` | none | list `*.deny` in the known directories | the plugin |
| Kubo plugin, commands, tester, logging | `nopfs-kubo-plugin/`, `cmd/`, `tester/`, `nopfs.go` | none | wiring and I/O | the above |

What is hard here, and what makes each part correct:

* **Follower.** Bytes arrive in pieces; a write may fall between the end of
  file and the wait; events are merged, or dropped when the queue overflows;
  `limRdr.N = 0` stands for "too long" while the buffered reader has spent the
  limit on bytes of later lines; the file may be truncated and written again;
  `Close` comes in two steps at any moment. It is correct when every complete
  line is handed over once, whole, in order and in the end, when no legal line
  is refused, and when `Close` ends it.
* **Rules and lookups.** A rule is stored in up to two places while lookups go
  from place to place, with no lock around them; some places are plain Go maps
  and slices; the key a rule is stored under and the one it is looked up by are
  made by different code. Correct when no rule that was there is missed, no rule
  is applied to what it is not about, and the latest of contradicting rules wins. That
holds under one key; across the indexes the order of the lookups decides.
* **HTTP subscription.** Downloads break off, servers give any answer, the process
  dies in the middle of an append. Correct when the local file stays a prefix of
  the remote one, catches up, and `Stop` ends it.
  Two subscribers of one file do not know of each other.
* **Blocker and wrappers.** Directories vanish while they are walked, some files
  fail to open, some are listed twice; map iteration decides the order in which
  denylists are asked, and rules arrive, followers end and the Blocker is closed
  in the middle of a call. Correct when every file there is is asked, which a directory
  that vanishes prevents, when nothing that was
  blocked as the call began gets through, when the wrapped service is called with
  the rest and no more is refused, and when `Close` leaves nothing open.
* **Header.** The separator may be cut by a buffer or the size limit, completed while
  the file is read, or read ahead of. Correct when the lines begin right
  behind the first separator, with the right number, or at the first byte.

`PROJECT.json` lists these hazards line by line.

## Modules

| module | what it is |
|---|---|
| `LineFeed` | the promise of following a file: complete lines of a growing content, in order, each once |
| `FollowLines`, `MCFollowLines`, `FollowLinesProofs` | the follower as it is written; implements `LineFeed` |
| `FollowEdits`, `FollowEditsProofs` | the follower with an owner who saves another content; extends `FollowLines` |
| `Header`, `MCHeader`, `HeaderProofs` | `Decode` and `readHeader`, up to where the follower begins |
| `Rules` | rules, entries, keys, matching and the order of lookups, as operators |
| `RuleBook` | the promise of a denylist: answers are those of a book of entries that is being written |
| `Denylist`, `MCDenylist`, `DenylistProofs`, `RuleBookProofs` | a denylist that is written and asked at the same time; extends `Rules`, implements `RuleBook` |
| `Blocker` | the files, the denylists opened from them, and `Close` |
| `Gate`, `MCGate`, `GateProofs` | the wrappers that ask a Blocker; extends `Blocker` |
| `HTTPSubscriber`, `HTTPSubscriberProofs` | the subscription, its server and the end of the process |
| `Distribution`, `MCDistribution`, `DistributionProofs` | a subscription and a follower of its file; extends `HTTPSubscriber`, takes the follower as a `LineFeed` and implements a `LineFeed` of the remote denylist |
| `Successor` | two subscribers of one file; extends `HTTPSubscriber` |

The components meet at their promises. `FollowLines` implements `LineFeed`, and
`Distribution` uses a `LineFeed`; `Denylist` implements `RuleBook`, and `Gate`
uses denylists that answer by the rules of the lines they have parsed; `Header` says
where lines may begin, and `Distribution` begins there.

### FollowLines

`off` is the handle's offset, `buf` what the `bufio.Reader` holds, `line` the
local of that name, `lim` is `limRdr.N`, and `pc` says whether the goroutine
reads, waits in `waitForWrite` or has returned. `Fill` is one `Read` through both
readers: it gets what fits in the buffer, what the limit leaves and what the file
has, whichever is smallest. `ReadString` that finds a newline is `ReadLine`; the
three ways it ends without one are `ReadTooLong`, `ReadEOF` and `ReadError`. The
wait ends by `WaitEvent`, `WaitError` or, once the watcher is closed,
`WaitClosed`: both channels of a closed watcher are ready, an empty event makes
`waitForWrite` loop and the nil error makes it return as if the file had been
written, so the read on the closed handle is what ends the goroutine.

The owner of the file decides on bytes (`Extend`), writes any number of them
(`WriteOut`) and may truncate the file and write it again (`Truncate`). The event
of a write is queued after it (`Notify`), other events at any time (`Touch`).
The queue merges an event that equals its newest and turns what does not fit
into an overflow, as inotify does and fsnotify reports. The user constructs the
denylist, holds it and closes it, the watcher first and the handle after it.

Offsets begin behind the header. In `FollowLines` a content saved on top of the
file extends what was there before. `FollowEdits` adds `Edit`, which truncates the
file for any other content; its history `replaced` is what was saved over.
`parseLine` is the growth of `parsed`: what it does with a line is `Denylist`'s
matter.

### Header

`headerBytes` is the length of that slice, `off` what has been read from the file,
so the `bufio.Reader` holds the bytes between. Its buffer has 4096 bytes and
`maxHeaderSize` is 1 MiB, so a line may take many reads: `Fill` is one of them, of what
is free in the buffer, what the limit leaves or what the file has, whichever is smallest
(`ReadSize`). `fill` moves what it holds to the front of its buffer, and a full one without
a newline is set aside, so buffers are counted from the first byte of the line. `HeaderLine` and
`SeparatorLine` are the loop; `NoHeader` is `io.EOF`, which the file or the limit
gives, with the `Seek` back to the first byte; `Found` is the `Seek` behind the
separator; `Fails` is every other error. The file grows at any time.

### Rules and Denylist

Characters, multihashes and names are values; a hash is the text it hashes with
the code of its function, so equal hashes mean equal texts. URL escapes, `+`,
`*` and slashes are kept, since `NewBlockedPath`, the store keys and `Matches`
treat them differently. `Probes(q)` is the sequence of lookups a query makes,
each a key and the path its entries are matched with; `ModernProbe` is the one
made for each hash function that the iteration over `DoubleHashBlocksDB` yields.

`ParseLine` takes the next line; `AddCode` and `Store` are the writes that put
its entry in its places, one step each; `BeginWrite` marks the time in which the
write to the plain map or slice is under way. A reader asks (`Ask`), makes its
lookups one by one (`Look`), then iterates (`Visit`, `RangeEnds`): a key present
when the iteration began is produced, one added during it may be, in any order,
which is Go's rule for maps. `Race` is the outcome of a read that meets such a
write; the same lookups may also go on unharmed. One step of `Store` is the
`Load` of the slice and the `Store` of the longer one in `BlocksDB.Store`: only
the parser writes.

`RuleBook` has of all this only entries and answers: `Write` begins an entry,
`Settle` ends it, `Found` answers with an entry about the query that no settled one
overrules, and `NotFound` with none when no settled one is about it that is not to be
overlooked. `Book` in `Denylist` is the mapping: the book is what has been parsed,
the entry in hand included; the settled entries are those that are in all their
places. An entry overrules another when both are stored under the same keys and its
line is later, or when it is canonical and its index is looked up first (`Rank`). The
first half is what the documentation says. The second half is only what the code does,
and `rules_allow` shows where it departs from the documentation: `RuleBook`
specifies the answers of this code, not those that its README promises of allow rules.

### Blocker and Gate

`Visit`, `WalkEnds`, `Vanished` and `Unreadable` are `fs.WalkDir` with the callback
of `GetDenylistFilesInDir`: an entry at a time, in lexical order, in two directories.
`below` is how many of the entries behind a directory are inside it, and the history
`ended` where each walk ended: behind its last entry, or at a directory that had vanished.
`Open` and `OpenFails` are the loop of `NewBlocker`. A Denylist is known by its
place among the files, since a path that is listed twice is opened twice, and the
second `Denylist` takes the place of the first in the map. `Parse` hands it a line
at any time while its goroutine runs, also one more after `Close`; `FollowerEnds` is
any way `followLines` ends. `CloseDenylist` is one turn of the loop of `Close`.

`Gate` begins a call with one item or several (`GetBlock` to
`ResolvePathComponents`), asks one denylist about one item in a step (`Ask`), which
one being the choice of the map iteration, and settles the item by `ToError`. A call about
one item ends with a refusal, one about many goes on without it. `inner` is the
wrapped service. What a denylist answers about an item that several of its rules are
about is any of them: which one is what `RuleBook` says. The history `begun` is how
many lines each denylist had parsed when the call began.

### HTTPSubscriber, Distribution, Successor

A byte of the remote denylist is its place in it, so the file shows which
bytes it got. `Open` creates the file and takes its size, `Serve`,
`NothingNew`, `PassOver` and `Refuse` are the branches on the status code, `Copy`
is one write of `io.Copy`, and every return of `downloadAndAppend` goes through
`Finish`, back to the constructor or to the loop. `Crash` may come at any
point and leaves only the file.

In `Distribution` the bytes have a text, with a header, and a denylist is opened
once there is a local file (`OpenDenylist`): if the separator has not arrived yet, lines
begin at the first byte and the header's lines are taken for rules. `begin` is that
place, chosen in the initial state and met by the guard of `OpenDenylist`. `Hand`
and `EndFollowing` are `LineFeed`'s steps on the local file. `Successor` has two
subscribers, each with locals of its own, of one file and one server: the second is
started after `Stop` was called on the first, whose goroutine is anywhere.

## Runs

| run | instance | states | shows |
|---|---|---|---|
| `follow_safety` | 2 letters (symmetric) and newline, limit 3, buffer 2, queue 2, 5 bytes, one save on top | 906,874 | the inductive invariant, its parts, `LineFeed`'s safety and that a reader that does not follow is complete when it returns |
| `follow_edits` | 1 letter and newline, 3 bytes, one save of any content, else the same | 308,325 | at most one torn line for each edit, and its inductive invariant; lines beyond the offset are parsed unless the follower stops; `Close` makes it stop |
| `rules` | two lines out of 23 (all kinds of rules) or three out of 6 that overlap, 13 queries, 1 reader | 282,219 | nothing missed, nothing misapplied, the latest wins under one key, both inductive invariants, `RuleBook` implemented |
| `header` | 3 bytes, a separator of 2, a buffer of 2, limit 5, any file of up to 7 bytes, growing | 375,448 | lines begin where they should, a header is not overlooked, the inductive invariant |
| `gate` | 4 arrangements of files, 3 of rules that disagree, 1 caller, 2 CIDs, 2 paths (one malformed), calls about up to 2 | 465,865 | from the directory walk to the wrapped service: every file a walk came to is asked, nothing leaks, nothing is refused without a rule, the rest is handed over, all is closed, checks end |
| `distribution` | 5 remote bytes (a header, two lines), 3 subscriptions, one follower | 22,844 | the local file is a prefix of the remote one and catches up, `Stop` ends the subscription, what is published is followed in order and arrives |

Why these bounds are enough. With a limit of 3 and a buffer of 2 a line may straddle
buffers, end exactly at the limit, exceed it by read-ahead and be refused, and 5 bytes
hold two lines or a refused one; a queue of 2 shows merging, mixing and overflow. For an
edit, 3 bytes suffice to leave the offset in the middle of a line of both texts, in one
that is too long only when it is put together from both, and behind the end of the
shorter one. Two lines are what a lookup needs to overlap with one rule and contradict
another; three among those about one CID and one path, in all indexes and two hash
functions, let rules interact in threes. A limit of 5 and a separator of 2 put the
separator before, across, exactly at and behind the limit, with lines in front of it,
and 7 bytes leave something behind it; with a buffer of 2 header lines and the separator
end within a read or at its end, or straddle two or three, and the limit falls between
two reads or cuts one short. A caller neither
writes nor waits for another, nor does a reader, so one of them sees all there is to
see; the proofs are for any number. The four arrangements are a subdirectory with one
file and another file behind it, an empty subdirectory between two files, one file in
each directory, and the same directory twice. Three subscriptions are a first sync, one
that resumes, and one that resumes a resumed one. `CHECK_DEADLOCK FALSE` stands in every
configuration because these systems do come to rest: the follower has returned, all
lines of the bound are parsed, the last subscription has ended, the Blocker is closed.
`MCSpec` of `rules` is `Spec` bounded as the table says.

### Fairness

`FollowLines`: weak fairness of the follower's goroutine, which is runnable
whenever one of its steps is possible; of the second half of a `Close` that
began; of the owner's writes and of the kernel's report of them. No fairness
is assumed of anything that extends the content, saves on top of it, or calls
`Close`. That `waitForWrite` takes the nil error in the end rests on `select`
choosing at random among ready channels; its loops over empty events are
stuttering steps. `FollowEdits` assumes the same and nothing of `Edit`.

`HTTPSubscriber`: weak fairness of the goroutine and the timer; strong fairness
of `SelectStop`, since with both channels ready `select` chooses at random
each time; and strong fairness of `Open`, `Serve` and `Copy`: a file that is
opened again and again opens at last, and a server that is asked again and
again serves at last. Without those `CatchesUp` could not hold of any client:
it says that the subscriber does its part. `Distribution` adds weak fairness of
`Hand`: that a complete line is parsed unless the follower ends is what
`AppendedDelivered` shows of it.

`Gate`: weak fairness of each caller's check, which runs in the caller's own
goroutine and waits for nothing; none of calls, of parsing or of `Close`.

### Where the code and its documentation part

Each of these is a run with a counterexample:

* `follow_overflow`: an event queue overflow is taken for the end and closes the
  denylist (`denylist.go:288`), though appended rules "will be processed".
* `rules_race`: the parser writes a map and a slice that lookups read without a
  lock (`denylist.go:447`), though denylists answer while they are followed.
* `rules_allow`: the indexes are looked up in a fixed order and the first answer ends
  the query (`denylist.go:899`), so an allow rule does not undo an earlier rule that is in
  an index before its own, though allow rules "undo or create exceptions to earlier
  rules" (`README.md:149`).
* `blocker_lost`: a subdirectory that vanishes while it is walked ends the whole walk and
  is taken for a directory that does not exist (`util.go:52`): the denylists behind it,
  whose own directory is there, are not listed, and no error says so.
* `blocker_order`: the denylists are asked in the order of a map iteration
  (`blocker.go:63`), though their position is to decide which has preference.
* `subscriber_successor`: `Stop` waits for nothing (`subscription.go:75`), and a
  subscriber that is started then appends the bytes that the stopped one appends too,
  though a request is for "only the missing bytes".

Seen while modelling, of less weight or open to interpretation, and kept out of
the runs:

* a last line without a newline is not parsed by a reader that does not follow
  (`denylist.go:295`; "parses all its entries"); such a reader leaves its handle open
  (`:128`); with `follow`, `NewDenylist` returns before any rule is parsed (`:126`, `:254`);
* after an edit, the line put together from two texts may exceed `maxLineSize` though
  neither text has such a line, and the denylist is closed (`denylist.go:275`);
  rules that an edit takes away remain (`:263`);
* a line may exceed `maxLineSize` by less than a buffer (`denylist.go:258`;
  `LineBound` is the bound that holds); a header cut by the limit, or not yet
  downloaded, is read as rules (`:172`);
* lines already buffered are parsed after `Close` (`blocker.go:42`);
* a line of white space has no fields, and `parseLine` panics on the first
  (`denylist.go:358`), though bad lines are to be logged and passed over (`:311`);
  `ParseLine` has the outcome;
* a path rule is stored under its text as written, a leading slash and escapes included
  (`denylist.go:542`), and looked up by the subpath, which has neither, though "every rule
  has been ingested without slashes on the ends" (`:572`); a rule for a dotless name
  is stored as written and looked up as an FQDN (`:515`, `:682`);
* a header may be as long as `maxHeaderSize`, which is "1MiB per the spec"
  (`denylist.go:27`), while the comment on `Decode` has 1KiB "per the specification"
  (`:57`); `HeaderSeen` is stated for the constant;
* `%2A` alone becomes a wildcard (`entry.go:85`, `:117`): `EscapedStarLiteral` leaves that
  rule out, with or without a slash in front, and no other; a rule for another CID with the multihash of a safe CID blocks
  the safe one too, since the exemption compares CIDs (`denylist.go:496`);
* a file that is listed twice is opened twice, and the first `Denylist` is closed by
  nobody (`blocker.go:33`);
* a first sync that brings nothing is no error, and the empty file of a failed one
  makes the next call skip it (`subscription.go:37`).

`NoMissedRule` is stated for *canonical* rules: those whose stored text is the one
lookups use; path rules with a slash or an escape and dotless names are the ones left
out. `EveryFileEnforced` is about the files that a walk came to, and excuses none of them
but those that failed to open; that the walk comes to all of them is what `NoFileLost`
says, and the code does not do. `ClosesAll` excuses what a duplicate has replaced.

## Proofs

All theorems hold for every value of the constants that meets the named assumptions: a
newline that is not one of the other bytes and positive limits (`NLAssumption`,
`SizeAssumption`); a separator with its one newline at the end and a buffer that is not
empty (`HeaderAssumption`); rules and queries of the shapes that `parseLine` and the
paths of Boxo produce, the second reading of a hash being the hex one, always of
sha2-256 (`RulesAssumption`, `RawAssumption`, `QueriesAssumption`, `NamesAssumption`),
in characters of which a slash is not a wildcard and an escaped one is none that stands
for itself (`CharAssumption`); directories that are sequences of entries, each with what
is inside it behind it, with some content for every denylist file (`TreesAssumption`,
`GateAssumption`); natural numbers as bounds, and a text as long as the remote denylist
with a header that ends a line (`SubscriberAssumption`, `TextAssumption`).

**FollowLines.** `Inv` is inductive. Its core is `HeldIsContent`: `line` and `buf`,
put together, are the bytes of the content right before `off`, so whatever line
comes out is a line of the content. The second half is an account of the limit:
`lim` plus the bytes held is at least `MaxLineSize` (so lim = 0 without a newline
means a line that is too long: `LegalLineNeverRejected`), and less than
`MaxLineSize + BufSize` (so no parsed line is longer: `LineBound`), for which
`ReadAhead` must say that a newline in the buffer has less than a buffer
behind it. `NoLostWakeup` is inductive with the types alone. From `Inv` follow
`ReaderFinishes` and `ImplementsFeed`: `ReadLine` is `LineFeed`'s `Emit`, for
which the gathered `line` is shown to have no newline of its own, returning is
`Stop`, extending is `Extend`, and all other steps are stutters.

**FollowEdits.** With edits `HeldIsContent` is lost: the bytes held may be of one text and
the offset point into another. `EditInv` says what remains. If the follower is
`InStep`, the line that has yet to end is so far a line of the content. Of the bytes held,
only the first line may have become torn (`FirstTorn`), and all complete lines behind it
are lines of some text that was saved (`RestWhole`), because a newline in what `Fill`
brings puts the follower back in step. `OneForEach` is the account that makes the bound inductive:
the torn lines parsed, the torn one held, and one for being out of step are together
no more than the edits. `Edit` may take the follower out of step and adds one to the other side;
`Fill` may turn being out of step into a torn line held, which `ReadLine` turns into a torn
line parsed; nothing else moves the account up. `TornOnce` follows. The limit's account
(`EditBound`) and the wakeup (`EditWakeup`) do not depend on what the content is, and are
proved again for `EditSpec`.

**Denylist.** `Inv` is inductive: an entry is in all its places before it counts
(`Stored`); a lookup that is over has missed none of the entries there were when
the reader asked (`LookedUp`), since entries are only ever added; the iteration still
owes the functions it could find one under (`OwesTheRest`); so "not found" means that
no probe would have found anything (`FoundNothing`). `NothingOverlooked` adds
that each canonical rule that covers a query is under the key of one of its
probes.

**RuleBook.** `BookInv` adds to `Inv` what answers need. `InOrder`: lines only grow,
and what is still to be stored of the entry in hand are keys of its own. `Filed`:
under each key are entries that belong there, in the order of their lines, so the last that
matches (`CheckPathStatus` goes backwards) is the latest. `Decided`: an answer is that of an
entry about the query which no settled one overrules. The step that matters is a
lookup that finds something: what is found is about the query, because each probe reaches
only keys of rules that cover it; no later entry under the same keys matches, by `Filed`;
and no entry of a lower rank does, because every probe before this one has come back
empty (`LookedUp`) and probes are in the order of ranks. `Justified`
and `LatestWins` are consequences of `Decided`, and so is the
refinement: storing the last key is `Settle`, parsing is `Write`, a lookup that finds is
`Found`, the last one that does not is `NotFound`, by `NothingOverlooked`. So is
`EscapedStarLiteral`: unescaping keeps every
character in its place (`UnescapeFacts`), trimming slashes does not touch a last character that is none
(`TrimKeepsLast`), so the path of such a rule still ends in the wildcard without being a prefix,
and, unless it is nothing but the wildcard, all it matches is itself.

**Header.** `Inv` says that what is behind `headerBytes` are whole lines, none of
which is the separator, so a separator that `ReadBytes` finds is the first; that
`headerLines` counts their newlines; and `off` is within the limit, so that at
`NoHeader` all that was in the file within the limit has been searched. No conjunct
speaks of the buffer: the proof needs of `ReadSize` only that a read goes neither beyond the
limit nor beyond the file, so it holds for every buffer.

**Gate.** Of the Blocker, `Covered`: what the walks have passed (`Passed`) is listed,
what is listed and has been through the loop has a Denylist of its path in the map or is
`broken`; `Accounted`: what is open is in the map until `Close` has come to it.
Of each call, `CallOK`: it remembers no more lines than have been parsed since, has
settled every item before the one it looks up, and the denylists it has asked about
that one had nothing about it when the call began. `NoLeak` needs no more: rules are only
added, and when all have been asked none had anything.

**HTTPSubscriber and Distribution.** `Inv` says that what has yet to be copied goes on
where the file ends, and a request asks from there; `Prefix` is one of its conjuncts.
From it, in `Distribution`, what is in the file from `begin` on is the text's own part
of that length (`LocalIsPart`); a line that is complete in it is the same line in what
has been published (`HandStep`), and publishing is `Extend` (`PublishStep`): a
`LineFeed` over the local file implements one over the remote denylist.

Only model-checked: all liveness (`AppendedDelivered`, `CloseStops`, `CatchesUp`,
`StopEnds`, `RulesArrive`, `ChecksEnd`), which is outside what the prover does, and
the runs with counterexamples. Every safety property of a passing run is a theorem.

## What is not modelled

* The commands, the tester and logging, and the wiring of the plugin into Kubo: I/O
  and registration without state of their own.
* Hints, the `Content` and wording of responses, the YAML of a header.
* In `Denylist`, lookups that end in `StatusErrored` (in `Gate` they are the malformed
  paths), protocols other than `ipfs` and `ipns`, and the per-protocol entry points
  called from outside.
* A remote denylist that is rewritten, and a second `Stop`, which closes a closed
  channel.
* The composition of lookups in `Denylist` with calls in `Gate` step by step: `Gate` has
  each denylist answer in one step, by the rules it had at that moment.

What is left to do: `Denylist`'s errored lookups; a `Gate` over `RuleBook`s whose answers
take time.
