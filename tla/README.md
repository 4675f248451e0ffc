# A verification project for Gurdy

Gurdy is a flight recorder for AI agents: a proxy decides every tool call an
agent makes, forwards or stops it, and writes a signed, hash-chained record of
the decision to a ledger that third parties can verify. This directory models
the parts of the Go core whose order of steps matters, checks them with TLC and
proves the main results with TLAPS.

## 1. The system and its components

| component | code | state | operations | what is hard | module |
|---|---|---|---|---|---|
| ledger chain | `proxy/internal/ledger/ledger.go` | a `partition` per chain (seq, head, unsigned, segment, handle, buffer), its segment files | write, sign a batch, roll, evict, forget, prune, close, resume | failing file operations, kills, power loss, restarts; a sticky `bufio` error | `Chain`, `Export` |
| ledger queue | same file, `cmd/gurdy-proxy/main.go` | bounded channel, `closeMu`/`closed`, gap windows and totals | `Append`, `AppendSync`, `Prune`, `run`, `writeGaps`, `evictLRU`, `Close` | handlers, writer and Close interleave; full queue; waiting callers | `Ledger` |
| verifier | `internal/ledger/verify.go`, `cmd/gurdy-verify` | none | verify a file, verify the seams | it defines what "intact" means | `Export` |
| stdio shim | `cmd/gurdy-proxy/shim.go`, `block_rpc.go`, `actuator.go`, `internal/mcp` | the `pending` map, the line being decided | `relay`, `relayOut`, `track`, `claim`, filter, reply | two goroutines and a client that reuses ids | `Shim` |
| HTTP gateway | `cmd/gurdy-proxy/main.go` | per request: stopped ids, calls awaiting a response; the cache of auto-minted tokens | read a body, decide, attest, filter or answer, forward, observe, record the response, auto-mint | batches of stopped and allowed calls, shared and missing ids, a reload in the middle, an exchange that breaks off | `Gateway`, `AutoMint` (the cache), `Ledger` (its calls) |
| policy | `internal/policy`, `internal/bundle` | current bundle, history of displaced ones | load, evaluate, swap, roll back | loads without a lock, overlapping swaps | `Policy`, `Store` |
| extractors and tool signatures | `internal/extract`, `internal/toolsig` | the registry of declared tools | classify, observe, look up | a registry at capacity; learning after the client already knows | `Gateway` |
| identity service | `internal/tis`, `internal/keyfile`, `mintsock.go` | key ring of two, its two files, tokens, the replay cache | mint, derive, assert, verify, rotate | rotation against token lifetime; a kill between two key files; a replay cache that is swept and lost | `Keyring`, `Delegation` |
| shipper and console | `fleet/ship.py`, `console/lib/ingest.ts`, `fleet.ts` | offsets, lock file, database rows | list offsets, upload a chunk, verify, pin, commit, revoke | retries, lost answers, overlapping runs, requests nobody waits for | `Upload`, `Mirror` |
| clock | `internal/clock` | a latency histogram | measure | nothing a model checker reaches | not modelled |
| adapters, SDKs, reporter, policy pack, console pages, conformance and benchmark tools | `adapters`, `sdk`, `reporter`, `policy`, `console/app`, `cmd/gurdy-conform`, `cmd/gurdy-bench` | none shared | batch jobs and clients | nothing concurrent | not modelled |

A call flows like this. A transport (shim or HTTP) parses `tools/call` frames
and calls `decideCall`: identify, classify, look up the tool's declared
signature, evaluate the bundle in force, plan. A plan that stops traffic appends
its record with `AppendSync` and waits until the writer goroutine has flushed it;
every other record goes through `Append`, which drops (and counts) rather than
waits. The HTTP transport then answers the client itself, sends the body on
without its stopped calls, or sends it on whole, and records a response for
every call it decided. The writer goroutine owns all partitions and files.
`/admin` prune runs on the writer too, as a `ctl` entry of the queue. `Close`
races all of this at shutdown. The verifier reads the files alone.
To identify a call that brings no transaction token the gateway takes one from
its cache or has the identity service sign one; a timer and `POST /keys/rotate`
replace the signing key meanwhile. Agents that delegate mint and derive tokens
over a socket. The policy bundle is exchanged by SIGHUP and two admin routes.
On a timer `ship.py` sends the signed part of every file to the console, which
verifies it as a continuation of what it holds, and fetches the next policy file.

## 2. Plan

1. **Done**: `Export` + `Chain` (one partition, all its failures), `Ledger`,
   `Shim`, `Keyring` and its composition `AutoMint` with the token cache;
   `Policy`, `Store` and their composition `Gateway`; `Upload`, which implements
   the abstract `Mirror`; `Delegation`. Proofs for all of them.
2. Not done: `Handles` (several partitions under the descriptor and map bounds:
   the argument that `Evict` and `Forget` of `Chain` stand for `evictLRU` and
   `forgetColdest`); an abstract append-only log that `Chain` implements outside
   its four windows.
3. Proofs: every invariant and action property of a passing run is a theorem. What
   could be added is that `Chain` implements the append-only log of point 2.

How the modules compose: `Chain` EXTENDS `Export`; `AutoMint` EXTENDS `Keyring`
and every one of its steps is one of `Keyring` or leaves it alone; `Store`
EXTENDS `Policy` and `Gateway` EXTENDS `Store`, whose next-state relation is a
disjunct of its own; `Upload` INSTANCEs `Mirror` with its own `written` and
`lines`.

## 3. The modules and the code

**`Export`** has the lines of an export and the verifier. A line keeps kind,
seq, prev_hash, instance, segment, kid, first_seq and pruned_through_seq; its
hash is the pair (seq, instance), which is collision free because one process
never writes two lines with one seq that both stay in a chain. `VerifyFile` and
`GurdyVerify` are the exit status of the verifier, without its counters.

**`Chain`** is one partition. Its variable `c` is the `partition` struct
together with the files: `lines`, how many of them `flushed` out of the
`bufio.Writer`, how many `synced`. An operation that fails ends its step; `fail`
names it. A failed `bufio` write is sticky (`broken`) until the writer is
replaced. Other partitions act on this one only by taking its handle (`Evict`)
or its place in the map (`Forget`), so both may happen at any time. `Kill` keeps
what left the buffer, plus any part of the rest that may have spilled; `PowerLoss`
keeps only what was synced for certain. `Start` is `Open` with `checkChainKeys`.
Header and `resumed` lines are the first in a fresh buffer of 4096 bytes, so
they cannot fail to be appended.

A torn last line is refused by whoever opens the file next, which changes nothing: no
record is written, and nothing of the line is mended. The exception is a line that lacks
only its newline: `scanTail` reads it as a whole one, and the next line lands behind
it on the same line of the file (`Glue`).

Four windows in which the code breaks its own chain are remembered in
`c.departed`: a roll whose next file cannot be opened (`failedRoll`), a restart that
finds the newest segment empty (`emptySegment`), a restart after segment 1 was pruned
(`prunedFirst`), and a torn line taken for a whole one (`gluedTail`). The safety
properties are stated outside these; `chain_prune` shows one of them against
the documentation, section 6 names the others. `ClosedExportVerifies` joins the
two modules: the files a clean `Close` leaves pass `GurdyVerify`.

**`Ledger`** is everything between a handler and the files. Handlers go through
`enter` (the read lock and the `closed` check), `sending` (inside the lock) and
`waiting` (`<-done`). A decided call is appended as `decision`, or as `blocked`
through `AppendSync`; a `blocked` that failed is appended again as `failedopen`
and forwarded; then follows its `response`. Go's `RWMutex` lets no new reader in
once a writer waits: `gate` is open, closing (Close has called `Lock`) or
closed. The writer is a state machine over `run` and the rest of `Close`;
`writeGaps` is several steps, because handlers count gaps meanwhile. A file is
the set of entries its writer took (`written`), and those of them that may still be
buffered. A write to another partition may need a handle, so that between any two
entries `evictLRU` may release this partition's (`Evict`): it signs and flushes what is
buffered, or gives the writer up with it, counts one write error for the whole tail
(`gone`), and may leave half a line behind that the next write refuses. The tick
ignores the errors of `signBatch` and `Flush`: entries then stay in `buffered` with
nothing counted.

**`Shim`** has the two relay goroutines. The client sends lines of one or more
requests; `traffic` classifies what it did with ids so far: `plain` (no reuse
before the answer was inspected), `reused` (only between inspected tools/calls)
or `mixed`. The server answers what it got, at most once, in any order. One
step of a relay goroutine is what happens between two accesses to shared state:
`decideCall` with `track`, the write of an error reply, its claim, the forward,
the claim of an answer, the write of it.

**`Keyring`** is one process's `TIS` with its two key files. Keys are numbered
as they are generated. `Rotate` is four steps, because a kill may come between
any two of them: it takes the mutex (`Lock`), replaces the previous key's file
(`Demote`, a copy of the signing key), replaces the current one (`Install`) and
moves the ring (`Adopt`); either replacement may fail (`RotateFails`), which
leaves its file as it was. `RotateDue` and `Rotate` lock separately, so another
rotator may come between (`due`). `tokens` are the unexpired transaction tokens
that agents hold; an expired one is refused whatever its key, and is dropped by
`Tick`. `Start` loads both files, creates a missing current key, and starts the
age of the key anew, as the code does.

**`AutoMint`** adds the gateway's cache to it. A handler reads the clock and the
generation without a lock (`ReadGen`), looks under the read lock (`Lookup`),
checks again under the write lock (`Recheck`, `Mint`), signs, reads the expiry
back (`ReadBack`) and derives from what it got (`DeriveCall`); the key may rotate
between any two of these. Signing and verifying wait for the mutex that `Rotate`
holds. Every step is a step of `Keyring` or leaves it alone.

**`Policy`** has documents as sets of rules. A rule holds of a tool and its
declared signature, does not, or cannot be evaluated. `Loadable` is what `Load`
refuses, `Evaluate` what it concludes from Cedar's answer (an error anywhere
makes it indeterminate), `Applied` the two actuators. Tool names are compared in
lower case, as `Evaluate` and the registry do.

**`Store`** is the bundle in force and the capped history of displaced ones.
`Load` (read and compile, no lock) and `Swap` (under the store's lock) are two
steps of an admin request or of the SIGHUP goroutine; the file may change before
and after. `install_cedar` of ship.py renames the file away (`Withdraw`) and then a
checked one into its place (`Publish`), and may be killed in between, so that a load may
find no file; an operator's editor may also put one there that does not load. `deployed` is a ghost: every bundle
put in force and not rolled back.

**`Gateway`** is `ServeHTTP` for one POST body per handler. A body is a sequence
of elements: calls, undecodable calls, a tools/list, others, or one of the four
kinds of body that are not MCP. `req[h].pc` follows the loop over the elements
(`lookup`, `evaluate`, `attest`, `indeterminate`), the routing of the body
(`ReplyBlocked`, `Forward`), the exchange with the upstream and what follows it
(`observe`, `record`). The registry and the store are read in steps of their own,
since both are shared. `blocked` is the set of stopped ids and `calls` the calls
that await a response, as in the code: what is left out of a body goes by id, not
by element. A stop that cannot be attested leaves an `unsure` record and a
`failed_open` one. `Exchange` completes, is hijacked or is aborted; `Observe` and
`RecordResponse` come after the client has the answer. What the ledger does with
a record is `Ledger`'s subject.

**`Upload`** counts offsets in signed batches, since `signed_prefix` and
`chunk_end` cut after `batchsig` lines only. A run of `ship.py` is `Begin` (the
lock and the listing of offsets), then per file `ReadFile`, and `Send` and
`Receive` for each chunk, with the one retry after a 409 (`Moved`). A request at
the server is one step per query of `ingest.ts`: device, chain, lines with
verification, the pin of a first key, and the transaction. Each answers from what
it read before. A file has a further history when its ledger was removed and
begun again; a batch is identified by file, history and number. `faults` bounds
killed runs, torn lines, revocations and requests that died. A process that was
killed leaves its request at work (`Drop` when it has answered).

Each file is given to gurdy-verify by itself, here and at the console, and so a segment
other than the first is refused unless what was sent declares why the segments before it
are missing. `WholeFrom` says from how many batches on a file shows that: one for a
chain's first segment, the batch with the retention record for a later one, or more than
it will ever have. A run that reads fewer reports a failure (`ReadFile`), a request that
would complete fewer is refused (`Verified`). A line that the proxy's buffer has cut is
completed by the tick that flushes the rest (`Mend`), unless the proxy crashed or its
write failed (`Crash`): then nobody completes it, every run that reads the file
ends there, and only an operator who begins the ledger anew helps.

**`Mirror`** is what the console promises: per file a signed prefix of one
history, which only grows.

**`Delegation`** keeps every token and every assertion issued, with the whole
line of hops. `Narrows` and `subsetOrTop` are translated with their empty lists
and stars. `VerifyCall` is two steps, because it parses and checks the expiry
before it locks the replay cache (`Parse`, `Check`); the sweep is every
`SweepEvery`th insert. `Restart` empties the cache and changes the nonce in the
audience.

## 4. Runs

| run | bounds | shows |
|---|---|---|
| `chain` | two keys, batches of 2, segments of 4 lines, 3 segments, 2 processes, every failure | the chain properties outside the four windows, and that a clean Close delivers an export that verifies |
| `chain_prune` | one key, no failing operation | a restart after a prune forks the chain (violation) |
| `ledger` | one request handler and one operator, one partition, queue of 1, one call each, 2 failures | panic freedom, record before effect, conservation of counts, each refused or dropped record and each tail an eviction gives up is counted, complete Close |
| `ledger_live` | the same, 1 failure | answers, Close and gap records come eventually |
| `shim` | two ids and notifications, 1 pending, 4 requests, lines of up to 2 | no response record on another call, no stopped call at the server |
| `keyring` | interval, lifetime and default lifetime of 2 ticks, 4 ticks, 3 keys, 1 token beside the cached one, 1 forced rotation, 1 failed write, 2 handlers, 1 principal | a live token survives scheduled rotations, failures and kills; disk and ring agree; the cache is never behind the ring |
| `gateway` | one request of one element that is no MCP, of a stopped call and another, or of 3 (two bodies), beside a tools/list, two admins with 2 changes, history of 1, registry of 1, three documents, both actuators | enforcement, loss, evidence and response records agree; rollback and registry keep what they have |
| `gateway_filter` | one body of two notifications, of which policy stops one | a stopped call is sent on (violation) |
| `upload` | two runs on one device with one file, 2 requests, 2 batches in chunks of 1, 2 histories, 1 fault | `Upload` implements `Mirror`; cursor and lines agree; "current" means current |
| `upload_live` | one run, three files (a first segment, a later one that declares itself in its second batch, a later one that never does), 2 requests, 2 batches in one chunk, 1 fault | every signed batch of a file that is accepted alone arrives, unless a torn line stops the runs |
| `upload_fork` | one run, one file, no fault | a forked ledger is reported as up to date (violation) |
| `delegation` | 2 instances with a restart each, 2 verifiers, 3 tokens, 4 scopes, lifetimes below and above the maximum, 4 ticks, sweep every 2 | narrowing, whole lines, single use of a live assertion |

Type invariants of `Ledger`, `Shim`, `AutoMint` and `Upload`, and `LandsOrClashes`
of `Upload`, are not in a run: TLAPS proves them for all bounds.

Why the bounds are enough. In `chain` a batch of 2 gives open, full and empty
batches; a segment of 4 lines rolls after the second or third record and 3
segments allow a prune that keeps 1 or 2; two processes give one restart, which
every hazard of resuming needs. `MaxLines` and `MaxSegments` only stop the
writers; 6 lines a file leave one that is due to roll room for a restart's mark, a
retention record and a signature. Only behaviours without a departure are continued
(`CONSTRAINT Undeparted`): what follows one is broken for good, and most properties
exempt it. `InheritedTailMarked` and the first part of `ClosedIsComplete` go on to hold
after two of the four windows; there the proof, not the run, shows them. In `ledger`
a queue of 1 is full whenever one entry waits, and a call of the one handler appends up to
three entries, so that it meets a full queue of its own making while the operator waits in
front of it or behind it. Two failures are one that breaks a writer with something in its
buffer and another that an eviction, a gap record or a later write runs into. More
handlers and partitions are in the proofs. The counters of
errors that gap records themselves cause are capped by `MaxErrors`. In `shim`
four requests allow an id to be used, reused and reused again with delayed
answers; one pending slot makes the map overflow. In `keyring` lifetime
and interval are equal, the tightest case the design allows (the code has 4 and 24
hours); four ticks give two scheduled rotations, the second of which is the first
that retires a key tokens were signed with, and three keys are the first and those of
two rotations; a forced one takes the place of the second and brings the two
close together for the cache. Two handlers race for one principal's
entry; principals share nothing but the write lock. In `gateway` the bodies of two
have a stopped call beside an allowed one of the same id, an undecodable one, a tools/list or a
stopped notification; those of three
have a stopped call or notification, a governed element and one that is not; two changes are
a reload that overtakes another or a rollback after a reload; a registry of 1
is full after one tool, with a second answer that names it again and another; the
second handler is there to change the registry under the first. The documents are
one without rules, one with a block, a flag and an evaluation error, and one that
does not load. In `upload` two batches in chunks of one need two posts, so that
each of two runs can be overtaken between them; the second history
starts behind, level with or ahead of what is stored. `upload_live` has the
file that gurdy-verify never accepts in front, because a run that fails on one goes on to
the next, and the one that is accepted from its second batch behind; both batches fit into one
chunk, since one that does not carry the declaration is refused. In `delegation` three tokens
are a line of three hops, or a root, a child and an assertion, or a root and two
assertions; the restart gives an assertion a stale audience; a maximum lifetime of 3
lies between the default of 2 and the 5 that is asked for.

Deadlock is not checked where the environment stops at a bound or, after Close,
nothing is left to do (all runs but those of `Upload`, whose timer always begins
another run). `ledger_live` and `upload_live` show instead that nobody waits for
ever.

**Fairness** of `Ledger` (`LiveSpec`). Every goroutine that can go on does (weak fairness of
the writer's own steps and of the grant of a lock). `run`'s `select` picks a
ready case at random, so an infinitely often ready case is taken: strong
fairness of the queue and of the tick. A handler's next step has strong
fairness because a blocked sender of a channel is served by the next receive and
a blocked reader gets the lock before a later writer. Nothing is assumed of
Decide, of failures or of the call of Close.

Of `Upload` (`FairSpec`): a timer starts `ship.py` again and again and a started
run goes on (weak fairness of `RunStep`), the server works on a request it has
(`Handle`), and the tick of a proxy that runs flushes the rest of a line that its buffer cut
(`Mend`; ledger.go:682-690). Nothing is assumed of a line that a crash or a failed write cut, of
signing, of failures, or of an operator: `CaughtUp` exempts the files from such a line on
(`Starved`) and the segments that are refused by themselves (`Accepted`). TLC finds either
exemption needed.

## 5. What is proved

`LedgerProofs` (about `Ledger`, for any sets of handlers and partitions, queue
capacity, number of calls and failures; from `LedgerAssumption`):
`TypeCorrect`, `NeverSendsOnClosed`, `BlockedIsRecorded`, `CloseCompletes`,
`GapsAreConserved`, `LossesAreCounted`. None of these properties is inductive. The inductive invariant `IInv` adds

* `CallInv`: a handler appends for the call it decided last, and as long as the
  decision is being recorded nothing has been done to the call. Without it a
  second record of a stopped call could take the place of the first.
* `QueueInv`: an entry someone waits for is in the queue exactly once, until it
  is answered. This is what makes an empty queue mean that all were answered.
* `AnswerInv`: who holds the answer "ok" finds the entry on file. This carries
  record-before-effect over the gap between the flush and the receive.
* `CloseInv`: once `run` has returned the gate is closed and the queue empty.

The two counts need a second invariant on top, `TallyInv`. What `writeGaps` has drained
and not yet recorded is empty outside it (`TakenInv`), so that a partition is counted
by its window, its drained window and its gap records, whichever of them a failure
leaves it in. A step then either keeps the counts of all partitions, or adds one gap to
one of them and to the total (`Grows`); and the step after which an entry is nowhere (a queue
that is full or closed, a write that fails) is one that adds (`CountsLoss`), one entry
at a time, as is the eviction that gives up a tail (`EvictLoses`). `LossesAreCounted` is
about these only. It does not say that every record lost is counted: what a tick leaves
in a broken writer still counts as taken by it, see `BufferedIsCounted` in section 6. `GapsConserved` is stated with the cardinality of a set of gaps rather than with
a sum over partitions, so that no induction over data is needed.

The steps of the writer keep handlers and queue as they are (`WriterFrame`); those of
a handler are all instances of one shape (`Moves`), for which the parts of `IInv`
are proved once.

`ShimProofs` (about `Shim`, for any ids, number of requests, batch size and
`MaxPending`; from `ShimAssumption`): `TypeCorrect`, `SlotsAreExact`,
`JoinsAreRight`, `StoppedIsKept`, `PlainStaysUnambiguous`. The inductive invariant says that request
numbers are unique and below `count`, that the requests of the line being
decided, those at the server and the answer being written are apart, that a
tracked call is one that is still to be answered, that ids in flight are shared
only as `traffic` says, and that a slot counts exactly the unclaimed calls of
its id. `JoinsAreRight` needs the last part: a slot that names a call names the
only one it could be an answer to. `PlainStaysUnambiguous` adds `PlainInv`: while the client
never reuses an id, no two requests that may still be answered share one, so that
`track` finds the slot of its call free. A claim before the write (shim.go) is what
makes it hold: an answer the client can see has left its slot already.

`KeyringProofs` (about `Keyring`, for any interval, lifetime and number of
concurrent requests; from `KeyringAssumption`, of which the part that matters is
`MaxTxnTTL <= RotateEvery`): `TypeCorrect`, `TimerInvalidatesNothing`,
`KillLosesNoToken`, `RingIsOnDisk`, `RetiredStayRetired`. The inductive invariant
adds

* `LockInv`: at most one rotator is past `Lock`.
* `KeyInv`: the key of a rotation under way is younger than all others, which is
  why a retired key cannot come back.
* `DiskInv`: the files are at most one step ahead of the ring, and how far is read
  off from where the rotator stands, or that it failed.
* `AgeInv`: a token of the previous key expires within a lifetime of the last
  rotation, and the previous file is ahead of the ring only when the interval is
  over; together these leave no live token to the key that a rotation drops.

`AutoMintProofs` (about `AutoMint`; also from `AutoAssumption`, that the renewal
margin is less than a default lifetime): `ImplementsKeyring` says that every
behaviour of the composition is one of `Keyring`, so that the theorems above hold
of it (`ComposedKeyring`); `AutoTypeCorrect`, `CachedTokensVerify` and
`FreshEntriesAreCurrent` are about the cache. Their invariant says of each entry
and each handler's token that its key is the current one while its generation
is, and one of the two for one generation more (`SignedFor`): the code reads the
generation before it signs, so an entry can only look older than its key.

`UploadProofs` (about `Upload`, for any devices, files, names, runs, requests,
chunk size, batches and histories; from `UploadAssumption`): `UploadTypeCorrect`,
`UploadMirrors` (the refinement `INSTANCE Mirror WITH written <- written, lines <- lines`:
initial states map to initial states, and every step is a step of `Mirror` or a stutter), `CursorIsTrue`,
`CurrentIsCurrent`, `LandingIsSafe`. The inductive invariant says that the stored lines
are `Prefix(g, cursor)` of one history and signed in it; that what a request or a
run holds of a file was signed; that a request which has verified either still
continues the stored lines or meets the unique key, since lines never go away
and a cursor never goes back; and that an offset a run was told is one the
console has reached. `CursorIsTrue` adds the cardinality of a prefix.

`DelegationProofs` (about `Delegation`, for any scopes, lifetimes, instances,
verifiers and numbers of restarts, and lines of any length; from
`DelegationAssumption`): `DelegationTypeCorrect`, `AuthorityNarrows`, `LineageIsHeld`,
`AcceptedOnceWhileLive`. `AuthorityNarrows` rests on `Narrows` being transitive,
which is where the rule of scope.go that a star counts only alone in its list is
needed. `AcceptedOnceWhileLive` rests on `CachedInv`: what was accepted, still lives and
is meant for the instance as now started is in that instance's cache; `NonceInv` and
`ParsedInv` carry that over a restart and over the gap between `Parse` and `Check`.

`ChainProofs` (about `Chain`, for any keys, batch and segment size, numbers of segments,
lines and processes, and any failing operation; from `KeysAssumption` and
`ChainAssumption`): `ChainInvariant`, `ChainTypeOK`, `ChainVerifiesHolds`, `SealedIsSignedHolds`,
`PruneDeclaredHolds`, `InheritedTailIsMarked`, `ClosedStaysComplete`, `ClosedExportVerifiesHolds`.
The inductive invariant `IInv` says, outside the four windows,
that

* the files are consecutive, each is `Whole` (`Walks`, with the sequence numbers counted
  from its header), and numbers grow from file to file (`FilesOK`);
* a file that another follows is `Sealed`: not empty, signed at its end, synced to its end,
  and continued by the next one. That it is synced is why a power loss, which may cut
  any file, cuts only the newest;
* the lowest file, when it is not the first, is covered by a synced retention record with a
  synced signature after it (`Declared`);
* the struct knows the end of the newest file, and what was synced has left the buffer
  (`Struct`): a dropped struct loses no synced line;
* every header names the key of the process (`Keyed`), which is what the check of
  `Start` is for.

A second invariant, `TailInv`, is about whose lines they are. It is not restricted to
behaviours without a departure: it holds until a process starts on an export whose segment 1
is gone, or takes a torn line for a whole one, because only then is a file taken up whose end
nobody has read, or not as what it is (`InOrder`). It says that

* each line was written by the process of the line before it, or follows a signature,
  or is a `resumed` mark; and every file that another follows has a synced line (`Laid`);
* the struct stands at the newest file, or after a roll that could not open the next one
  at the one after it (`Placed`);
* the last line of its file is of this process or a signature (`Own`), so that what it
  appends next needs no mark;
* no record is left uncovered when `unsigned` is zero (`Counted`), and `unsigned` is zero
  whenever the partition holds no handle (`Resting`).

`ClosedIsComplete` excludes these two as well: after a start without segment 1, a roll that cannot open a file
may leave the struct at an older file that exists and holds unsigned records of
another process. TLC does not get there, since it stops at departures; the proof did.

A third one, `Ended`, says that a struct without a failed buffer and without unsigned lines
is at a signature or at a bare header. With it `ClosedExportVerifiesHolds` shows that the files a
clean `Close` leaves pass `GurdyVerify`, that is every check `verify.go` and `gurdy-verify` make
(`ExportVerifies`). Where a greatest or a least line is needed, it comes from the least
number among the prefixes that lack one (`Least`), since induction over data is out of the
prover's reach.

The lemmas come in two layers: what appending a line, beginning a file, cutting one and
dropping some does to `FilesOK` and `Declared`, for any files; and one lemma per operator
of `Chain`, so that each action's proof is the composition of those of its calls.

`GatewayProofs` (about `Store` and `Gateway`, for any bodies, bundles, numbers of
requests, reloads and rollbacks, and history length; from `PolicyAssumption`,
`StoreAssumption` and `GatewayAssumption`): `RollbacksWalkBack`, `EnforcedIsStoppedHolds`,
`NothingElseIsLostHolds`, `EffectsAreOnRecordHolds`, `ResponsesJoinHolds`, `GatewayTypeCorrect`,
`DeclaredStaysDeclared`. The inductive
invariant says of each request that

* its records name elements already decided, and say what their bundle concludes of them
  (`RecordInv`);
* the decided elements are the stopped ones and the calls that await a response, and no
  element is both; the stopped ids are those of the stopped calls (`DecidedInv`);
* a request that has been routed was sent on, answered here, or is a refused model call
  (`SentInv`);
* the response records of an element follow from these (`Expected`).

Without `DecidedInv` a second record of an element could take the place of the first;
it is what makes the position in the body (`Past`) decide which records exist. Of the
store, `history` with `current` is a suffix of `deployed`, whose cap cuts at the
other end.

Of the registry, `Observe` is a fold over the declarations of an answer in the code; the
model states what it amounts to: the first declarations fit until it is full, and the last
signature of a tool that fits counts. With this closed form `GatewayTypeCorrect` and
`DeclaredStaysDeclared` need no induction over the answer.

Only model-checked: the liveness properties `CallerAnswered`, `CloseReturns`, `GapSurfaces`
and `CaughtUp`, since the prover does not reason about fairness. Every invariant and every
action property of a passing run is a theorem. The three runs that end in a violation
have no theorem beside them.

## 6. Where code and documentation disagree

Three runs end in a violation on purpose; each checks one sentence of the source.

* `chain_prune`: after segment 1 is pruned a restart starts a second segment 1, although
  ledger.go:921 says that resuming continues the last segment.
* `gateway_filter`: a batch of one stopped and one allowed notification. Both have the
  id "", so the filter keeps nothing and returns nil, "nothing remains to send
  upstream" (block_rpc.go:23-24); `ServeHTTP` takes nil for "leave the body as it is" and
  forwards the stopped call, whose durable record says it was blocked.
* `upload_fork`: ship.py:490-494 refuses an offset past the local signed prefix, but
  the loop that would call it (616) is not entered with such an offset.

Seven more such sentences stand as definitions in the modules. Given as the only
INVARIANT (PROPERTY for `SiblingsForwarded`) of a configuration like those beside
them, TLC refutes each in a short trace:

* `CrashKeepsChain` (`Chain`; ledger.go:400, "chain continues from the last line"): a
  kill right after a roll leaves an empty segment; the next process starts a chain
  with seq 1 in it.
* `RestartKeepsIdentity` (`Chain`; ledger.go:401, "restarts keep one verifiable chain
  identity"): the verifier groups segments by the instance in their header
  (gurdy-verify main.go:236), so that it takes what two processes wrote to one chain
  for two chains, one of which lacks its beginning.
* `BufferedIsCounted` (`Ledger`; ledger.go:1045-1046, "coverage gaps are surfaced, never
  invisible", and docs/spec.md:290, "Coverage gaps are records, not log lines"): the tick
  ignores the errors of `signBatch` and `Flush` (ledger.go:682-690), so that records in the buffer of
  a writer that just broke are lost with nothing counted, until a later write to the
  partition fails, an eviction gives the writer up (one count, however many
  records), or Close returns the error.
* `SiblingsForwarded` (`Shim`; block_rpc.go:26, "so siblings can still be forwarded"):
  a blocked notification takes the allowed notifications of its batch with it.
* `LawfulIsNeverCrossed` (`Shim`; shim.go:71-73, on ids in flight): an answer
  beyond `maxInspect` leaves its slot behind, and a later request under the same id has
  its answer recorded on the old call.
* `OneForcedInvalidatesNothing` (`Keyring`; SECURITY.md, "a single call invalidates
  nothing", and main.go:437, "every token already minted keeps verifying for its
  whole life"): `POST /keys/rotate` shortly after or before a scheduled rotation
  retires the key of tokens still inside their lifetime.
* `SingleUse` (`Delegation`; docs/spec.md:203, "Never reusable"): an assertion that
  expires between `Parse` and `Check` may be accepted again after a sweep; until it
  expires `SingleUseWhileLive` holds.

Smaller ones, visible as the windows and exemptions of the properties:

* A segment that holds only its header when the ledger is closed is never signed, and
  gurdy-verify rejects it (`BareHeader`; Close only signs a partition with unsigned
  records, ledger.go:635).
* A batch stopped in part is sent on without its stopped calls, and no error is made
  up for those: their client never hears of them, yet each has an "error" response
  record (`StoppedInPart`).
* A batch whose calls are all stopped is answered by the proxy, and its other requests
  are dropped (`OnlyStopped`, main.go:746).
* An allowed call that shares its id with a stopped one is dropped with it although its
  record says forwarded (`SharedId`).
* A rule that cannot be evaluated hides a matching rule that blocks (`MustStop` exempts
  it, policy.go:232).
* A registry that is full refuses also the new signature of a tool it knows
  (toolsig.go:104), and a tool list is learnt only once the client has it (main.go:774).
* Two reloads at a time may leave the older file in force; `RollbackWalksBack` says only
  that the history is right.
* An exchange that breaks off leaves its calls without a response record
  (`ResponsesJoin` exempts "aborted").
* Two devices with a ledger of one name: either may take the other's offset for its own
  and ship nothing (`NameShared`, ship.py:222-227).
* A torn last line ends the whole run of ship.py (`json.loads`, ship.py:104, is not caught by
  602-648), and a crash leaves one that nobody completes: the files behind it, the policy pull and
  the heartbeat wait for an operator, although ship.py:646-647 says "One partition must
  not cost the run its policy pull and heartbeat" (`Starved`). A timed out request ends the
  run as well.
* A segment that a roll began is never shipped: gurdy-verify gets it alone and says "chain
  begins at segment" 2 (gurdy-verify main.go:268-277, ship.py:183-192 and 609-612). After a prune it
  is shipped only if the first chunk already holds the retention record, since the
  console verifies what it has with what it gets (`Accepted`, ingest.ts:250-256).
* The loser of two overlapping first uploads may get a 400 or a 500 where the docstring
  of `ship_lock` speaks of a 409; the next run repairs it.

## 7. Not modelled

Cryptography (a signature is a line that names a key), file contents, timestamps
and heartbeats, the totals a verifier reports, the error of `File.Close` (but in an
eviction), failures of the `start` and `shutdown` records, a second `Close`, an error of a client's or server's pipe in
the shim, ids longer than `maxIDLen`; of the gateway the errors of reading a body,
headers, telemetry, and the routes of the admin API that change nothing here; of the
policy Cedar's language and the tarball format; of extractors what they read out of
arguments; of the identity service the socket file and its lock, a power loss that undoes
a rename (keyfile.go:155), and two processes that share a key directory; of the shipper the
policy pull but for its two renames, the heartbeat, bearer tokens and the verifier's answer
beyond "this continues what is held, and does not begin late unexplained". `Ledger` adds to
the total and to the window of a gap in one step; in `countGap` the total follows the unlock
(ledger.go:585-586), so that /health may lag behind for a moment.

Known limits of what is modelled: a failed roll gives up the old handle and advances the
segment before the next file opens (ledger.go:806, the first window of `Chain`); a flush
that fails after `AppendSync`'s record was appended makes the call fail open without
a gap (ledger.go:672); an eviction that loses a buffered tail counts one write error
however many records it held (ledger.go:1047), and what a failed tick leaves in a buffer is
not counted (section 6); the age of the current key starts anew with
each process (keyring.go:76), so that a deployment restarted daily never rotates. The
modules do what the code does in each of these; no property forbids it.

The components marked not modelled in section 1 are listed with their reasons in
`PROJECT.json`.
