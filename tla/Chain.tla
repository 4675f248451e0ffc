------------------------------- MODULE Chain --------------------------------
(***************************************************************************)
(* One partition of the ledger (internal/ledger/ledger.go): the partition  *)
(* struct in the writer goroutine's memory, the segment files on disk, and *)
(* every step that changes them: writing a record, the 2 s tick, rolling   *)
(* to the next segment, giving up the file handle, being forgotten,        *)
(* pruning, closing, a kill, a power loss and a restart.                   *)
(*                                                                         *)
(* The other partitions appear only through what they do to this one: they *)
(* take its file handle (Evict) and its place in the map (Forget).  A file *)
(* operation may fail; the first that does ends its step, so `fail` is the *)
(* kind of operation that fails in a step, or "none".                      *)
(***************************************************************************)
EXTENDS Export

CONSTANTS BatchMax,     \* batchMaxRecords: records a batch may hold
          SegmentMax,   \* maxSegmentBytes, in lines
          Faults,       \* the operations that may fail
          MaxSegments,  \* bound: segment files of the partition
          MaxLines,     \* bound: lines at which no more is written to a file
          MaxRuns       \* bound: processes that open the ledger, one by one

ASSUME ChainAssumption ==
    /\ BatchMax \in Nat \ {0} /\ SegmentMax \in Nat \ {0}
    /\ MaxSegments \in Nat \ {0} /\ MaxLines \in Nat /\ MaxRuns \in Nat
    /\ Faults \subseteq {"append", "flush", "sync", "open", "unlink"}

VARIABLES c,     \* the partition: files and in-memory struct (see ChainType)
          up,    \* a process runs
          run,   \* number of that process (its instance_id)
          key    \* the signing key it loaded

vars == <<c, up, run, key>>

Segments == 1..MaxSegments

(***************************************************************************)
(* lines[s] is all that was written to segment s, and its first synced[s]  *)
(* lines are on stable storage.  Of the open segment the first `flushed`   *)
(* lines have left the bufio.Writer; every other file has no buffer.  torn *)
(* is the file that ends in a part of a line (0: none).  known: the struct *)
(* is in l.parts; open: p.f # nil; broken: the sticky error of the         *)
(* bufio.Writer.  departed remembers which of four windows was met in      *)
(* which the code breaks its own chain: a roll whose next file cannot be   *)
(* opened; a restart that finds the latest segment empty; a restart after  *)
(* segment 1 was pruned; a last line that lacks only its newline, behind   *)
(* which the next one lands.                                               *)
(***************************************************************************)
Departures == {"failedRoll", "emptySegment", "prunedFirst", "gluedTail"}

ChainType ==
    [lines : [Segments -> Seq(Line)], files : SUBSET Segments,
     torn : 0..MaxSegments, flushed : Nat, synced : [Segments -> Nat],
     known : BOOLEAN, open : BOOLEAN, broken : BOOLEAN,
     seq : Nat, head : Nat \X Nat, unsigned : Nat, first : Nat,
     segment : Segments, bytes : Nat, departed : SUBSET Departures]

TypeOK == c \in ChainType /\ up \in BOOLEAN /\ run \in 0..MaxRuns /\ key \in Keys \cup {NoKey}

Current(d) == d.lines[d.segment]

\* The directory as a reader of the files sees it, when nothing is buffered.
OnDisk(d) == [s \in {t \in d.files : d.lines[t] # <<>>} |-> d.lines[s]]
-----------------------------------------------------------------------------
(* Lines.                                                                  *)

NewLine(d, kind) ==
    [kind |-> kind, seq |-> d.seq + 1, prev |-> d.head, instance |-> run,
     segment |-> 0, kid |-> NoKey, first |-> 0, through |-> 0]

Header(d)       == [NewLine(d, "header") EXCEPT !.segment = d.segment, !.kid = key]
BatchSig(d)     == [NewLine(d, "batchsig") EXCEPT !.kid = key, !.first = d.first]

\* Mutant of Retention: declared up to the line before the last one removed.
RetentionShort(d, n) == [NewLine(d, "retention") EXCEPT !.through = n - 1]

Retention(d, n) == [NewLine(d, "retention") EXCEPT !.through = n]

\* Mutant: every kind of line counts, and a header or a signature counts down.
PutCountingDown(d, l) ==
    [d EXCEPT !.lines[d.segment] = Append(@, l), !.bytes = @ + 1,
              !.seq = l.seq, !.head = Hash(l),
              !.unsigned = IF l.kind \in Evidence THEN @ + 1 ELSE @ - 1]

\* appendLine, once the bufio.Writer took the line.
Put(d, l) ==
    [d EXCEPT !.lines[d.segment] = Append(@, l), !.bytes = @ + 1,
              !.seq = l.seq, !.head = Hash(l),
              !.unsigned = IF l.kind \in Evidence THEN @ + 1 ELSE @]

\* appendLine: a write that spills the buffer may fail, for good.
AppendLine(d, l, fail) ==
    IF d.broken \/ fail = "append" THEN [d EXCEPT !.broken = TRUE] ELSE Put(d, l)

\* bufio.Writer.Flush.
Flush(d, fail) ==
    IF d.broken \/ (fail = "flush" /\ d.flushed < Len(Current(d)))
    THEN [d EXCEPT !.broken = TRUE]
    ELSE [d EXCEPT !.flushed = Len(Current(d))]

SignBatch(d, fail) ==
    LET s == AppendLine(d, BatchSig(d), fail)
    IN  IF s.broken THEN s ELSE Flush([s EXCEPT !.unsigned = 0], fail)

\* Mutant: a batch of one record is left open.
SignTailOfTwo(d, fail) == IF d.unsigned > 1 THEN SignBatch(d, fail) ELSE d

\* Sign only an open batch: what the tick, evictLRU, roll and Close do.
SignTail(d, fail) == IF d.unsigned > 0 THEN SignBatch(d, fail) ELSE d
-----------------------------------------------------------------------------
(* Files.                                                                  *)

OpenFile(d) ==
    [d EXCEPT !.files = @ \cup {d.segment}, !.open = TRUE, !.broken = FALSE,
              !.flushed = Len(Current(d))]

\* Mutant: the fsync is missing.
SyncMissing(d) == d

\* File.Sync.
Sync(d) == [d EXCEPT !.synced[d.segment] = d.flushed]

\* latestSegment: the end of the run of files that starts at segment 1.
LatestSegment(files) ==
    IF 1 \notin files THEN 0
    ELSE CHOOSE n \in files : 1..n \subseteq files /\ n + 1 \notin files

\* roll.  The handle is closed and the segment advanced before the next file
\* is opened, so an open that fails leaves a segment without its header.
Roll(d, fail) ==
    LET s == Flush(SignTail(d, fail), fail)
        n == [Sync(s) EXCEPT !.open = FALSE, !.segment = @ + 1, !.bytes = 0, !.flushed = 0]
    IN  IF s.broken \/ fail = "sync" THEN s
        ELSE IF fail = "open"
             THEN [n EXCEPT !.departed = @ \cup {"failedRoll"}]
             ELSE Put(OpenFile(n), Header(n))

\* Mutant: one inherited line passes as none.
InheritedLessOne(f) == IF LastSig(f) = Len(f) THEN 0 ELSE Len(f) - LastSig(f) - 1

\* scanTail's count of the lines at the tail that no signature covers.
Inherited(f) == Len(f) - LastSig(f)

\* part(), for a partition that is not in the map: the struct is rebuilt from
\* the tail of the latest segment, the unsigned tail found there is marked,
\* and an empty file gets a header.
Revive(d) ==
    LET latest == IF LatestSegment(d.files) = 0 THEN 1 ELSE LatestSegment(d.files)
        f      == d.lines[latest]
        fresh  == f = <<>>
        p == OpenFile([d EXCEPT
               !.known = TRUE, !.segment = latest, !.unsigned = 0, !.first = 0,
               !.seq = IF fresh THEN 0 ELSE f[Len(f)].seq,
               !.head = IF fresh THEN NoHash ELSE Hash(f[Len(f)]),
               !.bytes = Len(f),
               !.departed = @ \cup
                  (IF fresh /\ latest > 1 THEN {"emptySegment"} ELSE {}) \cup
                  (IF 1 \notin d.files /\ d.files # {} THEN {"prunedFirst"} ELSE {})])
    IN  IF fresh THEN Put(p, Header(p))
        ELSE IF Inherited(f) > 0 THEN Put(p, NewLine(p, "resumed"))
        ELSE p

\* A torn last line that lacks only its newline passes for a whole one. What
\* is written next lands behind it, and the two together are no line.
Glue(d) ==
    LET p == [Revive(d) EXCEPT !.torn = 0, !.departed = @ \cup {"gluedTail"}]
    IN  Put(p, [NewLine(p, "resumed") EXCEPT !.prev = NoHash])

\* part(): the file cannot be opened.  (A torn line that is no record by itself
\* is refused, which changes nothing either: then no record is written.)
PartFails(d, fail) == ~d.open /\ fail = "open"

Part(d) == IF ~d.known
           THEN IF d.torn # 0 /\ d.torn = LatestSegment(d.files) THEN Glue(d) ELSE Revive(d)
           ELSE IF ~d.open THEN OpenFile(d)
           ELSE d

\* Only the first k lines of file s remain, and perhaps a part of the next.
Cut(d, s, k, torn) ==
    [d EXCEPT !.lines[s] = SubSeq(@, 1, k),
              !.synced[s] = IF k < @ THEN k ELSE @,
              !.torn = IF torn THEN s ELSE IF @ = s THEN 0 ELSE @]

\* The struct is gone; only the files remain.
NoStruct(d) ==
    [d EXCEPT !.known = FALSE, !.open = FALSE, !.broken = FALSE, !.seq = 0,
              !.head = NoHash, !.unsigned = 0, !.first = 0, !.bytes = 0,
              !.flushed = 0, !.segment = 1]

\* The struct of d is dropped together with what its buffer still holds, of
\* which any part may have spilled to the file before.
Dropped(d) ==
    {Cut(NoStruct(d), d.segment, k, FALSE) : k \in d.flushed..Len(Current(d))} \cup
    {Cut(NoStruct(d), d.segment, k, TRUE) :
        k \in {n \in d.flushed..Len(Current(d)) : n < Len(Current(d)) \/ d.broken}}

Unlink(d, S) ==
    [d EXCEPT !.files = @ \ S,
              !.lines = [s \in Segments |-> IF s \in S THEN <<>> ELSE @[s]],
              !.synced = [s \in Segments |-> IF s \in S THEN 0 ELSE @[s]]]
-----------------------------------------------------------------------------
(* Steps of the writer goroutine.                                          *)

\* write, after part() returned p.
WriteRecord(p, fail) ==
    LET w == AppendLine(p, NewLine(p, "record"), fail)
        b == [w EXCEPT !.first = IF w.unsigned = 1 THEN w.seq ELSE @]
        s == IF b.unsigned >= BatchMax THEN SignBatch(b, fail) ELSE b
    IN  IF w.broken THEN w
        ELSE IF s.bytes >= SegmentMax THEN Roll(s, fail)
        ELSE s

\* Bounds: nothing is written once a file is full or the last segment reached.
RoomForLines == \A s \in Segments : Len(c.lines[s]) < MaxLines
RoomToRoll   == MaxSegments \notin c.files /\ c.segment < MaxSegments

\* A record from the queue.
Write(fail) ==
    /\ up /\ RoomForLines /\ RoomToRoll
    /\ ~PartFails(c, fail)
    /\ c' = WriteRecord(Part(c), fail)
    /\ UNCHANGED <<up, run, key>>

\* A record whose caller waits: the file is flushed before the answer.
WriteSync(fail) ==
    /\ up /\ RoomForLines /\ RoomToRoll
    /\ ~PartFails(c, fail)
    /\ LET w == WriteRecord(Part(c), fail)
       IN  c' = IF w.open THEN Flush(w, fail) ELSE w
    /\ UNCHANGED <<up, run, key>>

Tick(fail) ==
    /\ up /\ c.open
    /\ c' = Flush(SignTail(c, fail), fail)
    /\ UNCHANGED <<up, run, key>>

\* Mutant: a failed sign or flush does not make the ledger forget the struct.
EvictTrusting(fail) ==
    /\ up /\ c.open
    /\ LET s == Flush(SignTail(c, fail), fail)
       IN  \/ ~s.broken /\ c' = [s EXCEPT !.open = FALSE]
           \/ s.broken /\ \E d \in Dropped(s) :
                 c' = [s EXCEPT !.open = FALSE, !.lines = d.lines, !.torn = d.torn]
    /\ UNCHANGED <<up, run, key>>

\* evictLRU picked this partition: another one needs its file handle.  When
\* the tail could not be signed and flushed the struct is forgotten too.
Evict(fail) ==
    /\ up /\ c.open
    /\ LET s == Flush(SignTail(c, fail), fail)
       IN  \/ ~s.broken /\ c' = [s EXCEPT !.open = FALSE]
           \/ s.broken /\ c' \in Dropped(s)
    /\ UNCHANGED <<up, run, key>>

\* forgetColdest picked this partition.
Forget ==
    /\ up /\ c.known /\ ~c.open
    /\ c' = NoStruct(c)
    /\ UNCHANGED <<up, run, key>>

\* prunePartition, which runs for the partitions in the map: declare, sign,
\* sync, and only then unlink.
Prune(keep, fail) ==
    /\ up /\ c.known /\ RoomForLines
    /\ ~PartFails(c, fail)
    /\ LET p    == Part(c)
           last == p.segment - keep
           old  == p.lines[last]
           s == Flush(SignBatch(AppendLine(p, Retention(p, old[Len(old)].seq), fail),
                                fail), fail)
       IN  IF last < 1 \/ p.torn = last THEN c' = p
           ELSE IF old = <<>> THEN c' = p
           ELSE IF s.broken \/ fail = "sync" THEN c' = s
           ELSE \E n \in 0..last :
                  /\ n < last => fail = "unlink"
                  /\ c' = Unlink(Sync(s), 1..n)
    /\ UNCHANGED <<up, run, key>>

\* Close, after the queue is drained: sign, flush and close an open file.
Close(fail) ==
    /\ up
    /\ up' = FALSE
    /\ IF ~c.open THEN c' = NoStruct(c)
       ELSE LET s == Flush(SignTail(c, fail), fail)
            IN  \/ ~s.broken /\ c' = NoStruct(s)
                \/ s.broken /\ c' \in Dropped(s)
    /\ UNCHANGED <<run, key>>
-----------------------------------------------------------------------------
(* Crashes and restarts.                                                   *)

\* The process is killed.  What had left the buffer stays; part of the rest
\* may have spilled.  A kill inside the step that creates a segment may come
\* before the file is created.
Kill ==
    /\ up
    /\ up' = FALSE
    /\ \/ ~c.open /\ c' = NoStruct(c)
       \/ c.open /\ c' \in Dropped(c)
       \/ /\ c.open /\ c.flushed = 0 /\ Len(Current(c)) <= 1
          /\ c' = Unlink(NoStruct(c), {c.segment})
    /\ UNCHANGED <<run, key>>

\* The machine loses power: of a file, and of its name, only what was synced
\* is certain to remain.  (One file at a time; the step repeats.)
PowerLoss ==
    /\ up' = FALSE
    /\ \E s \in c.files :
         \/ \E k \in c.synced[s]..Len(c.lines[s]), torn \in BOOLEAN :
              /\ torn => k < Len(c.lines[s]) \/ c.torn = s
              /\ c' = Cut(NoStruct(c), s, k, torn)
         \/ c.synced[s] = 0 /\ c' = Unlink(NoStruct(c), {s})
    /\ UNCHANGED <<run, key>>

\* Open: the next process, under the key its state directory holds.
\* checkChainKeys refuses an export whose headers name another one.
Start(k) ==
    /\ ~up /\ run < MaxRuns
    /\ \A s \in c.files : c.lines[s] # <<>> /\ c.lines[s][1].kind = "header"
                            => c.lines[s][1].kid = k
    /\ up' = TRUE /\ run' = run + 1 /\ key' = k
    /\ UNCHANGED c
-----------------------------------------------------------------------------
Init ==
    /\ c = [lines |-> [s \in Segments |-> <<>>], files |-> {}, torn |-> 0,
            flushed |-> 0, synced |-> [s \in Segments |-> 0], known |-> FALSE, open |-> FALSE,
            broken |-> FALSE, seq |-> 0, head |-> NoHash, unsigned |-> 0,
            first |-> 0, segment |-> 1, bytes |-> 0, departed |-> {}]
    /\ up = FALSE /\ run = 0 /\ key = NoKey

Next ==
    \/ \E fail \in Faults \cup {"none"} :
         \/ Write(fail) \/ WriteSync(fail) \/ Tick(fail) \/ Evict(fail) \/ Close(fail)
         \/ \E keep \in Segments : Prune(keep, fail)
    \/ Forget
    \/ Kill
    \/ PowerLoss
    \/ \E k \in Keys : Start(k)

Spec == Init /\ [][Next]_vars
-----------------------------------------------------------------------------
(* Properties.                                                             *)

\* Every file walks (verify.go) and continues the file before it.
Intact ==
    \A s \in c.files : c.lines[s] # <<>> =>
        /\ Walks(c.lines[s])
        /\ c.lines[s][1].kind = "header" /\ c.lines[s][1].segment = s
        /\ s - 1 \in c.files =>
              /\ c.lines[s - 1] # <<>>
              /\ Continues(c.lines[s - 1], c.lines[s])

\* Whatever the order of writes, failed operations, evictions, prunes, kills
\* and power losses, the lines on disk form one chain across their files,
\* unless one of the four windows of Departures was met.
ChainVerifies == c.departed = {} => Intact

\* roll seals before it continues: only the latest segment may end in lines
\* that no signature covers.
SealedIsSigned ==
    c.departed = {} =>
        \A s \in c.files : s + 1 \in c.files =>
            c.lines[s][Len(c.lines[s])].kind = "batchsig"

\* The windows after which the files still show what each process wrote.
InOrder(D) == "prunedFirst" \notin D /\ "gluedTail" \notin D

\* No process signs lines of an earlier one as its own: between them stands a
\* signature of the earlier process or a "resumed" record (scanTail, part).
InheritedTailMarked ==
    InOrder(c.departed) =>
        \A s \in c.files : \A i \in 2..Len(c.lines[s]) :
            c.lines[s][i].instance # c.lines[s][i-1].instance =>
                c.lines[s][i-1].kind = "batchsig" \/ c.lines[s][i].kind = "resumed"

\* What forgetColdest, the tick and Close rely on to skip an evicted partition:
\* its records are signed and flushed, and the head it will resume from is the
\* last line of the file.
ClosedIsComplete ==
    c.known /\ ~c.open =>
        /\ InOrder(c.departed) =>
              \A i \in 1..Len(Current(c)) : Current(c)[i].kind \in Evidence =>
                  \E j \in i+1..Len(Current(c)) : Current(c)[j].kind = "batchsig"
        /\ c.departed = {} => /\ Current(c) # <<>>
                              /\ c.head = Hash(Current(c)[Len(Current(c))])
                              /\ c.seq = Current(c)[Len(Current(c))].seq

\* Record before effect: when the first segments are gone, a retention record
\* that covers them is on stable storage, under a signature that is too.
PruneDeclared ==
    c.departed = {} =>
        \A s \in c.files : s > 1 /\ (\A t \in c.files : s <= t) =>
            \E t \in c.files : \E i, j \in 1..c.synced[t] :
                /\ c.lines[t][i].kind = "retention"
                /\ c.lines[t][i].through >= c.lines[s][1].seq - 1
                /\ i < j /\ c.lines[t][j].kind = "batchsig"

\* What Close signs nothing of, a header alone in its segment, and what seamProblems does not
\* join, segments of one chain that two processes began.
BareHeader == Len(Current(c)) = 1
TwoInstances == \E s, t \in c.files : c.lines[s][1].instance # c.lines[t][1].instance

\* A partition that was written to and closed without error passes gurdy-verify as it is delivered, through
\* rolls, evictions, prunes and what earlier processes left, but for those two windows
\* (ledger.go:604, verify.go, gurdy-verify).
ClosedExportVerifies ==
    [][/\ c.known /\ ~c.broken /\ c.departed = {} /\ ~BareHeader /\ ~TwoInstances
       /\ Close("none")
       => GurdyVerify(OnDisk(c'))]_vars

(* What the documentation states and the code does not keep.               *)

\* ledger.go:400, "chain continues from the last line": also when the process
\* was killed before the header of a new segment left the buffer.
CrashKeepsChain == c.departed \subseteq {"emptySegment"} => Intact

\* ledger.go:921, "Resume continues the last segment": also once segment 1 was
\* pruned.
PruneKeepsChain == c.departed \subseteq {"prunedFirst"} => Intact

\* ledger.go:402, "restarts keep one verifiable chain identity": an export that
\* is complete, signed to its end and joined at every seam passes the verifier.
Complete(D) ==
    /\ \A s \in DOMAIN D :
          /\ VerifyFile(D[s]) /\ Uncovered(D[s]) = 0
          /\ s > 1 => s - 1 \in DOMAIN D /\ Continues(D[s - 1], D[s])

RestartKeepsIdentity ==
    ~up /\ c.torn = 0 /\ Complete(OnDisk(c)) => GurdyVerify(OnDisk(c))
=============================================================================
