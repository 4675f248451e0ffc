------------------------------- MODULE Ledger -------------------------------
(***************************************************************************)
(* The ledger as the gateway uses it: request handlers that decide calls   *)
(* (cmd/gurdy-proxy: decideCall and the response that follows) and append  *)
(* their records to a bounded queue, one writer goroutine that drains it,  *)
(* the coverage gaps both of them count, and Close racing all of that      *)
(* (internal/ledger/ledger.go).                                            *)
(*                                                                         *)
(* A file is reduced to the set of records written to it, those of them    *)
(* still in the buffer, and the sum of its gap records: the chain inside a *)
(* file is module Chain.                                                   *)
(***************************************************************************)
EXTENDS Integers, Sequences, FiniteSets

CONSTANTS Handlers,    \* goroutines that call the ledger
          Operators,   \* those that serve the admin API's prune, not requests
          Parts,       \* partitions
          NoEntry,     \* what a handler appends that appends nothing
          QueueCap,    \* queueCap
          MaxCalls,    \* bound: calls a handler decides
          MaxFaults,   \* bound: operations that fail
          MaxErrors    \* bound: write errors up to which a gap record's is counted

ASSUME LedgerAssumption ==
    /\ Operators \subseteq Handlers
    /\ Handlers # {} /\ IsFiniteSet(Handlers) /\ Parts # {} /\ IsFiniteSet(Parts)
    /\ QueueCap \in Nat \ {0} /\ MaxCalls \in Nat \ {0}
    /\ MaxFaults \in Nat /\ MaxErrors \in Nat

VARIABLES pc,       \* handler -> where it is in Append / AppendSync / Prune
          doing,    \* handler -> the entry it appends: its call, partition, kind
          made,     \* handler -> how many calls it has decided
          answer,   \* handler -> what its done channel holds
          acted,    \* call -> what was done to its traffic
          asked,    \* the entries handed to Append so far (history)
          queue,    \* the queue channel
          gate,     \* closeMu and l.closed: Close has taken it, or waits for it
          writer,   \* where the owner of l.parts is: run(), later Close
          pending,  \* l.gaps: part -> kind -> count
          taken,    \* the counts writeGaps has drained and not yet recorded
          total,    \* l.Dropped, l.WriteErrors, l.IdentityFail
          written,  \* part -> the entries appended to its file and not given up
          buffered, \* part -> those of them that may not have left the buffer
          gone,     \* part -> the tails given up with a buffer (history)
          opened,   \* the partitions that hold a file handle
          recorded, \* part -> kind -> what the gap records of the file report
          broken,   \* part -> the sticky error of its bufio.Writer
          closeErr, \* Close met an error
          faults    \* operations that failed so far

handlerVars == <<pc, doing, made, answer, acted, asked>>
gapVars     == <<pending, taken, recorded, total>>
fileVars    == <<written, buffered, gone, opened, broken, faults>>
vars == <<handlerVars, queue, gate, writer, gapVars, fileVars, closeErr>>

Calls == Handlers \X (1..MaxCalls)

\* "decision": a call that is forwarded whatever becomes of its record.
\* "blocked": AppendSync of a call to be stopped.  "failedopen": the same call
\* when that failed.  "prune": Prune's ctl entry.
EntryKinds == {"decision", "blocked", "failedopen", "response", "prune"}
Entry      == [call : Calls, part : Parts, kind : EntryKinds]
Waits(e)   == e.kind \in {"blocked", "prune"}

GapKinds  == {"dropped", "writeErrors", "identityFail"}
NoGaps    == [k \in GapKinds |-> 0]

TypeOK ==
    /\ pc \in [Handlers -> {"idle", "enter", "sending", "waiting"}]
    /\ doing \in [Handlers -> Entry \cup {NoEntry}]
    /\ \A h \in Handlers : pc[h] # "idle" => doing[h] \in Entry
    /\ made \in [Handlers -> 0..MaxCalls]
    /\ answer \in [Handlers -> {"none", "ok", "error"}]
    /\ acted \in [Calls -> {"none", "forwarded", "blocked"}]
    /\ asked \subseteq Entry
    /\ queue \in Seq(Entry) /\ Len(queue) <= QueueCap
    /\ gate \in {"open", "closing", "closed"}
    /\ writer \in {"select", "gaps", "flush", "done", "lastGaps", "seal", "returned"}
    /\ pending \in [Parts -> [GapKinds -> Nat]]
    /\ taken \in [Parts -> [GapKinds -> Nat]]
    /\ total \in [GapKinds -> Nat]
    /\ recorded \in [Parts -> [GapKinds -> Nat]]
    /\ written \in [Parts -> SUBSET Entry]
    /\ buffered \in [Parts -> SUBSET Entry] /\ \A p \in Parts : buffered[p] \subseteq written[p]
    /\ gone \in [Parts -> SUBSET SUBSET Entry] /\ opened \subseteq Parts
    /\ broken \in [Parts -> BOOLEAN]
    /\ closeErr \in BOOLEAN /\ faults \in 0..MaxFaults
-----------------------------------------------------------------------------
(* Gaps.                                                                   *)

\* countGap: the window of the partition and the total of the run.
CountGap(p, k) ==
    /\ pending' = [pending EXCEPT ![p][k] = @ + 1]
    /\ total' = [total EXCEPT ![k] = @ + 1]
    /\ UNCHANGED <<taken, recorded>>

\* Mutant: what was drained is not cleared.
TakeGapsUncleared == taken' = pending /\ UNCHANGED <<pending, recorded, total>>

\* takeGaps
TakeGaps ==
    /\ taken' = pending
    /\ pending' = [p \in Parts |-> NoGaps]
    /\ UNCHANGED <<recorded, total>>

\* Mutant: adding one window to another subtracts it.
PlusNegated(a, b) == [k \in GapKinds |-> a[k] - b[k]]

Plus(a, b) == [k \in GapKinds |-> a[k] + b[k]]
OneError   == [NoGaps EXCEPT !["writeErrors"] = 1]
-----------------------------------------------------------------------------
(* Handlers.                                                               *)

Begin(h, e) ==
    /\ doing' = [doing EXCEPT ![h] = e]
    /\ pc' = [pc EXCEPT ![h] = "enter"]
    /\ asked' = asked \cup {e}

NextCall(h, p, kind) ==
    /\ pc[h] = "idle" /\ made[h] < MaxCalls
    /\ made' = [made EXCEPT ![h] = @ + 1]
    /\ Begin(h, [call |-> <<h, made[h] + 1>>, part |-> p, kind |-> kind])

\* decideCall.  When identify fails a gap is counted.
Decide(h, p, kind, identified) ==
    /\ h \notin Operators
    /\ NextCall(h, p, kind)
    /\ IF identified
       THEN UNCHANGED <<gapVars, faults>>
       ELSE /\ faults < MaxFaults
            /\ faults' = faults + 1
            /\ CountGap(p, "identityFail")
    /\ UNCHANGED <<answer, acted, queue, gate, writer, written, buffered, gone, opened, broken,
                   closeErr>>

\* Prune(keep), of every partition.
Prune(h) ==
    /\ h \in Operators
    /\ NextCall(h, CHOOSE p \in Parts : TRUE, "prune")
    /\ UNCHANGED <<answer, acted, queue, gate, writer, gapVars, fileVars, closeErr>>

\* What the handler does once its append returned: a call that could not be
\* recorded as blocked is forwarded under a record of its own, and a call that
\* was forwarded or blocked gets a response record.
Returned(h, ok) ==
    LET e == doing[h]
    IN  \/ /\ e.kind \in {"response", "prune"}
           /\ pc' = [pc EXCEPT ![h] = "idle"]
           /\ doing' = [doing EXCEPT ![h] = NoEntry]
           /\ UNCHANGED <<asked, acted>>
        \/ /\ e.kind = "blocked" /\ ~ok
           /\ Begin(h, [e EXCEPT !.kind = "failedopen"])
           /\ UNCHANGED acted
        \/ /\ e.kind \in {"decision", "failedopen"} \/ (e.kind = "blocked" /\ ok)
           /\ Begin(h, [e EXCEPT !.kind = "response"])
           /\ acted' = [acted EXCEPT ![e.call] =
                          IF e.kind = "blocked" THEN "blocked" ELSE "forwarded"]

\* Append after Close is a drop, AppendSync and Prune are told.
Refused(h) ==
    IF Waits(doing[h]) THEN UNCHANGED gapVars ELSE CountGap(doing[h].part, "dropped")

\* closeMu.RLock, which waits while Close does, and the check of l.closed.
Enter(h) ==
    /\ pc[h] = "enter" /\ gate # "closing"
    /\ IF gate = "open"
       THEN /\ pc' = [pc EXCEPT ![h] = "sending"]
            /\ UNCHANGED <<doing, asked, acted, gapVars>>
       ELSE Returned(h, FALSE) /\ Refused(h)
    /\ UNCHANGED <<made, answer, queue, gate, writer, fileVars, closeErr>>

\* The send under closeMu.RLock, and RUnlock.  Only Prune waits for room.
Send(h) ==
    /\ pc[h] = "sending"
    /\ \/ /\ Len(queue) < QueueCap
          /\ queue' = Append(queue, doing[h])
          /\ IF Waits(doing[h])
             THEN /\ pc' = [pc EXCEPT ![h] = "waiting"]
                  /\ UNCHANGED <<doing, asked, acted>>
             ELSE Returned(h, TRUE)
          /\ UNCHANGED gapVars
       \/ /\ Len(queue) >= QueueCap /\ doing[h].kind # "prune"
          /\ Returned(h, FALSE)
          /\ CountGap(doing[h].part, "dropped")
          /\ UNCHANGED queue
    /\ UNCHANGED <<made, answer, gate, writer, fileVars, closeErr>>

\* <-done
Receive(h) ==
    /\ pc[h] = "waiting" /\ answer[h] # "none"
    /\ answer' = [answer EXCEPT ![h] = "none"]
    /\ Returned(h, answer[h] = "ok")
    /\ UNCHANGED <<made, queue, gate, writer, gapVars, fileVars, closeErr>>
-----------------------------------------------------------------------------
(* The writer goroutine.                                                   *)

\* A file operation on p, which opens the file if need be, fails: "open" for once,
\* the other two for good, since the bufio.Writer keeps its error.
MayFail(p, fail) ==
    /\ fail # "none" => faults < MaxFaults
    /\ faults' = faults + (IF fail = "none" THEN 0 ELSE 1)
    /\ broken' = [broken EXCEPT ![p] = @ \/ fail \in {"append", "flush"}]
    /\ opened' = IF broken[p] \/ fail = "open" THEN opened ELSE opened \cup {p}

WriteFails(p, fail) == broken[p] \/ fail \in {"open", "append"}

\* Mutant: the flush before the answer is missing.
BufferUnflushed(p, e, stuck) == buffered[p] \cup {e}

\* What the buffer may hold once e is written, and flushed for who waits.
Buffer(p, e, stuck) == IF Waits(e) /\ ~stuck THEN {} ELSE buffered[p] \cup {e}

\* run, an entry from the queue: write it, and for a caller that waits flush the
\* file and answer.  (What a prune does to the files is in Chain.)
Process(fail) ==
    /\ writer = "select" /\ queue # <<>>
    /\ queue' = Tail(queue)
    /\ LET e     == Head(queue)
           p     == e.part
           lost  == e.kind # "prune" /\ WriteFails(p, fail)
           added == e.kind # "prune" /\ ~lost
           stuck == broken[p] \/ fail = "flush"
       IN  /\ e.kind = "prune" => fail = "none"
           /\ fail = "flush" => Waits(e) /\ ~broken[p]
           /\ MayFail(p, fail)
           /\ written' = IF added THEN [written EXCEPT ![p] = @ \cup {e}] ELSE written
           /\ buffered' = IF added THEN [buffered EXCEPT ![p] = Buffer(p, e, stuck)]
                          ELSE buffered
           /\ IF lost THEN CountGap(p, "writeErrors") ELSE UNCHANGED gapVars
           /\ answer' = IF Waits(e)
                        THEN [answer EXCEPT ![e.call[1]] =
                                IF lost \/ (added /\ stuck) THEN "error" ELSE "ok"]
                        ELSE answer
    /\ UNCHANGED <<pc, doing, made, acted, asked, gate, writer, gone, closeErr>>

\* Mutant: the tail that goes with its writer is not counted.
TailUncounted(p, failed) == UNCHANGED gapVars

\* evictLRU counts the tail it may lose.
TailCounted(p, failed) ==
    IF failed THEN CountGap(p, "writeErrors") ELSE UNCHANGED gapVars

\* evictLRU: a write to another partition (of this model, or one it leaves out)
\* needs a handle, and p's is the one released.  What is buffered is signed and
\* flushed; when that or the close of the file fails, the writer is given up with
\* what it still buffers, and a write error counted.  It may leave half a line at
\* the end of the file, which the scanTail of the next write refuses for good.
Evict(p, fail, torn) ==
    /\ writer \in {"select", "gaps", "flush", "lastGaps", "seal"} /\ p \in opened
    /\ fail \in {"none", "flush", "close"}
    /\ fail # "none" => faults < MaxFaults /\ ~broken[p]
    /\ LET lost == broken[p] \/ fail = "flush"
       IN  /\ torn => lost
           /\ buffered' = [buffered EXCEPT ![p] = {}]
           /\ written' = [written EXCEPT ![p] = IF lost THEN @ \ buffered[p] ELSE @]
           /\ gone' = [gone EXCEPT ![p] =
                          IF lost /\ buffered[p] # {} THEN @ \cup {buffered[p]} ELSE @]
           /\ TailCounted(p, lost \/ fail = "close")
    /\ opened' = opened \ {p}
    /\ broken' = [broken EXCEPT ![p] = torn]
    /\ faults' = faults + (IF fail = "none" THEN 0 ELSE 1)
    /\ UNCHANGED <<handlerVars, queue, gate, writer, closeErr>>

\* Mutant: the gaps wait for Close.
TickWithoutGaps ==
    /\ writer = "select"
    /\ writer' = "flush"
    /\ UNCHANGED <<handlerVars, queue, gate, gapVars, fileVars, closeErr>>

\* run, the tick: writeGaps first drains the counts.
Tick ==
    /\ writer = "select"
    /\ writer' = "gaps"
    /\ TakeGaps
    /\ UNCHANGED <<handlerVars, queue, gate, fileVars, closeErr>>

\* writeGaps records the counts of one partition, or puts them back.
WriteGap(p, fail) ==
    /\ writer \in {"gaps", "lastGaps"} /\ taken[p] # NoGaps
    /\ fail # "flush"
    /\ MayFail(p, fail)
    /\ taken' = [taken EXCEPT ![p] = NoGaps]
    /\ IF WriteFails(p, fail)
       THEN LET own == IF total["writeErrors"] < MaxErrors THEN OneError ELSE NoGaps
            IN  /\ pending' = [pending EXCEPT ![p] = Plus(@, Plus(taken[p], own))]
                /\ total' = Plus(total, own)
                /\ UNCHANGED recorded
       ELSE /\ recorded' = [recorded EXCEPT ![p] = Plus(@, taken[p])]
            /\ UNCHANGED <<pending, total>>
    /\ UNCHANGED <<handlerVars, queue, gate, writer, written, buffered, gone, closeErr>>

GapsWritten ==
    /\ writer \in {"gaps", "lastGaps"} /\ \A p \in Parts : taken[p] = NoGaps
    /\ writer' = IF writer = "gaps" THEN "flush" ELSE "seal"
    /\ UNCHANGED <<handlerVars, queue, gate, gapVars, fileVars, closeErr>>

\* Sign and flush every open partition; those in B fail now.  The tick ignores it.
FlushAll(B) ==
    /\ B \subseteq opened
    /\ faults + Cardinality(B) <= MaxFaults
    /\ faults' = faults + Cardinality(B)
    /\ broken' = [p \in Parts |-> broken[p] \/ p \in B]
    /\ buffered' = [p \in Parts |-> IF broken'[p] THEN buffered[p] ELSE {}]
    /\ UNCHANGED <<written, gone, opened>>

\* run, the end of the tick.
Flush(B) ==
    /\ writer = "flush"
    /\ FlushAll(B)
    /\ writer' = "select"
    /\ UNCHANGED <<handlerVars, queue, gate, gapVars, closeErr>>

\* Mutant: run returns as soon as the queue is closed.
ExitUndrained ==
    /\ writer = "select" /\ gate = "closed"
    /\ writer' = "done"
    /\ UNCHANGED <<handlerVars, queue, gate, gapVars, fileVars, closeErr>>

\* Mutant: run first waits until every gap is in a record.
ExitWithoutGaps ==
    /\ writer = "select" /\ gate = "closed" /\ queue = <<>>
    /\ \A p \in Parts : pending[p] = NoGaps
    /\ writer' = "done"
    /\ UNCHANGED <<handlerVars, queue, gate, gapVars, fileVars, closeErr>>

\* run returns once the closed queue is drained.
Exit ==
    /\ writer = "select" /\ gate = "closed" /\ queue = <<>>
    /\ writer' = "done"
    /\ UNCHANGED <<handlerVars, queue, gate, gapVars, fileVars, closeErr>>
-----------------------------------------------------------------------------
(* Close.                                                                  *)

\* closeMu.Lock is called: whoever comes later waits.
Close ==
    /\ gate = "open"
    /\ gate' = "closing"
    /\ UNCHANGED <<handlerVars, queue, writer, gapVars, fileVars, closeErr>>

\* Mutant: closeMu is not held while sending.
ShutAtOnce ==
    /\ gate = "closing"
    /\ gate' = "closed"
    /\ UNCHANGED <<handlerVars, queue, writer, gapVars, fileVars, closeErr>>

\* closeMu.Lock is granted: l.closed is set and the queue closed.
Shut ==
    /\ gate = "closing" /\ \A h \in Handlers : pc[h] # "sending"
    /\ gate' = "closed"
    /\ UNCHANGED <<handlerVars, queue, writer, gapVars, fileVars, closeErr>>

\* <-l.done, and the last writeGaps.
LastGaps ==
    /\ writer = "done"
    /\ writer' = "lastGaps"
    /\ TakeGaps
    /\ UNCHANGED <<handlerVars, queue, gate, fileVars, closeErr>>

\* The last signatures and flushes; Close returns the first error.
Seal(B) ==
    /\ writer = "seal"
    /\ FlushAll(B)
    /\ closeErr' = \E p \in opened : broken'[p]
    /\ writer' = "returned"
    /\ UNCHANGED <<handlerVars, queue, gate, gapVars>>
-----------------------------------------------------------------------------
Init ==
    /\ pc = [h \in Handlers |-> "idle"]
    /\ doing = [h \in Handlers |-> NoEntry]
    /\ made = [h \in Handlers |-> 0]
    /\ answer = [h \in Handlers |-> "none"]
    /\ acted = [c \in Calls |-> "none"]
    /\ asked = {}
    /\ queue = <<>> /\ gate = "open" /\ writer = "select"
    /\ pending = [p \in Parts |-> NoGaps] /\ taken = [p \in Parts |-> NoGaps]
    /\ total = NoGaps
    /\ recorded = [p \in Parts |-> NoGaps]
    /\ written = [p \in Parts |-> {}] /\ buffered = [p \in Parts |-> {}]
    /\ gone = [p \in Parts |-> {}] /\ opened = {}
    /\ broken = [p \in Parts |-> FALSE]
    /\ closeErr = FALSE /\ faults = 0

Failures == {"none", "open", "append", "flush"}

HandlerStep(h) == Enter(h) \/ Send(h) \/ Receive(h)

\* What run() does when its select takes the queue.
FromQueue == Exit \/ \E fail \in Failures : Process(fail)

\* What the owner of l.parts does elsewhere.
Onward ==
    \/ \E p \in Parts, fail \in Failures : WriteGap(p, fail)
    \/ GapsWritten
    \/ \E B \in SUBSET Parts : Flush(B) \/ Seal(B)
    \/ LastGaps

Next ==
    \/ \E h \in Handlers :
         \/ \E p \in Parts, kind \in {"decision", "blocked"}, ok \in BOOLEAN :
              Decide(h, p, kind, ok)
         \/ Prune(h)
         \/ HandlerStep(h)
    \/ FromQueue \/ Tick \/ Onward
    \/ \E p \in Parts, fail \in Failures \cup {"close"}, torn \in BOOLEAN : Evict(p, fail, torn)
    \/ Close \/ Shut

\* Every goroutine that can go on does.  The select of run() picks a ready case
\* at random, so neither the queue nor the tick is passed over for ever; and a
\* receive from a full channel takes in the item of a sender that waits.
Fairness ==
    /\ \A h \in Handlers : SF_vars(HandlerStep(h))
    /\ SF_vars(FromQueue) /\ SF_vars(Tick)
    /\ WF_vars(Onward) /\ WF_vars(Shut)

Spec     == Init /\ [][Next]_vars
LiveSpec == Spec /\ Fairness
-----------------------------------------------------------------------------
(* Properties.                                                             *)

\* closeMu: no handler is about to send on the queue once it is closed, which
\* would panic the process.
NoSendOnClosed == \A h \in Handlers : pc[h] = "sending" => gate # "closed"

\* Record before effect: a call is stopped only when the record that says so
\* has left the process.
BlockedIsOnFile ==
    \A c \in Calls : acted[c] = "blocked" =>
        \E p \in Parts : \E e \in written[p] \ buffered[p] :
            e.kind = "blocked" /\ e.call = c

Counted(p, k) == pending[p][k] + taken[p][k] + recorded[p][k]

\* The gaps of kind k, one by one: the n-th of a partition is <<p, n>>.
Gaps(k) == UNION {{p} \X (1..Counted(p, k)) : p \in Parts}

\* The totals of /health and what the export reports or is about to report
\* agree, whatever writeGaps drains, fails to write and puts back meanwhile.
GapsConserved == \A k \in GapKinds : total[k] = Cardinality(Gaps(k))

\* The records handed to Append that no file's writer ever took.
Untaken(p) ==
    {e \in asked : /\ e.part = p /\ ~Waits(e)
                   /\ \A h \in Handlers : pc[h] = "idle" \/ doing[h] # e
                   /\ \A i \in 1..Len(queue) : queue[i] # e
                   /\ e \notin written[p] \cup UNION gone[p]}

\* A record that was dropped or refused by the writer of its file is counted
\* against its partition, and so is each tail an eviction gives up (one count for
\* the tail, however many records it had).  What a failed tick leaves in a broken
\* writer is not among them: see BufferedIsCounted.
LossIsCounted ==
    \A p \in Parts : Cardinality(Untaken(p)) + Cardinality(gone[p])
                       <= Counted(p, "dropped") + Counted(p, "writeErrors")

\* Not so: a writer that broke with records in its buffer has been counted.  The
\* tick drops the errors of signBatch and Flush, and Close returns the first of
\* them, so such records stay in the buffer with nothing counted, unless a later
\* write to the partition fails or an eviction gives the writer up.
BufferedIsCounted ==
    \A p \in Parts : broken[p] /\ (\E e \in buffered[p] : ~Waits(e)) =>
        Counted(p, "dropped") + Counted(p, "writeErrors") > 0

\* When Close returns without an error nothing that was accepted is left in the
\* queue or in a buffer, and whoever waited has an answer.
CloseIsComplete ==
    writer = "returned" /\ ~closeErr =>
        /\ queue = <<>>
        /\ \A h \in Handlers : pc[h] # "waiting" \/ answer[h] # "none"
        /\ \A p \in Parts : buffered[p] = {}

\* A caller of AppendSync or Prune gets its answer, also when Close intervenes.
CallerAnswered == \A h \in Handlers : pc[h] \in {"sending", "waiting"} ~> pc[h] = "idle"

\* Close returns, whatever handlers still append and whichever files fail.
CloseReturns == gate = "closing" ~> writer = "returned"

\* As long as the ledger is open a counted gap reaches the export, unless the
\* file of its partition fails for good.
GapSurfaces ==
    \A p \in Parts :
        pending[p] # NoGaps ~> \/ taken[p] = NoGaps /\ pending[p] = NoGaps
                               \/ gate # "open"
                               \/ broken[p]
=============================================================================
