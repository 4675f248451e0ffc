---------------------------- MODULE LedgerProofs ----------------------------
(***************************************************************************)
(* Theorems about the ledger's queue, its writer and Close: for any number *)
(* of handlers, partitions, calls and failures, and any queue capacity.    *)
(***************************************************************************)
EXTENDS Ledger, FiniteSetTheorems, TLAPS

(* The inductive invariant.                                                *)

Undone == {"decision", "blocked", "failedopen"}

\* A handler appends for the call it decided last, and nothing is done to the
\* traffic of a call as long as its decision is being recorded.
CallInv ==
    /\ \A h \in Handlers : pc[h] # "idle" =>
          /\ doing[h].call[1] = h /\ doing[h].call[2] = made[h]
          /\ doing[h].kind \in Undone => acted[doing[h].call] = "none"
    /\ \A c \in Calls : acted[c] # "none" => c[2] <= made[c[1]]

\* An entry someone waits for is in the queue, once, until it is answered.
QueueInv ==
    /\ \A i \in 1..Len(queue) : Waits(queue[i]) =>
          LET h == queue[i].call[1]
          IN  pc[h] = "waiting" /\ doing[h] = queue[i] /\ answer[h] = "none"
    /\ \A i, j \in 1..Len(queue) :
          i # j /\ Waits(queue[i]) /\ Waits(queue[j]) => queue[i].call[1] # queue[j].call[1]
    /\ \A h \in Handlers : pc[h] = "waiting" /\ answer[h] = "none" =>
          \E i \in 1..Len(queue) : queue[i] = doing[h]

OnFile(e) == e \in written[e.part] \ buffered[e.part]

\* Who is answered "ok" finds its entry on file.
AnswerInv ==
    \A h \in Handlers :
        /\ pc[h] = "waiting" => Waits(doing[h])
        /\ answer[h] # "none" => pc[h] = "waiting"
        /\ pc[h] = "waiting" /\ answer[h] = "ok" /\ doing[h].kind = "blocked" => OnFile(doing[h])

\* Once run() has returned nothing is queued; once Close has, nothing is buffered.
\* Only who holds a handle has a buffer.
CloseInv ==
    /\ NoSendOnClosed
    /\ writer \in {"done", "lastGaps", "seal", "returned"} => gate = "closed" /\ queue = <<>>
    /\ writer = "returned" /\ ~closeErr => \A p \in Parts : buffered[p] = {}
    /\ \A p \in Parts \ opened : buffered[p] = {}

IInv == TypeOK /\ CallInv /\ QueueInv /\ AnswerInv /\ CloseInv /\ BlockedIsOnFile
-----------------------------------------------------------------------------
(* Lemmas about the helpers.                                               *)

GapsType == /\ pending \in [Parts -> [GapKinds -> Nat]]
            /\ taken \in [Parts -> [GapKinds -> Nat]]
            /\ total \in [GapKinds -> Nat]
            /\ recorded \in [Parts -> [GapKinds -> Nat]]

LEMMA NoGapsType == NoGaps \in [GapKinds -> Nat] /\ OneError \in [GapKinds -> Nat]
BY DEF NoGaps, OneError, GapKinds

LEMMA PlusType ==
    ASSUME NEW a \in [GapKinds -> Nat], NEW b \in [GapKinds -> Nat]
    PROVE  Plus(a, b) \in [GapKinds -> Nat]
BY DEF Plus

LEMMA CountGapType ==
    ASSUME GapsType, NEW p \in Parts, NEW k \in GapKinds, CountGap(p, k)
    PROVE  GapsType'
<1>1. pending[p] \in [GapKinds -> Nat] /\ pending[p][k] \in Nat /\ total[k] \in Nat
  BY DEF GapsType
<1>2. [pending[p] EXCEPT ![k] = pending[p][k] + 1] \in [GapKinds -> Nat]
  BY <1>1
<1>3. pending' = [pending EXCEPT ![p] = [pending[p] EXCEPT ![k] = pending[p][k] + 1]]
  BY DEF CountGap
<1>4. pending' \in [Parts -> [GapKinds -> Nat]]
  BY <1>2, <1>3 DEF GapsType
<1>5. total' \in [GapKinds -> Nat]
  BY <1>1 DEF CountGap, GapsType
<1> QED  BY <1>4, <1>5 DEF CountGap, GapsType

LEMMA KeepGapsType ==
    ASSUME GapsType, UNCHANGED gapVars
    PROVE  GapsType'
BY DEF GapsType, gapVars

LEMMA TakeGapsType ==
    ASSUME GapsType, TakeGaps
    PROVE  GapsType'
BY NoGapsType DEF TakeGaps, GapsType

\* Only the handler itself goes on, only the traffic of its own call is acted on,
\* and a call is blocked only when its "blocked" record was reported to be written.
LEMMA ReturnedFacts ==
    ASSUME TypeOK, CallInv, NEW h \in Handlers, NEW ok \in BOOLEAN,
           pc[h] # "idle", Returned(h, ok)
    PROVE  \E x \in {"idle", "enter"}, e \in Entry \cup {NoEntry} :
              /\ pc' = [pc EXCEPT ![h] = x] /\ doing' = [doing EXCEPT ![h] = e]
              /\ asked' \subseteq Entry
              /\ acted' \in [Calls -> {"none", "forwarded", "blocked"}]
              /\ \A c \in Calls : c # doing[h].call => acted'[c] = acted[c]
              /\ doing[h] \in Entry /\ doing[h].call \in Calls
              /\ acted'[doing[h].call] = "blocked" =>
                    \/ acted[doing[h].call] = "blocked"
                    \/ ok /\ doing[h].kind = "blocked"
              /\ x = "enter" => /\ e \in Entry /\ e.call = doing[h].call
                                /\ e.kind \in Undone => acted'[e.call] = "none"
<1> DEFINE d == doing[h]
<1>1. d \in Entry /\ d.call \in Calls /\ d.kind \in EntryKinds
  BY DEF TypeOK, Entry
<1>2. acted \in [Calls -> {"none", "forwarded", "blocked"}] /\ asked \subseteq Entry
  BY DEF TypeOK
<1>4. ASSUME d.kind = "blocked", Begin(h, [d EXCEPT !.kind = "failedopen"]), acted' = acted
      PROVE  LET e == [d EXCEPT !.kind = "failedopen"]
             IN  /\ pc' = [pc EXCEPT ![h] = "enter"] /\ doing' = [doing EXCEPT ![h] = e]
                 /\ e \in Entry /\ e.call = d.call /\ asked' \subseteq Entry
                 /\ acted'[e.call] = "none"
  <2> DEFINE e == [d EXCEPT !.kind = "failedopen"]
  <2>1. e \in Entry /\ e.call = d.call
    BY <1>1 DEF Entry, EntryKinds
  <2>2. acted[d.call] = "none"
    BY <1>4 DEF CallInv, Undone
  <2> QED  BY <1>2, <1>4, <2>1, <2>2 DEF Begin
<1>5. ASSUME d.kind \in {"decision", "failedopen"} \/ (d.kind = "blocked" /\ ok),
             Begin(h, [d EXCEPT !.kind = "response"]),
             acted' = [acted EXCEPT ![d.call] = IF d.kind = "blocked" THEN "blocked" ELSE "forwarded"]
      PROVE  LET e == [d EXCEPT !.kind = "response"]
             IN  /\ pc' = [pc EXCEPT ![h] = "enter"] /\ doing' = [doing EXCEPT ![h] = e]
                 /\ e \in Entry /\ e.call = d.call /\ e.kind \notin Undone
                 /\ asked' \subseteq Entry
                 /\ acted' \in [Calls -> {"none", "forwarded", "blocked"}]
                 /\ \A c \in Calls : c # d.call => acted'[c] = acted[c]
                 /\ acted'[d.call] = "blocked" => ok /\ d.kind = "blocked"
  <2> DEFINE e == [d EXCEPT !.kind = "response"]
  <2>1. e \in Entry /\ e.call = d.call /\ e.kind \notin Undone
    BY <1>1 DEF Entry, EntryKinds, Undone
  <2>2. /\ acted' \in [Calls -> {"none", "forwarded", "blocked"}]
        /\ \A c \in Calls : c # d.call => acted'[c] = acted[c]
        /\ acted'[d.call] = "blocked" => ok /\ d.kind = "blocked"
    BY <1>1, <1>2, <1>5
  <2> QED  BY <1>2, <1>5, <2>1, <2>2 DEF Begin
<1>6. CASE /\ d.kind \in {"response", "prune"} /\ pc' = [pc EXCEPT ![h] = "idle"]
           /\ doing' = [doing EXCEPT ![h] = NoEntry] /\ UNCHANGED <<asked, acted>>
  BY <1>1, <1>2, <1>6
<1>7. CASE d.kind = "blocked" /\ Begin(h, [d EXCEPT !.kind = "failedopen"]) /\ acted' = acted
  <2> DEFINE e == [d EXCEPT !.kind = "failedopen"]
  <2>1. /\ pc' = [pc EXCEPT ![h] = "enter"] /\ doing' = [doing EXCEPT ![h] = e]
        /\ e \in Entry /\ e.call = d.call /\ asked' \subseteq Entry
        /\ acted'[e.call] = "none"
    BY <1>4, <1>7
  <2> HIDE DEF e
  <2> QED  BY <1>1, <1>2, <1>7, <2>1
<1>8. CASE /\ d.kind \in {"decision", "failedopen"} \/ (d.kind = "blocked" /\ ok)
           /\ Begin(h, [d EXCEPT !.kind = "response"])
           /\ acted' = [acted EXCEPT ![d.call] = IF d.kind = "blocked" THEN "blocked" ELSE "forwarded"]
  <2> DEFINE e == [d EXCEPT !.kind = "response"]
  <2>1. /\ pc' = [pc EXCEPT ![h] = "enter"] /\ doing' = [doing EXCEPT ![h] = e]
        /\ e \in Entry /\ e.call = d.call /\ e.kind \notin Undone
        /\ asked' \subseteq Entry
        /\ acted' \in [Calls -> {"none", "forwarded", "blocked"}]
        /\ \A c \in Calls : c # d.call => acted'[c] = acted[c]
        /\ acted'[d.call] = "blocked" => ok /\ d.kind = "blocked"
    BY <1>5, <1>8
  <2> HIDE DEF e
  <2> QED  BY <1>1, <2>1
<1> QED  BY <1>6, <1>7, <1>8 DEF Returned
-----------------------------------------------------------------------------
(* The writer, Close, and whatever else leaves handlers and queue alone.   *)

LEMMA WriterFrame ==
    ASSUME IInv, UNCHANGED <<handlerVars, queue, written>>,
           \A p \in Parts : buffered'[p] \subseteq buffered[p]
    PROVE  CallInv' /\ QueueInv' /\ AnswerInv' /\ BlockedIsOnFile'
<1>1. UNCHANGED <<pc, doing, made, answer, acted, asked, queue, written>>
  BY DEF handlerVars
<1>2. CallInv'
  BY <1>1 DEF IInv, CallInv
<1>3. QueueInv'
  BY <1>1 DEF IInv, QueueInv
<1>4. AnswerInv'
  <2>1. ASSUME NEW e \in Entry, OnFile(e) PROVE OnFile(e)'
    BY <1>1, <2>1 DEF OnFile, Entry
  <2> QED  BY <1>1, <2>1 DEF IInv, AnswerInv, TypeOK
<1>5. BlockedIsOnFile'
  BY <1>1 DEF IInv, BlockedIsOnFile
<1> QED  BY <1>2, <1>3, <1>4, <1>5

\* TypeOK of what a step of the writer may change.
LEMMA WriterType ==
    ASSUME TypeOK, UNCHANGED <<handlerVars, queue, written>>, GapsType',
           gate' \in {"open", "closing", "closed"},
           writer' \in {"select", "gaps", "flush", "done", "lastGaps", "seal", "returned"},
           buffered' \in [Parts -> SUBSET Entry], broken' \in [Parts -> BOOLEAN],
           \A p \in Parts : buffered'[p] \subseteq buffered[p],
           gone' = gone, opened' \subseteq Parts, closeErr' \in BOOLEAN, faults' \in 0..MaxFaults
    PROVE  TypeOK'
<1>1. UNCHANGED <<pc, doing, made, answer, acted, asked, queue, written>>
  BY DEF handlerVars
<1>2. \A p \in Parts : buffered'[p] \subseteq written'[p]
  BY <1>1 DEF TypeOK
<1> QED  BY <1>1, <1>2 DEF TypeOK, GapsType

LEMMA TickInv == IInv /\ Tick => IInv'
<1> SUFFICES ASSUME IInv, Tick PROVE IInv'
  OBVIOUS
<1>1. /\ writer = "select" /\ writer' = "gaps" /\ TakeGaps
      /\ UNCHANGED <<handlerVars, queue, gate, written, buffered, gone, opened, broken, faults, closeErr>>
  BY DEF Tick, fileVars
<1>2. GapsType'
  BY <1>1, TakeGapsType DEF IInv, TypeOK, GapsType
<1>3. TypeOK'
  BY <1>1, <1>2, WriterType DEF IInv, TypeOK
<1>4. CloseInv'
  BY <1>1 DEF IInv, CloseInv, NoSendOnClosed, handlerVars
<1> QED  BY <1>1, <1>3, <1>4, WriterFrame DEF IInv

LEMMA MayFailType ==
    ASSUME TypeOK, NEW p \in Parts, NEW fail \in Failures, MayFail(p, fail)
    PROVE  /\ broken' \in [Parts -> BOOLEAN] /\ faults' \in 0..MaxFaults
           /\ opened' \subseteq Parts /\ opened \subseteq opened'
<1>1. broken \in [Parts -> BOOLEAN] /\ faults \in 0..MaxFaults /\ MaxFaults \in Nat
  BY LedgerAssumption DEF TypeOK
<1>2. broken' = [broken EXCEPT ![p] = broken[p] \/ fail \in {"append", "flush"}]
  BY DEF MayFail
<1>3. (broken[p] \/ fail \in {"append", "flush"}) \in BOOLEAN
  OBVIOUS
<1>4. broken' \in [Parts -> BOOLEAN]
  BY <1>1, <1>2, <1>3
<1>5. faults' \in 0..MaxFaults
  BY <1>1 DEF MayFail
<1>6. opened' \subseteq Parts /\ opened \subseteq opened'
  BY DEF MayFail, TypeOK
<1> QED  BY <1>4, <1>5, <1>6

LEMMA WriteGapInv ==
    ASSUME IInv, NEW p \in Parts, NEW fail \in Failures, WriteGap(p, fail)
    PROVE  IInv'
<1> DEFINE own == IF total["writeErrors"] < MaxErrors THEN OneError ELSE NoGaps
<1>1. /\ writer \in {"gaps", "lastGaps"} /\ MayFail(p, fail)
      /\ taken' = [taken EXCEPT ![p] = NoGaps]
      /\ \/ /\ pending' = [pending EXCEPT ![p] = Plus(pending[p], Plus(taken[p], own))]
            /\ total' = Plus(total, own) /\ recorded' = recorded
         \/ /\ recorded' = [recorded EXCEPT ![p] = Plus(recorded[p], taken[p])]
            /\ pending' = pending /\ total' = total
      /\ UNCHANGED <<handlerVars, queue, gate, writer, written, buffered, gone, closeErr>>
  BY DEF WriteGap
<1>2. own \in [GapKinds -> Nat] /\ NoGaps \in [GapKinds -> Nat]
  BY NoGapsType
<1>3. GapsType
  BY DEF IInv, TypeOK, GapsType
<1> HIDE DEF own
<1>4. /\ Plus(pending[p], Plus(taken[p], own)) \in [GapKinds -> Nat]
      /\ Plus(total, own) \in [GapKinds -> Nat]
      /\ Plus(recorded[p], taken[p]) \in [GapKinds -> Nat]
  BY <1>2, <1>3, PlusType DEF GapsType
<1>5. GapsType'
  BY <1>1, <1>2, <1>3, <1>4 DEF GapsType
<1>6. /\ broken' \in [Parts -> BOOLEAN] /\ faults' \in 0..MaxFaults
      /\ opened' \subseteq Parts /\ opened \subseteq opened'
  BY <1>1, MayFailType DEF IInv
<1>7. TypeOK'
  BY <1>1, <1>5, <1>6, WriterType DEF IInv, TypeOK
<1>8. CloseInv'
  BY <1>1, <1>6 DEF IInv, CloseInv, NoSendOnClosed, handlerVars
<1> QED  BY <1>1, <1>7, <1>8, WriterFrame DEF IInv

LEMMA GapsWrittenInv == IInv /\ GapsWritten => IInv'
<1> SUFFICES ASSUME IInv, GapsWritten PROVE IInv'
  OBVIOUS
<1>1. /\ \/ writer = "gaps" /\ writer' = "flush"
         \/ writer = "lastGaps" /\ writer' = "seal"
      /\ UNCHANGED <<handlerVars, queue, gate, written, buffered, gone, opened, broken, faults, closeErr>>
      /\ UNCHANGED gapVars
  BY DEF GapsWritten, fileVars
<1>2. GapsType'
  BY <1>1, KeepGapsType DEF IInv, TypeOK, GapsType
<1>3. TypeOK'
  BY <1>1, <1>2, WriterType DEF IInv, TypeOK
<1>4. CloseInv'
  BY <1>1 DEF IInv, CloseInv, NoSendOnClosed, handlerVars
<1> QED  BY <1>1, <1>3, <1>4, WriterFrame DEF IInv

LEMMA FlushAllType ==
    ASSUME TypeOK, NEW B \in SUBSET Parts, FlushAll(B)
    PROVE  /\ broken' \in [Parts -> BOOLEAN] /\ faults' \in 0..MaxFaults
           /\ buffered' \in [Parts -> SUBSET Entry] /\ UNCHANGED <<written, gone, opened>>
           /\ \A p \in Parts : buffered'[p] \subseteq buffered[p]
           /\ \A p \in Parts : ~broken'[p] => buffered'[p] = {}
<1>1. Cardinality(B) \in Nat
  BY LedgerAssumption, FS_Subset, FS_CardinalityType
<1>2. faults \in 0..MaxFaults /\ MaxFaults \in Nat /\ buffered \in [Parts -> SUBSET Entry]
  BY LedgerAssumption DEF TypeOK
<1>3. broken' = [p \in Parts |-> broken[p] \/ p \in B] /\ UNCHANGED <<written, gone, opened>>
  BY DEF FlushAll
<1>4. buffered' = [p \in Parts |-> IF broken'[p] THEN buffered[p] ELSE {}]
  BY DEF FlushAll
<1>5. broken' \in [Parts -> BOOLEAN]
  BY <1>3 DEF TypeOK
<1>6. faults' \in 0..MaxFaults
  BY <1>1, <1>2 DEF FlushAll
<1>7. buffered' \in [Parts -> SUBSET Entry]
  BY <1>2, <1>4
<1> QED  BY <1>2, <1>3, <1>4, <1>5, <1>6, <1>7

LEMMA FlushInv == ASSUME IInv, NEW B \in SUBSET Parts, Flush(B) PROVE IInv'
<1>1. /\ writer = "flush" /\ writer' = "select" /\ FlushAll(B)
      /\ UNCHANGED <<handlerVars, queue, gate, gapVars, closeErr>>
  BY DEF Flush
<1>2. /\ broken' \in [Parts -> BOOLEAN] /\ faults' \in 0..MaxFaults
      /\ buffered' \in [Parts -> SUBSET Entry] /\ UNCHANGED <<written, gone, opened>>
      /\ \A p \in Parts : buffered'[p] \subseteq buffered[p]
  BY <1>1, FlushAllType DEF IInv
<1>3. GapsType'
  BY <1>1, KeepGapsType DEF IInv, TypeOK, GapsType
<1>4. TypeOK'
  BY <1>1, <1>2, <1>3, WriterType DEF IInv, TypeOK
<1>5. CloseInv'
  <2>1. \A p \in Parts \ opened' : buffered'[p] = {}
    BY <1>2 DEF IInv, CloseInv
  <2> QED  BY <1>1, <2>1 DEF IInv, CloseInv, NoSendOnClosed, handlerVars
<1> QED  BY <1>1, <1>2, <1>4, <1>5, WriterFrame DEF IInv

LEMMA SealInv == ASSUME IInv, NEW B \in SUBSET Parts, Seal(B) PROVE IInv'
<1>1. /\ writer = "seal" /\ writer' = "returned" /\ FlushAll(B)
      /\ closeErr' = \E p \in opened : broken'[p]
      /\ UNCHANGED <<handlerVars, queue, gate, gapVars>>
  BY DEF Seal
<1>2. /\ broken' \in [Parts -> BOOLEAN] /\ faults' \in 0..MaxFaults
      /\ buffered' \in [Parts -> SUBSET Entry] /\ UNCHANGED <<written, gone, opened>>
      /\ \A p \in Parts : buffered'[p] \subseteq buffered[p]
      /\ \A p \in Parts : ~broken'[p] => buffered'[p] = {}
  BY <1>1, FlushAllType DEF IInv
<1>3. GapsType'
  BY <1>1, KeepGapsType DEF IInv, TypeOK, GapsType
<1>4. TypeOK'
  <2>1. closeErr' \in BOOLEAN
    BY <1>1
  <2> QED  BY <1>1, <1>2, <1>3, <2>1, WriterType DEF IInv, TypeOK
<1>5. CloseInv'
  <2>1. \A p \in Parts \ opened' : buffered'[p] = {}
    BY <1>2 DEF IInv, CloseInv
  <2>2. ~closeErr' => \A p \in Parts : buffered'[p] = {}
    BY <1>1, <1>2, <2>1
  <2> QED  BY <1>1, <2>1, <2>2 DEF IInv, CloseInv, NoSendOnClosed, handlerVars
<1> QED  BY <1>1, <1>2, <1>4, <1>5, WriterFrame DEF IInv

LEMMA ExitInv == IInv /\ Exit => IInv'
<1> SUFFICES ASSUME IInv, Exit PROVE IInv'
  OBVIOUS
<1>1. /\ writer = "select" /\ writer' = "done" /\ gate = "closed" /\ queue = <<>>
      /\ UNCHANGED <<handlerVars, queue, gate, written, buffered, gone, opened, broken, faults, closeErr>>
      /\ UNCHANGED gapVars
  BY DEF Exit, fileVars
<1>2. GapsType'
  BY <1>1, KeepGapsType DEF IInv, TypeOK, GapsType
<1>3. TypeOK'
  BY <1>1, <1>2, WriterType DEF IInv, TypeOK
<1>4. CloseInv'
  BY <1>1 DEF IInv, CloseInv, NoSendOnClosed, handlerVars
<1> QED  BY <1>1, <1>3, <1>4, WriterFrame DEF IInv

LEMMA GateInv == IInv /\ (Close \/ Shut) => IInv'
<1> SUFFICES ASSUME IInv, Close \/ Shut PROVE IInv'
  OBVIOUS
<1>1. /\ \/ gate = "open" /\ gate' = "closing"
         \/ gate = "closing" /\ gate' = "closed" /\ \A h \in Handlers : pc[h] # "sending"
      /\ UNCHANGED <<handlerVars, queue, writer, written, buffered, gone, opened, broken, faults, closeErr>>
      /\ UNCHANGED gapVars
  BY DEF Close, Shut, fileVars
<1>2. GapsType'
  BY <1>1, KeepGapsType DEF IInv, TypeOK, GapsType
<1>3. TypeOK'
  BY <1>1, <1>2, WriterType DEF IInv, TypeOK
<1>4. CloseInv'
  BY <1>1 DEF IInv, CloseInv, NoSendOnClosed, handlerVars
<1> QED  BY <1>1, <1>3, <1>4, WriterFrame DEF IInv

LEMMA LastGapsInv == IInv /\ LastGaps => IInv'
<1> SUFFICES ASSUME IInv, LastGaps PROVE IInv'
  OBVIOUS
<1>1. /\ writer = "done" /\ writer' = "lastGaps" /\ TakeGaps
      /\ UNCHANGED <<handlerVars, queue, gate, written, buffered, gone, opened, broken, faults, closeErr>>
  BY DEF LastGaps, fileVars
<1>2. GapsType'
  BY <1>1, TakeGapsType DEF IInv, TypeOK, GapsType
<1>3. TypeOK'
  BY <1>1, <1>2, WriterType DEF IInv, TypeOK
<1>4. CloseInv'
  BY <1>1 DEF IInv, CloseInv, NoSendOnClosed, handlerVars
<1> QED  BY <1>1, <1>3, <1>4, WriterFrame DEF IInv

\* What is on file stays there when a handle is given up.
LEMMA EvictInv ==
    ASSUME IInv, NEW p \in Parts, NEW fail, NEW torn \in BOOLEAN, Evict(p, fail, torn)
    PROVE  IInv'
<1> DEFINE lost == broken[p] \/ fail = "flush"
           tail == buffered[p]
<1>1. /\ buffered' = [buffered EXCEPT ![p] = {}]
      /\ written' = [written EXCEPT ![p] = IF lost THEN written[p] \ tail ELSE written[p]]
      /\ gone' = [gone EXCEPT ![p] = IF lost /\ tail # {} THEN gone[p] \cup {tail} ELSE gone[p]]
      /\ CountGap(p, "writeErrors") \/ UNCHANGED gapVars
      /\ opened' = opened \ {p} /\ broken' = [broken EXCEPT ![p] = torn]
      /\ fail # "none" => faults < MaxFaults
      /\ faults' = faults + (IF fail = "none" THEN 0 ELSE 1)
      /\ UNCHANGED <<pc, doing, made, answer, acted, asked, queue, gate, writer, closeErr>>
  BY DEF Evict, TailCounted, handlerVars
<1>2. /\ written \in [Parts -> SUBSET Entry] /\ buffered \in [Parts -> SUBSET Entry]
      /\ gone \in [Parts -> SUBSET SUBSET Entry] /\ broken \in [Parts -> BOOLEAN]
      /\ \A q \in Parts : buffered[q] \subseteq written[q]
      /\ faults \in 0..MaxFaults /\ MaxFaults \in Nat /\ GapsType /\ opened \subseteq Parts
  BY LedgerAssumption DEF IInv, TypeOK, GapsType
<1> HIDE DEF lost, tail
<1>3. /\ buffered'[p] = {} /\ written'[p] \subseteq written[p] /\ written[p] \ tail \subseteq written'[p]
      /\ \A q \in Parts \ {p} : buffered'[q] = buffered[q] /\ written'[q] = written[q]
  BY <1>1, <1>2
<1>4. \A q \in Parts : written[q] \ buffered[q] \subseteq written'[q] \ buffered'[q]
  BY <1>3 DEF tail
<1>5. TypeOK'
  <2>1. GapsType'
    BY <1>1, <1>2, CountGapType, KeepGapsType DEF GapKinds
  <2>2. /\ written' \in [Parts -> SUBSET Entry] /\ buffered' \in [Parts -> SUBSET Entry]
        /\ broken' \in [Parts -> BOOLEAN] /\ opened' \subseteq Parts
    <3>1. (IF lost THEN written[p] \ tail ELSE written[p]) \in SUBSET Entry
      BY <1>2
    <3> QED  BY <1>1, <1>2, <3>1
  <2>3. gone' \in [Parts -> SUBSET SUBSET Entry]
    <3>1. (IF lost /\ tail # {} THEN gone[p] \cup {tail} ELSE gone[p]) \in SUBSET SUBSET Entry
      BY <1>2 DEF tail
    <3> QED  BY <1>1, <1>2, <3>1
  <2>4. \A q \in Parts : buffered'[q] \subseteq written'[q]
    BY <1>2, <1>3
  <2>5. faults' \in 0..MaxFaults
    BY <1>1, <1>2
  <2> QED  BY <1>1, <2>1, <2>2, <2>3, <2>4, <2>5 DEF IInv, TypeOK, GapsType
<1>6. CallInv' /\ QueueInv'
  BY <1>1 DEF IInv, CallInv, QueueInv
<1>7. AnswerInv'
  <2>1. \A e \in Entry : OnFile(e) => OnFile(e)'
    BY <1>4 DEF OnFile, Entry
  <2> QED  BY <1>1, <2>1 DEF IInv, AnswerInv, TypeOK
<1>8. BlockedIsOnFile'
  BY <1>1, <1>4 DEF IInv, BlockedIsOnFile
<1>9. CloseInv'
  <2>1. \A q \in Parts \ opened' : buffered'[q] = {}
    BY <1>1, <1>3 DEF IInv, CloseInv
  <2>2. \A q \in Parts : buffered[q] = {} => buffered'[q] = {}
    BY <1>3
  <2> QED  BY <1>1, <2>1, <2>2 DEF IInv, CloseInv, NoSendOnClosed
<1> QED  BY <1>5, <1>6, <1>7, <1>8, <1>9 DEF IInv
-----------------------------------------------------------------------------
(* A step of handler h that leaves it at x with entry e to append.         *)

Moves(h, x, e) ==
    /\ pc' = [pc EXCEPT ![h] = x] /\ doing' = [doing EXCEPT ![h] = e]
    /\ answer' = [answer EXCEPT ![h] = "none"]
    /\ x # "idle" => /\ e \in Entry /\ e.call[1] = h /\ e.call[2] = made'[h]
                     /\ e.kind \in Undone => acted'[e.call] = "none"
    /\ x = "waiting" => Waits(e)
    /\ \A g \in Handlers : made[g] <= made'[g] /\ (g # h => made'[g] = made[g])
    /\ \A c \in Calls : /\ c[1] # h => acted'[c] = acted[c]
                        /\ acted'[c] # "none" => c[2] <= made'[c[1]]
                        /\ acted'[c] = "blocked" =>
                              \/ acted[c] = "blocked"
                              \/ \E f \in Entry : OnFile(f) /\ f.kind = "blocked" /\ f.call = c
    /\ UNCHANGED <<gate, writer, written, buffered, gone, opened, broken, closeErr>>

LEMMA HandlerFrame ==
    ASSUME IInv, NEW h \in Handlers, NEW x \in {"idle", "enter", "sending", "waiting"},
           NEW e \in Entry \cup {NoEntry}, Moves(h, x, e)
    PROVE  CallInv' /\ AnswerInv' /\ BlockedIsOnFile'
<1>1. /\ pc \in [Handlers -> {"idle", "enter", "sending", "waiting"}]
      /\ doing \in [Handlers -> Entry \cup {NoEntry}]
      /\ answer \in [Handlers -> {"none", "ok", "error"}]
      /\ written \in [Parts -> SUBSET Entry] /\ buffered \in [Parts -> SUBSET Entry]
  BY DEF IInv, TypeOK
<1>2. /\ pc'[h] = x /\ doing'[h] = e /\ answer'[h] = "none"
      /\ \A g \in Handlers \ {h} : pc'[g] = pc[g] /\ doing'[g] = doing[g] /\ answer'[g] = answer[g]
  BY <1>1 DEF Moves
<1>3. CallInv'
  <2>1. ASSUME NEW g \in Handlers, pc'[g] # "idle"
        PROVE  /\ doing'[g].call[1] = g /\ doing'[g].call[2] = made'[g]
               /\ doing'[g].kind \in Undone => acted'[doing'[g].call] = "none"
    <3>1. CASE g = h
      BY <1>2, <2>1, <3>1 DEF Moves
    <3>2. CASE g # h
      <4>1. pc[g] # "idle" /\ doing'[g] = doing[g] /\ made'[g] = made[g]
        BY <1>2, <2>1, <3>2 DEF Moves
      <4>2. doing[g] \in Entry /\ doing[g].call \in Calls /\ doing[g].call[1] = g
        BY <4>1 DEF IInv, TypeOK, CallInv, Entry
      <4>3. acted'[doing[g].call] = acted[doing[g].call]
        BY <3>2, <4>2 DEF Moves
      <4> QED  BY <4>1, <4>2, <4>3 DEF IInv, CallInv
    <3> QED  BY <3>1, <3>2
  <2> QED  BY <2>1 DEF CallInv, Moves
<1>4. AnswerInv'
  <2>1. \A f : OnFile(f)' <=> OnFile(f)
    BY DEF OnFile, Moves
  <2> QED  BY <1>2, <2>1 DEF IInv, AnswerInv, Moves
<1>5. BlockedIsOnFile'
  <2>1. ASSUME NEW c \in Calls, acted'[c] = "blocked"
        PROVE  \E p \in Parts : \E f \in written[p] \ buffered[p] : f.kind = "blocked" /\ f.call = c
    <3>1. CASE acted[c] = "blocked"
      BY <3>1 DEF IInv, BlockedIsOnFile
    <3>2. CASE \E f \in Entry : OnFile(f) /\ f.kind = "blocked" /\ f.call = c
      BY <3>2 DEF OnFile, Entry
    <3> QED  BY <2>1, <3>1, <3>2 DEF Moves
  <2> QED  BY <2>1 DEF BlockedIsOnFile, Moves
<1> QED  BY <1>3, <1>4, <1>5

LEMMA HandlerType ==
    ASSUME IInv, NEW h \in Handlers, NEW x \in {"idle", "enter", "sending", "waiting"},
           NEW e \in Entry \cup {NoEntry}, Moves(h, x, e),
           made' \in [Handlers -> 0..MaxCalls],
           acted' \in [Calls -> {"none", "forwarded", "blocked"}], asked' \subseteq Entry,
           queue' \in Seq(Entry), Len(queue') <= QueueCap, GapsType', faults' \in 0..MaxFaults
    PROVE  TypeOK'
<1>1. /\ pc' \in [Handlers -> {"idle", "enter", "sending", "waiting"}]
      /\ doing' \in [Handlers -> Entry \cup {NoEntry}]
      /\ answer' \in [Handlers -> {"none", "ok", "error"}]
  BY DEF Moves, IInv, TypeOK
<1>2. \A g \in Handlers : pc'[g] # "idle" => doing'[g] \in Entry
  <2>1. \A g \in Handlers : pc[g] # "idle" => doing[g] \in Entry
    BY DEF IInv, TypeOK
  <2>2. /\ pc'[h] = x /\ doing'[h] = e
        /\ \A g \in Handlers \ {h} : pc'[g] = pc[g] /\ doing'[g] = doing[g]
    BY DEF Moves, IInv, TypeOK
  <2> QED  BY <2>1, <2>2 DEF Moves
<1>3. UNCHANGED <<gate, writer, written, buffered, gone, opened, broken, closeErr>>
  BY DEF Moves
<1> QED  BY <1>1, <1>2, <1>3 DEF IInv, TypeOK, GapsType

LEMMA EntryType ==
    ASSUME NEW e \in Entry
    PROVE  /\ e.call \in Calls /\ e.part \in Parts /\ e.kind \in EntryKinds
           /\ e.call[1] \in Handlers /\ e.call[2] \in 1..MaxCalls
BY DEF Entry, Calls

LEMMA QueuedType ==
    ASSUME TypeOK
    PROVE  \A i \in 1..Len(queue) : queue[i] \in Entry /\ queue[i].call[1] \in Handlers
<1>1. queue \in Seq(Entry)
  BY DEF TypeOK
<1>2. \A i \in 1..Len(queue) : queue[i] \in Entry
  BY <1>1
<1> QED  BY <1>2, EntryType

\* A handler nobody owes an answer to has no entry of its own in the queue.
LEMMA HandlerQueue ==
    ASSUME IInv, NEW h \in Handlers, NEW x \in {"idle", "enter", "sending"},
           NEW e \in Entry \cup {NoEntry}, Moves(h, x, e), queue' = queue,
           pc[h] # "waiting" \/ answer[h] # "none"
    PROVE  QueueInv'
<1>1. /\ pc'[h] = x
      /\ \A g \in Handlers \ {h} : pc'[g] = pc[g] /\ doing'[g] = doing[g] /\ answer'[g] = answer[g]
  BY DEF Moves, IInv, TypeOK
<1>2. \A i \in 1..Len(queue) : queue[i] \in Entry /\ queue[i].call[1] \in Handlers
  BY QueuedType DEF IInv
<1>3. \A i \in 1..Len(queue) : Waits(queue[i]) => queue[i].call[1] # h
  BY <1>2 DEF IInv, QueueInv
<1> QED  BY <1>1, <1>2, <1>3 DEF IInv, QueueInv

\* A step of h that closes no gate, sends nothing on a closed one and lets the
\* writer alone keeps CloseInv, as long as the writer has not left the queue.
LEMMA HandlerClose ==
    ASSUME IInv, NEW h \in Handlers, NEW x \in {"idle", "enter", "sending", "waiting"},
           NEW e \in Entry \cup {NoEntry}, Moves(h, x, e),
           x = "sending" => gate # "closed", queue' = queue \/ gate # "closed"
    PROVE  CloseInv'
<1>1. /\ pc'[h] = x /\ \A g \in Handlers \ {h} : pc'[g] = pc[g]
  BY DEF Moves, IInv, TypeOK
<1>2. UNCHANGED <<gate, writer, buffered, opened, closeErr>>
  BY DEF Moves
<1>3. NoSendOnClosed'
  BY <1>1, <1>2 DEF IInv, CloseInv, NoSendOnClosed
<1> QED  BY <1>2, <1>3 DEF IInv, CloseInv
\* What a handler does once its append returned is such a move.
LEMMA ReturnedMoves ==
    ASSUME IInv, NEW h \in Handlers, NEW ok \in BOOLEAN, pc[h] # "idle", Returned(h, ok),
           ok /\ doing[h].kind = "blocked" => OnFile(doing[h]),
           made' = made, answer' = [answer EXCEPT ![h] = "none"],
           UNCHANGED <<gate, writer, written, buffered, gone, opened, broken, closeErr>>
    PROVE  /\ \E x \in {"idle", "enter"}, e \in Entry \cup {NoEntry} : Moves(h, x, e)
           /\ asked' \subseteq Entry /\ acted' \in [Calls -> {"none", "forwarded", "blocked"}]
<1> DEFINE d == doing[h]
<1>1. PICK x \in {"idle", "enter"}, e \in Entry \cup {NoEntry} :
              /\ pc' = [pc EXCEPT ![h] = x] /\ doing' = [doing EXCEPT ![h] = e]
              /\ asked' \subseteq Entry
              /\ acted' \in [Calls -> {"none", "forwarded", "blocked"}]
              /\ \A c \in Calls : c # d.call => acted'[c] = acted[c]
              /\ d \in Entry /\ d.call \in Calls
              /\ acted'[d.call] = "blocked" =>
                    \/ acted[d.call] = "blocked"
                    \/ ok /\ d.kind = "blocked"
              /\ x = "enter" => /\ e \in Entry /\ e.call = d.call
                                /\ e.kind \in Undone => acted'[e.call] = "none"
  BY ReturnedFacts DEF IInv
<1>2. d.call[1] = h /\ d.call[2] = made[h]
  BY DEF IInv, CallInv
<1>3. x # "idle" => /\ e \in Entry /\ e.call[1] = h /\ e.call[2] = made'[h]
                    /\ e.kind \in Undone => acted'[e.call] = "none"
  BY <1>1, <1>2
<1>4. \A g \in Handlers : made[g] \in Nat
  BY LedgerAssumption DEF IInv, TypeOK
<1>5. \A g \in Handlers : made[g] <= made'[g] /\ (g # h => made'[g] = made[g])
  BY <1>4
<1>6. ASSUME NEW c \in Calls
      PROVE  /\ c[1] # h => acted'[c] = acted[c]
             /\ acted'[c] # "none" => c[2] <= made'[c[1]]
             /\ acted'[c] = "blocked" =>
                   \/ acted[c] = "blocked"
                   \/ \E f \in Entry : OnFile(f) /\ f.kind = "blocked" /\ f.call = c
  <2>1. CASE c = d.call
    <3>1. c[1] = h /\ c[2] <= made'[c[1]]
      BY <1>2, <1>4, <2>1
    <3>2. acted'[c] = "blocked" =>
             acted[c] = "blocked" \/ \E f \in Entry : OnFile(f) /\ f.kind = "blocked" /\ f.call = c
      BY <1>1, <2>1
    <3> QED  BY <3>1, <3>2
  <2>2. CASE c # d.call
    BY <1>1, <2>2 DEF IInv, CallInv
  <2> QED  BY <2>1, <2>2
<1>7. Moves(h, x, e)
  BY <1>1, <1>3, <1>5, <1>6 DEF Moves
<1> QED  BY <1>1, <1>7
-----------------------------------------------------------------------------
(* The steps of a handler.                                                 *)

LEMMA NextCallInv ==
    ASSUME IInv, NEW h \in Handlers, NEW p \in Parts, NEW kind \in EntryKinds,
           NextCall(h, p, kind), GapsType', faults' \in 0..MaxFaults,
           UNCHANGED <<answer, acted, queue, gate, writer, written, buffered, gone, opened, broken, closeErr>>
    PROVE  IInv'
<1> DEFINE e == [call |-> <<h, made[h] + 1>>, part |-> p, kind |-> kind]
<1>1. /\ pc[h] = "idle" /\ made[h] < MaxCalls /\ made' = [made EXCEPT ![h] = made[h] + 1]
      /\ doing' = [doing EXCEPT ![h] = e] /\ pc' = [pc EXCEPT ![h] = "enter"]
      /\ asked' = asked \cup {e}
  BY DEF NextCall, Begin
<1>2. /\ made \in [Handlers -> 0..MaxCalls] /\ MaxCalls \in Nat
      /\ answer \in [Handlers -> {"none", "ok", "error"}]
      /\ acted \in [Calls -> {"none", "forwarded", "blocked"}]
      /\ asked \subseteq Entry /\ queue \in Seq(Entry) /\ Len(queue) <= QueueCap
  BY LedgerAssumption DEF IInv, TypeOK
<1>3. <<h, made[h] + 1>> \in Calls
  BY <1>1, <1>2 DEF Calls
<1>4. e \in Entry /\ e.call = <<h, made[h] + 1>>
  BY <1>3 DEF Entry
<1> HIDE DEF e
<1>5. acted[e.call] = "none"
  <2>1. made[h] \in Nat /\ ~(made[h] + 1 <= made[h])
    BY <1>2
  <2> QED  BY <1>2, <1>3, <1>4, <2>1 DEF IInv, CallInv
<1>6. answer[h] = "none"
  BY <1>1, <1>2 DEF IInv, AnswerInv
<1>7. made' \in [Handlers -> 0..MaxCalls] /\ made'[h] = made[h] + 1
  BY <1>1, <1>2
<1>8. \A g \in Handlers : made[g] <= made'[g] /\ (g # h => made'[g] = made[g])
  BY <1>1, <1>2
<1>9. \A c \in Calls : acted[c] # "none" => c[2] <= made'[c[1]]
  <2>1. \A c \in Calls : c[1] \in Handlers /\ c[2] \in Nat
    BY <1>2 DEF Calls
  <2>2. \A g \in Handlers : made[g] \in Nat /\ made'[g] \in Nat
    BY <1>2, <1>7
  <2>3. ASSUME NEW c \in Calls, acted[c] # "none" PROVE c[2] <= made'[c[1]]
    <3>1. c[2] <= made[c[1]]
      BY <2>3 DEF IInv, CallInv
    <3> QED  BY <1>8, <2>1, <2>2, <3>1
  <2> QED  BY <2>3
<1>10. answer' = [answer EXCEPT ![h] = "none"]
  BY <1>2, <1>6
<1>11. e \in Entry /\ e.call[1] = h /\ e.call[2] = made'[h] /\ acted'[e.call] = "none"
  BY <1>4, <1>5, <1>7
<1>12. Moves(h, "enter", e)
  BY <1>1, <1>8, <1>9, <1>10, <1>11 DEF Moves
<1>13. TypeOK'
  <2>1. asked' \subseteq Entry
    BY <1>1, <1>2, <1>4
  <2> QED  BY <1>2, <1>4, <1>7, <1>12, <2>1, HandlerType
<1>14. CallInv' /\ AnswerInv' /\ BlockedIsOnFile'
  BY <1>4, <1>12, HandlerFrame
<1>15. QueueInv'
  BY <1>1, <1>4, <1>12, HandlerQueue
<1>16. CloseInv'
  BY <1>4, <1>12, HandlerClose
<1> QED  BY <1>13, <1>14, <1>15, <1>16 DEF IInv

LEMMA DecideInv ==
    ASSUME IInv, NEW h \in Handlers, NEW p \in Parts, NEW kind \in {"decision", "blocked"},
           NEW ok \in BOOLEAN, Decide(h, p, kind, ok)
    PROVE  IInv'
<1>1. /\ NextCall(h, p, kind)
      /\ \/ UNCHANGED gapVars /\ faults' = faults
         \/ faults < MaxFaults /\ faults' = faults + 1 /\ CountGap(p, "identityFail")
      /\ UNCHANGED <<answer, acted, queue, gate, writer, written, buffered, gone, opened, broken, closeErr>>
  BY DEF Decide, fileVars
<1>2. GapsType /\ faults \in 0..MaxFaults /\ MaxFaults \in Nat
  BY LedgerAssumption DEF IInv, TypeOK, GapsType
<1>3. GapsType'
  BY <1>1, <1>2, KeepGapsType, CountGapType DEF GapKinds
<1>4. faults' \in 0..MaxFaults
  BY <1>1, <1>2
<1>5. kind \in EntryKinds
  BY DEF EntryKinds
<1> QED  BY <1>1, <1>3, <1>4, <1>5, NextCallInv

LEMMA PruneInv == ASSUME IInv, NEW h \in Handlers, Prune(h) PROVE IInv'
<1> DEFINE p == CHOOSE q \in Parts : TRUE
<1>1. /\ NextCall(h, p, "prune") /\ UNCHANGED gapVars
      /\ UNCHANGED <<answer, acted, queue, gate, writer, written, buffered, gone, opened, broken, closeErr>>
      /\ faults' = faults
  BY DEF Prune, fileVars
<1>2. p \in Parts
  BY LedgerAssumption
<1>3. GapsType' /\ faults' \in 0..MaxFaults
  BY <1>1, KeepGapsType DEF IInv, TypeOK, GapsType
<1>4. "prune" \in EntryKinds
  BY DEF EntryKinds
<1> HIDE DEF p
<1> QED  BY <1>1, <1>2, <1>3, <1>4, NextCallInv
LEMMA RefusedType == ASSUME IInv, NEW h \in Handlers, pc[h] # "idle", Refused(h) PROVE GapsType'
<1>1. GapsType /\ doing[h] \in Entry
  BY DEF IInv, TypeOK, GapsType
<1> QED  BY <1>1, EntryType, KeepGapsType, CountGapType DEF Refused, GapKinds

LEMMA EnterInv == ASSUME IInv, NEW h \in Handlers, Enter(h) PROVE IInv'
<1>1. /\ pc[h] = "enter" /\ gate # "closing"
      /\ UNCHANGED <<made, answer, queue, gate, writer, written, buffered, gone, opened, broken, faults, closeErr>>
  BY DEF Enter, fileVars
<1>2. answer[h] = "none" /\ answer' = [answer EXCEPT ![h] = "none"]
  BY <1>1 DEF IInv, AnswerInv, TypeOK
<1>3. /\ made \in [Handlers -> 0..MaxCalls] /\ queue \in Seq(Entry) /\ Len(queue) <= QueueCap
      /\ faults \in 0..MaxFaults
  BY DEF IInv, TypeOK
<1>4. CASE gate = "open"
  <2>1. pc' = [pc EXCEPT ![h] = "sending"] /\ UNCHANGED <<doing, asked, acted, gapVars>>
    BY <1>4 DEF Enter
  <2>2. doing[h] \in Entry /\ doing' = [doing EXCEPT ![h] = doing[h]]
    BY <1>1, <2>1 DEF IInv, TypeOK
  <2>3. \A g \in Handlers : made[g] <= made'[g] /\ made'[g] = made[g]
    BY <1>1, <1>3, LedgerAssumption
  <2>4. Moves(h, "sending", doing[h])
    BY <1>1, <1>2, <2>1, <2>2, <2>3 DEF Moves, IInv, CallInv
  <2>5. GapsType' /\ asked' \subseteq Entry /\ acted' \in [Calls -> {"none", "forwarded", "blocked"}]
    BY <2>1, KeepGapsType DEF IInv, TypeOK, GapsType
  <2>6. TypeOK'
    BY <1>1, <1>3, <2>2, <2>4, <2>5, HandlerType
  <2>7. CallInv' /\ AnswerInv' /\ BlockedIsOnFile'
    BY <2>2, <2>4, HandlerFrame
  <2>8. QueueInv'
    BY <1>1, <2>2, <2>4, HandlerQueue
  <2>9. CloseInv'
    BY <1>1, <1>4, <2>2, <2>4, HandlerClose
  <2> QED  BY <2>6, <2>7, <2>8, <2>9 DEF IInv
<1>5. CASE gate # "open"
  <2>1. Returned(h, FALSE) /\ Refused(h)
    BY <1>5 DEF Enter
  <2>2. /\ \E x \in {"idle", "enter"}, e \in Entry \cup {NoEntry} : Moves(h, x, e)
        /\ asked' \subseteq Entry /\ acted' \in [Calls -> {"none", "forwarded", "blocked"}]
    BY <1>1, <1>2, <2>1, ReturnedMoves
  <2>3. PICK x \in {"idle", "enter"}, e \in Entry \cup {NoEntry} : Moves(h, x, e)
    BY <2>2
  <2>4. GapsType'
    BY <1>1, <2>1, RefusedType
  <2>5. TypeOK'
    BY <1>1, <1>3, <2>2, <2>3, <2>4, HandlerType
  <2>6. CallInv' /\ AnswerInv' /\ BlockedIsOnFile'
    BY <2>3, HandlerFrame
  <2>7. QueueInv'
    BY <1>1, <2>3, HandlerQueue
  <2>8. CloseInv'
    BY <1>1, <2>3, HandlerClose
  <2> QED  BY <2>5, <2>6, <2>7, <2>8 DEF IInv
<1> QED  BY <1>4, <1>5

LEMMA ReceiveInv == ASSUME IInv, NEW h \in Handlers, Receive(h) PROVE IInv'
<1>1. /\ pc[h] = "waiting" /\ answer[h] # "none" /\ answer' = [answer EXCEPT ![h] = "none"]
      /\ Returned(h, answer[h] = "ok")
      /\ UNCHANGED <<made, queue, gate, writer, gapVars, written, buffered, gone, opened, broken, faults, closeErr>>
  BY DEF Receive, fileVars
<1>2. answer[h] = "ok" /\ doing[h].kind = "blocked" => OnFile(doing[h])
  BY <1>1 DEF IInv, AnswerInv
<1>3. /\ \E x \in {"idle", "enter"}, e \in Entry \cup {NoEntry} : Moves(h, x, e)
      /\ asked' \subseteq Entry /\ acted' \in [Calls -> {"none", "forwarded", "blocked"}]
  BY <1>1, <1>2, ReturnedMoves
<1>4. PICK x \in {"idle", "enter"}, e \in Entry \cup {NoEntry} : Moves(h, x, e)
  BY <1>3
<1>5. GapsType'
  BY <1>1, KeepGapsType DEF IInv, TypeOK, GapsType
<1>6. TypeOK'
  <2>1. /\ made' \in [Handlers -> 0..MaxCalls] /\ queue' \in Seq(Entry) /\ Len(queue') <= QueueCap
        /\ faults' \in 0..MaxFaults
    BY <1>1 DEF IInv, TypeOK
  <2> QED  BY <1>3, <1>4, <1>5, <2>1, HandlerType
<1>7. CallInv' /\ AnswerInv' /\ BlockedIsOnFile'
  BY <1>4, HandlerFrame
<1>8. QueueInv'
  BY <1>1, <1>4, HandlerQueue
<1>9. CloseInv'
  BY <1>1, <1>4, HandlerClose
<1> QED  BY <1>6, <1>7, <1>8, <1>9 DEF IInv

\* QueueInv when h, which was not waiting, puts its entry into the queue.
LEMMA AppendQueue ==
    ASSUME IInv, NEW h \in Handlers, NEW x \in {"idle", "enter", "waiting"},
           NEW e \in Entry \cup {NoEntry}, Moves(h, x, e),
           pc[h] = "sending", queue' = Append(queue, doing[h]),
           (x = "waiting") <=> Waits(doing[h]), x = "waiting" => e = doing[h]
    PROVE  QueueInv'
<1> DEFINE d == doing[h]
           n == Len(queue)
<1>1. /\ pc'[h] = x /\ doing'[h] = e /\ answer'[h] = "none"
      /\ \A g \in Handlers \ {h} : pc'[g] = pc[g] /\ doing'[g] = doing[g] /\ answer'[g] = answer[g]
  BY DEF Moves, IInv, TypeOK
<1>2. d \in Entry /\ d.call[1] = h
  BY DEF IInv, TypeOK, CallInv
<1>3. queue \in Seq(Entry) /\ n \in Nat
  BY DEF IInv, TypeOK
<1>4. Len(queue') = n + 1 /\ queue'[n + 1] = d /\ \A i \in 1..n : queue'[i] = queue[i]
  BY <1>2, <1>3
<1>5. \A i \in 1..n : queue[i] \in Entry /\ queue[i].call[1] \in Handlers
  BY QueuedType DEF IInv
<1>6. \A i \in 1..n : Waits(queue[i]) => queue[i].call[1] # h
  BY <1>5 DEF IInv, QueueInv
<1> HIDE DEF d, n
<1>7. \A i \in 1..(n + 1) : i \in 1..n \/ i = n + 1
  BY <1>3
<1>8. ASSUME NEW i \in 1..Len(queue'), Waits(queue'[i])
      PROVE  LET g == queue'[i].call[1]
             IN  pc'[g] = "waiting" /\ doing'[g] = queue'[i] /\ answer'[g] = "none"
  <2>1. CASE i \in 1..n
    <3>1. /\ Waits(queue[i]) /\ queue[i].call[1] \in Handlers \ {h} /\ queue'[i] = queue[i]
      BY <1>4, <1>5, <1>6, <1>8, <2>1
    <3>2. LET g == queue[i].call[1]
          IN  pc[g] = "waiting" /\ doing[g] = queue[i] /\ answer[g] = "none"
      BY <2>1, <3>1 DEF IInv, QueueInv, n
    <3> QED  BY <1>1, <3>1, <3>2
  <2>2. CASE i = n + 1
    BY <1>1, <1>2, <1>4, <1>8, <2>2 DEF d
  <2> QED  BY <1>4, <1>7, <2>1, <2>2
<1>9. ASSUME NEW i \in 1..Len(queue'), NEW j \in 1..Len(queue'), i # j,
             Waits(queue'[i]), Waits(queue'[j])
      PROVE  queue'[i].call[1] # queue'[j].call[1]
  <2>1. CASE i \in 1..n /\ j \in 1..n
    BY <1>4, <1>9, <2>1 DEF IInv, QueueInv, n
  <2>2. CASE i \in 1..n /\ j = n + 1
    BY <1>2, <1>4, <1>6, <1>9, <2>2
  <2>3. CASE i = n + 1 /\ j \in 1..n
    BY <1>2, <1>4, <1>6, <1>9, <2>3
  <2> QED  BY <1>4, <1>7, <1>9, <2>1, <2>2, <2>3
<1>10. ASSUME NEW g \in Handlers, pc'[g] = "waiting", answer'[g] = "none"
       PROVE  \E i \in 1..Len(queue') : queue'[i] = doing'[g]
  <2>1. CASE g = h
    <3>1. queue'[n + 1] = doing'[g] /\ n + 1 \in 1..Len(queue')
      BY <1>1, <1>3, <1>4, <1>10, <2>1 DEF d
    <3> QED  BY <3>1
  <2>2. CASE g # h
    <3>1. PICK i \in 1..n : queue[i] = doing[g]
      BY <1>1, <1>10, <2>2 DEF IInv, QueueInv, n
    <3>2. i \in 1..Len(queue') /\ queue'[i] = doing'[g]
      BY <1>1, <1>3, <1>4, <2>2, <3>1
    <3> QED  BY <3>2
  <2> QED  BY <2>1, <2>2
<1> QED  BY <1>8, <1>9, <1>10 DEF QueueInv

LEMMA SendInv == ASSUME IInv, NEW h \in Handlers, Send(h) PROVE IInv'
<1>1. /\ pc[h] = "sending" /\ gate # "closed"
      /\ UNCHANGED <<made, answer, gate, writer, written, buffered, gone, opened, broken, faults, closeErr>>
  BY DEF Send, fileVars, IInv, CloseInv, NoSendOnClosed
<1>2. answer' = [answer EXCEPT ![h] = "none"]
  BY <1>1 DEF IInv, AnswerInv, TypeOK
<1>3. /\ made' \in [Handlers -> 0..MaxCalls] /\ faults' \in 0..MaxFaults
      /\ queue \in Seq(Entry) /\ Len(queue) <= QueueCap
      /\ QueueCap \in Nat /\ doing[h] \in Entry
  BY <1>1, LedgerAssumption DEF IInv, TypeOK
<1>4. CASE /\ Len(queue) < QueueCap /\ queue' = Append(queue, doing[h]) /\ UNCHANGED gapVars
           /\ Waits(doing[h]) /\ pc' = [pc EXCEPT ![h] = "waiting"]
           /\ UNCHANGED <<doing, asked, acted>>
  <2>1. doing' = [doing EXCEPT ![h] = doing[h]]
    BY <1>1, <1>4 DEF IInv, TypeOK
  <2>2. \A g \in Handlers : made[g] <= made'[g] /\ made'[g] = made[g]
    BY <1>1, LedgerAssumption DEF IInv, TypeOK
  <2>3. Moves(h, "waiting", doing[h])
    BY <1>1, <1>2, <1>3, <1>4, <2>1, <2>2 DEF Moves, IInv, CallInv
  <2>4. /\ GapsType' /\ asked' \subseteq Entry
        /\ acted' \in [Calls -> {"none", "forwarded", "blocked"}]
    BY <1>4, KeepGapsType DEF IInv, TypeOK, GapsType
  <2>5. queue' \in Seq(Entry) /\ Len(queue') <= QueueCap
    BY <1>3, <1>4
  <2>6. TypeOK'
    BY <1>3, <2>3, <2>4, <2>5, HandlerType
  <2>7. CallInv' /\ AnswerInv' /\ BlockedIsOnFile'
    BY <1>3, <2>3, HandlerFrame
  <2>8. QueueInv'
    BY <1>1, <1>3, <1>4, <2>3, AppendQueue
  <2>9. CloseInv'
    BY <1>1, <1>3, <2>3, HandlerClose
  <2> QED  BY <2>6, <2>7, <2>8, <2>9 DEF IInv
<1>5. CASE /\ Len(queue) < QueueCap /\ queue' = Append(queue, doing[h]) /\ UNCHANGED gapVars
           /\ ~Waits(doing[h]) /\ Returned(h, TRUE)
  <2>1. doing[h].kind # "blocked"
    BY <1>5 DEF Waits
  <2>2. /\ \E x \in {"idle", "enter"}, e \in Entry \cup {NoEntry} : Moves(h, x, e)
        /\ asked' \subseteq Entry /\ acted' \in [Calls -> {"none", "forwarded", "blocked"}]
    BY <1>1, <1>2, <1>5, <2>1, ReturnedMoves
  <2>3. PICK x \in {"idle", "enter"}, e \in Entry \cup {NoEntry} : Moves(h, x, e)
    BY <2>2
  <2>4. GapsType' /\ queue' \in Seq(Entry) /\ Len(queue') <= QueueCap
    BY <1>3, <1>5, KeepGapsType DEF IInv, TypeOK, GapsType
  <2>5. TypeOK'
    BY <1>3, <2>2, <2>3, <2>4, HandlerType
  <2>6. CallInv' /\ AnswerInv' /\ BlockedIsOnFile'
    BY <2>3, HandlerFrame
  <2>7. QueueInv'
    BY <1>1, <1>5, <2>3, AppendQueue
  <2>8. CloseInv'
    BY <1>1, <2>3, HandlerClose
  <2> QED  BY <2>5, <2>6, <2>7, <2>8 DEF IInv
<1>6. CASE Returned(h, FALSE) /\ CountGap(doing[h].part, "dropped") /\ queue' = queue
  <2>1. /\ \E x \in {"idle", "enter"}, e \in Entry \cup {NoEntry} : Moves(h, x, e)
        /\ asked' \subseteq Entry /\ acted' \in [Calls -> {"none", "forwarded", "blocked"}]
    BY <1>1, <1>2, <1>6, ReturnedMoves
  <2>2. PICK x \in {"idle", "enter"}, e \in Entry \cup {NoEntry} : Moves(h, x, e)
    BY <2>1
  <2>3. GapsType'
    BY <1>3, <1>6, EntryType, CountGapType DEF IInv, TypeOK, GapsType, GapKinds
  <2>4. TypeOK'
    BY <1>3, <1>6, <2>1, <2>2, <2>3, HandlerType
  <2>5. CallInv' /\ AnswerInv' /\ BlockedIsOnFile'
    BY <2>2, HandlerFrame
  <2>6. QueueInv'
    BY <1>1, <1>6, <2>2, HandlerQueue
  <2>7. CloseInv'
    BY <1>1, <2>2, HandlerClose
  <2> QED  BY <2>4, <2>5, <2>6, <2>7 DEF IInv
<1> QED  BY <1>4, <1>5, <1>6 DEF Send
-----------------------------------------------------------------------------
(* The writer takes an entry from the queue.                               *)

LEMMA ProcessInv == ASSUME IInv, NEW fail \in Failures, Process(fail) PROVE IInv'
<1> DEFINE e     == Head(queue)
           p     == e.part
           n     == Len(queue)
           owner == e.call[1]
           lost  == e.kind # "prune" /\ WriteFails(p, fail)
           added == e.kind # "prune" /\ ~lost
           stuck == broken[p] \/ fail = "flush"
<1>1. /\ writer = "select" /\ queue # <<>> /\ queue' = Tail(queue) /\ MayFail(p, fail)
      /\ written' = IF added THEN [written EXCEPT ![p] = written[p] \cup {e}] ELSE written
      /\ buffered' = IF added THEN [buffered EXCEPT ![p] = Buffer(p, e, stuck)] ELSE buffered
      /\ IF lost THEN CountGap(p, "writeErrors") ELSE UNCHANGED gapVars
      /\ answer' = IF Waits(e)
                   THEN [answer EXCEPT ![owner] =
                           IF lost \/ (added /\ stuck) THEN "error" ELSE "ok"]
                   ELSE answer
      /\ UNCHANGED <<pc, doing, made, acted, asked, gate, writer, gone, closeErr>>
  BY DEF Process
<1>2. /\ queue \in Seq(Entry) /\ n \in Nat \ {0} /\ e \in Entry /\ e = queue[1]
      /\ queue' \in Seq(Entry) /\ Len(queue') = n - 1 /\ n <= QueueCap /\ QueueCap \in Nat
      /\ \A i \in 1..(n - 1) : queue'[i] = queue[i + 1] /\ i + 1 \in 1..n
  BY <1>1, LedgerAssumption DEF IInv, TypeOK
<1>3. /\ p \in Parts /\ owner \in Handlers /\ e.call \in Calls
  BY <1>2, EntryType
<1>4. \A i \in 1..n : queue[i] \in Entry /\ queue[i].call[1] \in Handlers
  BY QueuedType DEF IInv
<1>5. Waits(e) => pc[owner] = "waiting" /\ doing[owner] = e /\ answer[owner] = "none"
  <2>1. 1 \in 1..n
    BY <1>2
  <2> QED  BY <1>2, <2>1 DEF IInv, QueueInv
<1>6. /\ written \in [Parts -> SUBSET Entry] /\ buffered \in [Parts -> SUBSET Entry]
      /\ \A q \in Parts : buffered[q] \subseteq written[q]
      /\ answer \in [Handlers -> {"none", "ok", "error"}]
  BY DEF IInv, TypeOK
<1>7. Buffer(p, e, stuck) \subseteq buffered[p] \cup {e}
  BY DEF Buffer
<1>8. /\ written' \in [Parts -> SUBSET Entry] /\ buffered' \in [Parts -> SUBSET Entry]
      /\ \A q \in Parts : /\ buffered'[q] \subseteq written'[q]
                          /\ written[q] \subseteq written'[q]
                          /\ buffered'[q] \subseteq buffered[q] \cup {e}
  <2>1. CASE added
    <3>1. /\ written' = [written EXCEPT ![p] = written[p] \cup {e}]
          /\ buffered' = [buffered EXCEPT ![p] = Buffer(p, e, stuck)]
      BY <1>1, <2>1
    <3> HIDE DEF e, p, stuck, added, lost
    <3> QED  BY <1>2, <1>3, <1>6, <1>7, <3>1
  <2>2. CASE ~added
    BY <1>1, <1>6, <2>2
  <2> QED  BY <2>1, <2>2
<1>9. ASSUME Waits(e), answer'[owner] = "ok", e.kind = "blocked"
      PROVE  e \in written'[p] \ buffered'[p]
  <2>1. ~lost /\ ~(added /\ stuck) /\ added
    BY <1>1, <1>3, <1>6, <1>9
  <2>2. /\ written' = [written EXCEPT ![p] = written[p] \cup {e}]
        /\ buffered' = [buffered EXCEPT ![p] = {}]
    BY <1>1, <1>9, <2>1 DEF Buffer
  <2> QED  BY <1>3, <1>6, <2>2
<1>10. \A f \in Entry : OnFile(f) /\ f # e => OnFile(f)'
  BY <1>8, EntryType DEF OnFile
<1>11. /\ \A g \in Handlers : g # owner \/ ~Waits(e) => answer'[g] = answer[g]
       /\ Waits(e) => answer'[owner] \in {"ok", "error"}
       /\ answer' \in [Handlers -> {"none", "ok", "error"}]
  BY <1>1, <1>3, <1>6
<1>12. /\ GapsType' /\ broken' \in [Parts -> BOOLEAN] /\ faults' \in 0..MaxFaults
       /\ opened' \subseteq Parts /\ opened \subseteq opened'
  <2>1. GapsType
    BY DEF IInv, TypeOK, GapsType
  <2>2. GapsType'
    BY <1>1, <1>3, <2>1, CountGapType, KeepGapsType DEF GapKinds
  <2> QED  BY <1>1, <1>3, <2>2, MayFailType DEF IInv
<1>13. TypeOK'
  <2>1. Len(queue') <= QueueCap
    BY <1>2
  <2> HIDE DEF e, p, n, owner, lost, added, stuck
  <2> QED  BY <1>1, <1>2, <1>8, <1>11, <1>12, <2>1 DEF IInv, TypeOK, GapsType
<1> HIDE DEF e, p, n, owner, lost, added, stuck
<1>14. CallInv'
  BY <1>1 DEF IInv, CallInv
<1>15. QueueInv'
  <2>1. ASSUME NEW i \in 1..(n - 1), Waits(queue'[i])
        PROVE  LET g == queue'[i].call[1]
               IN  pc'[g] = "waiting" /\ doing'[g] = queue'[i] /\ answer'[g] = "none"
    <3>1. i + 1 \in 1..n /\ queue'[i] = queue[i + 1] /\ Waits(queue[i + 1])
      BY <1>2, <2>1
    <3>2. LET g == queue[i + 1].call[1]
          IN  pc[g] = "waiting" /\ doing[g] = queue[i + 1] /\ answer[g] = "none"
      BY <3>1 DEF IInv, QueueInv, n
    <3>3. Waits(e) => queue[i + 1].call[1] # owner
      <4>1. 1 \in 1..n /\ i + 1 # 1
        BY <1>2, <2>1
      <4> QED  BY <1>2, <3>1, <4>1 DEF IInv, QueueInv, n, owner
    <3> QED  BY <1>1, <1>4, <1>11, <3>1, <3>2, <3>3
  <2>2. ASSUME NEW i \in 1..(n - 1), NEW j \in 1..(n - 1), i # j,
               Waits(queue'[i]), Waits(queue'[j])
        PROVE  queue'[i].call[1] # queue'[j].call[1]
    <3>1. /\ i + 1 \in 1..n /\ queue'[i] = queue[i + 1] /\ i + 1 # j + 1
          /\ j + 1 \in 1..n /\ queue'[j] = queue[j + 1]
      BY <1>2, <2>2
    <3> QED  BY <2>2, <3>1 DEF IInv, QueueInv, n
  <2>3. ASSUME NEW g \in Handlers, pc'[g] = "waiting", answer'[g] = "none"
        PROVE  \E i \in 1..(n - 1) : queue'[i] = doing'[g]
    <3>1. pc[g] = "waiting" /\ Waits(doing[g]) /\ doing[g].call[1] = g /\ doing'[g] = doing[g]
      BY <1>1, <2>3 DEF IInv, AnswerInv, CallInv
    <3>2. answer[g] = "none"
      BY <1>5, <1>11, <2>3
    <3>3. PICK i \in 1..n : queue[i] = doing[g]
      BY <3>1, <3>2 DEF IInv, QueueInv, n
    <3>4. i # 1
      BY <1>2, <1>11, <2>3, <3>1, <3>3 DEF owner
    <3>5. i - 1 \in 1..(n - 1) /\ queue'[i - 1] = queue[i]
      BY <1>2, <3>4
    <3> QED  BY <3>1, <3>3, <3>5
  <2> QED  BY <1>2, <2>1, <2>2, <2>3 DEF QueueInv
<1>16. AnswerInv'
  <2>1. ASSUME NEW g \in Handlers
        PROVE  /\ pc'[g] = "waiting" => Waits(doing'[g])
               /\ answer'[g] # "none" => pc'[g] = "waiting"
               /\ pc'[g] = "waiting" /\ answer'[g] = "ok" /\ doing'[g].kind = "blocked" =>
                     OnFile(doing[g])'
    <3>1. CASE g = owner /\ Waits(e)
      <4>1. pc'[g] = "waiting" /\ doing'[g] = e
        BY <1>1, <1>5, <3>1
      <4>2. answer'[g] = "ok" /\ e.kind = "blocked" => e \in written'[p] \ buffered'[p]
        BY <1>9, <3>1
      <4> QED  BY <3>1, <4>1, <4>2 DEF OnFile, p
    <3>2. CASE g # owner \/ ~Waits(e)
      <4>1. answer'[g] = answer[g]
        BY <1>11, <3>2
      <4>2. ASSUME pc[g] = "waiting", answer[g] = "ok", doing[g].kind = "blocked"
            PROVE  OnFile(doing[g])'
        <5>1. doing[g] \in Entry /\ OnFile(doing[g]) /\ Waits(doing[g]) /\ doing[g].call[1] = g
          BY <4>2 DEF IInv, TypeOK, AnswerInv, CallInv
        <5>2. doing[g] # e
          BY <3>2, <5>1 DEF owner
        <5>3. doing'[g] = doing[g]
          BY <1>1
        <5> QED  BY <1>10, <5>1, <5>2, <5>3
      <4> QED  BY <1>1, <4>1, <4>2 DEF IInv, AnswerInv
    <3> QED  BY <3>1, <3>2
  <2> QED  BY <2>1 DEF AnswerInv
<1>17. BlockedIsOnFile'
  <2>1. ASSUME NEW c \in Calls, acted[c] = "blocked"
        PROVE  \E q \in Parts : \E f \in written'[q] \ buffered'[q] :
                  f.kind = "blocked" /\ f.call = c
    <3>1. PICK q \in Parts : \E f \in written[q] \ buffered[q] : f.kind = "blocked" /\ f.call = c
      BY <2>1 DEF IInv, BlockedIsOnFile
    <3>2. PICK f \in written[q] \ buffered[q] : f.kind = "blocked" /\ f.call = c
      BY <3>1
    <3>3. f # e
      <4>1. SUFFICES ASSUME f = e PROVE FALSE
        OBVIOUS
      <4>2. Waits(e) /\ e.kind \in Undone
        BY <3>2, <4>1 DEF Waits, Undone
      <4>3. pc[owner] # "idle" /\ doing[owner] = e
        BY <1>5, <4>2
      <4>4. acted[e.call] = "none"
        BY <1>3, <4>2, <4>3 DEF IInv, CallInv
      <4> QED  BY <2>1, <3>2, <4>1, <4>4
    <3>4. f \in written'[q] \ buffered'[q]
      BY <1>8, <3>2, <3>3
    <3> QED  BY <3>2, <3>4
  <2> QED  BY <1>1, <2>1 DEF BlockedIsOnFile
<1>18. CloseInv'
  <2>1. added => p \in opened'
    BY <1>1 DEF added, lost, WriteFails, MayFail
  <2>2. \A q \in Parts : buffered'[q] = buffered[q] \/ (added /\ q = p)
    BY <1>1, <1>6
  <2>3. \A q \in Parts \ opened' : buffered'[q] = {}
    BY <1>12, <2>1, <2>2 DEF IInv, CloseInv
  <2> QED  BY <1>1, <2>3 DEF IInv, CloseInv, NoSendOnClosed
<1> QED  BY <1>13, <1>14, <1>15, <1>16, <1>17, <1>18 DEF IInv
-----------------------------------------------------------------------------
LEMMA InitInv == Init => IInv
<1> SUFFICES ASSUME Init PROVE IInv
  OBVIOUS
<1>1. TypeOK
  <2>1. NoGaps \in [GapKinds -> Nat] /\ queue \in Seq(Entry) /\ Len(queue) = 0
    BY NoGapsType DEF Init
  <2>2. /\ pc \in [Handlers -> {"idle", "enter", "sending", "waiting"}]
        /\ doing \in [Handlers -> Entry \cup {NoEntry}]
        /\ made \in [Handlers -> 0..MaxCalls]
        /\ answer \in [Handlers -> {"none", "ok", "error"}]
        /\ acted \in [Calls -> {"none", "forwarded", "blocked"}]
        /\ \A h \in Handlers : pc[h] = "idle"
    BY LedgerAssumption DEF Init
  <2>3. /\ pending \in [Parts -> [GapKinds -> Nat]] /\ taken \in [Parts -> [GapKinds -> Nat]]
        /\ total \in [GapKinds -> Nat] /\ recorded \in [Parts -> [GapKinds -> Nat]]
    BY <2>1 DEF Init
  <2>4. /\ written \in [Parts -> SUBSET Entry] /\ buffered \in [Parts -> SUBSET Entry]
        /\ \A p \in Parts : buffered[p] \subseteq written[p]
        /\ gone \in [Parts -> SUBSET SUBSET Entry] /\ opened \subseteq Parts
        /\ broken \in [Parts -> BOOLEAN]
    BY DEF Init
  <2>5. /\ asked \subseteq Entry /\ Len(queue) <= QueueCap
        /\ gate \in {"open", "closing", "closed"}
        /\ writer \in {"select", "gaps", "flush", "done", "lastGaps", "seal", "returned"}
        /\ faults \in 0..MaxFaults
    <3>1. asked = {} /\ gate = "open" /\ writer = "select" /\ faults = 0
      BY DEF Init
    <3> QED  BY <2>1, <3>1, LedgerAssumption
  <2>6. closeErr \in BOOLEAN
    BY DEF Init
  <2> QED  BY <2>1, <2>2, <2>3, <2>4, <2>5, <2>6 DEF TypeOK
<1>2. CallInv /\ AnswerInv
  BY DEF Init, CallInv, AnswerInv, Calls
<1>3. QueueInv
  <2>1. \A i \in 1..Len(queue) : FALSE
    BY DEF Init
  <2> QED  BY <2>1 DEF Init, QueueInv
<1>4. CloseInv
  BY DEF Init, CloseInv, NoSendOnClosed
<1>5. BlockedIsOnFile
  BY DEF Init, BlockedIsOnFile
<1> QED  BY <1>1, <1>2, <1>3, <1>4, <1>5 DEF IInv

LEMMA StutterInv == IInv /\ UNCHANGED vars => IInv'
<1> SUFFICES ASSUME IInv, UNCHANGED vars PROVE IInv'
  OBVIOUS
<1>1. /\ UNCHANGED <<handlerVars, queue, gate, writer, written, buffered, gone, opened, broken, faults, closeErr>>
      /\ UNCHANGED gapVars
  BY DEF vars, fileVars
<1>2. GapsType'
  BY <1>1, KeepGapsType DEF IInv, TypeOK, GapsType
<1>3. TypeOK'
  BY <1>1, <1>2, WriterType DEF IInv, TypeOK
<1>4. CloseInv'
  BY <1>1 DEF IInv, CloseInv, NoSendOnClosed, handlerVars
<1> QED  BY <1>1, <1>3, <1>4, WriterFrame DEF IInv

LEMMA NextInv == IInv /\ [Next]_vars => IInv'
<1> SUFFICES ASSUME IInv, [Next]_vars PROVE IInv'
  OBVIOUS
<1>1. ASSUME NEW h \in Handlers, NEW p \in Parts, NEW kind \in {"decision", "blocked"},
             NEW ok \in BOOLEAN, Decide(h, p, kind, ok)
      PROVE  IInv'
  BY <1>1, DecideInv
<1>2. ASSUME NEW h \in Handlers, Prune(h) \/ HandlerStep(h) PROVE IInv'
  BY <1>2, PruneInv, EnterInv, SendInv, ReceiveInv DEF HandlerStep
<1>3. CASE FromQueue
  BY <1>3, ExitInv, ProcessInv DEF FromQueue
<1>4. CASE Tick
  BY <1>4, TickInv
<1>5. CASE Onward
  BY <1>5, WriteGapInv, GapsWrittenInv, FlushInv, SealInv, LastGapsInv DEF Onward
<1>6. CASE Close \/ Shut
  BY <1>6, GateInv
<1>7. CASE UNCHANGED vars
  BY <1>7, StutterInv
<1>8. ASSUME NEW p \in Parts, NEW fail, NEW torn \in BOOLEAN, Evict(p, fail, torn) PROVE IInv'
  BY <1>8, EvictInv
<1> QED  BY <1>1, <1>2, <1>3, <1>4, <1>5, <1>6, <1>7, <1>8 DEF Next

\* The inductive invariant holds of every behaviour of the ledger: of handlers in
\* Append, AppendSync and Prune, run() and Close, in any interleaving.
THEOREM Invariance == Spec => []IInv
<1>1. Init => IInv
  BY InitInv
<1>2. IInv /\ [Next]_vars => IInv'
  BY NextInv
<1> QED  BY <1>1, <1>2, PTL DEF Spec

\* Every variable stays in its type; so the queue never exceeds queueCap.
THEOREM TypeCorrect == Spec => []TypeOK
<1>1. IInv => TypeOK
  BY DEF IInv
<1> QED  BY <1>1, Invariance, PTL

\* No handler sends on the queue Close has closed (enqueue, AppendSync and Prune
\* hold closeMu while they send), which would panic the process.
THEOREM NeverSendsOnClosed == Spec => []NoSendOnClosed
<1>1. IInv => NoSendOnClosed
  BY DEF IInv, CloseInv
<1> QED  BY <1>1, Invariance, PTL

\* decideCall stops a call only when AppendSync's record of it is in the file and
\* out of its buffer, whichever operations failed in between.
THEOREM BlockedIsRecorded == Spec => []BlockedIsOnFile
<1>1. IInv => BlockedIsOnFile
  BY DEF IInv
<1> QED  BY <1>1, Invariance, PTL

\* When Close has returned without an error nothing is left in the queue or in a
\* buffer, and whoever waits in AppendSync or Prune has been answered.
THEOREM CloseCompletes == Spec => []CloseIsComplete
<1>1. IInv => CloseIsComplete
  <2> SUFFICES ASSUME IInv, writer = "returned", ~closeErr
               PROVE  /\ queue = <<>>
                      /\ \A h \in Handlers : pc[h] # "waiting" \/ answer[h] # "none"
                      /\ \A p \in Parts : buffered[p] = {}
    BY DEF CloseIsComplete
  <2>1. queue = <<>> /\ \A p \in Parts : buffered[p] = {}
    BY DEF IInv, CloseInv
  <2>2. \A i \in 1..Len(queue) : FALSE
    BY <2>1
  <2>3. \A h \in Handlers : pc[h] # "waiting" \/ answer[h] # "none"
    BY <2>2 DEF IInv, QueueInv
  <2> QED  BY <2>1, <2>3
<1> QED  BY <1>1, Invariance, PTL
-----------------------------------------------------------------------------
(* Losses and their counts.                                                *)

\* Outside writeGaps nothing is drained and not yet recorded.
TakenInv == writer \notin {"gaps", "lastGaps"} => \A p \in Parts : taken[p] = NoGaps

\* One more gap of kind k, or none (d = 0), and it is of partition p.
Grows(p, k, d) ==
    /\ total'[k] = total[k] + d
    /\ Counted(p, k)' = Counted(p, k) + d
    /\ \A q \in Parts \ {p} : Counted(q, k)' = Counted(q, k)

\* The new gap is of a kind that stands for a lost record.
CountsLoss(p) == \E k \in {"dropped", "writeErrors"} : Grows(p, k, 1)

Tallied == \A k \in GapKinds : \E p \in Parts, d \in {0, 1} : Grows(p, k, d)

LEMMA CountedType ==
    ASSUME GapsType
    PROVE  \A p \in Parts, k \in GapKinds : Counted(p, k) \in Nat /\ total[k] \in Nat
<1> SUFFICES ASSUME NEW p \in Parts, NEW k \in GapKinds
             PROVE  Counted(p, k) \in Nat /\ total[k] \in Nat
  OBVIOUS
<1>1. pending[p][k] \in Nat /\ taken[p][k] \in Nat /\ recorded[p][k] \in Nat /\ total[k] \in Nat
  BY DEF GapsType
<1> QED  BY <1>1 DEF Counted

LEMMA CountGapGrows ==
    ASSUME GapsType, NEW p \in Parts, NEW j \in GapKinds, CountGap(p, j)
    PROVE  Tallied /\ Grows(p, j, 1)
<1>1. pending[p] \in [GapKinds -> Nat]
  BY DEF GapsType
<1>2. pending' = [pending EXCEPT ![p] = [pending[p] EXCEPT ![j] = pending[p][j] + 1]]
  BY DEF CountGap
<1>3. /\ \A q \in Parts \ {p} : pending'[q] = pending[q]
      /\ \A k \in GapKinds \ {j} : pending'[p][k] = pending[p][k]
      /\ pending'[p][j] = pending[p][j] + 1
  BY <1>1, <1>2 DEF GapsType
<1>4. /\ total'[j] = total[j] + 1 /\ \A k \in GapKinds \ {j} : total'[k] = total[k]
      /\ taken' = taken /\ recorded' = recorded
  BY DEF CountGap, GapsType
<1>5. \A q \in Parts, k \in GapKinds :
         pending[q][k] \in Nat /\ taken[q][k] \in Nat /\ recorded[q][k] \in Nat /\ total[k] \in Nat
  BY DEF GapsType
<1>6. Grows(p, j, 1)
  BY <1>3, <1>4, <1>5 DEF Grows, Counted
<1>7. ASSUME NEW k \in GapKinds \ {j} PROVE Grows(p, k, 0)
  BY <1>3, <1>4, <1>5 DEF Grows, Counted
<1> QED  BY <1>6, <1>7 DEF Tallied

LEMMA KeepGapsGrows == ASSUME GapsType, UNCHANGED gapVars PROVE Tallied
<1>1. PICK p : p \in Parts
  BY LedgerAssumption
<1>2. UNCHANGED <<pending, taken, recorded, total>>
  BY DEF gapVars
<1>3. \A k \in GapKinds : Grows(p, k, 0)
  BY <1>1, <1>2, CountedType DEF Grows, Counted
<1> QED  BY <1>1, <1>3 DEF Tallied

LEMMA TakeGapsGrows ==
    ASSUME GapsType, TakeGaps, \A p \in Parts : taken[p] = NoGaps PROVE Tallied
<1>1. PICK p : p \in Parts
  BY LedgerAssumption
<1>2. /\ taken' = pending /\ pending' = [q \in Parts |-> NoGaps]
      /\ recorded' = recorded /\ total' = total
  BY DEF TakeGaps
<1>3. ASSUME NEW q \in Parts, NEW k \in GapKinds PROVE Counted(q, k)' = Counted(q, k)
  <2>1. pending[q][k] \in Nat /\ recorded[q][k] \in Nat /\ taken[q][k] = 0 /\ pending'[q][k] = 0
    BY <1>2 DEF GapsType, NoGaps
  <2> QED  BY <1>2, <2>1 DEF Counted
<1>4. \A k \in GapKinds : Grows(p, k, 0)
  BY <1>1, <1>2, <1>3, CountedType DEF Grows
<1> QED  BY <1>1, <1>4 DEF Tallied

LEMMA WriteGapGrows ==
    ASSUME GapsType, NEW p \in Parts, NEW fail, WriteGap(p, fail)
    PROVE  Tallied
<1> DEFINE own == IF total["writeErrors"] < MaxErrors THEN OneError ELSE NoGaps
<1>1. /\ taken' = [taken EXCEPT ![p] = NoGaps]
      /\ \/ /\ pending' = [pending EXCEPT ![p] = Plus(pending[p], Plus(taken[p], own))]
            /\ total' = Plus(total, own) /\ recorded' = recorded
         \/ /\ recorded' = [recorded EXCEPT ![p] = Plus(recorded[p], taken[p])]
            /\ pending' = pending /\ total' = total
  BY DEF WriteGap
<1>2. \A k \in GapKinds : own[k] \in {0, 1} /\ NoGaps[k] = 0
  BY DEF OneError, NoGaps, GapKinds
<1>3. \A q \in Parts, k \in GapKinds :
         pending[q][k] \in Nat /\ taken[q][k] \in Nat /\ recorded[q][k] \in Nat /\ total[k] \in Nat
  BY DEF GapsType
<1>4. taken'[p] = NoGaps /\ \A q \in Parts \ {p} : taken'[q] = taken[q]
  BY <1>1 DEF GapsType
<1> HIDE DEF own
<1> SUFFICES ASSUME NEW k \in GapKinds PROVE \E q \in Parts, d \in {0, 1} : Grows(q, k, d)
  BY DEF Tallied
<1>5. CASE /\ pending' = [pending EXCEPT ![p] = Plus(pending[p], Plus(taken[p], own))]
           /\ total' = Plus(total, own) /\ recorded' = recorded
  <2>1. /\ pending'[p] = Plus(pending[p], Plus(taken[p], own))
        /\ \A q \in Parts \ {p} : pending'[q] = pending[q]
    BY <1>5 DEF GapsType
  <2>2. pending'[p][k] = pending[p][k] + (taken[p][k] + own[k]) /\ total'[k] = total[k] + own[k]
    BY <1>5, <2>1 DEF Plus
  <2>3. Counted(p, k)' = Counted(p, k) + own[k]
    BY <1>2, <1>3, <1>4, <1>5, <2>2 DEF Counted
  <2>4. \A q \in Parts \ {p} : Counted(q, k)' = Counted(q, k)
    BY <1>4, <1>5, <2>1 DEF Counted
  <2> QED  BY <1>2, <2>2, <2>3, <2>4 DEF Grows
<1>6. CASE /\ recorded' = [recorded EXCEPT ![p] = Plus(recorded[p], taken[p])]
           /\ pending' = pending /\ total' = total
  <2>1. /\ recorded'[p] = Plus(recorded[p], taken[p])
        /\ \A q \in Parts \ {p} : recorded'[q] = recorded[q]
    BY <1>6 DEF GapsType
  <2>2. recorded'[p][k] = recorded[p][k] + taken[p][k] /\ total'[k] = total[k] + 0
    BY <1>3, <1>6, <2>1 DEF Plus
  <2>3. Counted(p, k)' = Counted(p, k) + 0
    BY <1>2, <1>3, <1>4, <1>6, <2>2 DEF Counted
  <2>4. \A q \in Parts \ {p} : Counted(q, k)' = Counted(q, k)
    BY <1>4, <1>6, <2>1 DEF Counted
  <2> QED  BY <2>2, <2>3, <2>4 DEF Grows
<1> QED  BY <1>1, <1>5, <1>6

\* Every step counts at most one gap of each kind, and writeGaps neither loses
\* nor repeats one.
LEMMA EveryStepTallies ==
    ASSUME IInv, TakenInv, [Next]_vars
    PROVE  Tallied /\ TakenInv'
<1>0. GapsType
  BY DEF IInv, TypeOK, GapsType
<1>1. ASSUME UNCHANGED gapVars, writer' = writer \/ writer' \notin {"gaps", "lastGaps"},
             writer' # writer => \A p \in Parts : taken[p] = NoGaps
      PROVE  Tallied /\ TakenInv'
  BY <1>0, <1>1, KeepGapsGrows DEF TakenInv, gapVars
<1>2. ASSUME NEW p \in Parts, NEW k \in GapKinds, CountGap(p, k), writer' = writer
      PROVE  Tallied /\ TakenInv'
  BY <1>0, <1>2, CountGapGrows DEF TakenInv, CountGap
<1>3. ASSUME NEW h \in Handlers, NEW p \in Parts, NEW kind, NEW ok, Decide(h, p, kind, ok)
      PROVE  Tallied /\ TakenInv'
  <2>1. (UNCHANGED gapVars \/ CountGap(p, "identityFail")) /\ writer' = writer
    BY <1>3 DEF Decide
  <2> QED  BY <1>1, <1>2, <2>1 DEF GapKinds
<1>4. ASSUME NEW h \in Handlers, Prune(h) \/ HandlerStep(h) PROVE Tallied /\ TakenInv'
  <2>1. pc[h] # "idle" => doing[h].part \in Parts
    BY EntryType DEF IInv, TypeOK
  <2>2. /\ writer' = writer
        /\ UNCHANGED gapVars \/ (pc[h] # "idle" /\ CountGap(doing[h].part, "dropped"))
    <3>1. CASE Prune(h) \/ Receive(h)
      BY <3>1 DEF Prune, Receive, gapVars
    <3>2. CASE Enter(h)
      <4>1. writer' = writer /\ pc[h] # "idle"
        BY <3>2 DEF Enter
      <4>2. UNCHANGED gapVars \/ Refused(h)
        BY <3>2 DEF Enter
      <4> QED  BY <4>1, <4>2 DEF Refused
    <3>3. CASE Send(h)
      <4>1. writer' = writer /\ pc[h] # "idle"
        BY <3>3 DEF Send
      <4>2. UNCHANGED gapVars \/ CountGap(doing[h].part, "dropped")
        BY <3>3 DEF Send
      <4> QED  BY <4>1, <4>2
    <3> QED  BY <1>4, <3>1, <3>2, <3>3 DEF HandlerStep
  <2> QED  BY <1>1, <1>2, <2>1, <2>2 DEF GapKinds
<1>5. CASE FromQueue
  <2>1. ASSUME NEW fail \in Failures, Process(fail) PROVE Tallied /\ TakenInv'
    <3>1. /\ UNCHANGED gapVars \/ CountGap(Head(queue).part, "writeErrors")
          /\ writer' = writer /\ queue # <<>>
      BY <2>1 DEF Process
    <3>2. Head(queue).part \in Parts
      <4>1. 1 \in 1..Len(queue) /\ Head(queue) = queue[1]
        BY <3>1 DEF IInv, TypeOK
      <4> QED  BY <4>1, QueuedType, EntryType DEF IInv
    <3> QED  BY <1>1, <1>2, <3>1, <3>2 DEF GapKinds
  <2>2. ASSUME Exit PROVE Tallied /\ TakenInv'
    BY <1>1, <2>2 DEF Exit, TakenInv
  <2> QED  BY <1>5, <2>1, <2>2 DEF FromQueue
<1>6. CASE Tick \/ LastGaps
  <2>1. writer \in {"select", "done"} /\ writer' \in {"gaps", "lastGaps"} /\ TakeGaps
    BY <1>6 DEF Tick, LastGaps
  <2> QED  BY <1>0, <2>1, TakeGapsGrows DEF TakenInv
<1>7. ASSUME NEW p \in Parts, NEW fail, WriteGap(p, fail) PROVE Tallied /\ TakenInv'
  <2>1. writer' = writer /\ writer \in {"gaps", "lastGaps"}
    BY <1>7 DEF WriteGap
  <2> QED  BY <1>0, <1>7, <2>1, WriteGapGrows DEF TakenInv
<1>8. CASE GapsWritten
  BY <1>1, <1>8 DEF GapsWritten
<1>9. ASSUME NEW B \in SUBSET Parts, Flush(B) \/ Seal(B) PROVE Tallied /\ TakenInv'
  <2>1. /\ writer \in {"flush", "seal"} /\ writer' \in {"select", "returned"} /\ UNCHANGED gapVars
    BY <1>9 DEF Flush, Seal
  <2> QED  BY <1>1, <2>1 DEF TakenInv
<1>10. CASE Onward
  BY <1>6, <1>7, <1>8, <1>9, <1>10 DEF Onward
<1>11. CASE Close \/ Shut \/ UNCHANGED vars
  <2>1. UNCHANGED <<gapVars, writer>>
    BY <1>11 DEF Close, Shut, vars
  <2> QED  BY <1>1, <2>1
<1>12. ASSUME NEW p \in Parts, NEW fail, NEW torn, Evict(p, fail, torn)
       PROVE  Tallied /\ TakenInv'
  <2>1. (UNCHANGED gapVars \/ CountGap(p, "writeErrors")) /\ writer' = writer
    BY <1>12 DEF Evict, TailCounted
  <2> QED  BY <1>1, <1>2, <2>1 DEF GapKinds
<1> QED  BY <1>3, <1>4, <1>5, <1>6, <1>10, <1>11, <1>12 DEF Next

-----------------------------------------------------------------------------
\* Gaps(k) has as many members as were counted.
LEMMA GapsGrow ==
    ASSUME GapsType, NEW k \in GapKinds, NEW p \in Parts, NEW d \in {0, 1}, Grows(p, k, d),
           IsFiniteSet(Gaps(k))
    PROVE  IsFiniteSet(Gaps(k)') /\ Cardinality(Gaps(k)') = Cardinality(Gaps(k)) + d
<1> DEFINE n == Counted(p, k)
           new == <<p, n + 1>>
<1>1. \A q \in Parts : Counted(q, k) \in Nat
  BY CountedType
<1>2. \A x : x \in Gaps(k) <=> \E q \in Parts : \E i \in 1..Counted(q, k) : x = <<q, i>>
  BY DEF Gaps
<1>3. \A x : x \in Gaps(k)' <=> \E q \in Parts : \E i \in 1..Counted(q, k)' : x = <<q, i>>
  BY DEF Gaps
<1>4. /\ n \in Nat /\ Counted(p, k)' = n + d
      /\ \A q \in Parts \ {p} : Counted(q, k)' = Counted(q, k)
  BY <1>1 DEF Grows
<1>5. CASE d = 0
  <2>1. \A q \in Parts : Counted(q, k)' = Counted(q, k)
    BY <1>4, <1>5
  <2>2. Gaps(k)' = Gaps(k)
    BY <1>2, <1>3, <2>1
  <2>3. Cardinality(Gaps(k)) \in Nat
    BY FS_CardinalityType
  <2> QED  BY <1>5, <2>2, <2>3
<1>6. CASE d = 1
  <2>1. 1..n + 1 = (1..n) \cup {n + 1}
    BY <1>4
  <2>2. ASSUME NEW x PROVE x \in Gaps(k)' <=> x \in Gaps(k) \cup {new}
    <3>1. x \in Gaps(k)' <=> \/ \E q \in Parts \ {p} : \E i \in 1..Counted(q, k) : x = <<q, i>>
                             \/ \E i \in 1..n + 1 : x = <<p, i>>
      BY <1>3, <1>4, <1>6
    <3> QED  BY <1>2, <2>1, <3>1
  <2>3. new \notin Gaps(k)
    <3>1. n + 1 \notin 1..n
      BY <1>4
    <3> QED  BY <1>2, <3>1
  <2>4. Gaps(k)' = Gaps(k) \cup {new}
    BY <2>2
  <2> HIDE DEF new, n
  <2> QED  BY <1>6, <2>3, <2>4, FS_AddElement
<1> QED  BY <1>5, <1>6

GapsInv == \A k \in GapKinds : IsFiniteSet(Gaps(k)) /\ total[k] = Cardinality(Gaps(k))

LEMMA GapsStayConserved == ASSUME GapsType, GapsInv, Tallied PROVE GapsInv'
<1> SUFFICES ASSUME NEW k \in GapKinds
             PROVE  IsFiniteSet(Gaps(k)') /\ total'[k] = Cardinality(Gaps(k)')
  BY DEF GapsInv
<1>1. PICK p \in Parts, d \in {0, 1} : Grows(p, k, d)
  BY DEF Tallied
<1>2. IsFiniteSet(Gaps(k)) /\ total[k] = Cardinality(Gaps(k)) /\ total'[k] = total[k] + d
  BY <1>1 DEF GapsInv, Grows
<1> QED  BY <1>1, <1>2, GapsGrow

LEMMA NoGapsYet == Init => GapsInv
<1> SUFFICES ASSUME Init, NEW k \in GapKinds
             PROVE  IsFiniteSet(Gaps(k)) /\ total[k] = Cardinality(Gaps(k))
  BY DEF GapsInv
<1>1. \A p \in Parts : Counted(p, k) = 0
  BY DEF Init, NoGaps, Counted
<1>2. Gaps(k) = {}
  BY <1>1 DEF Gaps
<1>3. total[k] = 0
  BY DEF Init, NoGaps
<1> QED  BY <1>2, <1>3, FS_EmptySet
-----------------------------------------------------------------------------
\* What the writer of p has taken: it is in the file, or went with a buffer.
TakenBy(p) == written[p] \cup UNION gone[p]

\* Where an entry may be: with its handler, in the queue, with a writer.
Present(e) ==
    \/ \E h \in Handlers : pc[h] # "idle" /\ doing[h] = e
    \/ \E i \in 1..Len(queue) : queue[i] = e
    \/ e \in TakenBy(e.part)

\* Among the entries that are recorded, none but those of L is lost by the step.
LosesOnly(L) ==
    \A e \in asked' : e \in L \/ Waits(e) \/ Present(e)' \/ (e \in asked /\ ~Present(e))

\* The step asks for at most one entry more.
AsksOne == asked' = asked \/ \E e : asked' = asked \cup {e}

\* A step that loses no entry, one that loses one and counts it, or one that gives
\* up a tail and counts that.
Accounted ==
    \/ gone' = gone /\ LosesOnly({})
    \/ gone' = gone /\ \E e \in Entry : LosesOnly({e}) /\ CountsLoss(e.part)
    \/ LosesOnly({}) /\ \E p \in Parts : \E t :
                            gone' = [gone EXCEPT ![p] = gone[p] \cup {t}] /\ CountsLoss(p)

LEMMA UntakenIs ==
    \A p \in Parts : Untaken(p) = {e \in asked : e.part = p /\ ~Waits(e) /\ ~Present(e)}
BY DEF Untaken, Present, TakenBy

LEMMA ReturnedAsks ==
    ASSUME NEW h \in Handlers, NEW ok, Returned(h, ok), IInv
    PROVE  /\ AsksOne
           /\ \A e \in asked' \ asked : pc'[h] = "enter" /\ doing'[h] = e
           /\ \A g \in Handlers \ {h} : pc'[g] = pc[g] /\ doing'[g] = doing[g]
<1>1. /\ pc \in [Handlers -> {"idle", "enter", "sending", "waiting"}]
      /\ doing \in [Handlers -> Entry \cup {NoEntry}]
  BY DEF IInv, TypeOK
<1>2. ASSUME NEW e, Begin(h, e)
      PROVE  /\ asked' = asked \cup {e} /\ pc'[h] = "enter" /\ doing'[h] = e
             /\ \A g \in Handlers \ {h} : pc'[g] = pc[g] /\ doing'[g] = doing[g]
  BY <1>1, <1>2 DEF Begin
<1>3. CASE /\ pc' = [pc EXCEPT ![h] = "idle"] /\ doing' = [doing EXCEPT ![h] = NoEntry]
           /\ asked' = asked
  BY <1>1, <1>3 DEF AsksOne
<1>4. CASE \E e : Begin(h, e)
  BY <1>2, <1>4 DEF AsksOne
<1> QED  BY <1>3, <1>4 DEF Returned

\* What a handler that goes on may lose is the entry it was appending.
LEMMA ReturnedLoses ==
    ASSUME IInv, NEW h \in Handlers, NEW ok, Returned(h, ok), UNCHANGED <<written, gone>>,
           \A i \in 1..Len(queue) : \E j \in 1..Len(queue') : queue'[j] = queue[i]
    PROVE  LosesOnly({doing[h]}) /\ AsksOne
<1>1. /\ \A e \in asked' \ asked : pc'[h] = "enter" /\ doing'[h] = e
      /\ \A g \in Handlers \ {h} : pc'[g] = pc[g] /\ doing'[g] = doing[g]
      /\ AsksOne
  BY ReturnedAsks
<1>2. ASSUME NEW e, e # doing[h], Present(e) PROVE Present(e)'
  BY <1>1, <1>2 DEF Present, TakenBy
<1>3. ASSUME NEW e \in asked' \ asked PROVE Present(e)'
  BY <1>1, <1>3 DEF Present
<1> QED  BY <1>1, <1>2, <1>3 DEF LosesOnly

LEMMA StillLosesNone ==
    ASSUME UNCHANGED <<pc, doing, asked, queue, written, gone>>
    PROVE  Accounted /\ AsksOne
BY DEF Accounted, AsksOne, LosesOnly, Present, TakenBy

LEMMA NextCallLoses ==
    ASSUME IInv, NEW h \in Handlers, NEW p, NEW kind, NextCall(h, p, kind),
           UNCHANGED <<queue, written, gone>>
    PROVE  Accounted /\ AsksOne
<1>1. PICK e : /\ pc[h] = "idle" /\ asked' = asked \cup {e}
               /\ pc' = [pc EXCEPT ![h] = "enter"] /\ doing' = [doing EXCEPT ![h] = e]
  BY DEF NextCall, Begin
<1>2. /\ pc \in [Handlers -> {"idle", "enter", "sending", "waiting"}]
      /\ doing \in [Handlers -> Entry \cup {NoEntry}]
  BY DEF IInv, TypeOK
<1>3. /\ pc'[h] = "enter" /\ doing'[h] = e
      /\ \A g \in Handlers \ {h} : pc'[g] = pc[g] /\ doing'[g] = doing[g]
  BY <1>1, <1>2
<1>4. \A f : Present(f) => Present(f)'
  BY <1>1, <1>3 DEF Present, TakenBy
<1>5. Present(e)'
  BY <1>3 DEF Present
<1> QED  BY <1>1, <1>4, <1>5 DEF Accounted, LosesOnly, AsksOne

LEMMA EnterLoses ==
    ASSUME IInv, NEW h \in Handlers, Enter(h)
    PROVE  Accounted /\ AsksOne
<1>0. GapsType /\ pc[h] # "idle" /\ doing[h] \in Entry /\ doing[h].part \in Parts
  BY EntryType DEF IInv, TypeOK, GapsType, Enter
<1>1. UNCHANGED <<queue, written, gone>>
  BY DEF Enter, fileVars
<1>2. CASE gate = "open"
  <2>1. pc' = [pc EXCEPT ![h] = "sending"] /\ UNCHANGED <<doing, asked>>
    BY <1>2 DEF Enter
  <2>2. pc'[h] = "sending" /\ \A g \in Handlers \ {h} : pc'[g] = pc[g]
    BY <2>1 DEF IInv, TypeOK
  <2>3. \A e : Present(e) => Present(e)'
    BY <1>1, <2>1, <2>2 DEF Present, TakenBy
  <2> QED  BY <1>1, <2>1, <2>3 DEF Accounted, LosesOnly, AsksOne
<1>3. CASE gate # "open"
  <2>1. Returned(h, FALSE) /\ Refused(h)
    BY <1>3 DEF Enter
  <2>2. LosesOnly({doing[h]}) /\ AsksOne
    BY <1>1, <2>1, ReturnedLoses
  <2>3. CASE Waits(doing[h])
    BY <1>1, <2>2, <2>3 DEF LosesOnly, Accounted
  <2>4. CASE ~Waits(doing[h])
    <3>1. CountGap(doing[h].part, "dropped")
      BY <2>1, <2>4 DEF Refused
    <3>2. CountsLoss(doing[h].part)
      BY <1>0, <3>1, CountGapGrows DEF CountsLoss, GapKinds
    <3> QED  BY <1>0, <1>1, <2>2, <3>2 DEF Accounted
  <2> QED  BY <2>2, <2>3, <2>4
<1> QED  BY <1>2, <1>3

LEMMA SendLoses ==
    ASSUME IInv, NEW h \in Handlers, Send(h)
    PROVE  Accounted /\ AsksOne
<1>0. GapsType /\ doing[h] \in Entry /\ doing[h].part \in Parts /\ queue \in Seq(Entry)
  BY EntryType DEF IInv, TypeOK, GapsType, Send
<1>1. UNCHANGED <<written, gone>> /\ pc[h] = "sending"
  BY DEF Send, fileVars
<1>2. CASE queue' = Append(queue, doing[h])
  <2>0. PICK d : d = doing[h]
    OBVIOUS
  <2>1. /\ \A i \in 1..Len(queue) : i \in 1..Len(queue') /\ queue'[i] = queue[i]
        /\ Len(queue) + 1 \in 1..Len(queue') /\ queue'[Len(queue) + 1] = d
    BY <1>0, <1>2, <2>0
  <2>2. Present(d)'
    BY <2>1 DEF Present
  <2>3. CASE Returned(h, TRUE)
    <3>1. LosesOnly({doing[h]}) /\ AsksOne
      BY <1>1, <2>1, <2>3, ReturnedLoses
    <3> QED  BY <1>1, <2>0, <2>2, <3>1 DEF LosesOnly, Accounted
  <2>4. CASE pc' = [pc EXCEPT ![h] = "waiting"] /\ UNCHANGED <<doing, asked>>
    <3>1. pc'[h] = "waiting" /\ \A g \in Handlers \ {h} : pc'[g] = pc[g]
      BY <2>4 DEF IInv, TypeOK
    <3>2. \A e : Present(e) => Present(e)'
      BY <1>1, <2>1, <2>4, <3>1 DEF Present, TakenBy
    <3> QED  BY <1>1, <2>4, <3>2 DEF LosesOnly, Accounted, AsksOne
  <2>5. Len(queue') # Len(queue)
    BY <1>0, <1>2
  <2> QED  BY <2>3, <2>4, <2>5 DEF Send
<1>3. CASE Returned(h, FALSE) /\ CountGap(doing[h].part, "dropped") /\ queue' = queue
  <2>1. LosesOnly({doing[h]}) /\ AsksOne
    BY <1>1, <1>3, ReturnedLoses
  <2>2. CountsLoss(doing[h].part)
    BY <1>0, <1>3, CountGapGrows DEF CountsLoss, GapKinds
  <2> QED  BY <1>0, <1>1, <2>1, <2>2 DEF Accounted
<1> QED  BY <1>2, <1>3 DEF Send

LEMMA ReceiveLoses ==
    ASSUME IInv, NEW h \in Handlers, Receive(h)
    PROVE  Accounted /\ AsksOne
<1>1. Waits(doing[h]) /\ UNCHANGED <<queue, written, gone>> /\ Returned(h, answer[h] = "ok")
  BY DEF IInv, AnswerInv, Receive, fileVars
<1>2. LosesOnly({doing[h]}) /\ AsksOne
  BY <1>1, ReturnedLoses
<1> QED  BY <1>1, <1>2 DEF LosesOnly, Accounted

LEMMA ProcessLoses ==
    ASSUME IInv, NEW fail \in Failures, Process(fail)
    PROVE  Accounted /\ AsksOne
<1>0. PICK e, p, lost : e = Head(queue) /\ p = e.part /\ lost = (e.kind # "prune" /\ WriteFails(p, fail))
  OBVIOUS
<1>1. /\ queue # <<>> /\ queue' = Tail(queue) /\ UNCHANGED <<pc, doing, asked, gone>>
      /\ written' = IF e.kind # "prune" /\ ~lost
                    THEN [written EXCEPT ![p] = written[p] \cup {e}] ELSE written
      /\ lost => CountGap(p, "writeErrors")
  BY <1>0 DEF Process
<1>2. queue \in Seq(Entry) /\ written \in [Parts -> SUBSET Entry] /\ GapsType
  BY DEF IInv, TypeOK, GapsType
<1>3. /\ e \in Entry /\ e = queue[1]
      /\ \A i \in 1..Len(queue) : i = 1 \/ (i - 1 \in 1..Len(queue') /\ queue'[i - 1] = queue[i])
  BY <1>0, <1>1, <1>2
<1>4. p \in Parts
  BY <1>0, <1>3, EntryType
<1>5. \A f : Present(f) => Present(f)' \/ f = e
  <2>1. \A q \in Parts : written[q] \subseteq written'[q]
    <3> QED  BY <1>1, <1>2
  <2>2. \A f : f \in written[f.part] => f \in written'[f.part]
    <3>1. CASE written' = written
      BY <3>1
    <3>2. CASE written' = [written EXCEPT ![p] = written[p] \cup {e}]
      <4>1. \A q : q \in Parts \/ q \notin DOMAIN written
        BY <1>2
      <4>2. \A q : q \notin Parts => written'[q] = written[q]
        BY <1>2, <3>2
      <4> QED  BY <2>1, <4>2
    <3> QED  BY <1>1, <3>1, <3>2
  <2>4. ASSUME NEW f, NEW i \in 1..Len(queue), queue[i] = f, f # e PROVE Present(f)'
    <3>1. \E j \in 1..Len(queue') : queue'[j] = f
      BY <1>3, <2>4
    <3> QED  BY <3>1 DEF Present
  <2>5. ASSUME NEW f, \E h \in Handlers : pc[h] # "idle" /\ doing[h] = f PROVE Present(f)'
    BY <1>1, <2>5 DEF Present
  <2>6. ASSUME NEW f, f \in TakenBy(f.part) PROVE Present(f)'
    <3>1. f \in written'[f.part] \cup UNION gone[f.part]
      BY <2>2, <2>6, Zenon DEF TakenBy
    <3>2. gone' = gone
      BY <1>1
    <3> QED  BY <3>1, <3>2 DEF Present, TakenBy
  <2> QED  BY <2>4, <2>5, <2>6 DEF Present
<1>6. CASE lost
  <2>1. CountsLoss(p)
    BY <1>1, <1>2, <1>4, <1>6, CountGapGrows DEF CountsLoss, GapKinds
  <2>2. LosesOnly({e})
    BY <1>1, <1>5 DEF LosesOnly
  <2> QED  BY <1>0, <1>1, <1>3, <2>1, <2>2 DEF Accounted, AsksOne
<1>7. CASE e.kind = "prune"
  <2>1. Waits(e)
    BY <1>7 DEF Waits
  <2> QED  BY <1>1, <1>5, <2>1 DEF LosesOnly, Accounted, AsksOne
<1>8. CASE e.kind # "prune" /\ ~lost
  <2>1. written' = [written EXCEPT ![p] = written[p] \cup {e}]
    BY <1>1, <1>8
  <2>2. e \in written'[p]
    BY <1>2, <1>4, <2>1
  <2>3. Present(e)'
    BY <1>0, <2>2 DEF Present, TakenBy
  <2> QED  BY <1>1, <1>5, <2>3 DEF LosesOnly, Accounted, AsksOne
<1> QED  BY <1>6, <1>7, <1>8

\* A failed eviction moves the tail from the file to what is given up.
LEMMA EvictLoses ==
    ASSUME IInv, NEW p \in Parts, NEW fail, NEW torn, Evict(p, fail, torn)
    PROVE  Accounted /\ AsksOne
<1> DEFINE tail == buffered[p]
<1>1. UNCHANGED <<pc, doing, asked, queue>>
  BY DEF Evict, handlerVars
<1>2. /\ written \in [Parts -> SUBSET Entry] /\ gone \in [Parts -> SUBSET SUBSET Entry]
      /\ GapsType
  BY DEF IInv, TypeOK, GapsType
<1>3. CASE (broken[p] \/ fail = "flush") /\ tail # {}
  <2>1. /\ written' = [written EXCEPT ![p] = written[p] \ tail]
        /\ gone' = [gone EXCEPT ![p] = gone[p] \cup {tail}]
        /\ CountGap(p, "writeErrors")
    BY <1>3 DEF Evict, TailCounted
  <2>2. /\ written'[p] = written[p] \ tail /\ gone'[p] = gone[p] \cup {tail}
        /\ \A q : q # p => written'[q] = written[q] /\ gone'[q] = gone[q]
    BY <1>2, <2>1
  <2>3. \A q : TakenBy(q) \subseteq TakenBy(q)'
    <3>1. TakenBy(p) \subseteq TakenBy(p)'
      BY <2>2 DEF TakenBy
    <3> QED  BY <2>2, <3>1 DEF TakenBy
  <2>4. \A e : Present(e) => Present(e)'
    BY <1>1, <2>3 DEF Present
  <2>5. CountsLoss(p)
    BY <1>2, <2>1, CountGapGrows DEF CountsLoss, GapKinds
  <2> QED  BY <1>1, <2>1, <2>4, <2>5 DEF Accounted, LosesOnly, AsksOne
<1>4. CASE ~(broken[p] \/ fail = "flush") \/ tail = {}
  <2>1. UNCHANGED <<written, gone>>
    BY <1>2, <1>4 DEF Evict
  <2> QED  BY <1>1, <2>1, StillLosesNone
<1> QED  BY <1>3, <1>4

\* Whatever a step loses it counts.
LEMMA EveryStepAccounts == ASSUME IInv, [Next]_vars PROVE Accounted /\ AsksOne
<1>1. ASSUME NEW h \in Handlers, NEW p \in Parts, NEW kind, NEW ok, Decide(h, p, kind, ok)
      PROVE  Accounted /\ AsksOne
  <2>1. NextCall(h, p, kind) /\ UNCHANGED <<queue, written, gone>>
    BY <1>1 DEF Decide
  <2> QED  BY <2>1, NextCallLoses
<1>2. ASSUME NEW h \in Handlers, Prune(h) PROVE Accounted /\ AsksOne
  <2>1. NextCall(h, CHOOSE p \in Parts : TRUE, "prune") /\ UNCHANGED <<queue, written, gone>>
    BY <1>2 DEF Prune, fileVars
  <2> QED  BY <2>1, NextCallLoses
<1>3. ASSUME NEW h \in Handlers, HandlerStep(h) PROVE Accounted /\ AsksOne
  BY <1>3, EnterLoses, SendLoses, ReceiveLoses DEF HandlerStep
<1>4. CASE FromQueue
  <2>1. Exit => UNCHANGED <<pc, doing, asked, queue, written, gone>>
    BY DEF Exit, handlerVars, fileVars
  <2> QED  BY <1>4, <2>1, ProcessLoses, StillLosesNone DEF FromQueue
<1>5. CASE Tick \/ Close \/ Shut \/ UNCHANGED vars
  <2>1. UNCHANGED <<pc, doing, asked, queue, written, gone>>
    BY <1>5 DEF Tick, Close, Shut, vars, handlerVars, fileVars
  <2> QED  BY <2>1, StillLosesNone
<1>6. CASE Onward
  <2>1. ASSUME NEW p \in Parts, NEW fail, WriteGap(p, fail)
        PROVE  UNCHANGED <<pc, doing, asked, queue, written, gone>>
    BY <2>1 DEF WriteGap, handlerVars
  <2>2. ASSUME NEW B, Flush(B) \/ Seal(B) PROVE UNCHANGED <<pc, doing, asked, queue, written, gone>>
    BY <2>2 DEF Flush, Seal, FlushAll, handlerVars
  <2>3. ASSUME GapsWritten \/ LastGaps PROVE UNCHANGED <<pc, doing, asked, queue, written, gone>>
    BY <2>3 DEF GapsWritten, LastGaps, handlerVars, fileVars
  <2>4. UNCHANGED <<pc, doing, asked, queue, written, gone>>
    BY <1>6, <2>1, <2>2, <2>3 DEF Onward
  <2> QED  BY <2>4, StillLosesNone
<1>7. ASSUME NEW p \in Parts, NEW fail, NEW torn, Evict(p, fail, torn) PROVE Accounted /\ AsksOne
  BY <1>7, EvictLoses
<1> QED  BY <1>1, <1>2, <1>3, <1>4, <1>5, <1>6, <1>7 DEF Next

LEMMA OneMore ==
    ASSUME NEW S, IsFiniteSet(S), NEW e
    PROVE  /\ IsFiniteSet(S \cup {e}) /\ Cardinality(S \cup {e}) \in Nat
           /\ Cardinality(S \cup {e}) <= Cardinality(S) + 1
<1>1. IsFiniteSet(S \cup {e}) /\ Cardinality(S) \in Nat /\ Cardinality(S \cup {e}) \in Nat
  BY FS_AddElement, FS_CardinalityType
<1>2. Cardinality(S \cup {e}) = Cardinality(S) \/ Cardinality(S \cup {e}) = Cardinality(S) + 1
  BY FS_AddElement
<1> QED  BY <1>1, <1>2

LEMMA CountsNeverShrink ==
    ASSUME GapsType, Tallied, NEW p \in Parts, NEW k \in GapKinds
    PROVE  Counted(p, k) <= Counted(p, k)'
<1>1. PICK q \in Parts, d \in {0, 1} : Grows(q, k, d)
  BY DEF Tallied
<1>2. Counted(p, k)' \in {Counted(p, k), Counted(p, k) + 1}
  BY <1>1, CountedType DEF Grows
<1> QED  BY <1>2, CountedType

GoneFinite == \A p \in Parts : IsFiniteSet(gone[p])

LEMMA LossStaysCounted ==
    ASSUME IInv, LossIsCounted, IsFiniteSet(asked), GoneFinite, Tallied, Accounted, AsksOne
    PROVE  LossIsCounted' /\ IsFiniteSet(asked') /\ GoneFinite'
<1>0. GapsType /\ asked \subseteq Entry /\ gone \in [Parts -> SUBSET SUBSET Entry]
  BY DEF IInv, TypeOK, GapsType
<1>1. IsFiniteSet(asked')
  <2>1. \A e : IsFiniteSet(asked \cup {e})
    BY FS_AddElement
  <2> QED  BY <2>1 DEF AsksOne
<1>2. GoneFinite'
  <2>1. \A p \in Parts : \A t : IsFiniteSet(gone[p] \cup {t})
    BY FS_AddElement DEF GoneFinite
  <2>2. gone' = gone \/ \E p \in Parts : \E t : gone' = [gone EXCEPT ![p] = gone[p] \cup {t}]
    BY DEF Accounted
  <2> QED  BY <1>0, <2>1, <2>2 DEF GoneFinite
<1> DEFINE S(p) == Counted(p, "dropped") + Counted(p, "writeErrors")
<1>3. ASSUME NEW p \in Parts
      PROVE  /\ S(p) \in Nat /\ S(p)' \in Int /\ S(p) <= S(p)'
             /\ CountsLoss(p) => S(p) + 1 <= S(p)'
  <2>1. /\ Counted(p, "dropped") \in Nat /\ Counted(p, "writeErrors") \in Nat
        /\ Counted(p, "dropped") <= Counted(p, "dropped")'
        /\ Counted(p, "writeErrors") <= Counted(p, "writeErrors")'
    BY <1>0, CountsNeverShrink, CountedType DEF GapKinds
  <2>2. CountsLoss(p) => \/ Counted(p, "dropped")' = Counted(p, "dropped") + 1
                         \/ Counted(p, "writeErrors")' = Counted(p, "writeErrors") + 1
    BY DEF CountsLoss, Grows
  <2>3. Counted(p, "dropped")' \in Int /\ Counted(p, "writeErrors")' \in Int
    <3>1. ASSUME NEW k \in GapKinds PROVE Counted(p, k)' \in Int
      <4>1. PICK q \in Parts, d \in {0, 1} : Grows(q, k, d)
        BY DEF Tallied
      <4> QED  BY <1>0, <4>1, CountedType DEF Grows
    <3> QED  BY <3>1 DEF GapKinds
  <2> QED  BY <2>1, <2>2, <2>3
<1>4. ASSUME NEW p \in Parts
      PROVE  /\ IsFiniteSet(Untaken(p)) /\ Cardinality(Untaken(p)) \in Nat
             /\ IsFiniteSet(Untaken(p)') /\ Cardinality(Untaken(p)') \in Nat
             /\ Cardinality(gone[p]) \in Nat /\ Cardinality(gone'[p]) \in Nat
  <2>1. Untaken(p) \subseteq asked /\ Untaken(p)' \subseteq asked'
    BY DEF Untaken
  <2>2. IsFiniteSet(gone[p]) /\ IsFiniteSet(gone'[p])
    BY <1>2 DEF GoneFinite
  <2> QED  BY <1>1, <2>1, <2>2, FS_Subset, FS_CardinalityType
<1> SUFFICES ASSUME NEW p \in Parts
             PROVE  Cardinality(Untaken(p)') + Cardinality(gone'[p]) <= S(p)'
  BY <1>1, <1>2 DEF LossIsCounted
<1>5. Cardinality(Untaken(p)) + Cardinality(gone[p]) <= S(p)
  BY DEF LossIsCounted
<1>6. Untaken(p) = {e \in asked : e.part = p /\ ~Waits(e) /\ ~Present(e)}
  BY UntakenIs
<1>7. Untaken(p)' = {e \in asked' : e.part = p /\ ~Waits(e) /\ ~Present(e)'}
  BY DEF Untaken, Present, TakenBy
<1> HIDE DEF S
<1>8. ASSUME LosesOnly({}) \/ \E e \in Entry : e.part # p /\ LosesOnly({e})
      PROVE  Cardinality(Untaken(p)') <= Cardinality(Untaken(p))
  <2>1. Untaken(p)' \subseteq Untaken(p)
    BY <1>6, <1>7, <1>8 DEF LosesOnly
  <2> QED  BY <1>4, <2>1, FS_Subset
<1>9. CASE gone' = gone /\ (LosesOnly({}) \/ \E e \in Entry : e.part # p /\ LosesOnly({e}))
  <2>1. Cardinality(Untaken(p)') <= Cardinality(Untaken(p)) /\ gone'[p] = gone[p]
    BY <1>8, <1>9
  <2> QED  BY <1>3, <1>4, <1>5, <2>1
<1>10. ASSUME NEW e \in Entry, e.part = p, LosesOnly({e}), CountsLoss(e.part), gone' = gone
       PROVE  Cardinality(Untaken(p)') + Cardinality(gone'[p]) <= S(p)'
  <2>1. Untaken(p)' \subseteq Untaken(p) \cup {e}
    BY <1>6, <1>7, <1>10 DEF LosesOnly
  <2>2. /\ IsFiniteSet(Untaken(p) \cup {e})
        /\ Cardinality(Untaken(p) \cup {e}) <= Cardinality(Untaken(p)) + 1
        /\ Cardinality(Untaken(p) \cup {e}) \in Nat
    BY <1>4, OneMore
  <2>3. Cardinality(Untaken(p)') <= Cardinality(Untaken(p) \cup {e})
    BY <2>1, <2>2, FS_Subset
  <2>4. gone'[p] = gone[p] /\ S(p) + 1 <= S(p)'
    BY <1>3, <1>10
  <2> QED  BY <1>3, <1>4, <1>5, <2>2, <2>3, <2>4
<1>11. ASSUME LosesOnly({}), NEW q \in Parts, NEW t, CountsLoss(q),
              gone' = [gone EXCEPT ![q] = gone[q] \cup {t}]
       PROVE  Cardinality(Untaken(p)') + Cardinality(gone'[p]) <= S(p)'
  <2>1. Cardinality(Untaken(p)') <= Cardinality(Untaken(p))
    BY <1>8, <1>11
  <2>2. CASE q = p
    <3>1. gone'[p] = gone[p] \cup {t}
      BY <1>0, <1>11, <2>2
    <3>2. Cardinality(gone'[p]) <= Cardinality(gone[p]) + 1
      BY <3>1, OneMore DEF GoneFinite
    <3>3. S(p) + 1 <= S(p)'
      BY <1>3, <1>11, <2>2
    <3> QED  BY <1>3, <1>4, <1>5, <2>1, <3>2, <3>3
  <2>3. CASE q # p
    <3>1. gone'[p] = gone[p]
      BY <1>0, <1>11, <2>3
    <3> QED  BY <1>3, <1>4, <1>5, <2>1, <3>1
  <2> QED  BY <2>2, <2>3
<1> QED  BY <1>9, <1>10, <1>11 DEF Accounted

\* What is drained and recorded next to the entries, and the two tallies.
TallyInv == IInv /\ TakenInv /\ GapsInv /\ LossIsCounted /\ IsFiniteSet(asked) /\ GoneFinite

LEMMA TallyInit == Init => TallyInv
<1> SUFFICES ASSUME Init PROVE TallyInv
  OBVIOUS
<1>1. IInv /\ GapsInv /\ TakenInv /\ asked = {}
  BY InitInv, NoGapsYet DEF Init, TakenInv
<1>2. ASSUME NEW p \in Parts
      PROVE  Cardinality(Untaken(p)) + Cardinality(gone[p])
                <= Counted(p, "dropped") + Counted(p, "writeErrors")
  <2>1. Untaken(p) = {}
    BY <1>1 DEF Untaken
  <2>2. Counted(p, "dropped") = 0 /\ Counted(p, "writeErrors") = 0
    BY <1>2 DEF Init, NoGaps, GapKinds, Counted
  <2>3. gone[p] = {}
    BY <1>2 DEF Init
  <2> QED  BY <2>1, <2>2, <2>3, FS_EmptySet
<1>3. GoneFinite
  BY FS_EmptySet DEF Init, GoneFinite
<1> QED  BY <1>1, <1>2, <1>3, FS_EmptySet DEF TallyInv, LossIsCounted

LEMMA TallyNext == TallyInv /\ [Next]_vars => TallyInv'
<1> SUFFICES ASSUME TallyInv, [Next]_vars PROVE TallyInv'
  OBVIOUS
<1>1. IInv' /\ Tallied /\ TakenInv' /\ Accounted /\ AsksOne
  BY NextInv, EveryStepTallies, EveryStepAccounts DEF TallyInv
<1>2. GapsInv'
  BY <1>1, GapsStayConserved DEF TallyInv, IInv, TypeOK, GapsType
<1>3. LossIsCounted' /\ IsFiniteSet(asked') /\ GoneFinite'
  BY <1>1, LossStaysCounted DEF TallyInv
<1> QED  BY <1>1, <1>2, <1>3 DEF TallyInv

\* The totals of /health are the gaps that are pending, drained or recorded: the
\* two locked halves of writeGaps, with file operations in between, neither lose
\* nor repeat a count, whatever handlers count meanwhile.
THEOREM GapsAreConserved == Spec => []GapsConserved
<1>1. Init => TallyInv
  BY TallyInit
<1>2. TallyInv /\ [Next]_vars => TallyInv'
  BY TallyNext
<1>3. TallyInv => GapsConserved
  BY DEF TallyInv, GapsInv, GapsConserved
<1> QED  BY <1>1, <1>2, <1>3, PTL DEF Spec

\* Whether enqueue finds the ledger closed, the queue full, or the writer cannot
\* take a record, a gap is counted against the record's partition, and so is each
\* tail evictLRU gives up with its writer, one for the tail.  (Records that a failed
\* tick leaves in a broken writer count as taken until then.)
THEOREM LossesAreCounted == Spec => []LossIsCounted
<1>1. Init => TallyInv
  BY TallyInit
<1>2. TallyInv /\ [Next]_vars => TallyInv'
  BY TallyNext
<1>3. TallyInv => LossIsCounted
  BY DEF TallyInv
<1> QED  BY <1>1, <1>2, <1>3, PTL DEF Spec
=============================================================================
