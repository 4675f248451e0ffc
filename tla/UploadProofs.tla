----------------------------- MODULE UploadProofs -----------------------------
(***************************************************************************)
(* Theorems about the upload of ledger files: for any set of devices, runs *)
(* and requests and any bounds, Upload keeps what Mirror promises, and a   *)
(* run reports a file as current only when the console holds it.           *)
(***************************************************************************)
EXTENDS Upload, FiniteSetTheorems, TLAPS

(* The inductive invariant.                                                *)

Held(f) == IF cursor[f] < 0 THEN 0 ELSE cursor[f]

\* The stored lines are a signed prefix as long as the cursor says.
StoredInv ==
  \A f \in Files : \E g \in Histories :
    lines[f] = Prefix(g, Held(f)) /\ Held(f) <= written[f][g]

\* A run is at a file, and what it sends is signed.
RunInv ==
  \A r \in Runs :
    /\ run[r].pc # "idle" => run[r].at \in DOMAIN Ledger[Device[r]]
    /\ run[r].pc \in {"send", "wait", "current"} =>
         run[r].len <= written[File(r)][run[r].gen]
    /\ run[r].pc \in {"send", "wait"} => run[r].from < run[r].len
    /\ run[r].pc = "current" => run[r].len <= run[r].offset

\* A run waits for a request of its own that is about its file.
WaitInv ==
  \A r \in Runs : run[r].pc = "wait" =>
    /\ run[r].req \in Requests
    /\ req[run[r].req].pc # "free"
    /\ req[run[r].req].file = File(r)
    /\ \A s \in Runs \ {r} : run[s].pc = "wait" => run[s].req # run[r].req

\* What a request carries is signed.
ReqInv ==
  \A q \in Requests : req[q].pc # "free" =>
    /\ req[q].file \in Files
    /\ req[q].from < req[q].to
    /\ req[q].to <= written[req[q].file][req[q].gen]
    /\ req[q].pc = "lines" /\ "chain" \notin req[q].found => req[q].from = 0

\* Nobody knows of an offset that the console does not hold yet.
KnownInv ==
  /\ \A r \in Runs, f \in Files :
       run[r].pc # "idle" /\ ~NameShared(f) => run[r].remote[Name[f]] <= Held(f)
  /\ \A r \in Runs :
       run[r].pc \in {"send", "wait", "current"} /\ ~NameShared(File(r)) =>
         run[r].offset <= Held(File(r))
  /\ \A q \in Requests :
       req[q].pc = "answered" /\ req[q].code \in {200, 409} =>
         req[q].offset <= Held(req[q].file)

IInv == /\ UploadTypeOK /\ StoredInv /\ RunInv /\ WaitInv /\ ReqInv
        /\ LandsOrClashes /\ KnownInv
-----------------------------------------------------------------------------
(* Prefixes.                                                               *)

\* A prefix determines its length, and its history when it is not empty.
LEMMA PrefixUnique ==
  ASSUME NEW g \in Histories, NEW h \in Histories, NEW m \in Offset, NEW n \in Offset,
         Prefix(g, m) = Prefix(h, n)
  PROVE  m = n /\ (m > 0 => g = h)
<1> USE UploadAssumption DEF Offset, Batches, Histories
<1>1. ASSUME NEW i \in Batches
      PROVE  (IF i <= m THEN g ELSE 0) = (IF i <= n THEN h ELSE 0)
  BY Prefix(g, m)[i] = Prefix(h, n)[i] DEF Prefix
<1>2. ~(m < n)
  <2> SUFFICES ASSUME m < n PROVE FALSE
    OBVIOUS
  <2> QED  BY <1>1, n \in Batches, h # 0
<1>3. ~(n < m)
  <2> SUFFICES ASSUME n < m PROVE FALSE
    OBVIOUS
  <2> QED  BY <1>1, m \in Batches, g # 0
<1>4. m > 0 => g = h
  BY <1>1, <1>2, <1>3
<1> QED  BY <1>2, <1>3, <1>4

\* A prefix is extended by writing the lines that follow it.
LEMMA PrefixExtended ==
  ASSUME NEW g \in Histories, NEW m \in Offset, NEW n \in Offset, m < n
  PROVE  [i \in Batches |-> IF i \in m + 1 .. n THEN g ELSE Prefix(g, m)[i]] = Prefix(g, n)
BY UploadAssumption DEF Offset, Batches, Prefix

\* A run that is not idle is at one of its files.
LEMMA AtFile ==
  ASSUME UploadTypeOK, RunInv, NEW r \in Runs, run[r].pc # "idle"
  PROVE  File(r) \in Files
<1>1. Device[r] \in Devices /\ Ledger[Device[r]] \in Seq(Files)
  BY UploadAssumption
<1>2. run[r].at \in DOMAIN Ledger[Device[r]]
  BY DEF RunInv
<1> QED  BY <1>1, <1>2 DEF File

\* Every file belongs to a device.
LEMMA OwnerIsDevice ==
  ASSUME NEW f \in Files
  PROVE  Owner(f) \in Devices
BY UploadAssumption DEF Owner

\* A chunk ends behind its start and not behind the file.
LEMMA ChunkEndBounds ==
  ASSUME NEW len \in Offset, NEW from \in Offset, from < len
  PROVE  ChunkEnd(len, from) \in Offset /\ from < ChunkEnd(len, from) /\ ChunkEnd(len, from) <= len
BY UploadAssumption DEF ChunkEnd, Offset
-----------------------------------------------------------------------------
(* Types.                                                                  *)

LEMMA TypeInit == Init => UploadTypeOK
<1> SUFFICES ASSUME Init PROVE UploadTypeOK
  OBVIOUS
<1> USE UploadAssumption DEF Init
<1>1. 0 \in Offset /\ 1 \in Histories
  BY DEF Offset, Histories
<1>2. NoRun \in RunState
  BY <1>1 DEF NoRun, RunState
<1>3. Free \in ReqState
  BY <1>1 DEF Free, ReqState
<1>4. Prefix(1, 0) \in [Batches -> {0} \cup Histories]
  BY <1>1 DEF Prefix
<1> QED  BY <1>1, <1>2, <1>3, <1>4 DEF UploadTypeOK

\* The answer to a request keeps its type.
LEMMA AnswerType ==
  ASSUME UploadTypeOK, NEW q \in Requests, NEW code \in Nat,
         NEW offset \in Offset, Answer(q, code, offset)
  PROVE  req' \in [Requests -> ReqState]
<1>1. req[q] \in ReqState
  BY DEF UploadTypeOK
<1> DEFINE answered == [req[q] EXCEPT !.pc = "answered", !.code = code, !.offset = offset]
<1>2. answered \in ReqState
  BY <1>1 DEF ReqState
<1> HIDE DEF answered
<1>3. req' = [req EXCEPT ![q] = answered]
  BY DEF Answer, answered
<1> QED  BY <1>2, <1>3 DEF UploadTypeOK

LEMMA TypeDisk ==
  ASSUME UploadTypeOK, UploadAssumption,
         \/ \E f \in Files : Sign(f) \/ Tear(f) \/ Mend(f) \/ Crash(f) \/ Restart(f)
         \/ \E d \in Devices : Revoke(d)
  PROVE  UploadTypeOK'
<1> USE DEF UploadTypeOK, diskVars, dbVars
<1>1. ASSUME NEW f \in Files, Sign(f) PROVE UploadTypeOK'
  <2>1. Local(f) + 1 \in Offset /\ history[f] \in Histories
    BY <1>1 DEF Sign, Local, Offset
  <2> QED  BY <1>1, <2>1 DEF Sign, Local
<1>2. ASSUME NEW f \in Files, Tear(f) \/ Mend(f) \/ Crash(f) PROVE UploadTypeOK'
  BY <1>2 DEF Tear, Mend, Crash
<1>3. ASSUME NEW f \in Files, Restart(f) PROVE UploadTypeOK'
  BY <1>3 DEF Restart, Histories
<1>4. ASSUME NEW d \in Devices, Revoke(d) PROVE UploadTypeOK'
  BY <1>4 DEF Revoke
<1> QED  BY <1>1, <1>2, <1>3, <1>4

LEMMA TypeRun ==
  ASSUME UploadTypeOK, RunInv, WaitInv, NEW r \in Runs, RunStep(r) \/ Kill(r)
  PROVE  UploadTypeOK'
<1> USE UploadAssumption DEF UploadTypeOK, diskVars, dbVars
<1>1. 0 \in Offset /\ 1 \in Histories
  BY DEF Offset, Histories
<1>2. NoRun \in RunState /\ Free \in ReqState
  BY <1>1 DEF NoRun, RunState, Free, ReqState
<1>3. run[r] \in RunState
  OBVIOUS
<1>4. CASE Begin(r)
  <2>1. ASSUME NEW o \in Offsets
        PROVE  [NoRun EXCEPT !.pc = "read", !.remote = o] \in RunState
    BY <1>2, <2>1 DEF Offsets, RunState
  <2>2. PICK n \in RunState : run' = [run EXCEPT ![r] = n]
    BY <1>4, <2>1 DEF Begin
  <2>3. run' \in [Runs -> RunState]
    BY <2>2
  <2> QED  BY <1>4, <2>3 DEF Begin
<1>5. CASE ReadFile(r)
  <2>1. File(r) \in Files
    BY <1>5, AtFile DEF ReadFile
  <2>2. /\ Local(File(r)) \in Offset /\ history[File(r)] \in Histories
        /\ run[r].remote[Name[File(r)]] \in Offset
    BY <2>1, <1>3 DEF Local, RunState
  <2>3. run' \in [Runs -> RunState]
    <3>1. CASE run' = [run EXCEPT ![r] = NoRun]
      BY <1>2, <3>1
    <3>2. ASSUME NEW pc \in {"skipped", "failed"}, run' = [run EXCEPT ![r].pc = pc]
          PROVE  run' \in [Runs -> RunState]
      BY <1>3, <3>2 DEF RunState
    <3>3. CASE run' = Entered(r, Local(File(r)), history[File(r)], run[r].remote[Name[File(r)]])
      BY <1>3, <2>2, <3>3 DEF Entered, RunState
    <3> QED  BY <1>5, <3>1, <3>2, <3>3 DEF ReadFile
  <2> QED  BY <1>5, <2>3 DEF ReadFile
<1>6. CASE Send(r)
  <2>1. PICK q \in Requests :
          /\ req' = [req EXCEPT ![q] =
               [Free EXCEPT !.pc = "device", !.file = File(r), !.gen = run[r].gen,
                            !.from = run[r].from, !.to = ChunkEnd(run[r].len, run[r].from)]]
          /\ run' = [run EXCEPT ![r] = [@ EXCEPT !.pc = "wait", !.req = q]]
    BY <1>6 DEF Send
  <2>2. File(r) \in Files
    BY <1>6, AtFile DEF Send
  <2>3. /\ run[r].gen \in Histories /\ run[r].from \in Offset
        /\ ChunkEnd(run[r].len, run[r].from) \in Offset
    BY <1>3, <1>6, ChunkEndBounds DEF RunState, RunInv, Send
  <2>4. req' \in [Requests -> ReqState]
    BY <1>2, <2>1, <2>2, <2>3 DEF ReqState
  <2>5. run' \in [Runs -> RunState]
    BY <1>3, <2>1 DEF RunState
  <2> QED  BY <1>6, <2>4, <2>5 DEF Send
<1>7. CASE Receive(r)
  <2>1. run[r].req \in Requests /\ req[run[r].req] \in ReqState
    BY <1>7 DEF Receive, WaitInv
  <2>2. req' \in [Requests -> ReqState]
    BY <1>2, <1>7, <2>1 DEF Receive
  <2>3. req[run[r].req].offset \in Offset /\ run[r].len \in Offset /\ run[r].gen \in Histories
    BY <1>3, <2>1 DEF ReqState, RunState
  <2>4. run' \in [Runs -> RunState]
    <3>1. CASE run' = Fail(r)
      BY <1>3, <3>1 DEF Fail, RunState
    <3>2. CASE run' = Entered(r, run[r].len, run[r].gen, req[run[r].req].offset)
      BY <1>3, <2>3, <3>2 DEF Entered, RunState
    <3>3. CASE run' = Moved(r, req[run[r].req])
      BY <1>3, <2>3, <3>3 DEF Moved, Fail, RunState
    <3> QED  BY <1>7, <3>1, <3>2, <3>3 DEF Receive
  <2> QED  BY <1>7, <2>2, <2>4 DEF Receive
<1>8. CASE NextFile(r)
  <2>1. run[r].at + 1 \in Nat /\ run[r].remote \in [Names -> Offset]
    BY <1>3 DEF RunState
  <2>2. [NoRun EXCEPT !.pc = "read", !.remote = run[r].remote, !.at = run[r].at + 1] \in RunState
    BY <1>2, <2>1 DEF RunState
  <2> QED  BY <1>2, <1>8, <2>2 DEF NextFile
<1>9. CASE Kill(r)
  BY <1>2, <1>9 DEF Kill
<1> QED  BY <1>4, <1>5, <1>6, <1>7, <1>8, <1>9 DEF RunStep

LEMMA TypeServer ==
  ASSUME UploadTypeOK, ReqInv, NEW q \in Requests, Handle(q) \/ Die(q)
  PROVE  UploadTypeOK'
<1> USE UploadAssumption DEF UploadTypeOK, diskVars, dbVars
<1>1. 0 \in Offset /\ 1 \in Histories
  BY DEF Offset, Histories
<1>2. req[q] \in ReqState /\ Free \in ReqState
  BY <1>1 DEF Free, ReqState
<1>3. CASE LoadDevice(q)
  BY <1>2, <1>3 DEF LoadDevice, ReqState
<1>4. CASE LoadChain(q)
  <2>1. req[q].file \in Files
    BY <1>4 DEF LoadChain, ReqInv
  <2> DEFINE row == IF "device" \in req[q].found THEN cursor[req[q].file] ELSE -1
             expected == IF row < 0 THEN 0 ELSE row
  <2>2. expected \in Offset
    BY <1>1, <2>1 DEF Offset
  <2>3. req' \in [Requests -> ReqState]
    <3>1. CASE Answer(q, 409, expected)
      BY <2>2, <3>1, AnswerType
    <3> DEFINE found == req[q].found \cup IF row < 0 THEN {} ELSE {"chain"}
    <3>2. found \in SUBSET Rows
      BY <1>2 DEF ReqState, Rows
    <3>3. CASE req' = [req EXCEPT ![q] = [@ EXCEPT !.pc = "lines", !.found = found]]
      <4>1. [req[q] EXCEPT !.pc = "lines", !.found = found] \in ReqState
        <5> HIDE DEF found
        <5> QED  BY <1>2, <3>2 DEF ReqState
      <4> QED  BY <3>3, <4>1
    <3>4. \/ Answer(q, 409, expected)
          \/ req' = [req EXCEPT ![q] = [@ EXCEPT !.pc = "lines", !.found = found]]
      BY <1>4 DEF LoadChain
    <3> QED  BY <3>1, <3>3, <3>4
  <2> QED  BY <1>4, <2>3 DEF LoadChain
<1>5. CASE LoadLines(q)
  <2>1. req' \in [Requests -> ReqState]
    <3>1. CASE Answer(q, 403, 0) \/ Answer(q, 400, 0)
      BY <1>1, <3>1, AnswerType
    <3>2. CASE req' = [req EXCEPT ![q].pc = IF "device" \in req[q].found THEN "commit" ELSE "pin"]
      BY <1>2, <3>2 DEF ReqState
    <3> QED  BY <1>5, <3>1, <3>2 DEF LoadLines
  <2> QED  BY <1>5, <2>1 DEF LoadLines
<1>6. CASE Pin(q)
  <2>1. req[q].file \in Files
    BY <1>6 DEF Pin, ReqInv
  <2>2. req' \in [Requests -> ReqState]
    <3>1. CASE Answer(q, 500, 0)
      BY <1>1, <3>1, AnswerType
    <3>2. CASE req' = [req EXCEPT ![q].pc = "commit"]
      BY <1>2, <3>2 DEF ReqState
    <3> QED  BY <1>6, <3>1, <3>2 DEF Pin
  <2> QED  BY <1>6, <2>1, <2>2, OwnerIsDevice DEF Pin
<1>7. CASE Commit(q)
  <2>1. req[q].file \in Files /\ req[q].to \in Offset /\ req[q].gen \in Histories
    BY <1>2, <1>7 DEF Commit, ReqInv, ReqState
  <2>2. req' \in [Requests -> ReqState]
    BY <1>1, <1>7, <2>1, AnswerType DEF Commit
  <2>3. /\ cursor' \in [Files -> {-1} \cup Offset]
        /\ lines' \in [Files -> [Batches -> {0} \cup Histories]]
    <3>1. CASE Clash(q)
      BY <1>7, <3>1 DEF Commit
    <3>2. CASE ~Clash(q)
      <4> DEFINE f == req[q].file
                 new == [i \in Batches |-> IF i \in req[q].from + 1 .. req[q].to
                                           THEN req[q].gen ELSE lines[f][i]]
      <4>1. new \in [Batches -> {0} \cup Histories]
        BY <2>1
      <4>2. lines' = [lines EXCEPT ![f] = new] /\ cursor' = [cursor EXCEPT ![f] = req[q].to]
        BY <1>7, <3>2 DEF Commit
      <4> HIDE DEF new
      <4> QED  BY <2>1, <4>1, <4>2
    <3> QED  BY <3>1, <3>2
  <2> QED  BY <1>7, <2>2, <2>3 DEF Commit
<1>8. CASE Drop(q)
  BY <1>2, <1>8 DEF Drop
<1>9. CASE Die(q)
  <2>1. req' \in [Requests -> ReqState]
    BY <1>1, <1>9, AnswerType DEF Die
  <2> QED  BY <1>9, <2>1 DEF Die
<1> QED  BY <1>3, <1>4, <1>5, <1>6, <1>7, <1>8, <1>9 DEF Handle
-----------------------------------------------------------------------------
(* Steps of the device.                                                    *)

LEMMA InvDisk ==
  ASSUME IInv,
         \/ \E f \in Files : Sign(f) \/ Tear(f) \/ Mend(f) \/ Crash(f) \/ Restart(f)
         \/ \E d \in Devices : Revoke(d)
  PROVE  IInv'
<1>1. UploadTypeOK'
  BY UploadAssumption, TypeDisk DEF IInv
<1>2. cursor' = cursor /\ lines' = lines /\ run' = run /\ req' = req
  BY DEF Sign, Tear, Mend, Crash, Restart, Revoke, dbVars, diskVars
<1>3. \A f \in Files, g \in Histories : written[f][g] <= written'[f][g]
  <2>1. ASSUME NEW h \in Files, Sign(h), NEW f \in Files, NEW g \in Histories
        PROVE  written[f][g] <= written'[f][g]
    BY <2>1 DEF Sign, IInv, UploadTypeOK, Offset
  <2>2. ASSUME written' = written, NEW f \in Files, NEW g \in Histories
        PROVE  written[f][g] <= written'[f][g]
    BY <2>2 DEF IInv, UploadTypeOK, Offset
  <2> QED  BY <2>1, <2>2 DEF Tear, Mend, Crash, Restart, Revoke, diskVars
<1>4. StoredInv'
  <2> SUFFICES ASSUME NEW f \in Files
               PROVE  \E g \in Histories :
                        lines[f] = Prefix(g, Held(f)) /\ Held(f) <= written'[f][g]
    BY <1>2 DEF StoredInv, Held
  <2>1. PICK g \in Histories : lines[f] = Prefix(g, Held(f)) /\ Held(f) <= written[f][g]
    BY DEF IInv, StoredInv
  <2>2. Held(f) \in Int /\ written[f][g] \in Int /\ written'[f][g] \in Int
    BY <1>1 DEF IInv, UploadTypeOK, Offset, Held
  <2> QED  BY <1>3, <2>1, <2>2
<1>5. RunInv'
  <2> SUFFICES ASSUME NEW r \in Runs, run[r].pc \in {"send", "wait", "current"}
               PROVE  run[r].len <= written'[File(r)][run[r].gen]
    BY <1>2 DEF IInv, RunInv, File
  <2>1. File(r) \in Files /\ run[r].gen \in Histories /\ run[r].len \in Int
    BY AtFile DEF IInv, UploadTypeOK, RunState, Offset
  <2>2. run[r].len <= written[File(r)][run[r].gen]
    BY DEF IInv, RunInv
  <2>3. written[File(r)][run[r].gen] \in Int /\ written'[File(r)][run[r].gen] \in Int
    BY <1>1, <2>1 DEF IInv, UploadTypeOK, Offset
  <2> QED  BY <1>3, <2>1, <2>2, <2>3
<1>6. WaitInv'
  BY <1>2 DEF IInv, WaitInv, File
<1>7. ReqInv'
  <2> SUFFICES ASSUME NEW q \in Requests, req[q].pc # "free"
               PROVE  req[q].to <= written'[req[q].file][req[q].gen]
    BY <1>2 DEF IInv, ReqInv
  <2>1. /\ req[q].file \in Files /\ req[q].gen \in Histories /\ req[q].to \in Int
        /\ req[q].to <= written[req[q].file][req[q].gen]
    BY DEF IInv, ReqInv, UploadTypeOK, ReqState, Offset
  <2>2. /\ written[req[q].file][req[q].gen] \in Int
        /\ written'[req[q].file][req[q].gen] \in Int
    BY <1>1, <2>1 DEF IInv, UploadTypeOK, Offset
  <2> QED  BY <1>3, <2>1, <2>2
<1>8. LandsOrClashes'
  BY <1>2 DEF IInv, LandsOrClashes, Clash
<1>9. KnownInv'
  BY <1>2 DEF IInv, KnownInv, Held, File
<1> QED  BY <1>1, <1>4, <1>5, <1>6, <1>7, <1>8, <1>9 DEF IInv
-----------------------------------------------------------------------------
(* Steps of a run.                                                         *)

\* What RunInv and KnownInv say of one run.
At(x, r) == Ledger[Device[r]][x.at]
Good(x, r) ==
  /\ x.pc # "idle" =>
       /\ x.at \in DOMAIN Ledger[Device[r]]
       /\ \A f \in Files : ~NameShared(f) => x.remote[Name[f]] <= Held(f)
  /\ x.pc \in {"send", "wait", "current"} =>
       /\ x.len <= written[At(x, r)][x.gen]
       /\ ~NameShared(At(x, r)) => x.offset <= Held(At(x, r))
  /\ x.pc \in {"send", "wait"} => x.from < x.len
  /\ x.pc = "current" => x.len <= x.offset

LEMMA GoodNow ==
  ASSUME IInv, NEW r \in Runs
  PROVE  Good(run[r], r)
BY DEF IInv, RunInv, KnownInv, Good, At, File

\* A step of a run that brings it to a good state, and leaves the other runs alone.
LEMMA GoodNext ==
  ASSUME IInv, NEW r \in Runs, NEW x \in RunState, run' = [run EXCEPT ![r] = x], Good(x, r),
         UNCHANGED <<written, cursor, lines>>
  PROVE  /\ StoredInv' /\ RunInv'
         /\ \A s \in Runs : Good(run'[s], s)
<1>1. \A s \in Runs : Good(run'[s], s)
  BY GoodNow DEF IInv, UploadTypeOK
<1>2. StoredInv'
  BY DEF IInv, StoredInv, Held
<1>3. RunInv'
  <2> SUFFICES ASSUME NEW s \in Runs
               PROVE  /\ run'[s].pc # "idle" => run'[s].at \in DOMAIN Ledger[Device[s]]
                      /\ run'[s].pc \in {"send", "wait", "current"} =>
                           run'[s].len <= written'[At(run'[s], s)][run'[s].gen]
                      /\ run'[s].pc \in {"send", "wait"} => run'[s].from < run'[s].len
                      /\ run'[s].pc = "current" => run'[s].len <= run'[s].offset
    BY DEF RunInv, File, At
  <2> QED  BY <1>1 DEF Good
<1> QED  BY <1>1, <1>2, <1>3

\* ... so that the offsets that runs know are offsets the console still holds.
LEMMA KnownNext ==
  ASSUME \A s \in Runs : Good(run'[s], s), cursor' = cursor,
         \A q \in Requests :
           req'[q].pc = "answered" /\ req'[q].code \in {200, 409} =>
             req'[q].offset <= Held(req'[q].file)
  PROVE  KnownInv'
<1>1. \A f : Held(f)' = Held(f)
  BY DEF Held
<1>2. \A s \in Runs : File(s)' = At(run'[s], s)
  BY DEF File, At
<1>3. \A s \in Runs, f \in Files :
        run'[s].pc # "idle" /\ ~NameShared(f) => run'[s].remote[Name[f]] <= Held(f)'
  BY <1>1 DEF Good
<1>4. \A s \in Runs :
        run'[s].pc \in {"send", "wait", "current"} /\ ~NameShared(File(s)') =>
          run'[s].offset <= Held(File(s)')
  BY <1>2 DEF Good
<1> QED  BY <1>1, <1>3, <1>4 DEF KnownInv, Held, NameShared

\* A step of a run that sends nothing and takes no answer.
LEMMA QuietNext ==
  ASSUME IInv, NEW r \in Runs, NEW x \in RunState, run' = [run EXCEPT ![r] = x], Good(x, r),
         x.pc # "wait", UNCHANGED <<written, cursor, lines, req>>, UploadTypeOK'
  PROVE  IInv'
<1>1. /\ StoredInv' /\ RunInv'
      /\ \A s \in Runs : Good(run'[s], s)
  BY GoodNext
<1>2. KnownInv'
  BY <1>1, KnownNext DEF IInv, KnownInv
<1>3. ReqInv' /\ LandsOrClashes'
  BY DEF IInv, ReqInv, LandsOrClashes, Clash
<1>4. WaitInv'
  <2>1. \A s \in Runs : run'[s].pc = "wait" => s # r /\ run'[s] = run[s] /\ File(s)' = File(s)
    BY DEF IInv, UploadTypeOK, File
  <2> QED  BY <2>1 DEF IInv, WaitInv
<1> QED  BY <1>1, <1>2, <1>3, <1>4 DEF IInv

\* An offset from the listing is not beyond what is held of a file that has its name alone.
LEMMA ListedIsHeld ==
  ASSUME UploadTypeOK, NEW o \in Offsets, NEW f \in Files, ~NameShared(f)
  PROVE  o[Name[f]] <= Held(f)
<1> DEFINE held == {g \in Files : Name[g] = Name[f] /\ cursor[g] >= 0}
<1>1. Name[f] \in Names
  BY UploadAssumption
<1>2. IF held = {} THEN o[Name[f]] = 0 ELSE \E g \in held : o[Name[f]] = cursor[g]
  BY <1>1 DEF Offsets
<1>3. held \subseteq {f}
  BY DEF NameShared
<1>4. cursor[f] \in Int
  BY DEF UploadTypeOK, Offset
<1> QED  BY <1>2, <1>3, <1>4 DEF Held

LEMMA InvQuiet ==
  ASSUME IInv, NEW r \in Runs, Begin(r) \/ ReadFile(r) \/ NextFile(r) \/ Kill(r)
  PROVE  IInv'
<1>1. UploadTypeOK'
  BY TypeRun DEF IInv, RunStep
<1>2. UNCHANGED <<written, cursor, lines, req>>
  BY DEF Begin, ReadFile, NextFile, Kill, diskVars, dbVars
<1>3. /\ run \in [Runs -> RunState] /\ run' \in [Runs -> RunState]
      /\ run'[r] \in RunState
  BY <1>1 DEF IInv, UploadTypeOK
<1>4. Device[r] \in Devices /\ Ledger[Device[r]] \in Seq(Files)
  BY UploadAssumption
<1>5. Good(NoRun, r)
  BY DEF Good, NoRun
<1>6. CASE Begin(r)
  <2>1. PICK o \in Offsets :
          run' = [run EXCEPT ![r] = [NoRun EXCEPT !.pc = "read", !.remote = o]]
    BY <1>6 DEF Begin
  <2> DEFINE x == [NoRun EXCEPT !.pc = "read", !.remote = o]
  <2>2. x.pc = "read" /\ x.remote = o /\ x.at = 1
    BY DEF NoRun
  <2>3. 1 \in DOMAIN Ledger[Device[r]]
    <3>1. \A l \in Seq(Files) : l # <<>> => 1 \in DOMAIN l
      OBVIOUS
    <3> QED  BY <1>4, <1>6, <3>1 DEF Begin
  <2>4. \A f \in Files : ~NameShared(f) => o[Name[f]] <= Held(f)
    BY ListedIsHeld DEF IInv
  <2>5. x \in RunState /\ run' = [run EXCEPT ![r] = x]
    BY <1>3, <2>1
  <2> HIDE DEF x
  <2>6. Good(x, r)
    BY <2>2, <2>3, <2>4 DEF Good
  <2> QED  BY <1>1, <1>2, <2>2, <2>5, <2>6, QuietNext
<1>7. CASE ReadFile(r)
  <2> DEFINE f == File(r)
  <2>1. /\ f \in Files /\ run[r].pc = "read" /\ run[r].at \in DOMAIN Ledger[Device[r]]
        /\ \A g \in Files : ~NameShared(g) => run[r].remote[Name[g]] <= Held(g)
    BY <1>7, AtFile, GoodNow DEF ReadFile, IInv, Good
  <2>2. CASE run' = [run EXCEPT ![r] = NoRun]
    BY <1>1, <1>2, <1>3, <1>5, <2>2, QuietNext DEF NoRun
  <2>3. ASSUME NEW pc \in {"skipped", "failed"}, run' = [run EXCEPT ![r].pc = pc]
        PROVE  IInv'
    <3> DEFINE x == [run[r] EXCEPT !.pc = pc]
    <3>1. /\ x \in RunState /\ run' = [run EXCEPT ![r] = x]
          /\ x.pc = pc /\ x.at = run[r].at /\ x.remote = run[r].remote
      BY <1>3, <2>3 DEF RunState
    <3> HIDE DEF x
    <3>2. Good(x, r)
      BY <2>1, <3>1 DEF Good
    <3> QED  BY <1>1, <1>2, <3>1, <3>2, QuietNext
  <2>4. CASE run' = Entered(r, Local(f), history[f], run[r].remote[Name[f]])
    <3> DEFINE o == run[r].remote[Name[f]]
               x == [run[r] EXCEPT !.len = Local(f), !.gen = history[f], !.offset = o,
                                   !.from = o, !.again = FALSE, !.req = None,
                                   !.pc = IF o < Local(f) THEN "send" ELSE "current"]
    <3>1. o \in Int /\ Local(f) \in Int
      <4>1. run[r].remote \in [Names -> Offset] /\ Name[f] \in Names
        BY <1>3, <2>1, UploadAssumption DEF RunState
      <4> QED  BY <2>1, <4>1 DEF Local, IInv, UploadTypeOK, Offset
    <3>2. run' = [run EXCEPT ![r] = x]
      BY <2>4 DEF Entered
    <3>3. x \in RunState
      BY <1>3, <3>2
    <3>4. /\ x.at = run[r].at /\ x.remote = run[r].remote /\ x.len = Local(f)
          /\ x.gen = history[f] /\ x.offset = o /\ x.from = o
          /\ x.pc = IF o < Local(f) THEN "send" ELSE "current"
      BY <1>3 DEF RunState
    <3>5. At(x, r) = f
      BY <3>4 DEF At, File
    <3>6. Local(f) <= written[f][history[f]]
      BY <3>1 DEF Local
    <3> HIDE DEF x, o
    <3>7. Good(x, r)
      BY <2>1, <3>1, <3>4, <3>5, <3>6 DEF Good, o
    <3>8. x.pc # "wait"
      BY <3>4
    <3> QED  BY <1>1, <1>2, <3>2, <3>3, <3>7, <3>8, QuietNext
  <2> QED  BY <1>7, <2>2, <2>3, <2>4 DEF ReadFile
<1>8. CASE NextFile(r)
  <2>1. /\ run[r].pc # "idle" /\ run[r].at \in DOMAIN Ledger[Device[r]]
        /\ \A g \in Files : ~NameShared(g) => run[r].remote[Name[g]] <= Held(g)
    BY <1>8, GoodNow DEF NextFile, Good
  <2>2. CASE run[r].at < Len(Ledger[Device[r]])
    <3> DEFINE x == [NoRun EXCEPT !.pc = "read", !.remote = run[r].remote,
                                  !.at = run[r].at + 1]
    <3>1. run' = [run EXCEPT ![r] = x]
      BY <1>8, <2>2 DEF NextFile
    <3>2. x \in RunState
      BY <1>3, <3>1
    <3>3. x.pc = "read" /\ x.at = run[r].at + 1 /\ x.remote = run[r].remote
      BY DEF NoRun
    <3>4. run[r].at + 1 \in DOMAIN Ledger[Device[r]]
      BY <1>4, <2>1, <2>2
    <3> HIDE DEF x
    <3>5. Good(x, r)
      BY <2>1, <3>3, <3>4 DEF Good
    <3> QED  BY <1>1, <1>2, <3>1, <3>2, <3>3, <3>5, QuietNext
  <2>3. CASE run' = [run EXCEPT ![r] = NoRun]
    BY <1>1, <1>2, <1>3, <1>5, <2>3, QuietNext DEF NoRun
  <2> QED  BY <1>8, <2>2, <2>3 DEF NextFile
<1>9. CASE Kill(r)
  <2>1. run' = [run EXCEPT ![r] = NoRun]
    BY <1>9 DEF Kill
  <2> QED  BY <1>1, <1>2, <1>3, <1>5, <2>1, QuietNext DEF NoRun
<1> QED  BY <1>6, <1>7, <1>8, <1>9

LEMMA InvSend ==
  ASSUME IInv, NEW r \in Runs, Send(r)
  PROVE  IInv'
<1>1. UploadTypeOK'
  BY TypeRun DEF IInv, RunStep
<1>2. UNCHANGED <<written, cursor, lines>>
  BY DEF Send, diskVars, dbVars
<1>3. /\ run \in [Runs -> RunState] /\ req \in [Requests -> ReqState]
      /\ run' \in [Runs -> RunState] /\ run'[r] \in RunState
  BY <1>1 DEF IInv, UploadTypeOK
<1>4. PICK q \in Requests :
        /\ req[q].pc = "free"
        /\ req' = [req EXCEPT ![q] =
             [Free EXCEPT !.pc = "device", !.file = File(r), !.gen = run[r].gen,
                          !.from = run[r].from, !.to = ChunkEnd(run[r].len, run[r].from)]]
        /\ run' = [run EXCEPT ![r] = [@ EXCEPT !.pc = "wait", !.req = q]]
  BY DEF Send
<1> DEFINE x == [run[r] EXCEPT !.pc = "wait", !.req = q]
<1>5. /\ x \in RunState /\ run' = [run EXCEPT ![r] = x]
      /\ x.pc = "wait" /\ x.at = run[r].at /\ x.remote = run[r].remote /\ x.len = run[r].len
      /\ x.gen = run[r].gen /\ x.offset = run[r].offset /\ x.from = run[r].from /\ x.req = q
  BY <1>3, <1>4 DEF RunState
<1> HIDE DEF x
<1>6. run[r].pc = "send" /\ Good(run[r], r)
  BY GoodNow DEF Send
<1>7. Good(x, r)
  BY <1>5, <1>6 DEF Good, At
<1>8. /\ StoredInv' /\ RunInv'
      /\ \A s \in Runs : Good(run'[s], s)
  BY <1>2, <1>5, <1>7, GoodNext
<1>9. /\ req'[q].pc = "device" /\ req'[q].file = File(r) /\ req'[q].gen = run[r].gen
      /\ req'[q].from = run[r].from /\ req'[q].to = ChunkEnd(run[r].len, run[r].from)
      /\ \A p \in Requests \ {q} : req'[p] = req[p]
  BY <1>3, <1>4 DEF Free
<1>10. KnownInv'
  BY <1>2, <1>8, <1>9, KnownNext DEF IInv, KnownInv
<1>11. ReqInv'
  <2>1. /\ File(r) \in Files /\ run[r].len \in Offset /\ run[r].from \in Offset
        /\ run[r].gen \in Histories
    BY <1>3, <1>6, AtFile DEF IInv, RunState
  <2>2. run[r].from < run[r].len /\ run[r].len <= written[File(r)][run[r].gen]
    BY <1>6 DEF Good, At, File
  <2>3. /\ run[r].from < ChunkEnd(run[r].len, run[r].from)
        /\ ChunkEnd(run[r].len, run[r].from) <= run[r].len
        /\ ChunkEnd(run[r].len, run[r].from) \in Offset
    BY <2>1, <2>2, ChunkEndBounds
  <2>4. written[File(r)][run[r].gen] \in Int
    BY <2>1 DEF IInv, UploadTypeOK, Offset
  <2>5. ChunkEnd(run[r].len, run[r].from) <= written[File(r)][run[r].gen]
    BY <2>1, <2>2, <2>3, <2>4 DEF Offset
  <2> QED  BY <1>2, <1>9, <2>1, <2>3, <2>5 DEF IInv, ReqInv
<1>12. LandsOrClashes'
  BY <1>2, <1>9 DEF IInv, LandsOrClashes, Clash
<1>13. WaitInv'
  <2>1. File(r)' = File(r)
    BY <1>3, <1>5 DEF File
  <2>2. \A s \in Runs \ {r} : run'[s] = run[s] /\ File(s)' = File(s)
    BY <1>3, <1>5 DEF File
  <2>3. \A s \in Runs \ {r} : run[s].pc = "wait" => run[s].req \in Requests \ {q}
    BY <1>4 DEF IInv, WaitInv
  <2>4. run'[r].pc = "wait" /\ run'[r].req = q
    BY <1>3, <1>5
  <2> QED  BY <1>9, <2>1, <2>2, <2>3, <2>4 DEF IInv, WaitInv
<1> QED  BY <1>1, <1>8, <1>10, <1>11, <1>12, <1>13 DEF IInv

LEMMA InvReceive ==
  ASSUME IInv, NEW r \in Runs, Receive(r)
  PROVE  IInv'
<1> DEFINE p == run[r].req
           q == req[p]
<1>1. UploadTypeOK'
  BY TypeRun DEF IInv, RunStep
<1>2. UNCHANGED <<written, cursor, lines>>
  BY DEF Receive, diskVars, dbVars
<1>3. /\ run \in [Runs -> RunState] /\ req \in [Requests -> ReqState]
      /\ run' \in [Runs -> RunState] /\ run'[r] \in RunState
  BY <1>1 DEF IInv, UploadTypeOK
<1>4. /\ run[r].pc = "wait" /\ q.pc = "answered" /\ p \in Requests /\ q.file = File(r)
      /\ req' = [req EXCEPT ![p] = Free]
  BY DEF IInv, WaitInv, Receive
<1>5. Good(run[r], r) /\ At(run[r], r) = File(r)
  BY GoodNow DEF At, File
<1>6. /\ q.offset \in Offset /\ run[r].len \in Offset /\ run[r].offset \in Offset
      /\ run[r].from \in Offset
  BY <1>3, <1>4 DEF RunState, ReqState
<1>7. q.code \in {200, 409} => q.offset <= Held(File(r))
  BY <1>4 DEF IInv, KnownInv
<1>8. Good(run'[r], r) /\ run'[r].pc # "wait"
  <2>1. CASE q.code = 200 /\ q.offset > run[r].offset
    <3> DEFINE x == run'[r]
    <3>1. run' = Entered(r, run[r].len, run[r].gen, q.offset)
      BY <2>1 DEF Receive
    <3>2. /\ x.at = run[r].at /\ x.remote = run[r].remote /\ x.len = run[r].len
          /\ x.gen = run[r].gen /\ x.offset = q.offset /\ x.from = q.offset
          /\ x.pc = IF q.offset < run[r].len THEN "send" ELSE "current"
      BY <1>3, <3>1 DEF Entered, RunState
    <3>3. At(x, r) = File(r)
      BY <3>2 DEF At, File
    <3> HIDE DEF q
    <3> QED  BY <1>4, <1>5, <1>6, <1>7, <2>1, <3>2, <3>3 DEF Good, Offset
  <2>2. CASE run' = Fail(r)
    <3>1. run'[r].pc = "failed" /\ run'[r].at = run[r].at /\ run'[r].remote = run[r].remote
      BY <1>3, <2>2 DEF Fail, RunState
    <3> QED  BY <1>4, <1>5, <3>1 DEF Good
  <2>3. CASE q.code = 409 /\ run' = Moved(r, q)
    <3> DEFINE x == run'[r]
    <3>1. CASE q.offset > run[r].len
      <4>1. run' = Fail(r)
        BY <1>6, <2>3, <3>1 DEF Moved, Offset
      <4> QED  BY <2>2, <4>1
    <3>2. CASE q.offset = run[r].len
      <4>1. /\ x.at = run[r].at /\ x.remote = run[r].remote /\ x.len = run[r].len
            /\ x.gen = run[r].gen /\ x.offset = q.offset /\ x.pc = "current"
        BY <1>3, <1>6, <2>3, <3>2 DEF Moved, RunState, Offset
      <4>2. At(x, r) = File(r)
        BY <4>1 DEF At, File
      <4> HIDE DEF q
      <4> QED  BY <1>4, <1>5, <1>6, <1>7, <2>3, <3>2, <4>1, <4>2 DEF Good, Offset
    <3>3. CASE q.offset < run[r].len
      <4>1. /\ x.at = run[r].at /\ x.remote = run[r].remote /\ x.len = run[r].len
            /\ x.gen = run[r].gen /\ x.offset = run[r].offset /\ x.from = q.offset
            /\ x.pc = "send"
        BY <1>3, <1>6, <2>3, <3>3 DEF Moved, RunState, Offset
      <4>2. At(x, r) = File(r)
        BY <4>1 DEF At, File
      <4> HIDE DEF q
      <4> QED  BY <1>4, <1>5, <1>6, <2>3, <3>3, <4>1, <4>2 DEF Good, Offset
    <3> QED  BY <1>6, <3>1, <3>2, <3>3 DEF Offset
  <2> QED  BY <2>1, <2>2, <2>3 DEF Receive
<1>9. run' = [run EXCEPT ![r] = run'[r]]
  <2>1. \/ run' = Entered(r, run[r].len, run[r].gen, q.offset)
        \/ run' = Moved(r, q)
        \/ run' = Fail(r)
    BY DEF Receive
  <2> HIDE DEF q
  <2> QED  BY <1>3, <2>1 DEF Entered, Moved, Fail
<1>10. /\ StoredInv' /\ RunInv'
       /\ \A s \in Runs : Good(run'[s], s)
  BY <1>2, <1>3, <1>8, <1>9, GoodNext
<1>11. /\ req'[p] = Free /\ \A t \in Requests \ {p} : req'[t] = req[t]
  BY <1>3, <1>4
<1>12. Free.pc = "free"
  BY DEF Free
<1>13. KnownInv'
  BY <1>2, <1>10, <1>11, <1>12, KnownNext DEF IInv, KnownInv
<1>14. ReqInv' /\ LandsOrClashes'
  BY <1>2, <1>11, <1>12 DEF IInv, ReqInv, LandsOrClashes, Clash
<1>15. WaitInv'
  <2>1. \A s \in Runs \ {r} : run'[s] = run[s] /\ File(s)' = File(s)
    BY <1>3, <1>9 DEF File
  <2>2. \A s \in Runs \ {r} : run[s].pc = "wait" => run[s].req \in Requests \ {p}
    BY <1>4 DEF IInv, WaitInv
  <2> QED  BY <1>8, <1>11, <2>1, <2>2 DEF IInv, WaitInv
<1> QED  BY <1>1, <1>10, <1>13, <1>14, <1>15 DEF IInv
-----------------------------------------------------------------------------
(* Steps of the server.                                                    *)

\* What ReqInv, LandsOrClashes and KnownInv say of one request.
Sound(x) ==
  x.pc # "free" =>
    /\ x.file \in Files
    /\ x.from < x.to
    /\ x.to <= written[x.file][x.gen]
    /\ x.pc = "lines" /\ "chain" \notin x.found => x.from = 0
    /\ x.pc \in {"pin", "commit"} =>
         \/ \E i \in x.from + 1 .. x.to : lines[x.file][i] # 0
         \/ lines[x.file] = Prefix(x.gen, x.from)
    /\ x.pc = "answered" /\ x.code \in {200, 409} => x.offset <= Held(x.file)

LEMMA SoundNow ==
  ASSUME IInv, NEW q \in Requests
  PROVE  Sound(req[q])
BY DEF IInv, ReqInv, LandsOrClashes, Clash, KnownInv, Sound

LEMMA SoundNext ==
  ASSUME \A q \in Requests : Sound(req[q])'
  PROVE  /\ ReqInv' /\ LandsOrClashes'
         /\ \A q \in Requests :
              req'[q].pc = "answered" /\ req'[q].code \in {200, 409} =>
                req'[q].offset <= Held(req[q].file)'
<1>1. ReqInv'
  BY DEF ReqInv, Sound
<1>2. LandsOrClashes'
  <2> SUFFICES ASSUME NEW q \in Requests, req'[q].pc \in {"pin", "commit"}
               PROVE  (Clash(q) \/ lines[req[q].file] = Prefix(req[q].gen, req[q].from))'
    BY DEF LandsOrClashes
  <2> QED  BY DEF Sound, Clash
<1>3. ASSUME NEW q \in Requests, req'[q].pc = "answered", req'[q].code \in {200, 409}
      PROVE  req'[q].offset <= Held(req[q].file)'
  BY <1>3 DEF Sound
<1> QED  BY <1>1, <1>2, <1>3

\* A step of one request that leaves the database alone, and keeps the request in being
\* unless nobody waits for it.
LEMMA RequestNext ==
  ASSUME IInv, NEW q \in Requests, NEW x \in ReqState, req' = [req EXCEPT ![q] = x], Sound(x),
         x.pc = "free" \/ x.file = req[q].file,
         x.pc = "free" => \A r \in Runs : run[r].req # q,
         req[q].pc # "free",
         UNCHANGED <<written, cursor, lines, run>>, UploadTypeOK'
  PROVE  IInv'
<1>1. \A p \in Requests : req'[p] = IF p = q THEN x ELSE req[p]
  BY DEF IInv, UploadTypeOK
<1>2. \A p \in Requests : Sound(req[p])'
  BY <1>1, SoundNow DEF Sound, Held
<1>3. ReqInv' /\ LandsOrClashes'
  BY <1>2, SoundNext
<1>4. StoredInv' /\ RunInv'
  BY DEF IInv, StoredInv, RunInv, Held, File
<1>5. WaitInv'
  BY <1>1 DEF IInv, WaitInv, File
<1>6. KnownInv'
  <2>1. \A p \in Requests : req'[p].pc = "answered" /\ req'[p].code \in {200, 409} =>
                req'[p].offset <= Held(req[p].file)'
    BY <1>2, SoundNext
  <2> QED  BY <2>1 DEF IInv, KnownInv, Held, File
<1> QED  BY <1>3, <1>4, <1>5, <1>6 DEF IInv

LEMMA InvAnswer ==
  ASSUME IInv, NEW q \in Requests, NEW code \in Nat, NEW offset \in Offset,
         Answer(q, code, offset), req[q].pc # "free",
         code \in {200, 409} => offset <= Held(req[q].file),
         UNCHANGED <<written, cursor, lines, run>>, UploadTypeOK'
  PROVE  IInv'
<1> DEFINE x == [req[q] EXCEPT !.pc = "answered", !.code = code, !.offset = offset]
<1>1. req[q] \in ReqState
  BY DEF IInv, UploadTypeOK
<1>2. req' = [req EXCEPT ![q] = x]
  BY DEF Answer
<1>3. /\ x \in ReqState /\ x.pc = "answered" /\ x.code = code /\ x.offset = offset
      /\ x.file = req[q].file /\ x.from = req[q].from /\ x.to = req[q].to /\ x.gen = req[q].gen
  BY <1>1 DEF ReqState
<1> HIDE DEF x
<1>4. Sound(x)
  BY <1>3, SoundNow DEF Sound
<1> QED  BY <1>2, <1>3, <1>4, RequestNext

\* The empty prefix is the same for every history, and clashes with any other.
LEMMA EmptyOrClash ==
  ASSUME UploadTypeOK, StoredInv, NEW f \in Files, NEW g \in Histories
  PROVE  lines[f] = Prefix(g, 0) \/ (MaxBatches >= 1 /\ lines[f][1] # 0)
<1>1. PICK h \in Histories : lines[f] = Prefix(h, Held(f))
  BY DEF StoredInv
<1>2. Held(f) \in Offset
  BY UploadAssumption DEF UploadTypeOK, Held, Offset
<1>3. CASE Held(f) = 0
  BY <1>1, <1>3 DEF Prefix, Batches
<1>4. CASE Held(f) > 0
  <2>1. 1 \in Batches /\ h # 0
    BY <1>2, <1>4, UploadAssumption DEF Offset, Batches, Histories
  <2> QED  BY <1>1, <1>2, <1>4, <2>1, UploadAssumption DEF Prefix, Offset, Batches
<1> QED  BY <1>2, <1>3, <1>4 DEF Offset

LEMMA InvServer ==
  ASSUME IInv, NEW q \in Requests,
         LoadDevice(q) \/ LoadChain(q) \/ LoadLines(q) \/ Pin(q) \/ Drop(q) \/ Die(q)
  PROVE  IInv'
<1>1. UploadTypeOK'
  BY TypeServer DEF IInv, Handle
<1>2. UNCHANGED <<written, cursor, lines, run>>
  BY DEF LoadDevice, LoadChain, LoadLines, Pin, Drop, Die, diskVars, dbVars
<1>3. req[q] \in ReqState /\ req' \in [Requests -> ReqState] /\ req[q].pc # "free"
  BY <1>1 DEF IInv, UploadTypeOK, LoadDevice, LoadChain, LoadLines, Pin, Drop, Die
<1>4. /\ req[q].file \in Files /\ req[q].from < req[q].to /\ Sound(req[q])
      /\ req[q].from \in Offset /\ req[q].to \in Offset /\ req[q].gen \in Histories
  BY <1>3, SoundNow DEF Sound, ReqState
<1>5. Held(req[q].file) \in Offset
  BY <1>4, UploadAssumption DEF IInv, UploadTypeOK, Held, Offset
<1>6. 0 \in Offset
  BY UploadAssumption DEF Offset
<1>7. ASSUME NEW code \in {400, 403, 500}, Answer(q, code, 0) PROVE IInv'
  BY <1>1, <1>2, <1>3, <1>6, <1>7, InvAnswer
<1>8. CASE LoadDevice(q)
  <2>1. PICK found : req' = [req EXCEPT ![q] = [@ EXCEPT !.pc = "chain", !.found = found]]
    BY <1>8 DEF LoadDevice
  <2> DEFINE x == [req[q] EXCEPT !.pc = "chain", !.found = found]
  <2>2. req' = [req EXCEPT ![q] = x] /\ x \in ReqState
    BY <1>3, <2>1 DEF IInv, UploadTypeOK
  <2>3. /\ x.pc = "chain" /\ x.file = req[q].file /\ x.from = req[q].from
        /\ x.to = req[q].to /\ x.gen = req[q].gen
    BY <1>3 DEF ReqState
  <2> HIDE DEF x
  <2>4. Sound(x)
    BY <1>3, <1>4, <2>3 DEF Sound
  <2> QED  BY <1>1, <1>2, <1>3, <2>2, <2>3, <2>4, RequestNext
<1>9. CASE LoadChain(q)
  <2> DEFINE row == IF "device" \in req[q].found THEN cursor[req[q].file] ELSE -1
             expected == IF row < 0 THEN 0 ELSE row
             found == req[q].found \cup IF row < 0 THEN {} ELSE {"chain"}
             x == [req[q] EXCEPT !.pc = "lines", !.found = found]
  <2>1. expected \in Offset /\ expected <= Held(req[q].file)
    <3>1. cursor[req[q].file] \in {-1} \cup Offset
      BY <1>4 DEF IInv, UploadTypeOK
    <3>2. expected = 0 \/ expected = Held(req[q].file)
      BY DEF Held
    <3> HIDE DEF expected
    <3> QED  BY <1>5, <1>6, <3>2 DEF Offset
  <2>2. CASE Answer(q, 409, expected)
    <3> HIDE DEF expected
    <3> QED  BY <1>1, <1>2, <1>3, <2>1, <2>2, InvAnswer
  <2>3. CASE req[q].from = expected /\ req' = [req EXCEPT ![q] = x]
    <3>1. x \in ReqState
      BY <1>3, <2>3 DEF IInv, UploadTypeOK
    <3>2. /\ x.pc = "lines" /\ x.file = req[q].file /\ x.from = req[q].from
          /\ x.to = req[q].to /\ x.gen = req[q].gen /\ x.found = found
      BY <1>3 DEF ReqState
    <3>3. "chain" \notin found => expected = 0
      OBVIOUS
    <3> HIDE DEF x, expected, found
    <3>4. Sound(x)
      BY <1>3, <1>4, <2>3, <3>2, <3>3 DEF Sound
    <3> QED  BY <1>1, <1>2, <1>3, <2>3, <3>1, <3>2, <3>4, RequestNext
  <2> QED  BY <1>9, <2>2, <2>3 DEF LoadChain
<1>10. CASE LoadLines(q)
  <2> DEFINE pc == IF "device" \in req[q].found THEN "commit" ELSE "pin"
             stored == IF "chain" \in req[q].found THEN lines[req[q].file] ELSE Prefix(1, 0)
             x == [req[q] EXCEPT !.pc = pc]
  <2>1. CASE Verified(q, stored) /\ req' = [req EXCEPT ![q].pc = pc]
    <3>1. req' = [req EXCEPT ![q] = x] /\ x \in ReqState
      BY <1>3, <2>1 DEF IInv, UploadTypeOK
    <3>2. /\ x.pc = pc /\ x.file = req[q].file /\ x.from = req[q].from
          /\ x.to = req[q].to /\ x.gen = req[q].gen
      BY <1>3 DEF ReqState
    <3>3. \/ \E i \in req[q].from + 1 .. req[q].to : lines[req[q].file][i] # 0
          \/ lines[req[q].file] = Prefix(req[q].gen, req[q].from)
      <4>1. CASE "chain" \in req[q].found
        BY <2>1, <4>1 DEF Verified
      <4>2. CASE "chain" \notin req[q].found
        <5>1. req[q].from = 0
          BY <1>4, <1>10, <4>2 DEF Sound, LoadLines
        <5>2. 1 \in req[q].from + 1 .. req[q].to
          BY <1>4, <5>1 DEF Offset
        <5> QED  BY <1>4, <5>1, <5>2, EmptyOrClash DEF IInv
      <4> QED  BY <4>1, <4>2
    <3>4. pc \in {"pin", "commit"}
      OBVIOUS
    <3> HIDE DEF x, pc
    <3>5. Sound(x)
      BY <1>4, <1>3, <3>2, <3>3, <3>4 DEF Sound
    <3> QED  BY <1>1, <1>2, <1>3, <3>1, <3>2, <3>4, <3>5, RequestNext
  <2>2. \/ Answer(q, 403, 0) \/ Answer(q, 400, 0)
        \/ Verified(q, stored) /\ req' = [req EXCEPT ![q].pc = pc]
    BY <1>10 DEF LoadLines
  <2>3. CASE Answer(q, 403, 0) \/ Answer(q, 400, 0)
    BY <1>7, <2>3
  <2> HIDE DEF stored, pc
  <2> QED  BY <2>1, <2>2, <2>3
<1>11. CASE Pin(q)
  <2> DEFINE x == [req[q] EXCEPT !.pc = "commit"]
  <2>1. CASE req' = [req EXCEPT ![q].pc = "commit"]
    <3>1. req' = [req EXCEPT ![q] = x] /\ x \in ReqState
      BY <1>3, <2>1 DEF IInv, UploadTypeOK
    <3>2. /\ x.pc = "commit" /\ x.file = req[q].file /\ x.from = req[q].from
          /\ x.to = req[q].to /\ x.gen = req[q].gen
      BY <1>3 DEF ReqState
    <3> HIDE DEF x
    <3>3. Sound(x)
      BY <1>3, <1>4, <1>11, <3>2 DEF Sound, Pin
    <3> QED  BY <1>1, <1>2, <1>3, <3>1, <3>2, <3>3, RequestNext
  <2> QED  BY <1>7, <1>11, <2>1 DEF Pin
<1>12. CASE Drop(q)
  <2>1. Free \in ReqState /\ Free.pc = "free"
    BY <1>6, UploadAssumption DEF Free, ReqState, Histories
  <2>2. Sound(Free)
    BY <2>1 DEF Sound
  <2> QED  BY <1>1, <1>2, <1>3, <1>12, <2>1, <2>2, RequestNext DEF Drop
<1>13. CASE Die(q)
  BY <1>7, <1>13 DEF Die
<1> QED  BY <1>8, <1>9, <1>10, <1>11, <1>12, <1>13

\* What a commit without a clash does is what Mirror calls Extend.
LEMMA CommitExtends ==
  ASSUME IInv, NEW q \in Requests, Commit(q), ~Clash(q)
  PROVE  LET f == req[q].file
         IN /\ f \in Files /\ req[q].gen \in Histories
            /\ req[q].from \in Offset /\ req[q].to \in Offset
            /\ req[q].from < req[q].to /\ req[q].to <= written[f][req[q].gen]
            /\ lines[f] = Prefix(req[q].gen, req[q].from) /\ Held(f) = req[q].from
            /\ lines' = [lines EXCEPT ![f] = Prefix(req[q].gen, req[q].to)]
            /\ cursor' = [cursor EXCEPT ![f] = req[q].to]
            /\ written' = written /\ run' = run
<1> DEFINE f == req[q].file
<1>1. /\ f \in Files /\ req[q].gen \in Histories /\ req[q].from \in Offset
      /\ req[q].to \in Offset /\ req[q].from < req[q].to /\ req[q].to <= written[f][req[q].gen]
      /\ lines[f] = Prefix(req[q].gen, req[q].from)
  BY DEF Commit, IInv, ReqInv, LandsOrClashes, UploadTypeOK, ReqState
<1>2. Held(f) = req[q].from
  <2>1. PICK g \in Histories : lines[f] = Prefix(g, Held(f))
    BY <1>1 DEF IInv, StoredInv
  <2>2. Held(f) \in Offset
    BY <1>1, UploadAssumption DEF IInv, UploadTypeOK, Held, Offset
  <2>3. Prefix(g, Held(f)) = Prefix(req[q].gen, req[q].from)
    BY <1>1, <2>1
  <2>4. ASSUME NEW k \in Offset, NEW j \in Offset, NEW h \in Histories, Prefix(g, k) = Prefix(h, j)
        PROVE  k = j
    BY <2>1, <2>4, PrefixUnique
  <2> HIDE DEF f
  <2> QED  BY <1>1, <2>2, <2>3, <2>4
<1>3. /\ lines' = [lines EXCEPT ![f] = Prefix(req[q].gen, req[q].to)]
      /\ cursor' = [cursor EXCEPT ![f] = req[q].to]
  <2> DEFINE new == [i \in Batches |-> IF i \in req[q].from + 1 .. req[q].to
                                       THEN req[q].gen ELSE lines[f][i]]
  <2>1. lines' = [lines EXCEPT ![f] = new] /\ cursor' = [cursor EXCEPT ![f] = req[q].to]
    BY DEF Commit
  <2>2. new = Prefix(req[q].gen, req[q].to)
    BY <1>1, PrefixExtended
  <2> QED  BY <2>1, <2>2
<1>4. written' = written /\ run' = run
  BY DEF Commit, diskVars
<1> QED  BY <1>1, <1>2, <1>3, <1>4

LEMMA InvCommit ==
  ASSUME IInv, NEW q \in Requests, Commit(q)
  PROVE  IInv'
<1>1. UploadTypeOK'
  BY TypeServer DEF IInv, Handle
<1>2. CASE Clash(q)
  <2>1. Answer(q, 500, 0) /\ UNCHANGED <<written, cursor, lines, run>>
    BY <1>2 DEF Commit, diskVars
  <2>2. req[q].pc # "free" /\ 0 \in Offset
    BY UploadAssumption DEF Commit, Offset
  <2> QED  BY <1>1, <2>1, <2>2, InvAnswer
<1>3. CASE ~Clash(q)
  <2>1. PICK f, g, m, n :
        /\ f = req[q].file /\ g = req[q].gen /\ m = req[q].from /\ n = req[q].to
        /\ f \in Files /\ g \in Histories /\ m \in Offset /\ n \in Offset
        /\ m < n /\ n <= written[f][g]
        /\ lines[f] = Prefix(g, m) /\ Held(f) = m
        /\ lines' = [lines EXCEPT ![f] = Prefix(g, n)]
        /\ cursor' = [cursor EXCEPT ![f] = n]
        /\ written' = written /\ run' = run
    BY <1>3, CommitExtends
  <2> DEFINE x == [req[q] EXCEPT !.pc = "answered", !.code = 200, !.offset = n]
  <2>2. req[q].pc = "commit" /\ req' = [req EXCEPT ![q] = x]
    BY <1>3, <2>1 DEF Commit, Answer
  <2>3. /\ req \in [Requests -> ReqState] /\ x.pc = "answered" /\ x.code = 200 /\ x.offset = n
        /\ x.file = f /\ x.from = m /\ x.to = n /\ x.gen = g
    BY <2>1 DEF IInv, UploadTypeOK, ReqState
  <2>4. \A h \in Files : Held(h)' = IF h = f THEN n ELSE Held(h)
    BY <2>1 DEF IInv, UploadTypeOK, Held, Offset
  <2>5. \A h \in Files : Held(h) \in Int /\ Held(h) <= Held(h)'
    BY <2>1, <2>4 DEF IInv, UploadTypeOK, Held, Offset
  <2>6. \A h \in Files : lines'[h] = IF h = f THEN Prefix(g, n) ELSE lines[h]
    BY <2>1 DEF IInv, UploadTypeOK
  <2>7. \A p \in Requests : req'[p] = IF p = q THEN x ELSE req[p]
    BY <2>2, <2>3
  <2> HIDE DEF x
  <2>8. m + 1 \in Batches /\ Prefix(g, n)[m + 1] # 0
    <3>1. /\ MaxBatches \in Nat /\ m \in Offset /\ n \in Offset /\ m < n /\ g # 0
      BY <2>1, UploadAssumption DEF Histories
    <3>2. m + 1 \in Batches /\ m + 1 <= n
      BY <3>1 DEF Offset, Batches
    <3> QED  BY <3>1, <3>2 DEF Prefix
  <2>9. StoredInv'
    BY <2>1, <2>4, <2>6 DEF IInv, StoredInv
  <2>10. RunInv'
    BY <2>1 DEF IInv, RunInv, File
  <2>11. WaitInv'
    BY <2>1, <2>2, <2>3, <2>7 DEF IInv, WaitInv, File
  <2>12. \A p \in Requests : Sound(req[p])'
    <3>1. Sound(req[q])'
      <4>1. Held(f)' = n /\ written'[f][g] = written[f][g] /\ req'[q] = x
        BY <2>1, <2>4, <2>7
      <4> QED  BY <2>1, <2>3, <4>1 DEF Sound, Offset
    <3>2. ASSUME NEW p \in Requests \ {q}, req[p].pc # "free"
          PROVE  Sound(req[p])'
      <4>1. /\ req'[p] = req[p] /\ req[p].file \in Files /\ Sound(req[p])
            /\ req[p].from \in Offset /\ req[p].to \in Offset /\ req[p].offset \in Offset
            /\ req[p].gen \in Histories
        BY <2>3, <2>7, <3>2, SoundNow DEF Sound, ReqState
      <4>2. ASSUME req[p].pc \in {"pin", "commit"}
            PROVE  \/ \E i \in req[p].from + 1 .. req[p].to : lines'[req[p].file][i] # 0
                   \/ lines'[req[p].file] = Prefix(req[p].gen, req[p].from)
        <5>1. CASE req[p].file # f
          BY <2>6, <4>1, <4>2, <5>1 DEF Sound
        <5>2. CASE req[p].file = f /\ \E i \in req[p].from + 1 .. req[p].to : lines[f][i] # 0
          <6>1. PICK i \in req[p].from + 1 .. req[p].to : lines[f][i] # 0
            BY <5>2
          <6>2. i \in Batches
            BY <4>1, UploadAssumption DEF Offset, Batches
          <6>3. Prefix(g, n)[i] # 0
            BY <2>1, <6>1, <6>2 DEF Prefix, Offset, Batches
          <6> QED  BY <2>6, <4>1, <5>2, <6>3
        <5>3. CASE req[p].file = f /\ lines[f] = Prefix(req[p].gen, req[p].from)
          <6>1. req[p].from = m
            <7>1. Prefix(req[p].gen, req[p].from) = Prefix(g, m)
              BY <2>1, <5>3
            <7> QED  BY <2>1, <4>1, <7>1, PrefixUnique
          <6>2. m + 1 \in req[p].from + 1 .. req[p].to
            BY <2>1, <4>1, <6>1, <3>2 DEF Sound, Offset
          <6> QED  BY <2>6, <2>8, <4>1, <5>3, <6>2
        <5> QED  BY <4>1, <4>2, <3>2, <5>1, <5>2, <5>3 DEF Sound
      <4>3. req[p].pc = "answered" /\ req[p].code \in {200, 409} =>
              req[p].offset <= Held(req[p].file)'
        BY <2>4, <2>5, <4>1, <2>1 DEF Sound, Offset
      <4> QED  BY <2>1, <4>1, <4>2, <4>3 DEF Sound
    <3>3. ASSUME NEW p \in Requests \ {q}, req[p].pc = "free"
          PROVE  Sound(req[p])'
      BY <2>7, <3>3 DEF Sound
    <3> QED  BY <3>1, <3>2, <3>3
  <2>13. /\ ReqInv' /\ LandsOrClashes'
         /\ \A p \in Requests : req'[p].pc = "answered" /\ req'[p].code \in {200, 409} =>
              req'[p].offset <= Held(req[p].file)'
    BY <2>12, SoundNext
  <2>14. ASSUME NEW r \in Runs, NEW h \in Files, run[r].pc # "idle", ~NameShared(h)
         PROVE  run[r].remote[Name[h]] <= Held(h)'
    <3>1. run[r].remote[Name[h]] \in Int
      BY UploadAssumption DEF IInv, UploadTypeOK, RunState, Offset
    <3>2. run[r].remote[Name[h]] <= Held(h)
      BY <2>14 DEF IInv, KnownInv
    <3> QED  BY <2>4, <2>5, <2>1, <3>1, <3>2 DEF Offset
  <2>15. ASSUME NEW r \in Runs, run[r].pc \in {"send", "wait", "current"}, ~NameShared(File(r))
         PROVE  run[r].offset <= Held(File(r))'
    <3>1. File(r) \in Files /\ File(r)' = File(r)
      BY <2>1, <2>15, AtFile DEF IInv, File
    <3>2. run[r].offset \in Int /\ run[r].offset <= Held(File(r))
      BY <2>15 DEF IInv, UploadTypeOK, RunState, Offset, KnownInv
    <3> QED  BY <2>1, <2>4, <2>5, <3>1, <3>2 DEF Offset, Held
  <2>16. KnownInv'
    BY <2>1, <2>13, <2>14, <2>15 DEF KnownInv, NameShared, File, Held
  <2> QED  BY <1>1, <2>9, <2>10, <2>11, <2>13, <2>16 DEF IInv
<1> QED  BY <1>2, <1>3
-----------------------------------------------------------------------------
(* Theorems.                                                               *)

LEMMA IInvInit == Init => IInv
<1> SUFFICES ASSUME Init PROVE IInv
  OBVIOUS
<1>1. UploadTypeOK
  BY TypeInit
<1>2. /\ \A r \in Runs : run[r].pc = "idle"
      /\ \A q \in Requests : req[q].pc = "free"
      /\ \A f \in Files : lines[f] = Prefix(1, 0) /\ Held(f) = 0
      /\ \A f \in Files, g \in Histories : written[f][g] = 0
  BY DEF Init, NoRun, Free, Held
<1>3. StoredInv
  <2>1. 1 \in Histories
    BY UploadAssumption DEF Histories
  <2> QED  BY <1>2, <2>1 DEF StoredInv
<1>4. RunInv /\ WaitInv /\ ReqInv /\ LandsOrClashes /\ KnownInv
  BY <1>2 DEF RunInv, WaitInv, ReqInv, LandsOrClashes, KnownInv
<1> QED  BY <1>1, <1>3, <1>4 DEF IInv

LEMMA IInvStep == IInv /\ [Next]_vars => IInv'
<1> SUFFICES ASSUME IInv, [Next]_vars PROVE IInv'
  OBVIOUS
<1>1. ASSUME NEW f \in Files, Sign(f) \/ Tear(f) \/ Mend(f) \/ Crash(f) \/ Restart(f) PROVE IInv'
  BY <1>1, InvDisk
<1>2. ASSUME NEW d \in Devices, Revoke(d) PROVE IInv'
  BY <1>2, InvDisk
<1>3. ASSUME NEW r \in Runs, RunStep(r) \/ Kill(r) PROVE IInv'
  BY <1>3, InvQuiet, InvSend, InvReceive DEF RunStep
<1>4. ASSUME NEW q \in Requests, Handle(q) \/ Die(q) PROVE IInv'
  BY <1>4, InvServer, InvCommit DEF Handle
<1>5. CASE UNCHANGED vars
  BY <1>5 DEF vars, diskVars, dbVars, IInv, UploadTypeOK, StoredInv, RunInv, WaitInv, ReqInv,
              LandsOrClashes, KnownInv, Held, File, Clash
<1> QED  BY <1>1, <1>2, <1>3, <1>4, <1>5 DEF Next

\* The inductive invariant holds throughout.
THEOREM UploadInvariant == Spec => []IInv
BY IInvInit, IInvStep, PTL DEF Spec

\* The variables keep their types, for any number of devices, files, runs and requests.
THEOREM UploadTypeCorrect == Spec => []UploadTypeOK
<1>1. IInv => UploadTypeOK
  BY DEF IInv
<1> QED  BY <1>1, UploadInvariant, PTL

\* No upload lands on lines it did not verify: the transaction of ingest.ts:285-307 finds
\* what was verified before it, or a line it may not insert again.
THEOREM LandingIsSafe == Spec => []LandsOrClashes
<1>1. IInv => LandsOrClashes
  BY DEF IInv
<1> QED  BY <1>1, UploadInvariant, PTL

\* The offset that the console answers with is the end of what it holds.
THEOREM CursorIsTrue == Spec => []CursorMatchesLines
<1>1. IInv => CursorMatchesLines
  <2> SUFFICES ASSUME IInv, NEW f \in Files
               PROVE  Cardinality({i \in Batches : lines[f][i] # 0}) = Held(f)
    BY DEF CursorMatchesLines, Held
  <2>1. PICK g \in Histories : lines[f] = Prefix(g, Held(f))
    BY DEF IInv, StoredInv
  <2>2. Held(f) \in Offset
    BY UploadAssumption DEF IInv, UploadTypeOK, Held, Offset
  <2>3. {i \in Batches : lines[f][i] # 0} = 1 .. Held(f)
    BY <2>1, <2>2, UploadAssumption DEF Prefix, Offset, Batches, Histories
  <2>4. Held(f) \in Nat
    BY <2>2, UploadAssumption DEF Offset
  <2>5. Cardinality(1 .. Held(f)) = Held(f)
    <3> DEFINE h == Held(f)
    <3>1. h \in Nat
      BY <2>4
    <3> HIDE DEF h
    <3>2. Cardinality(1 .. h) = IF 1 > h THEN 0 ELSE h - 1 + 1
      BY <3>1, FS_Interval
    <3>3. Cardinality(1 .. h) = h
      BY <3>1, <3>2
    <3> QED  BY <3>3 DEF h
  <2> QED  BY <2>3, <2>5
<1> QED  BY <1>1, UploadInvariant, PTL

\* What a run reports as current is on the console, but for a forked or namesake ledger.
THEOREM CurrentIsCurrent == Spec => []CurrentIsHeld
<1>1. IInv => CurrentIsHeld
  <2> SUFFICES ASSUME IInv, NEW r \in Runs, run[r].pc = "current", ~NameShared(File(r)),
                      ~Forked(r), NEW i \in 1 .. run[r].len
               PROVE  lines[File(r)][i] = run[r].gen
    BY DEF CurrentIsHeld
  <2> DEFINE f == File(r)
  <2>1. /\ f \in Files /\ run[r].len \in Offset /\ run[r].offset \in Offset
        /\ run[r].len <= run[r].offset /\ run[r].offset <= Held(f)
    BY AtFile DEF IInv, UploadTypeOK, RunState, RunInv, KnownInv
  <2>2. PICK g \in Histories : lines[f] = Prefix(g, Held(f))
    BY <2>1 DEF IInv, StoredInv
  <2>3. Held(f) \in Offset
    BY <2>1, UploadAssumption DEF IInv, UploadTypeOK, Held, Offset
  <2>4. lines[f][1] \in {0, run[r].gen}
    BY DEF Forked
  <2> HIDE DEF f
  <2>5. 1 \in Batches /\ i \in Batches /\ 1 <= Held(f) /\ i <= Held(f)
    BY <2>1, <2>3, UploadAssumption DEF Offset, Batches
  <2>6. lines[f][1] = g /\ lines[f][i] = g /\ g # 0
    BY <2>2, <2>5 DEF Prefix, Histories
  <2>7. lines[f][i] = run[r].gen
    BY <2>4, <2>6
  <2> QED  BY <2>7 DEF f
<1> QED  BY <1>1, UploadInvariant, PTL

\* The upload implements Mirror: every step is a step of the abstract console or leaves it
\* alone, so that what it holds is a signed prefix of one history and only grows.
THEOREM UploadMirrors == Spec => Mirrored
<1>1. Init => Promise!Init
  BY DEF Init, Promise!Init, Promise!Histories, Histories, Promise!Prefix, Prefix,
         Promise!Batches, Batches
<1>2. IInv /\ [Next]_vars => [Promise!Next]_<<written, lines>>
  <2> SUFFICES ASSUME IInv, Next
               PROVE  Promise!Next \/ UNCHANGED <<written, lines>>
    BY DEF vars, diskVars, dbVars
  <2>1. ASSUME NEW f \in Files, Sign(f) PROVE Promise!Next
    <3>1. history[f] \in Histories /\ lines' = lines
      BY <2>1 DEF IInv, UploadTypeOK, Sign, dbVars
    <3>2. Promise!Sign(f, history[f])
      BY <2>1, <3>1 DEF Sign, Local, Promise!Sign
    <3> QED  BY <3>1, <3>2 DEF Promise!Next, Promise!Histories, Histories
  <2>2. ASSUME NEW q \in Requests, Commit(q), ~Clash(q) PROVE Promise!Next
    <3>1. PICK f \in Files, g \in Histories, m \in Offset, n \in Offset :
            /\ m < n /\ n <= written[f][g] /\ lines[f] = Prefix(g, m)
            /\ lines' = [lines EXCEPT ![f] = Prefix(g, n)] /\ written' = written
      BY <2>2, CommitExtends
    <3>2. Promise!Extend(f, g, m, n)
      BY <3>1 DEF Promise!Extend, Promise!Prefix, Prefix, Promise!Batches, Batches
    <3> QED  BY <3>2 DEF Promise!Next, Promise!Histories, Histories, Offset
  <2>3. ASSUME NEW q \in Requests, Commit(q), Clash(q) PROVE UNCHANGED <<written, lines>>
    BY <2>3 DEF Commit, diskVars
  <2>4. ASSUME NEW f \in Files, Tear(f) \/ Mend(f) \/ Crash(f) \/ Restart(f)
        PROVE  UNCHANGED <<written, lines>>
    BY <2>4 DEF Tear, Mend, Crash, Restart, dbVars
  <2>5. ASSUME NEW d \in Devices, Revoke(d) PROVE UNCHANGED <<written, lines>>
    BY <2>5 DEF Revoke, diskVars
  <2>6. ASSUME NEW r \in Runs, RunStep(r) \/ Kill(r) PROVE UNCHANGED <<written, lines>>
    BY <2>6 DEF RunStep, Begin, ReadFile, Send, Receive, NextFile, Kill, diskVars, dbVars
  <2>7. ASSUME NEW q \in Requests,
               LoadDevice(q) \/ LoadChain(q) \/ LoadLines(q) \/ Pin(q) \/ Drop(q) \/ Die(q)
        PROVE  UNCHANGED <<written, lines>>
    BY <2>7 DEF LoadDevice, LoadChain, LoadLines, Pin, Drop, Die, diskVars, dbVars
  <2> QED  BY <2>1, <2>2, <2>3, <2>4, <2>5, <2>6, <2>7 DEF Next, Handle
<1> QED  BY <1>1, <1>2, UploadInvariant, PTL DEF Spec, Mirrored, Promise!Spec
=============================================================================
