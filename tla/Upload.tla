-------------------------------- MODULE Upload --------------------------------
(***************************************************************************)
(* Shipping signed ledger files to the console: runs of fleet/ship.py      *)
(* against the steps of console/lib/ingest.ts, which reads the device, the *)
(* cursor and the lines in separate queries, verifies, and writes in one   *)
(* transaction. Answers get lost, runs are killed and overlap, and a       *)
(* request whose client is gone goes on at the server.                     *)
(*                                                                         *)
(* Offsets are counted in signed batches: every cut is on a batchsig line. *)
(***************************************************************************)
EXTENDS Integers, FiniteSets, Sequences

CONSTANTS
  Devices,       \* signing keys of one account
  Ledger,        \* per device: its files, in the order a run visits them
  Files, Names,
  Name,          \* per file: the partition name it is shipped under
  Runs,          \* runs of ship.py
  Device,        \* per run: the device it runs on
  Lock,          \* per run: the state directory whose ship.lock it takes
  Requests,      \* bound: uploads at the server at one time
  PerPost,       \* batches that fit into SHIP_CHUNK
  WholeFrom,     \* per file: signed batches from which gurdy-verify accepts it alone. One for
                 \* a chain's first segment; a later one must declare the removal of what
                 \* came before it, and is accepted from the batch that does, or never.
  MaxBatches,    \* bound: signed batches of a file
  MaxHistories,  \* bound: histories of a file
  MaxFaults,     \* bound: killed runs, torn lines, revocations and requests that died
  None

Batches == 1 .. MaxBatches
Histories == 1 .. MaxHistories
Prefix(g, n) == [i \in Batches |-> IF i <= n THEN g ELSE 0]
Offset == 0 .. MaxBatches
FilesOf(d) == {Ledger[d][i] : i \in DOMAIN Ledger[d]}
Owner(f) == CHOOSE d \in Devices : f \in FilesOf(d)

ASSUME UploadAssumption ==
  /\ {MaxBatches, MaxFaults} \subseteq Nat
  /\ {MaxHistories, PerPost} \subseteq Nat \ {0}
  /\ Ledger \in [Devices -> Seq(Files)]
  /\ \A f \in Files : \E d \in Devices : f \in FilesOf(d)
  /\ \A d, e \in Devices : d # e => FilesOf(d) \cap FilesOf(e) = {}
  /\ Name \in [Files -> Names]
  /\ WholeFrom \in [Files -> Nat \ {0}]
  /\ Device \in [Runs -> Devices]
  /\ None \notin Runs \cup Requests \cup Files

VARIABLES
  written,  \* per file and history: signed batches
  history,  \* per file: the history on disk
  torn,     \* files whose last line is not complete
  stuck,    \* of those, the ones whose last line nobody will complete
  pinned,   \* devices table: kids seen once
  revoked,  \* of those, the revoked
  cursor,   \* chains.byte_len per file, -1 without a row
  lines,    \* ledger_lines per file and batch: the history they come from, 0 for none
  run,      \* per run of the shipper: where it is
  req,      \* per upload at the server: where it is and what it has read
  faults    \* counts what MaxFaults bounds

diskVars == <<written, history, torn, stuck>>
dbVars == <<pinned, revoked, cursor, lines>>
vars == <<diskVars, dbVars, run, req, faults>>

NoRun == [pc |-> "idle", remote |-> [p \in Names |-> 0], at |-> 1, len |-> 0, gen |-> 1,
          offset |-> 0, from |-> 0, again |-> FALSE, req |-> None]
Free == [pc |-> "free", file |-> None, gen |-> 1, from |-> 0, to |-> 0, found |-> {},
         code |-> 0, offset |-> 0]
Rows == {"device", "revoked", "chain"}

Local(f) == written[f][history[f]]
File(r) == Ledger[Device[r]][run[r].at]

\* The first n batches of the file, by themselves, show no missing beginning of their chain.
Whole(f, n) == n >= WholeFrom[f]

\* Mutants of ChunkEnd: a short last chunk is left out; a chunk is not cut at the end.
ChunkEndWhole(len, offset) == IF offset + PerPost <= len THEN offset + PerPost ELSE offset
ChunkEndPast(len, offset) == offset + PerPost

ChunkEnd(len, offset) == IF offset + PerPost <= len THEN offset + PerPost ELSE len

-----------------------------------------------------------------------------
Init ==
  /\ written = [f \in Files |-> [g \in Histories |-> 0]]
  /\ history = [f \in Files |-> 1]
  /\ torn = {} /\ stuck = {}
  /\ pinned = {} /\ revoked = {}
  /\ cursor = [f \in Files |-> -1]
  /\ lines = [f \in Files |-> Prefix(1, 0)]
  /\ run = [r \in Runs |-> NoRun]
  /\ req = [q \in Requests |-> Free]
  /\ faults = 0

(* The proxy signs a batch. Its buffer cuts lines: until the next flush the *)
(* file may end inside one. After a crash or a failed write nobody ends it: *)
(* scanTail refuses the file. An operator may begin the ledger anew.        *)

Sign(f) ==
  /\ f \notin torn
  /\ Local(f) < MaxBatches
  /\ written' = [written EXCEPT ![f][history[f]] = @ + 1]
  /\ UNCHANGED <<history, torn, stuck, dbVars, run, req, faults>>

Tear(f) ==
  /\ faults < MaxFaults
  /\ f \notin torn
  /\ torn' = torn \cup {f}
  /\ faults' = faults + 1
  /\ UNCHANGED <<written, history, stuck, dbVars, run, req>>

Mend(f) ==
  /\ f \in torn \ stuck
  /\ torn' = torn \ {f}
  /\ UNCHANGED <<written, history, stuck, dbVars, run, req, faults>>

Crash(f) ==
  /\ f \in torn \ stuck
  /\ stuck' = stuck \cup {f}
  /\ UNCHANGED <<written, history, torn, dbVars, run, req, faults>>

Restart(f) ==
  /\ history[f] < MaxHistories
  /\ history' = [history EXCEPT ![f] = @ + 1]
  /\ torn' = torn \ {f} /\ stuck' = stuck \ {f}
  /\ UNCHANGED <<written, dbVars, run, req, faults>>

Revoke(d) ==
  /\ d \in pinned \ revoked
  /\ faults < MaxFaults
  /\ faults' = faults + 1
  /\ revoked' = revoked \cup {d}
  /\ UNCHANGED <<diskVars, pinned, cursor, lines, run, req>>

-----------------------------------------------------------------------------
(* A run of ship.py.                                                        *)

\* One file of every name answers for it: the listing does not tell devices apart.
Offsets ==
  {o \in [Names -> Offset] :
     \A p \in Names :
       LET held == {f \in Files : Name[f] = p /\ cursor[f] >= 0}
       IN IF held = {} THEN o[p] = 0 ELSE \E f \in held : o[p] = cursor[f]}

Begin(r) ==
  /\ run[r].pc = "idle" /\ Ledger[Device[r]] # <<>>
  /\ \A s \in Runs : run[s].pc # "idle" => Lock[s] # Lock[r]
  /\ \E o \in Offsets : run' = [run EXCEPT ![r] = [NoRun EXCEPT !.pc = "read", !.remote = o]]
  /\ UNCHANGED <<diskVars, dbVars, req, faults>>

\* The loop over one file ends at once when the server's offset is not below its length.
Entered(r, len, gen, offset) ==
  [run EXCEPT ![r] = [@ EXCEPT !.len = len, !.gen = gen, !.offset = offset, !.from = offset,
                               !.again = FALSE, !.req = None,
                               !.pc = IF offset < len THEN "send" ELSE "current"]]

\* A line that is not JSON ends the whole run; gurdy-verify refusing the prefix, this file.
ReadFile(r) ==
  /\ run[r].pc = "read"
  /\ LET f == File(r)
     IN run' = CASE f \in torn               -> [run EXCEPT ![r] = NoRun]
                 [] Local(f) = 0            -> [run EXCEPT ![r].pc = "skipped"]
                 [] ~Whole(f, Local(f))     -> [run EXCEPT ![r].pc = "failed"]
                 [] OTHER -> Entered(r, Local(f), history[f], run[r].remote[Name[f]])
  /\ UNCHANGED <<diskVars, dbVars, req, faults>>

Send(r) ==
  /\ run[r].pc = "send"
  /\ \E q \in Requests :
       /\ req[q].pc = "free"
       /\ req' = [req EXCEPT ![q] =
            [Free EXCEPT !.pc = "device", !.file = File(r), !.gen = run[r].gen,
                         !.from = run[r].from, !.to = ChunkEnd(run[r].len, run[r].from)]]
       /\ run' = [run EXCEPT ![r] = [@ EXCEPT !.pc = "wait", !.req = q]]
  /\ UNCHANGED <<diskVars, dbVars, faults>>

Fail(r) == [run EXCEPT ![r] = [@ EXCEPT !.pc = "failed", !.req = None]]

\* Mutant of Moved: whatever another run has shipped is taken for all there is.
MovedIsEnough(r, q) ==
  IF q.offset > run[r].len
  THEN Fail(r)
  ELSE [run EXCEPT ![r] = [@ EXCEPT !.pc = "current", !.offset = q.offset, !.req = None]]

\* After a 409: another run was faster, and the rest is sent from where it came to.
Moved(r, q) ==
  CASE q.offset > run[r].len -> Fail(r)
    [] q.offset = run[r].len -> [run EXCEPT ![r] = [@ EXCEPT !.pc = "current", !.offset = q.offset,
                                                     !.req = None]]
    [] OTHER -> [run EXCEPT ![r] = [@ EXCEPT !.pc = "send", !.from = q.offset, !.again = TRUE,
                                     !.req = None]]

Receive(r) ==
  LET q == req[run[r].req]
  IN /\ run[r].pc = "wait"
     /\ q.pc = "answered"
     /\ run' = CASE q.code = 200 /\ q.offset > run[r].offset ->
                       Entered(r, run[r].len, run[r].gen, q.offset)
                 [] q.code = 409 /\ ~run[r].again -> Moved(r, q)
                 [] OTHER -> Fail(r)
     /\ req' = [req EXCEPT ![run[r].req] = Free]
     /\ UNCHANGED <<diskVars, dbVars, faults>>

\* After the last file come the policy pull and the heartbeat, which change nothing here.
NextFile(r) ==
  /\ run[r].pc \in {"skipped", "current", "failed"}
  /\ run' = [run EXCEPT ![r] =
       IF @.at < Len(Ledger[Device[r]])
       THEN [NoRun EXCEPT !.pc = "read", !.remote = run[r].remote, !.at = run[r].at + 1]
       ELSE NoRun]
  /\ UNCHANGED <<diskVars, dbVars, req, faults>>

\* The process is killed, or its request times out, which it does not catch either.
Kill(r) ==
  /\ run[r].pc # "idle"
  /\ faults < MaxFaults
  /\ run' = [run EXCEPT ![r] = NoRun]
  /\ faults' = faults + 1
  /\ UNCHANGED <<diskVars, dbVars, req>>

-----------------------------------------------------------------------------
(* A request at the server.                                                 *)

Answer(q, code, offset) ==
  req' = [req EXCEPT ![q] = [@ EXCEPT !.pc = "answered", !.code = code, !.offset = offset]]

LoadDevice(q) ==
  LET d == Owner(req[q].file)
      found == {x \in Rows : (x = "device" /\ d \in pinned) \/ (x = "revoked" /\ d \in revoked)}
  IN /\ req[q].pc = "device"
     /\ req' = [req EXCEPT ![q] = [@ EXCEPT !.pc = "chain", !.found = found]]
     /\ UNCHANGED <<diskVars, dbVars, run, faults>>

\* Without a device row there is no chain to look for.
LoadChain(q) ==
  LET row == IF "device" \in req[q].found THEN cursor[req[q].file] ELSE -1
      expected == IF row < 0 THEN 0 ELSE row
  IN /\ req[q].pc = "chain"
     /\ IF req[q].from # expected
        THEN Answer(q, 409, expected)
        ELSE req' = [req EXCEPT ![q] =
               [@ EXCEPT !.pc = "lines",
                         !.found = req[q].found \cup IF row < 0 THEN {} ELSE {"chain"}]]
     /\ UNCHANGED <<diskVars, dbVars, run, faults>>

\* Mutant of Verified: the lines already held are taken on trust.
VerifiedAlone(q, stored) == Whole(req[q].file, req[q].to)

\* gurdy-verify accepts the stored lines and the suffix as one chain, which is all there is.
Verified(q, stored) ==
  /\ stored = Prefix(req[q].gen, req[q].from)
  /\ Whole(req[q].file, req[q].to)

LoadLines(q) ==
  LET stored == IF "chain" \in req[q].found THEN lines[req[q].file] ELSE Prefix(1, 0)
  IN /\ req[q].pc = "lines"
     /\ CASE "revoked" \in req[q].found -> Answer(q, 403, 0)
          [] ~Verified(q, stored) -> Answer(q, 400, 0)
          [] OTHER -> req' = [req EXCEPT ![q].pc =
                        IF "device" \in req[q].found THEN "commit" ELSE "pin"]
     /\ UNCHANGED <<diskVars, dbVars, run, faults>>

\* Outside the transaction; of two first uploads one meets the unique kid.
Pin(q) ==
  LET d == Owner(req[q].file)
  IN /\ req[q].pc = "pin"
     /\ pinned' = pinned \cup {d}
     /\ IF d \in pinned THEN Answer(q, 500, 0) ELSE req' = [req EXCEPT ![q].pc = "commit"]
     /\ UNCHANGED <<diskVars, revoked, cursor, lines, run, faults>>

\* Mutant of Clash: lines are inserted without their unique key.
NoClash(q) == FALSE

\* A line of the suffix has the chain and seq of a stored one.
Clash(q) == \E i \in req[q].from + 1 .. req[q].to : lines[req[q].file][i] # 0

\* One transaction: the chain's row and every line, or nothing.
Commit(q) ==
  LET f == req[q].file
  IN /\ req[q].pc = "commit"
     /\ IF Clash(q)
        THEN /\ Answer(q, 500, 0)
             /\ UNCHANGED <<cursor, lines>>
        ELSE /\ cursor' = [cursor EXCEPT ![f] = req[q].to]
             /\ lines' = [lines EXCEPT ![f] =
                  [i \in Batches |-> IF i \in req[q].from + 1 .. req[q].to
                                     THEN req[q].gen ELSE @[i]]]
             /\ Answer(q, 200, req[q].to)
     /\ UNCHANGED <<diskVars, pinned, revoked, run, faults>>

\* The function times out or fails, or the attempt is not recorded after the commit.
Die(q) ==
  /\ req[q].pc # "free" /\ req[q].code # 500
  /\ faults < MaxFaults
  /\ faults' = faults + 1
  /\ Answer(q, 500, 0)
  /\ UNCHANGED <<diskVars, dbVars, run>>

\* Nobody waits for the answer any more.
Drop(q) ==
  /\ req[q].pc = "answered"
  /\ \A r \in Runs : run[r].req # q
  /\ req' = [req EXCEPT ![q] = Free]
  /\ UNCHANGED <<diskVars, dbVars, run, faults>>

-----------------------------------------------------------------------------
RunStep(r) == Begin(r) \/ ReadFile(r) \/ Send(r) \/ Receive(r) \/ NextFile(r)
Handle(q) == LoadDevice(q) \/ LoadChain(q) \/ LoadLines(q) \/ Pin(q) \/ Commit(q) \/ Drop(q)

Next ==
  \/ \E f \in Files : Sign(f) \/ Tear(f) \/ Mend(f) \/ Crash(f) \/ Restart(f)
  \/ \E d \in Devices : Revoke(d)
  \/ \E r \in Runs : RunStep(r) \/ Kill(r)
  \/ \E q \in Requests : Handle(q) \/ Die(q)

Spec == Init /\ [][Next]_vars

\* A timer begins the runs; the server works on what it was sent; the proxy's tick flushes the
\* rest of a line its buffer cut, as long as it runs.
FairSpec ==
  /\ Spec
  /\ \A f \in Files : WF_vars(Mend(f))
  /\ \A r \in Runs : WF_vars(RunStep(r))
  /\ \A q \in Requests : WF_vars(Handle(q))

-----------------------------------------------------------------------------
(* Properties.                                                              *)

RunState ==
  [pc : {"idle", "read", "send", "wait", "skipped", "current", "failed"},
   remote : [Names -> Offset], at : Nat, len : Offset, gen : Histories,
   offset : Offset, from : Offset, again : BOOLEAN, req : Requests \cup {None}]
ReqState ==
  [pc : {"free", "device", "chain", "lines", "pin", "commit", "answered"},
   file : Files \cup {None}, gen : Histories, from : Offset, to : Offset, found : SUBSET Rows,
   code : Nat, offset : Offset]

\* Types of the variables.
UploadTypeOK ==
  /\ written \in [Files -> [Histories -> Offset]]
  /\ history \in [Files -> Histories]
  /\ torn \subseteq Files /\ stuck \subseteq torn
  /\ pinned \subseteq Devices /\ revoked \subseteq Devices
  /\ cursor \in [Files -> {-1} \cup Offset]
  /\ lines \in [Files -> [Batches -> {0} \cup Histories]]
  /\ run \in [Runs -> RunState]
  /\ req \in [Requests -> ReqState]
  /\ faults \in 0 .. MaxFaults

\* However uploads overlap, get lost or are sent again, the console holds for every file a
\* signed prefix of one history of it, which only grows (ingest.ts:98-181).
Promise == INSTANCE Mirror WITH written <- written, lines <- lines
Mirrored == Promise!Spec

\* The offset the console answers with, and cuts the next upload by, is the end of the lines
\* it holds: the cursor never runs ahead of the lines or behind them (ingest.ts:208, 219).
CursorMatchesLines ==
  \A f \in Files :
    Cardinality({i \in Batches : lines[f][i] # 0}) = IF cursor[f] < 0 THEN 0 ELSE cursor[f]

\* Windows in which a run takes another ledger's offset for this one's.
NameShared(f) == \E g \in Files \ {f} : Name[g] = Name[f]
Forked(r) == lines[File(r)][1] \notin {0, run[r].gen}

\* A file that a run reports as shipped or up to date is on the console through the last
\* signed line the run read (ship.py:616-641), except in those two windows.
CurrentIsHeld ==
  \A r \in Runs :
    run[r].pc = "current" =>
      \/ NameShared(File(r)) \/ Forked(r)
      \/ \A i \in 1 .. run[r].len : lines[File(r)][i] = run[r].gen

\* A request that is at work never lands on top of lines it did not verify: what it is about
\* to commit continues the stored lines or meets a unique key (ingest.ts:285-307).
LandsOrClashes ==
  \A q \in Requests :
    req[q].pc \in {"pin", "commit"} =>
      Clash(q) \/ lines[req[q].file] = Prefix(req[q].gen, req[q].from)

\* Windows in which a batch stays behind for good: a file whose torn tail nobody mends ends
\* every run that meets it, before the files behind it have their turn (ship.py:104, 602-607);
\* a segment that does not show by its first upload why its chain begins late is refused here
\* and at the console (gurdy-verify main.go:268-277, ship.py:183-192, ingest.ts:250-256).
Starved(f) ==
  LET on == Ledger[Owner(f)]
  IN \E i, j \in DOMAIN on : i <= j /\ on[i] \in stuck /\ on[j] = f
Accepted(f) == WholeFrom[f] <= PerPost

\* Every signed batch of a file that gurdy-verify accepts alone gets to the console, when no
\* torn tail stops the runs, its device stays trusted, its ledger is not begun anew, and no
\* other ledger of the account has its name (ship.py:593-657).
CaughtUp ==
  \A f \in Files, n \in Batches :
    (Accepted(f) /\ Whole(f, written[f][1]) /\ written[f][1] >= n) ~>
      \/ lines[f][n] # 0
      \/ Starved(f) \/ history[f] > 1 \/ Owner(f) \in revoked \/ NameShared(f)

\* ship.py:490-494 refuses a server offset past the local signed prefix as "a fork or a
\* rewrite, not a retry"; the loop that calls it (616) never does so with such an offset.
ForkIsRefused ==
  \A r \in Runs : run[r].pc = "current" => run[r].offset <= run[r].len
=============================================================================
