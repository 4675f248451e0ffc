------------------------------- MODULE Gateway -------------------------------
(***************************************************************************)
(* The HTTP transport: what ServeHTTP makes of one POST body, from reading *)
(* it to the response records, while bundles are reloaded and rolled back  *)
(* (Store) and the upstream declares its tools (internal/toolsig).      *)
(* cmd/gurdy-proxy/main.go, block_rpc.go, actuator.go, internal/mcp.       *)
(*                                                                         *)
(* A body is the sequence of its JSON-RPC elements. The bodies that are    *)
(* not MCP have one element: a model call ("llm"), one whose payload does  *)
(* not decode ("llmbad"), a body past maxInspect ("big"), or traffic no    *)
(* extractor claims ("raw").                                               *)
(***************************************************************************)
EXTENDS Store

CONSTANTS
  Handlers,    \* one request each
  Ids, NoId,   \* JSON-RPC ids; a notification and a null id have none
  Bodies,      \* per handler: the bodies it may be sent
  Catalogues,  \* what the upstream may answer to a tools/list: declarations in order
  MaxTools     \* capacity of the registry

Kinds == {"call", "bad", "list", "other", "llm", "llmbad", "big", "raw"}
NotMCP == {"llm", "llmbad", "big", "raw"}
Element == [kind : Kinds, id : Ids \cup {NoId}, tool : Tools]
Declaration == [tool : Tools, sig : Sigs]

ASSUME GatewayAssumption ==
  /\ NoId \notin Ids
  /\ \A h \in Handlers : Bodies[h] \subseteq Seq(Element)
  /\ \A h \in Handlers : \A b \in Bodies[h] : \A i \in DOMAIN b : b[i].kind \in NotMCP => Len(b) = 1
  /\ Catalogues \subseteq Seq(Declaration)
  /\ MaxTools \in Nat

VARIABLES
  enforce,    \* which actuator the process was started with
  reg,        \* the registry: what it was seen to declare, per lower-case name
  req,        \* per handler: where it is and what it has collected
  decisions,  \* the decision records handed to the ledger
  responses,  \* per handler and element: the response records
  upstream,   \* per handler: the elements that were sent on
  refused,    \* per handler: the elements the client was told are blocked
  seen        \* ghost: tools whose declaration a client was sent and the proxy read

trafficVars == <<enforce, reg, req, decisions, responses, upstream, refused, seen>>
gatewayVars == <<storeVars, trafficVars>>

-----------------------------------------------------------------------------
\* Reading a body.
ToolsCalls(b) == {i \in DOMAIN b : b[i].kind \in {"call", "bad"}}
IsToolsList(b) == \E i \in DOMAIN b : b[i].kind = "list"
Governed(b) == {i \in DOMAIN b : b[i].kind \in {"call", "bad", "llm", "llmbad", "big"}}

\* Mutant of Kept: only the first element under a blocked id is dropped.
KeptFirst(b, ids) ==
  {i \in DOMAIN b : ~(/\ i \in ToolsCalls(b)
                      /\ b[i].id \in ids
                      /\ \A j \in 1 .. i - 1 : b[j].id # b[i].id)}

\* Mutant of Kept: the method is not looked at.
KeptAnyMethod(b, ids) == {i \in DOMAIN b : b[i].id \notin ids}

\* filterBlockedCalls goes by id alone.
Kept(b, ids) == {i \in DOMAIN b : ~(i \in ToolsCalls(b) /\ b[i].id \in ids)}

\* The body is left as it was when nothing of it is kept.
Rewritten(b, ids) == IF Kept(b, ids) = {} THEN DOMAIN b ELSE Kept(b, ids)

\* The step the loop takes at element i, and the first element from i on that needs one.
Stage(b, i) ==
  IF i > Len(b) THEN "route"
  ELSE IF b[i].kind = "call" THEN "lookup"
  ELSE IF b[i].kind = "llm" THEN "evaluate"
  ELSE "indeterminate"

Following(b, i) ==
  IF \E j \in Governed(b) : j >= i
  THEN CHOOSE j \in Governed(b) : j >= i /\ \A k \in Governed(b) : k >= i => j <= k
  ELSE Len(b) + 1

Idle == [pc |-> "idle", body |-> <<>>, at |-> 1, sig |-> NoSig, bundle |-> NoDocument,
         blocked |-> {}, calls |-> {}, capture |-> <<>>, outcome |-> "none"]

PCs == {"idle", "lookup", "evaluate", "attest", "indeterminate", "route", "exchange",
        "observe", "record", "done"}
Outcomes == {"none", "completed", "hijacked", "aborted"}

\* At(h) is the element under decision.
Body(h) == req[h].body
At(h) == Body(h)[req[h].at]

\* Mutant of Proceed: a stopped call is not kept out of the calls awaiting a response.
ProceedWithAll(h, blocked, calls) ==
  LET i == Following(Body(h), req[h].at + 1)
  IN req' = [req EXCEPT ![h].pc = Stage(Body(h), i), ![h].at = i,
                        ![h].blocked = blocked, ![h].calls = calls \cup {req[h].at}]

\* The request goes on at the next element with what it has collected.
Proceed(h, blocked, calls) ==
  LET i == Following(Body(h), req[h].at + 1)
  IN req' = [req EXCEPT ![h].pc = Stage(Body(h), i), ![h].at = i,
                        ![h].blocked = blocked, ![h].calls = calls]

\* A decision record. "durable" was waited for; "unsure" was handed over by a wait that
\* failed and may or may not be on file; "queued" goes the way of Ledger's Append.
Record(h, d, applied, fate) ==
  [handler |-> h, at |-> req[h].at, bundle |-> d, sig |-> req[h].sig,
   decision |-> IF At(h).kind \in {"call", "llm"}
                THEN Evaluate(d, At(h).tool, req[h].sig) ELSE "indeterminate",
   applied |-> applied, fate |-> fate]

Respond(h, S, what) ==
  responses' = [responses EXCEPT ![h] =
                  [i \in DOMAIN @ |-> IF i \in S THEN Append(@[i], what) ELSE @[i]]]

-----------------------------------------------------------------------------
GatewayInit ==
  /\ StoreInit
  /\ enforce \in BOOLEAN
  /\ reg = [t \in Tools |-> NoSig]
  /\ req = [h \in Handlers |-> Idle]
  /\ decisions = {}
  /\ responses = [h \in Handlers |-> <<>>]
  /\ upstream = [h \in Handlers |-> {}]
  /\ refused = [h \in Handlers |-> {}]
  /\ seen = {}

Arrive(h) ==
  /\ req[h].pc = "idle"
  /\ \E b \in Bodies[h] :
       /\ req' = [req EXCEPT ![h].pc = Stage(b, Following(b, 1)), ![h].body = b,
                             ![h].at = Following(b, 1)]
       /\ responses' = [responses EXCEPT ![h] = [i \in DOMAIN b |-> <<>>]]
  /\ UNCHANGED <<storeVars, enforce, reg, decisions, upstream, refused, seen>>

Lookup(h) ==
  /\ req[h].pc = "lookup"
  /\ req' = [req EXCEPT ![h].pc = "evaluate", ![h].sig = reg[Lower[At(h).tool]]]
  /\ UNCHANGED <<storeVars, enforce, reg, decisions, responses, upstream, refused, seen>>

\* decideCall reads the store once: what it evaluates is what it records.
ReadStore(h) ==
  /\ req[h].pc = "evaluate"
  /\ req' = [req EXCEPT ![h].pc = "attest", ![h].bundle = current]
  /\ UNCHANGED <<storeVars, enforce, reg, decisions, responses, upstream, refused, seen>>

\* Mutant of Conclusion: the store is read again when the plan is made.
ConclusionReread(h) == Evaluate(current, At(h).tool, req[h].sig)

Conclusion(h) == Evaluate(req[h].bundle, At(h).tool, req[h].sig)

\* A call that goes on is recorded without waiting.
AttestForward(h) ==
  /\ req[h].pc = "attest"
  /\ Applied(enforce, Conclusion(h)) # "blocked"
  /\ decisions' = decisions \cup
       {Record(h, req[h].bundle, Applied(enforce, Conclusion(h)), "queued")}
  /\ Proceed(h, req[h].blocked, req[h].calls \cup {req[h].at})
  /\ UNCHANGED <<storeVars, enforce, reg, responses, upstream, refused, seen>>

\* A stop is recorded and waited for; a tools/call joins the blocked ids of its body,
\* a model call is answered 403 and ends the request.
AttestStop(h) ==
  /\ req[h].pc = "attest"
  /\ Applied(enforce, Conclusion(h)) = "blocked"
  /\ decisions' = decisions \cup {Record(h, req[h].bundle, "blocked", "durable")}
  /\ Respond(h, {req[h].at}, "error")
  /\ IF At(h).kind = "llm"
     THEN /\ req' = [req EXCEPT ![h].pc = "done"]
          /\ refused' = [refused EXCEPT ![h] = {req[h].at}]
     ELSE /\ Proceed(h, req[h].blocked \cup {At(h).id}, req[h].calls)
          /\ UNCHANGED refused
  /\ UNCHANGED <<storeVars, enforce, reg, upstream, seen>>

\* A stop that cannot be attested does not happen: the call fails open under a second record.
AttestFailsOpen(h) ==
  /\ req[h].pc = "attest"
  /\ Applied(enforce, Conclusion(h)) = "blocked"
  /\ decisions' = decisions \cup {Record(h, req[h].bundle, "blocked", "unsure"),
                                  Record(h, req[h].bundle, "failed_open", "queued")}
  /\ Proceed(h, req[h].blocked, req[h].calls \cup {req[h].at})
  /\ UNCHANGED <<storeVars, enforce, reg, responses, upstream, refused, seen>>

\* What cannot be inspected is recorded and forwarded.
Indeterminate(h) ==
  /\ req[h].pc = "indeterminate"
  /\ decisions' = decisions \cup {Record(h, current, Applied(enforce, "indeterminate"), "queued")}
  /\ Proceed(h, req[h].blocked, req[h].calls \cup {req[h].at})
  /\ UNCHANGED <<storeVars, enforce, reg, responses, upstream, refused, seen>>

-----------------------------------------------------------------------------
OnlyStopped(h) ==
  req[h].blocked # {} /\ req[h].calls = {} /\ ~IsToolsList(Body(h))

\* Every call of the body was stopped: the client gets an error for each, and nothing
\* of the body is sent on.
ReplyBlocked(h) ==
  /\ req[h].pc = "route"
  /\ OnlyStopped(h)
  /\ refused' = [refused EXCEPT ![h] = ToolsCalls(Body(h))]
  /\ req' = [req EXCEPT ![h].pc = "done"]
  /\ UNCHANGED <<storeVars, enforce, reg, decisions, responses, upstream, seen>>

\* The rest is sent on without its blocked calls, through the response wrapper when
\* there is something to record or to learn.
Forward(h) ==
  /\ req[h].pc = "route"
  /\ ~OnlyStopped(h)
  /\ upstream' = [upstream EXCEPT ![h] = IF req[h].blocked = {} THEN DOMAIN Body(h)
                                         ELSE Rewritten(Body(h), req[h].blocked)]
  /\ req' = [req EXCEPT ![h].pc = IF req[h].calls = {} /\ ~IsToolsList(Body(h))
                                  THEN "done" ELSE "exchange"]
  /\ UNCHANGED <<storeVars, enforce, reg, decisions, responses, refused, seen>>

\* The answer passes through to the client; of a tools/list that fits the capture the
\* declarations are kept. A protocol switch takes the connection away from the wrapper,
\* an answer that breaks off unwinds the handler.
Exchange(h) ==
  /\ req[h].pc = "exchange"
  /\ \E outcome \in Outcomes \ {"none"}, listed \in Catalogues, fits \in BOOLEAN :
       LET read == IF outcome = "completed" /\ IsToolsList(Body(h)) /\ fits
                   THEN listed ELSE <<>>
       IN /\ req' = [req EXCEPT ![h].outcome = outcome, ![h].capture = read,
                       ![h].pc = IF outcome = "aborted" THEN "done"
                                 ELSE IF read # <<>> THEN "observe" ELSE "record"]
          /\ seen' = seen \cup {Lower[read[i].tool] : i \in DOMAIN read}
  /\ UNCHANGED <<storeVars, enforce, reg, decisions, responses, upstream, refused>>

Declared(r) == {t \in Tools : r[t] # NoSig}

\* The names that the loop of Observe has passed when it comes to declaration i.
Passed(ds, i) == {Lower[ds[j].tool] : j \in 1 .. i - 1}

\* Mutant of HasRoom: the registry has no capacity.
HasAlwaysRoom(r, ds, i) == TRUE

\* A full registry records nothing more, not even a new signature of a tool it knows. Names
\* are only ever added, so the loop would break at every later declaration too.
HasRoom(r, ds, i) == Cardinality(Declared(r) \cup Passed(ds, i)) < MaxTools

Recorded(r, ds, t) == {i \in DOMAIN ds : Lower[ds[i].tool] = t /\ HasRoom(r, ds, i)}

\* Mutant of Learn: a listing replaces what was declared before.
LearnAfresh(r, ds) ==
  [t \in Tools |-> IF Recorded(r, ds, t) = {} THEN NoSig ELSE ds[Max(Recorded(r, ds, t))].sig]

\* Of several declarations of a name the last one counts.
Learn(r, ds) ==
  [t \in Tools |-> IF Recorded(r, ds, t) = {} THEN r[t] ELSE ds[Max(Recorded(r, ds, t))].sig]

\* Only after the whole answer has reached the client.
Observe(h) ==
  /\ req[h].pc = "observe"
  /\ reg' = Learn(reg, req[h].capture)
  /\ req' = [req EXCEPT ![h].pc = "record"]
  /\ UNCHANGED <<storeVars, enforce, decisions, responses, upstream, refused, seen>>

\* Every call decided on the request gets the hash of the one envelope.
RecordResponse(h) ==
  /\ req[h].pc = "record"
  /\ Respond(h, req[h].calls, IF req[h].outcome = "hijacked" THEN "unseen" ELSE "hash")
  /\ req' = [req EXCEPT ![h].pc = "done"]
  /\ UNCHANGED <<storeVars, enforce, reg, decisions, upstream, refused, seen>>

Serve(h) ==
  \/ Arrive(h) \/ Lookup(h) \/ ReadStore(h)
  \/ AttestForward(h) \/ AttestStop(h) \/ AttestFailsOpen(h) \/ Indeterminate(h)
  \/ ReplyBlocked(h) \/ Forward(h) \/ Exchange(h) \/ Observe(h) \/ RecordResponse(h)

GatewayNext ==
  \/ StoreNext /\ UNCHANGED trafficVars
  \/ \E h \in Handlers : Serve(h)

GatewaySpec == GatewayInit /\ [][GatewayNext]_gatewayVars
-----------------------------------------------------------------------------
\* Types of the variables; the registry is keyed by lower-case names and never over its
\* capacity (toolsig.go:104).
GatewayTypeOK ==
  /\ StoreTypeOK
  /\ enforce \in BOOLEAN
  /\ reg \in [Tools -> Signature]
  /\ Cardinality(Declared(reg)) <= MaxTools
  /\ \A t \in Declared(reg) : Lower[t] = t
  /\ req \in [Handlers -> [pc : PCs, body : Seq(Element), at : Nat \ {0}, sig : Signature,
                          bundle : Documents \cup {NoDocument}, blocked : SUBSET (Ids \cup {NoId}),
                          calls : SUBSET Nat, capture : Seq(Declaration), outcome : Outcomes]]
  /\ decisions \subseteq [handler : Handlers, at : Nat, bundle : Documents, sig : Signature,
                          decision : Decision, applied : {"forwarded", "failed_open", "blocked"},
                          fate : {"queued", "durable", "unsure"}]
  /\ responses \in [Handlers -> Seq(Seq({"hash", "unseen", "error"}))]
  /\ upstream \in [Handlers -> SUBSET Nat]
  /\ refused \in [Handlers -> SUBSET Nat]
  /\ seen \subseteq Tools

RecordsOf(h, i) == {r \in decisions : r.handler = h /\ r.at = i}
StoppedAt(h) == {i \in DOMAIN Body(h) :
                   \E r \in RecordsOf(h, i) : r.applied = "blocked" /\ r.fate = "durable"}
Routed(h) == req[h].pc \in {"exchange", "observe", "record", "done"}

\* Windows, each a body of a shape the code does not handle: a tools/call shares its id
\* with a stopped one; the filter keeps nothing, so the body stays whole; a batch whose
\* calls are all stopped also holds other requests; a batch is stopped in part.
SharedId(h) == \E i \in StoppedAt(h), j \in ToolsCalls(Body(h)) \ StoppedAt(h) :
                 Body(h)[i].id = Body(h)[j].id
KeepsNothing(h) == req[h].blocked # {} /\ Kept(Body(h), req[h].blocked) = {}
StoppedInPart(h) == req[h].blocked # {} /\ ~OnlyStopped(h)

\* What the pack's author is told: a matching rule that blocks stops the call, whatever
\* else matches, unless some rule could not be evaluated.
MustStop(d, tool, sig) ==
  /\ \A p \in Content[d] : p.on[<<Lower[tool], sig>>] # "error"
  /\ \E p \in Content[d] : /\ p.on[<<Lower[tool], sig>>] = "yes"
                          /\ p.effect = "forbid" /\ p.enforce = "block"

\* With -enforce, a call that the bundle on its record stops is not sent on, through any
\* mix of calls in one body and any reload in between, unless its stop could not be
\* recorded or the filter kept nothing of the body.
EnforcedIsStopped ==
  enforce => \A h \in Handlers : \A i \in upstream[h] : \A r \in RecordsOf(h, i) :
    (Body(h)[i].kind \in {"call", "llm"} /\ MustStop(r.bundle, Body(h)[i].tool, r.sig))
      => \/ \E s \in RecordsOf(h, i) : s.applied = "failed_open"
         \/ KeepsNothing(h)

\* Stopping one call of a body costs no other element: each is sent on or stopped on the
\* record, outside the windows; in monitor mode every body is sent on whole.
NothingElseIsLost ==
  \A h \in Handlers : Routed(h) =>
    /\ \A i \in DOMAIN Body(h) : i \in upstream[h] \cup StoppedAt(h) \/ SharedId(h) \/ OnlyStopped(h)
    /\ ~enforce => upstream[h] = DOMAIN Body(h)

\* Evidence first: what is sent on was recorded as going on, what the client is told is
\* blocked was durably recorded as stopped, and a record's action is the one the bundle
\* it names concludes, even when a reload lands in the middle (FR-10, record-before-effect).
EffectsAreOnRecord ==
  /\ \A h \in Handlers :
       /\ \A i \in upstream[h] \cap Governed(Body(h)) :
            (\E r \in RecordsOf(h, i) : r.applied \in {"forwarded", "failed_open"}) \/ KeepsNothing(h)
       /\ refused[h] \subseteq StoppedAt(h)
  /\ \A r \in decisions : \/ r.applied = Applied(enforce, r.decision)
       \/ /\ r.applied = "failed_open"
          /\ \E s \in RecordsOf(r.handler, r.at) : s.fate = "unsure"

\* A response record joins one decision: no call gets two, none comes without its
\* decision, an exchange that ran to its end leaves no call without one, and outside the
\* windows it tells of an answer the client or the upstream was part of.
ResponsesJoin ==
  \A h \in Handlers : \A i \in DOMAIN responses[h] :
    LET got == responses[h][i]
    IN /\ Len(got) <= 1
       /\ got # <<>> => RecordsOf(h, i) # {}
       /\ req[h].pc = "done" /\ req[h].outcome # "aborted" /\ i \in Governed(Body(h)) => got # <<>>
       /\ got = <<"error">> => i \in StoppedAt(h)
       /\ got = <<"error">> /\ req[h].pc = "done" => (i \in refused[h] \/ StoppedInPart(h))
       /\ got \in {<<"hash">>, <<"unseen">>} => (i \in upstream[h] \/ SharedId(h))

\* A tool once declared stays declared, and what an exchange showed to a client is declared
\* as soon as its answer has been read, until the registry is full: policy cannot lose a
\* signature it bound to, whatever the upstream lists next.
ToolsStayDeclared ==
  [][/\ Declared(reg) \subseteq Declared(reg')
     /\ \A t \in seen' : \/ reg'[t] # NoSig
                        \/ Cardinality(Declared(reg')) >= MaxTools
                        \/ \E h \in Handlers : req'[h].pc = "observe"]_gatewayVars

\* block_rpc.go: "nil means nothing remains to send upstream".
StoppedNeverForwarded == \A h \in Handlers : StoppedAt(h) \cap upstream[h] = {}
=============================================================================
