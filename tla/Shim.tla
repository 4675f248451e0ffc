-------------------------------- MODULE Shim --------------------------------
(***************************************************************************)
(* The stdio shim (cmd/gurdy-proxy/shim.go): two goroutines relay the      *)
(* frames of a client and of the MCP server it talks to, and join each     *)
(* decision on a tools/call to the frame that answers it by its JSON-RPC   *)
(* id, through the pending map.  Calls that policy stops are answered by   *)
(* the shim and filtered out of their line (block_rpc.go).                 *)
(*                                                                         *)
(* Client and server are the environment.  The client may reuse an id at   *)
(* any time; the server answers each request it got at most once, in any   *)
(* order (so the pipe from it needs no queue).                             *)
(***************************************************************************)
EXTENDS Integers, Sequences, FiniteSets

CONSTANTS Ids,          \* JSON-RPC ids
          NoId,         \* the id of a notification
          MaxPending,   \* maxPending
          Sent,         \* the kinds of requests the client sends
          MaxRequests,  \* bound: requests the client sends
          MaxBatch      \* bound: requests in one line

\* "call" and "stop" are tools/calls that are forwarded and stopped, "other" is
\* any other request, "long" one in a line beyond maxInspect.
RequestKinds == {"call", "stop", "other", "long"}

ASSUME ShimAssumption ==
    /\ NoId \notin Ids
    /\ MaxPending \in Nat /\ MaxRequests \in Nat /\ MaxBatch \in Nat
    /\ Sent \subseteq RequestKinds

VARIABLES todo,     \* the requests of the line that relay has not dealt with
          step,     \* what relay does next
          passed,   \* the requests of the line it has dealt with
          stopped,  \* the ids of the stopped calls of the line (blocked)
          pend,     \* id -> slot, the pending map
          off,      \* pending.off
          held,     \* what the server got and has not answered
          out,      \* the answer relayOut has claimed and not yet written
          joined,   \* response records: the call_id and the request answered
          count,    \* how many requests were sent
          awaiting, \* the client's view: requests it has no answer to
          unclaimed,\* history: tracked calls of which no answer was claimed
          unseen,   \* history: requests whose answer was too long to inspect
          traffic,  \* history: how far ids told the requests apart so far
          lawful    \* history: no id was reused before its answer arrived

relayVars  == <<todo, step, passed, stopped>>
clientVars == <<count, awaiting, traffic, lawful>>
vars == <<relayVars, pend, off, held, out, joined, clientVars, unclaimed, unseen>>

\* A request is known by its number n, which is also the call_id of the decision
\* on it.
Request == [n : 1..MaxRequests, id : Ids \cup {NoId}, kind : RequestKinds]
Decided(r) == r.kind \in {"call", "stop"}

\* call = 0: the id stands for no call in particular.  A free id has no slot.
Slot == [call : 0..MaxRequests, inflight : Nat \ {0}, ambiguous : BOOLEAN]
Free == [call |-> 0, inflight |-> 0, ambiguous |-> FALSE]

TypeOK ==
    /\ todo \in Seq(Request) /\ step \in {"read", "decide", "reply", "claim"}
    /\ passed \subseteq Request /\ stopped \subseteq Ids \cup {NoId}
    /\ pend \in [Ids -> Slot \cup {Free}] /\ off \in BOOLEAN
    /\ held \subseteq Request /\ out \subseteq Request
    /\ joined \subseteq (1..MaxRequests) \X (1..MaxRequests)
    /\ count \in 0..MaxRequests /\ awaiting \subseteq Request
    /\ unclaimed \subseteq Request /\ unseen \subseteq Request
    /\ traffic \in {"plain", "reused", "mixed"} /\ lawful \in BOOLEAN
-----------------------------------------------------------------------------
(* The pending map.                                                        *)

Trackable(id) == id # NoId
SlotOf(id)    == IF Trackable(id) THEN pend[id] ELSE Free
NoRoom(id)    == pend[id] = Free /\ Cardinality({i \in Ids : pend[i] # Free}) >= MaxPending

\* Mutant: a second call takes the id over.
TrackOverwriting(r) ==
    IF ~Trackable(r.id) \/ off THEN UNCHANGED <<pend, off, unclaimed>>
    ELSE /\ pend' = [pend EXCEPT ![r.id] =
                       [call |-> r.n, inflight |-> @.inflight + 1, ambiguous |-> FALSE]]
         /\ unclaimed' = unclaimed \cup {r}
         /\ UNCHANGED off

\* track: a second call under an id that is in flight makes the id ambiguous.
Track(r) ==
    \/ /\ ~Trackable(r.id) \/ off
       /\ UNCHANGED <<pend, off, unclaimed>>
    \/ /\ Trackable(r.id) /\ ~off /\ NoRoom(r.id)
       /\ off' = TRUE /\ pend' = [i \in Ids |-> Free]
       /\ UNCHANGED unclaimed
    \/ /\ Trackable(r.id) /\ ~off /\ ~NoRoom(r.id)
       /\ pend' = [pend EXCEPT ![r.id] =
                     IF @.inflight = 0
                     THEN [call |-> r.n, inflight |-> 1, ambiguous |-> FALSE]
                     ELSE [call |-> 0, inflight |-> @.inflight + 1, ambiguous |-> TRUE]]
       /\ unclaimed' = unclaimed \cup {r}
       /\ UNCHANGED off

\* Mutant: the first answer retires the slot.
ClaimRetiring(r) ==
    /\ unclaimed' = unclaimed \ {r}
    /\ IF SlotOf(r.id) = Free THEN UNCHANGED <<pend, joined>>
       ELSE /\ pend' = [pend EXCEPT ![r.id] = Free]
            /\ joined' = IF pend[r.id].call = 0 THEN joined
                         ELSE joined \cup {<<pend[r.id].call, r.n>>}

\* Mutant: a slot is never dropped.
ClaimKeeping(r) ==
    /\ unclaimed' = unclaimed \ {r}
    /\ IF SlotOf(r.id) = Free THEN UNCHANGED <<pend, joined>>
       ELSE /\ pend' = [pend EXCEPT ![r.id].call = 0, ![r.id].inflight = @ - 1]
            /\ joined' = IF pend[r.id].call = 0 THEN joined
                         ELSE joined \cup {<<pend[r.id].call, r.n>>}

\* claim: the answer to r is taken for the call its id stands for.
Claim(r) ==
    /\ unclaimed' = unclaimed \ {r}
    /\ \/ /\ SlotOf(r.id) = Free
          /\ UNCHANGED <<pend, joined>>
       \/ /\ SlotOf(r.id) # Free
          /\ pend' = [pend EXCEPT ![r.id] =
                        IF @.inflight = 1 THEN Free
                        ELSE [call |-> 0, inflight |-> @.inflight - 1,
                              ambiguous |-> @.ambiguous]]
          /\ joined' = IF pend[r.id].call = 0 THEN joined
                       ELSE joined \cup {<<pend[r.id].call, r.n>>}
-----------------------------------------------------------------------------
(* relay: from the client to the server.                                   *)

Members(l)  == {l[i] : i \in 1..Len(l)}
Numbered(l) == {r \in Members(l) : r.id # NoId}

\* The pairs of a request of l and another one of l or of `earlier` under its id.
Clash(l, earlier) ==
    {c \in Numbered(l) \X (Numbered(l) \cup earlier) : c[1].id = c[2].id /\ c[1] # c[2]}

\* "plain": no id was reused as long as its answer was not inspected.  "reused":
\* ids were, but only between tools/calls that are inspected.  "mixed": the rest.
Traffic(l) ==
    LET pairs == Clash(l, awaiting \cup unseen)
    IN  IF pairs = {} THEN traffic
        ELSE IF traffic = "mixed" \/ \E c \in pairs : ~Decided(c[1]) \/ ~Decided(c[2])
        THEN "mixed"
        ELSE "reused"

\* Lines of k requests, each with its id and kind.  They are numbered as they come.
Contents(k) == [1..k -> (Ids \cup {NoId}) \X Sent]
Line(k, f)  == [i \in 1..k |-> [n |-> count + i, id |-> f[i][1], kind |-> f[i][2]]]

\* The client writes a line l: a request, or a batch of them.  A line beyond
\* maxInspect is not taken apart.
Send(l) ==
    /\ step = "read" /\ count + Len(l) <= MaxRequests
    /\ Len(l) > 1 => \A r \in Members(l) : r.kind # "long"
    /\ todo' = l /\ step' = "decide" /\ passed' = {} /\ stopped' = {}
    /\ count' = count + Len(l)
    /\ awaiting' = awaiting \cup Numbered(l)
    /\ traffic' = Traffic(l)
    /\ lawful' = (lawful /\ Clash(l, awaiting) = {})
    /\ UNCHANGED <<pend, off, held, out, joined, unclaimed, unseen>>

Here == Head(todo)
NextRequest == todo' = Tail(todo) /\ passed' = passed \cup {Here}

\* decideCall and track, for the tools/calls of a line that can be inspected.
Decide ==
    /\ step = "decide" /\ todo # <<>>
    /\ \/ Here.kind = "call" /\ Track(Here) /\ NextRequest /\ UNCHANGED <<step, stopped>>
       \/ /\ Here.kind = "stop" /\ Track(Here)
          /\ step' = "reply" /\ stopped' = stopped \cup {Here.id}
          /\ UNCHANGED <<todo, passed>>
       \/ /\ ~Decided(Here) /\ NextRequest
          /\ UNCHANGED <<step, stopped, pend, off, unclaimed>>
    /\ UNCHANGED <<held, out, joined, clientVars, unseen>>

\* The client is told that its call is blocked.
Reply ==
    /\ step = "reply"
    /\ step' = "claim"
    /\ awaiting' = awaiting \ {Here}
    /\ UNCHANGED <<todo, passed, stopped, pend, off, held, out, joined, unclaimed, unseen>>
    /\ UNCHANGED <<count, traffic, lawful>>

\* The shim's own answer is recorded like one of the server's.
ReplyClaim ==
    /\ step = "claim"
    /\ step' = "decide"
    /\ Claim(Here)
    /\ NextRequest
    /\ UNCHANGED <<stopped, off, held, out, clientVars, unseen>>

\* Mutant: a batch is not taken apart.
FilterWhole(S, ids) == IF Cardinality(S) > 1 THEN S ELSE {r \in S : r.id \notin ids}

\* filterBlockedCalls: every tools/call under one of the stopped ids is dropped.
Filter(S, ids) == {r \in S : ~Decided(r) \/ r.id \notin ids}

\* What is left of the line is written to the server.
Forward ==
    /\ step = "decide" /\ todo = <<>>
    /\ step' = "read" /\ passed' = {} /\ stopped' = {}
    /\ held' = held \cup Filter(passed, stopped)
    /\ UNCHANGED <<todo, pend, off, out, joined, clientVars, unclaimed, unseen>>
-----------------------------------------------------------------------------
(* relayOut: from the server to the client.                                *)

\* Mutant: an answer is written to the client first and claimed afterwards.
OutClaimLate(r, long) ==
    /\ out = {} /\ r \in held /\ r.id # NoId
    /\ IF r \in awaiting
       THEN awaiting' = awaiting \ {r} /\ UNCHANGED <<held, out, pend, joined, unclaimed>>
       ELSE held' = held \ {r} /\ out' = {r} /\ Claim(r) /\ UNCHANGED awaiting
    /\ UNCHANGED <<relayVars, off, count, traffic, lawful, unseen>>

\* The server has answered r, in a frame that may be beyond maxInspect.  An
\* inspected one is claimed (recordResponses).
OutClaim(r, long) ==
    /\ out = {} /\ r \in held /\ r.id # NoId
    /\ held' = held \ {r} /\ out' = {r}
    /\ \/ long /\ unseen' = unseen \cup {r} /\ UNCHANGED <<pend, joined, unclaimed>>
       \/ ~long /\ Claim(r) /\ UNCHANGED unseen
    /\ UNCHANGED <<relayVars, off, clientVars>>

OutWrite ==
    /\ out # {}
    /\ out' = {}
    /\ awaiting' = awaiting \ out
    /\ UNCHANGED <<relayVars, pend, off, held, joined, unclaimed, unseen, count, traffic, lawful>>
-----------------------------------------------------------------------------
Init ==
    /\ todo = <<>> /\ step = "read" /\ passed = {} /\ stopped = {}
    /\ pend = [i \in Ids |-> Free] /\ off = FALSE
    /\ held = {} /\ out = {} /\ joined = {}
    /\ count = 0 /\ awaiting = {} /\ unclaimed = {} /\ unseen = {}
    /\ traffic = "plain" /\ lawful = TRUE

Next ==
    \/ \E k \in 1..MaxBatch : \E f \in Contents(k) : Send(Line(k, f))
    \/ Decide \/ Reply \/ ReplyClaim \/ Forward
    \/ \E r \in held, long \in BOOLEAN : OutClaim(r, long)
    \/ OutWrite

Spec == Init /\ [][Next]_vars
-----------------------------------------------------------------------------
(* Properties.                                                             *)

\* One response does not retire two requests: a slot counts exactly the calls
\* under its id of which no answer was claimed, and it names a call only if that
\* is the only one.
Unclaimed(id) == {r \in unclaimed : r.id = id}

SlotsCount ==
    traffic # "mixed" /\ ~off =>
        \A id \in Ids :
            /\ pend[id].inflight = Cardinality(Unclaimed(id))
            /\ pend[id].call # 0 => \A r \in Unclaimed(id) : r.n = pend[id].call

\* A response record never lands on another call, also for a client that reuses
\* the ids of calls in flight.
NoCrossedJoin == traffic # "mixed" => \A j \in joined : j[1] = j[2]

\* Claim before write: a client that keeps to the protocol is never mistaken for
\* one that reuses an id in flight.
PlainIsUnambiguous == traffic = "plain" => \A id \in Ids : ~pend[id].ambiguous

\* What policy stops does not reach the server, whatever its line holds besides.
StoppedNeverReaches == \A r \in held : r.kind # "stop"

(* What the documentation states and the code does not keep.               *)

\* block_rpc.go:27, "siblings can still be forwarded": a call that is recorded
\* as forwarded is, at least for a client that never reuses an id.
SiblingsForwarded ==
    [][Forward /\ traffic = "plain" => \A r \in passed : r.kind = "call" => r \in held']_vars

\* shim.go:71, "an answer is claimed before it reaches the client, so the client
\* cannot reuse an id this side still believes is in flight": a client that
\* reuses ids only after their answers gets no response record on another call.
LawfulIsNeverCrossed == lawful => \A j \in joined : j[1] = j[2]
=============================================================================
