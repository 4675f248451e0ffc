----------------------------- MODULE ShimProofs -----------------------------
(***************************************************************************)
(* Theorems about the stdio shim: what TLC checks of Shim on two ids and a *)
(* few requests holds for any set of ids, any bounds and any traffic.      *)
(***************************************************************************)
EXTENDS Shim, FiniteSetTheorems, TLAPS

(* The inductive invariant.                                                *)

Increasing(l) == \A i, j \in 1..Len(l) : i < j => l[i].n < l[j].n

\* The stopped call that the client has its answer to, and that is unclaimed yet.
Claiming == IF step = "claim" THEN {Here} ELSE {}

\* What an answer may still come for, or came for without being inspected.
Open == awaiting \cup unseen \cup Claiming

\* The line relay is working on.
LineInv ==
    /\ Increasing(todo)
    /\ step \in {"reply", "claim"} =>
           /\ todo # <<>> /\ Here.kind = "stop" /\ Here.id \in stopped
           /\ ~off /\ Here.id # NoId => Here \in unclaimed
    /\ \A r \in passed : r.kind = "stop" => r.id \in stopped

\* Requests are numbered as they come ...
KnownInv ==
    \A r \in Members(todo) \cup passed \cup held \cup out \cup Open \cup unclaimed : r.n <= count

\* ... and each is in one place.
ApartInv ==
    /\ Members(todo) \cap (passed \cup held \cup out) = {}
    /\ passed \cap (held \cup out) = {}
    /\ held \cap out = {}
    /\ \A r \in unclaimed \cap Members(todo) : step \in {"reply", "claim"} /\ r = Here

\* What the client waits for, and what of it is tracked.
OwedInv ==
    /\ \A r \in Members(todo) : r.id # NoId => r \in awaiting \cup Claiming
    /\ \A r \in passed : r.id # NoId /\ r.kind # "stop" => r \in awaiting
    /\ \A r \in held : r.kind # "stop" /\ (r.id # NoId => r \in awaiting)
    /\ ~off => \A r \in passed \cup held : r.kind = "call" /\ r.id # NoId => r \in unclaimed

TrackedInv ==
    /\ IsFiniteSet(unclaimed)
    /\ \A r \in unclaimed : r.id # NoId /\ Decided(r)
    /\ unclaimed \subseteq Open
    /\ out \cap unclaimed \subseteq unseen

\* Requests that share an id are all tools/calls, and so are all tracked.
ReuseInv ==
    traffic # "mixed" =>
        \A a, b \in Open : a # b /\ a.id = b.id /\ a.id # NoId => Decided(a) /\ Decided(b)

SlotsInv ==
    /\ off => pend = [i \in Ids |-> Free]
    /\ SlotsCount
    /\ NoCrossedJoin

IInv == /\ TypeOK /\ LineInv /\ KnownInv /\ ApartInv
        /\ OwedInv /\ TrackedInv /\ ReuseInv /\ SlotsInv
-----------------------------------------------------------------------------
(* Lemmas.                                                                 *)

\* Taking the head off a line with increasing numbers: Here and the rest of todo
\* are apart.
LEMMA HeadTail ==
    ASSUME NEW l \in Seq(Request), l # <<>>, Increasing(l)
    PROVE  /\ Head(l) \in Request /\ Tail(l) \in Seq(Request)
           /\ Increasing(Tail(l))
           /\ Members(l) = Members(Tail(l)) \cup {Head(l)}
           /\ Head(l) \notin Members(Tail(l))
<1> DEFINE m == Len(l)
<1>1. m \in Nat /\ m >= 1 /\ Len(Tail(l)) = m - 1 /\ Head(l) = l[1]
  OBVIOUS
<1>2. \A i \in 1..(m - 1) : Tail(l)[i] = l[i + 1]
  OBVIOUS
<1>3. Head(l) \in Request /\ Tail(l) \in Seq(Request)
  OBVIOUS
<1>4. Increasing(Tail(l))
  BY <1>1, <1>2 DEF Increasing
<1>5. Members(l) = Members(Tail(l)) \cup {Head(l)}
  <2>1. ASSUME NEW i \in 1..m PROVE l[i] \in Members(Tail(l)) \cup {Head(l)}
    <3>1. CASE i = 1
      BY <1>1, <3>1
    <3>2. CASE i # 1
      <4>1. i - 1 \in 1..(m - 1) /\ Tail(l)[i - 1] = l[i]
        BY <1>1, <1>2, <3>2
      <4> QED  BY <1>1, <4>1 DEF Members
    <3> QED  BY <3>1, <3>2
  <2>2. ASSUME NEW i \in 1..(m - 1) PROVE Tail(l)[i] \in Members(l)
    BY <1>1, <1>2 DEF Members
  <2>3. Head(l) \in Members(l)
    BY <1>1 DEF Members
  <2> QED  BY <1>1, <2>1, <2>2, <2>3 DEF Members
<1>6. Head(l) \notin Members(Tail(l))
  <2>1. ASSUME NEW i \in 1..(m - 1), Tail(l)[i] = Head(l) PROVE FALSE
    <3>1. l[1].n < l[i + 1].n
      BY <1>1 DEF Increasing
    <3>2. l[1] \in Request
      BY <1>1
    <3>3. l[1].n \in 1..MaxRequests
      BY <3>2 DEF Request
    <3> QED  BY <1>1, <1>2, <2>1, <3>1, <3>3
  <2> QED  BY <1>1, <2>1 DEF Members
<1> QED  BY <1>3, <1>4, <1>5, <1>6

\* What the client may send: requests with the next numbers.
LEMMA LineSent ==
    ASSUME NEW k \in 1..MaxBatch, NEW f \in Contents(k),
           count \in 0..MaxRequests, count + Len(Line(k, f)) <= MaxRequests
    PROVE  /\ Line(k, f) \in Seq(Request) /\ count + Len(Line(k, f)) \in 0..MaxRequests
           /\ Increasing(Line(k, f))
           /\ Members(Line(k, f)) \subseteq Request
           /\ \A r \in Members(Line(k, f)) : count < r.n /\ r.n <= count + Len(Line(k, f))
<1> DEFINE l == Line(k, f)
<1>1. k \in Nat /\ count \in Nat /\ MaxRequests \in Nat
  BY ShimAssumption
<1>2. Len(l) = k /\ l = [i \in 1..k |-> [n |-> count + i, id |-> f[i][1], kind |-> f[i][2]]]
  BY <1>1 DEF Line
<1>3. ASSUME NEW i \in 1..k PROVE l[i] \in Request /\ l[i].n = count + i
  <2>1. f[i][1] \in Ids \cup {NoId} /\ f[i][2] \in RequestKinds
    BY ShimAssumption DEF Contents
  <2>2. count + i \in 1..MaxRequests
    BY <1>1, <1>2
  <2> QED  BY <1>2, <2>1, <2>2 DEF Request
<1>4. l \in Seq(Request)
  BY <1>1, <1>2, <1>3
<1> HIDE DEF l
<1>5. Increasing(l) /\ Members(l) \subseteq Request
  BY <1>1, <1>2, <1>3 DEF Increasing, Members
<1>6. \A r \in Members(l) : count < r.n /\ r.n <= count + Len(l)
  BY <1>1, <1>2, <1>3 DEF Members
<1>7. count + Len(l) \in 0..MaxRequests
  BY <1>1, <1>2 DEF l
<1> QED  BY <1>4, <1>5, <1>6, <1>7 DEF l
-----------------------------------------------------------------------------
(* Every step preserves the invariant.                                     *)

LEMMA InitInv == Init => IInv
<1> SUFFICES ASSUME Init PROVE IInv
  OBVIOUS
<1>1. Free = [call |-> 0, inflight |-> 0, ambiguous |-> FALSE]
  BY DEF Free
<1>2. TypeOK
  <2>1. <<>> \in Seq(Request) /\ 0 \in 0..MaxRequests
    BY ShimAssumption
  <2>2. [i \in Ids |-> Free] \in [Ids -> Slot \cup {Free}]
    OBVIOUS
  <2> QED  BY <2>1, <2>2 DEF Init, TypeOK
<1>3. Members(todo) = {} /\ Claiming = {} /\ Increasing(todo)
  BY DEF Init, Members, Claiming, Increasing
<1>4. LineInv /\ KnownInv /\ ApartInv /\ OwedInv /\ ReuseInv
  BY <1>3 DEF Init, LineInv, KnownInv, ApartInv, OwedInv, ReuseInv, Open
<1>5. TrackedInv
  BY <1>3, FS_EmptySet DEF Init, TrackedInv, Open
<1>6. SlotsInv
  <2>1. \A id \in Ids : pend[id].inflight = 0 /\ pend[id].call = 0 /\ Unclaimed(id) = {}
    BY <1>1 DEF Init, Unclaimed
  <2>2. Cardinality({}) = 0
    BY FS_EmptySet
  <2> QED  BY <2>1, <2>2 DEF Init, SlotsInv, SlotsCount, NoCrossedJoin
<1> QED  BY <1>2, <1>4, <1>5, <1>6 DEF IInv

\* The client writes a line.
LEMMA SendInv ==
    ASSUME IInv, NEW k \in 1..MaxBatch, NEW f \in Contents(k), Send(Line(k, f))
    PROVE  IInv'
<1> DEFINE l == Line(k, f)
<1>1. /\ l \in Seq(Request) /\ count + Len(l) \in 0..MaxRequests
      /\ Increasing(l) /\ Members(l) \subseteq Request
      /\ \A r \in Members(l) : count < r.n /\ r.n <= count + Len(l)
      /\ Len(l) \in Nat
  <2>1. count \in 0..MaxRequests /\ count + Len(l) <= MaxRequests
    BY DEF IInv, TypeOK, Send
  <2> QED  BY <2>1, LineSent
<1> HIDE DEF l
<1>2. /\ step = "read" /\ todo' = l /\ step' = "decide" /\ passed' = {} /\ stopped' = {}
      /\ count' = count + Len(l) /\ awaiting' = awaiting \cup Numbered(l)
      /\ traffic' = Traffic(l) /\ lawful' \in BOOLEAN
      /\ UNCHANGED <<pend, off, held, out, joined, unclaimed, unseen>>
  BY DEF l, Send
<1>3. Claiming = {} /\ Claiming' = {} /\ Open' = Open \cup Numbered(l)
  BY <1>2 DEF Claiming, Open
<1>4. Numbered(l) \subseteq Members(l)
  BY DEF Numbered
<1>5. \A r \in Members(l) : r \notin passed \cup held \cup out \cup Open \cup unclaimed
  <2>1. ASSUME NEW r \in Members(l), r \in passed \cup held \cup out \cup Open \cup unclaimed
        PROVE  FALSE
    <3>1. r.n <= count /\ count < r.n
      BY <1>1, <2>1 DEF IInv, KnownInv
    <3>2. r.n \in Int /\ count \in Int
      BY <1>1 DEF IInv, TypeOK, Request
    <3> QED  BY <3>1, <3>2
  <2> QED  BY <2>1
<1>6. traffic' # "mixed" =>
          /\ traffic # "mixed"
          /\ \A a \in Numbered(l), b \in Numbered(l) \cup Open :
                 a # b /\ a.id = b.id => Decided(a) /\ Decided(b)
  <2>1. Open = awaiting \cup unseen
    BY <1>3 DEF Open
  <2>2. ASSUME NEW a \in Numbered(l), NEW b \in Numbered(l) \cup Open, a # b, a.id = b.id
        PROVE  <<a, b>> \in Clash(l, awaiting \cup unseen)
    BY <2>1, <2>2 DEF Clash
  <2>3. traffic' # "mixed" =>
            /\ traffic # "mixed"
            /\ \A c \in Clash(l, awaiting \cup unseen) : Decided(c[1]) /\ Decided(c[2])
    BY <1>2 DEF Traffic
  <2> QED  BY <2>2, <2>3
<1>7. TypeOK'
  <2>1. awaiting' \subseteq Request
    BY <1>1, <1>2, <1>4 DEF IInv, TypeOK
  <2>2. traffic' \in {"plain", "reused", "mixed"}
    BY <1>2 DEF IInv, TypeOK, Traffic
  <2> QED  BY <1>1, <1>2, <2>1, <2>2 DEF IInv, TypeOK
<1>8. LineInv'
  BY <1>1, <1>2 DEF LineInv
<1>9. KnownInv'
  <2>1. ASSUME NEW r \in Members(l) \cup held \cup out \cup Open \cup unclaimed
        PROVE  r.n <= count + Len(l)
    <3>1. CASE r \in Members(l)
      BY <1>1, <3>1
    <3>2. CASE r \notin Members(l)
      <4>1. r \in Request /\ r.n <= count
        BY <1>3, <2>1, <3>2 DEF IInv, KnownInv, TypeOK, Open
      <4>2. r.n \in Int /\ count \in Int
        BY <4>1 DEF IInv, TypeOK, Request
      <4> QED  BY <1>1, <4>1, <4>2
    <3> QED  BY <3>1, <3>2
  <2>2. Members(todo)' = Members(l)
    BY <1>2 DEF Members
  <2> QED  BY <1>2, <1>3, <1>4, <2>1, <2>2 DEF KnownInv
<1>10. ApartInv'
  <2>1. Members(todo)' = Members(l)
    BY <1>2 DEF Members
  <2> QED  BY <1>2, <1>5, <2>1 DEF IInv, ApartInv
<1>11. OwedInv'
  <2>1. Members(todo)' = Members(l)
    BY <1>2 DEF Members
  <2> QED  BY <1>2, <1>3, <2>1 DEF IInv, OwedInv, Numbered
<1>12. TrackedInv'
  BY <1>2, <1>3 DEF IInv, TrackedInv
<1>13. ReuseInv'
  BY <1>3, <1>6 DEF IInv, ReuseInv
<1>14. SlotsInv'
  BY <1>2, <1>6 DEF IInv, SlotsInv, SlotsCount, NoCrossedJoin, Unclaimed
<1> QED  BY <1>7, <1>8, <1>9, <1>10, <1>11, <1>12, <1>13, <1>14 DEF IInv

\* The numbers and the places of the line's requests, once Here is dealt with.
LEMMA LineRest ==
    ASSUME TypeOK, LineInv, todo # <<>>
    PROVE  /\ Here \in Request /\ Tail(todo) \in Seq(Request)
           /\ Increasing(Tail(todo))
           /\ Members(todo) = Members(Tail(todo)) \cup {Here}
           /\ Here \notin Members(Tail(todo))
BY HeadTail DEF TypeOK, LineInv, Here

\* track, for a call that is not yet tracked.
LEMMA TrackInv ==
    ASSUME IInv, NEW r \in Request, r \notin unclaimed, Track(r), traffic' = traffic
    PROVE  /\ pend' \in [Ids -> Slot \cup {Free}] /\ off' \in BOOLEAN
           /\ unclaimed \subseteq unclaimed' /\ unclaimed' \subseteq unclaimed \cup {r}
           /\ r \in unclaimed' => r.id # NoId
           /\ ~off' /\ r.id # NoId => r \in unclaimed'
           /\ ~off' => ~off
           /\ off' => pend' = [i \in Ids |-> Free]
           /\ SlotsCount'
<1>1. /\ r.n \in 1..MaxRequests /\ r.id \in Ids \cup {NoId} /\ MaxRequests \in Nat
      /\ pend \in [Ids -> Slot \cup {Free}] /\ off \in BOOLEAN
      /\ unclaimed \subseteq Request
  BY ShimAssumption DEF IInv, TypeOK, Request
<1>2. CASE ~Trackable(r.id) \/ off
  <2>1. UNCHANGED <<pend, off, unclaimed>>
    BY <1>2 DEF Track
  <2>2. SlotsCount'
    BY <2>1 DEF IInv, SlotsInv, SlotsCount, Unclaimed
  <2>3. ~off /\ r.id # NoId => FALSE
    BY <1>2 DEF Trackable
  <2> QED  BY <1>1, <2>1, <2>2, <2>3 DEF IInv, SlotsInv
<1>3. CASE Trackable(r.id) /\ ~off /\ NoRoom(r.id)
  <2>1. off' = TRUE /\ pend' = [i \in Ids |-> Free] /\ unclaimed' = unclaimed
    BY <1>3 DEF Track
  <2>2. pend' \in [Ids -> Slot \cup {Free}]
    BY <2>1
  <2> QED  BY <1>3, <2>1, <2>2 DEF SlotsCount
<1>4. CASE Trackable(r.id) /\ ~off /\ ~NoRoom(r.id)
  <2> DEFINE s == pend[r.id]
             t == IF s.inflight = 0
                  THEN [call |-> r.n, inflight |-> 1, ambiguous |-> FALSE]
                  ELSE [call |-> 0, inflight |-> s.inflight + 1, ambiguous |-> TRUE]
  <2>1. /\ r.id \in Ids /\ pend' = [pend EXCEPT ![r.id] = t]
        /\ unclaimed' = unclaimed \cup {r} /\ off' = off
    BY <1>1, <1>4 DEF Track, Trackable
  <2>2. s.inflight \in Nat /\ s.call \in 0..MaxRequests
    BY <1>1, <2>1 DEF Slot, Free
  <2>3. t \in Slot
    BY <1>1, <2>2 DEF Slot
  <2>4. pend' \in [Ids -> Slot \cup {Free}] /\ pend'[r.id] = t
    BY <1>1, <2>1, <2>3
  <2>5. ASSUME traffic # "mixed", NEW id \in Ids
        PROVE  /\ pend'[id].inflight = Cardinality(Unclaimed(id)')
               /\ pend'[id].call # 0 => \A u \in Unclaimed(id)' : u.n = pend'[id].call
    <3>1. /\ pend[id].inflight = Cardinality(Unclaimed(id))
          /\ pend[id].call # 0 => \A u \in Unclaimed(id) : u.n = pend[id].call
      BY <1>4, <2>5 DEF IInv, SlotsInv, SlotsCount
    <3>2. CASE id # r.id
      <4>1. Unclaimed(id)' = Unclaimed(id) /\ pend'[id] = pend[id]
        BY <1>1, <2>1, <3>2 DEF Unclaimed
      <4> QED  BY <3>1, <4>1
    <3>3. CASE id = r.id
      <4>1. Unclaimed(id)' = Unclaimed(id) \cup {r} /\ r \notin Unclaimed(id)
        BY <2>1, <3>3 DEF Unclaimed
      <4>2. IsFiniteSet(Unclaimed(id))
        BY FS_Subset DEF IInv, TrackedInv, Unclaimed
      <4>3. Cardinality(Unclaimed(id)') = s.inflight + 1
        BY <3>1, <3>3, <4>1, <4>2, FS_AddElement
      <4>4. s.inflight = 0 => Unclaimed(id) = {}
        BY <3>1, <3>3, <4>2, FS_EmptySet
      <4> QED  BY <2>2, <2>4, <3>3, <4>1, <4>3, <4>4
    <3> QED  BY <3>2, <3>3
  <2>6. SlotsCount'
    BY <2>5 DEF SlotsCount
  <2> QED  BY <1>1, <1>4, <2>1, <2>4, <2>6 DEF Trackable
<1> QED  BY <1>2, <1>3, <1>4 DEF Track

\* claim, for an answer to r, which is tracked if it may be (the argument for
\* NoCrossedJoin): the slot of r's id, if it stands for a call, stands for one that
\* shares its id with r; then both are tools/calls, so r is tracked too, and a slot
\* that names a call counts no other.
LEMMA ClaimInv ==
    ASSUME IInv, NEW r \in Request, Claim(r), r \in Open \/ r.id = NoId,
           ~off /\ Decided(r) /\ r.id # NoId => r \in unclaimed,
           off' = off, traffic' = traffic
    PROVE  /\ pend' \in [Ids -> Slot \cup {Free}]
           /\ joined' \subseteq (1..MaxRequests) \X (1..MaxRequests)
           /\ unclaimed' = unclaimed \ {r}
           /\ SlotsInv'
<1>1. /\ r.n \in 1..MaxRequests /\ r.id \in Ids \cup {NoId} /\ MaxRequests \in Nat
      /\ pend \in [Ids -> Slot \cup {Free}] /\ off \in BOOLEAN
      /\ unclaimed \subseteq Request /\ joined \subseteq (1..MaxRequests) \X (1..MaxRequests)
  BY ShimAssumption DEF IInv, TypeOK, Request
<1>2. unclaimed' = unclaimed \ {r}
  BY DEF Claim
<1>3. CASE SlotOf(r.id) = Free
  <2>1. UNCHANGED <<pend, joined>>
    BY <1>3 DEF Claim
  <2>2. ASSUME traffic # "mixed", ~off PROVE r \notin unclaimed
    <3>1. SUFFICES ASSUME r \in unclaimed PROVE FALSE
      OBVIOUS
    <3>2. r.id \in Ids /\ pend[r.id] = Free
      BY <1>1, <1>3, <3>1 DEF IInv, TrackedInv, SlotOf, Trackable
    <3>3. Cardinality(Unclaimed(r.id)) = 0
      BY <2>2, <3>2 DEF IInv, SlotsInv, SlotsCount, Free
    <3>4. IsFiniteSet(Unclaimed(r.id)) /\ r \in Unclaimed(r.id)
      BY <3>1, FS_Subset DEF IInv, TrackedInv, Unclaimed
    <3> QED  BY <3>3, <3>4, FS_EmptySet
  <2>3. SlotsCount'
    BY <1>2, <2>1, <2>2 DEF IInv, SlotsInv, SlotsCount, Unclaimed
  <2> QED  BY <1>1, <1>2, <2>1, <2>3 DEF IInv, SlotsInv, NoCrossedJoin
<1>4. CASE SlotOf(r.id) # Free
  <2> DEFINE s == pend[r.id]
             t == IF s.inflight = 1 THEN Free
                  ELSE [call |-> 0, inflight |-> s.inflight - 1, ambiguous |-> s.ambiguous]
  <2>1. r.id \in Ids /\ s # Free /\ s \in Slot
    BY <1>1, <1>4 DEF SlotOf, Trackable
  <2>2. /\ pend' = [pend EXCEPT ![r.id] = t]
        /\ joined' = IF s.call = 0 THEN joined ELSE joined \cup {<<s.call, r.n>>}
    BY <1>4, <2>1 DEF Claim, SlotOf, Trackable
  <2>3. ~off
    BY <2>1 DEF IInv, SlotsInv
  <2>4. /\ s.inflight \in Nat \ {0} /\ s.call \in 0..MaxRequests
        /\ t \in Slot \cup {Free} /\ t.call = 0 /\ t.inflight = s.inflight - 1
    BY <1>1, <2>1 DEF Slot, Free
  <2>5. pend' \in [Ids -> Slot \cup {Free}] /\ pend'[r.id] = t
    BY <1>1, <2>1, <2>2, <2>4
  <2>6. joined' \subseteq (1..MaxRequests) \X (1..MaxRequests)
    BY <1>1, <2>2, <2>4
  <2>7. ASSUME traffic # "mixed" PROVE r \in unclaimed
    <3>1. s.inflight = Cardinality(Unclaimed(r.id))
      BY <2>1, <2>3, <2>7 DEF IInv, SlotsInv, SlotsCount
    <3>2. PICK u \in unclaimed : u.id = r.id
      BY <2>4, <3>1, FS_EmptySet DEF Unclaimed
    <3>3. u = r \/ Decided(r)
      BY <1>1, <2>1, <2>7, <3>2, ShimAssumption DEF IInv, TrackedInv, ReuseInv
    <3> QED  BY <2>1, <2>3, <3>2, <3>3, ShimAssumption
  <2>8. NoCrossedJoin'
    <3>1. ASSUME traffic # "mixed", s.call # 0 PROVE s.call = r.n
      BY <2>1, <2>3, <2>7, <3>1 DEF IInv, SlotsInv, SlotsCount, Unclaimed
    <3> QED  BY <2>2, <3>1 DEF IInv, SlotsInv, NoCrossedJoin
  <2>9. ASSUME traffic # "mixed", NEW id \in Ids
        PROVE  /\ pend'[id].inflight = Cardinality(Unclaimed(id)')
               /\ pend'[id].call # 0 => \A u \in Unclaimed(id)' : u.n = pend'[id].call
    <3>1. /\ pend[id].inflight = Cardinality(Unclaimed(id))
          /\ pend[id].call # 0 => \A u \in Unclaimed(id) : u.n = pend[id].call
      BY <2>3, <2>9 DEF IInv, SlotsInv, SlotsCount
    <3>2. CASE id # r.id
      <4>1. Unclaimed(id)' = Unclaimed(id) /\ pend'[id] = pend[id]
        BY <1>1, <1>2, <2>2, <3>2 DEF Unclaimed
      <4> QED  BY <3>1, <4>1
    <3>3. CASE id = r.id
      <4>1. Unclaimed(id)' = Unclaimed(id) \ {r} /\ r \in Unclaimed(id)
        BY <1>2, <2>7, <2>9, <3>3 DEF Unclaimed
      <4>2. IsFiniteSet(Unclaimed(id))
        BY FS_Subset DEF IInv, TrackedInv, Unclaimed
      <4>3. Cardinality(Unclaimed(id)') = Cardinality(Unclaimed(id)) - 1
        BY <4>1, <4>2, FS_RemoveElement
      <4> QED  BY <2>4, <2>5, <3>1, <3>3, <4>3
    <3> QED  BY <3>2, <3>3
  <2>10. SlotsCount'
    BY <2>9 DEF SlotsCount
  <2> QED  BY <1>2, <2>3, <2>5, <2>6, <2>8, <2>10 DEF SlotsInv
<1> QED  BY <1>3, <1>4

\* relay deals with a request of its line.
LEMMA DecideInv == IInv /\ Decide => IInv'
<1> SUFFICES ASSUME IInv, Decide PROVE IInv'
  OBVIOUS
<1> DEFINE rest == Tail(todo)
<1>1. /\ Here \in Request /\ rest \in Seq(Request) /\ Increasing(rest)
      /\ Members(todo) = Members(rest) \cup {Here} /\ Here \notin Members(rest)
  BY LineRest DEF IInv, Decide
<1>2. /\ step = "decide" /\ todo # <<>>
      /\ UNCHANGED <<held, out, joined, count, awaiting, traffic, lawful, unseen>>
  BY DEF Decide, clientVars
<1>3. Claiming = {} /\ Open = awaiting \cup unseen
  BY <1>2 DEF Claiming, Open
<1>4. /\ Here \notin passed \cup held \cup out \cup unclaimed
      /\ Here.id # NoId => Here \in awaiting
      /\ Here.n <= count
  BY <1>1, <1>2, <1>3 DEF IInv, ApartInv, OwedInv, KnownInv
<1>5. CASE Here.kind = "call" /\ Track(Here) /\ NextRequest /\ UNCHANGED <<step, stopped>>
  <2>1. /\ pend' \in [Ids -> Slot \cup {Free}] /\ off' \in BOOLEAN
        /\ unclaimed \subseteq unclaimed' /\ unclaimed' \subseteq unclaimed \cup {Here}
        /\ Here \in unclaimed' => Here.id # NoId
        /\ ~off' /\ Here.id # NoId => Here \in unclaimed'
        /\ ~off' => ~off
        /\ off' => pend' = [i \in Ids |-> Free]
        /\ SlotsCount'
    BY <1>1, <1>2, <1>4, <1>5, TrackInv
  <2>2. todo' = rest /\ passed' = passed \cup {Here} /\ step' = "decide" /\ stopped' = stopped
    BY <1>2, <1>5 DEF NextRequest
  <2>3. Claiming' = {} /\ Open' = Open /\ Members(todo)' = Members(rest)
    BY <1>2, <1>3, <2>2 DEF Claiming, Open, Members
  <2>4. TypeOK'
    BY <1>1, <1>2, <2>1, <2>2 DEF IInv, TypeOK
  <2>5. LineInv'
    BY <1>1, <1>5, <2>2 DEF IInv, LineInv
  <2>6. KnownInv'
    BY <1>1, <1>2, <1>4, <2>1, <2>2, <2>3 DEF IInv, KnownInv
  <2>7. ApartInv'
    BY <1>1, <1>2, <1>4, <2>1, <2>2, <2>3 DEF IInv, ApartInv
  <2>8. OwedInv'
    BY <1>1, <1>2, <1>3, <1>4, <2>1, <2>2, <2>3 DEF IInv, OwedInv
  <2>9. TrackedInv'
    <3>1. IsFiniteSet(unclaimed')
      BY <2>1, FS_AddElement, FS_Subset DEF IInv, TrackedInv
    <3>2. unclaimed' \subseteq Open'
      BY <1>3, <1>4, <2>1, <2>3 DEF IInv, TrackedInv
    <3> QED  BY <1>2, <1>4, <1>5, <2>1, <3>1, <3>2 DEF IInv, TrackedInv, Decided
  <2>10. ReuseInv'
    BY <1>2, <2>3 DEF IInv, ReuseInv
  <2>11. SlotsInv'
    BY <1>2, <2>1 DEF IInv, SlotsInv, NoCrossedJoin
  <2> QED  BY <2>4, <2>5, <2>6, <2>7, <2>8, <2>9, <2>10, <2>11 DEF IInv
<1>6. CASE /\ Here.kind = "stop" /\ Track(Here)
           /\ step' = "reply" /\ stopped' = stopped \cup {Here.id}
           /\ UNCHANGED <<todo, passed>>
  <2>1. /\ pend' \in [Ids -> Slot \cup {Free}] /\ off' \in BOOLEAN
        /\ unclaimed \subseteq unclaimed' /\ unclaimed' \subseteq unclaimed \cup {Here}
        /\ Here \in unclaimed' => Here.id # NoId
        /\ ~off' /\ Here.id # NoId => Here \in unclaimed'
        /\ ~off' => ~off
        /\ off' => pend' = [i \in Ids |-> Free]
        /\ SlotsCount'
    BY <1>1, <1>2, <1>4, <1>6, TrackInv
  <2>2. Claiming' = {} /\ Open' = Open /\ Members(todo)' = Members(todo) /\ Here' = Here
    BY <1>2, <1>3, <1>6 DEF Claiming, Open, Members, Here
  <2>3. TypeOK'
    BY <1>1, <1>2, <1>6, <2>1 DEF IInv, TypeOK, Request
  <2>4. LineInv'
    BY <1>2, <1>6, <2>1, <2>2 DEF IInv, LineInv
  <2>5. KnownInv'
    BY <1>2, <1>4, <1>6, <2>1, <2>2 DEF IInv, KnownInv
  <2>6. ApartInv'
    BY <1>2, <1>6, <2>1, <2>2 DEF IInv, ApartInv
  <2>7. OwedInv'
    BY <1>2, <1>3, <1>6, <2>1, <2>2 DEF IInv, OwedInv
  <2>8. TrackedInv'
    <3>1. IsFiniteSet(unclaimed')
      BY <2>1, FS_AddElement, FS_Subset DEF IInv, TrackedInv
    <3>2. unclaimed' \subseteq Open'
      BY <1>3, <1>4, <2>1, <2>2 DEF IInv, TrackedInv
    <3> QED  BY <1>2, <1>4, <1>6, <2>1, <3>1, <3>2 DEF IInv, TrackedInv, Decided
  <2>9. ReuseInv'
    BY <1>2, <2>2 DEF IInv, ReuseInv
  <2>10. SlotsInv'
    BY <1>2, <2>1 DEF IInv, SlotsInv, NoCrossedJoin
  <2> QED  BY <2>3, <2>4, <2>5, <2>6, <2>7, <2>8, <2>9, <2>10 DEF IInv
<1>7. CASE ~Decided(Here) /\ NextRequest /\ UNCHANGED <<step, stopped, pend, off, unclaimed>>
  <2>1. todo' = rest /\ passed' = passed \cup {Here} /\ step' = "decide" /\ stopped' = stopped
    BY <1>2, <1>7 DEF NextRequest
  <2>2. Claiming' = {} /\ Open' = Open /\ Members(todo)' = Members(rest)
    BY <1>2, <1>3, <2>1 DEF Claiming, Open, Members
  <2>3. TypeOK'
    BY <1>1, <1>2, <1>7, <2>1 DEF IInv, TypeOK
  <2>4. LineInv'
    BY <1>1, <1>7, <2>1 DEF IInv, LineInv, Decided
  <2>5. KnownInv'
    BY <1>1, <1>2, <1>4, <1>7, <2>1, <2>2 DEF IInv, KnownInv
  <2>6. ApartInv'
    BY <1>1, <1>2, <1>4, <1>7, <2>1, <2>2 DEF IInv, ApartInv
  <2>7. OwedInv'
    BY <1>1, <1>2, <1>3, <1>4, <1>7, <2>1, <2>2 DEF IInv, OwedInv, Decided
  <2>8. TrackedInv' /\ ReuseInv'
    BY <1>2, <1>7, <2>2 DEF IInv, TrackedInv, ReuseInv
  <2>9. SlotsInv'
    BY <1>2, <1>7 DEF IInv, SlotsInv, SlotsCount, NoCrossedJoin, Unclaimed
  <2> QED  BY <2>3, <2>4, <2>5, <2>6, <2>7, <2>8, <2>9 DEF IInv
<1> QED  BY <1>5, <1>6, <1>7 DEF Decide

\* The client has its answer; it is claimed next.
LEMMA ReplyInv == IInv /\ Reply => IInv'
<1> SUFFICES ASSUME IInv, Reply PROVE IInv'
  OBVIOUS
<1>1. /\ step = "reply" /\ step' = "claim" /\ awaiting' = awaiting \ {Here}
      /\ UNCHANGED <<todo, passed, stopped, pend, off, held, out, joined, unclaimed, unseen,
                     count, traffic, lawful>>
  BY DEF Reply
<1>2. /\ Claiming = {} /\ Claiming' = {Here} /\ Here' = Here
      /\ Members(todo)' = Members(todo)
  BY <1>1 DEF Claiming, Here, Members
<1>3. /\ Here \in Members(todo) /\ Here \in Request /\ Here.n <= count
      /\ Here \notin passed \cup held \cup out
  BY <1>1, LineRest DEF IInv, LineInv, KnownInv, ApartInv
<1>4. Open' \subseteq Open \cup {Here} /\ Open \subseteq Open'
  BY <1>1, <1>2 DEF Open
<1>5. TypeOK'
  BY <1>1 DEF IInv, TypeOK
<1>6. LineInv' /\ ApartInv'
  BY <1>1, <1>2 DEF IInv, LineInv, ApartInv
<1>7. KnownInv'
  BY <1>1, <1>2, <1>3, <1>4 DEF IInv, KnownInv
<1>8. OwedInv'
  BY <1>1, <1>2, <1>3 DEF IInv, LineInv, OwedInv
<1>9. TrackedInv'
  BY <1>1, <1>4 DEF IInv, TrackedInv
<1>10. ReuseInv'
  <2>1. Here.id # NoId => Here \in Open
    BY <1>2, <1>3 DEF IInv, OwedInv, Open
  <2> QED  BY <1>1, <1>4, <2>1 DEF IInv, ReuseInv
<1>11. SlotsInv'
  BY <1>1 DEF IInv, SlotsInv, SlotsCount, NoCrossedJoin, Unclaimed
<1> QED  BY <1>5, <1>6, <1>7, <1>8, <1>9, <1>10, <1>11 DEF IInv

LEMMA ReplyClaimInv == IInv /\ ReplyClaim => IInv'
<1> SUFFICES ASSUME IInv, ReplyClaim PROVE IInv'
  OBVIOUS
<1> DEFINE rest == Tail(todo)
<1>1. /\ step = "claim" /\ step' = "decide" /\ Claim(Here)
      /\ todo' = rest /\ passed' = passed \cup {Here}
      /\ UNCHANGED <<stopped, off, held, out, count, awaiting, traffic, lawful, unseen>>
  BY DEF ReplyClaim, NextRequest, clientVars
<1>2. todo # <<>> /\ Here.kind = "stop" /\ Here.id \in stopped
  BY <1>1 DEF IInv, LineInv
<1>3. /\ Here \in Request /\ rest \in Seq(Request) /\ Increasing(rest)
      /\ Members(todo) = Members(rest) \cup {Here} /\ Here \notin Members(rest)
  BY <1>2, LineRest DEF IInv
<1>4. Claiming = {Here} /\ Claiming' = {} /\ Open' \subseteq Open /\ Open \subseteq Open' \cup {Here}
  BY <1>1 DEF Claiming, Open
<1>5. Members(todo)' = Members(rest)
  BY <1>1 DEF Members
<1>6. /\ pend' \in [Ids -> Slot \cup {Free}]
      /\ joined' \subseteq (1..MaxRequests) \X (1..MaxRequests)
      /\ unclaimed' = unclaimed \ {Here}
      /\ SlotsInv'
  <2>1. Here \in Open
    BY <1>4 DEF Open
  <2>2. ~off /\ Here.id # NoId => Here \in unclaimed
    BY <1>1 DEF IInv, LineInv
  <2> QED  BY <1>1, <1>3, <2>1, <2>2, ClaimInv
<1>7. TypeOK'
  BY <1>1, <1>3, <1>6 DEF IInv, TypeOK
<1>8. LineInv'
  BY <1>1, <1>2, <1>3 DEF IInv, LineInv
<1>9. KnownInv'
  BY <1>1, <1>3, <1>4, <1>5, <1>6 DEF IInv, KnownInv
<1>10. ApartInv'
  BY <1>1, <1>3, <1>5, <1>6 DEF IInv, ApartInv
<1>11. OwedInv'
  BY <1>1, <1>2, <1>3, <1>4, <1>5, <1>6 DEF IInv, OwedInv, ApartInv
<1>12. TrackedInv'
  <2>1. IsFiniteSet(unclaimed')
    BY <1>6, FS_Subset DEF IInv, TrackedInv
  <2> QED  BY <1>1, <1>4, <1>6, <2>1 DEF IInv, TrackedInv
<1>13. ReuseInv'
  BY <1>1, <1>4 DEF IInv, ReuseInv
<1> QED  BY <1>6, <1>7, <1>8, <1>9, <1>10, <1>11, <1>12, <1>13 DEF IInv

\* What is left of the line goes to the server.
LEMMA ForwardInv == IInv /\ Forward => IInv'
<1> SUFFICES ASSUME IInv, Forward PROVE IInv'
  OBVIOUS
<1> DEFINE left == Filter(passed, stopped)
<1>1. /\ step = "decide" /\ todo = <<>> /\ step' = "read" /\ passed' = {} /\ stopped' = {}
      /\ held' = held \cup left
      /\ UNCHANGED <<todo, pend, off, out, joined, count, awaiting, traffic, lawful,
                     unclaimed, unseen>>
  BY DEF Forward, clientVars
<1>2. left \subseteq passed /\ \A r \in left : r.kind # "stop"
  BY DEF IInv, LineInv, Filter, Decided
<1>3. Claiming = {} /\ Claiming' = {} /\ Open' = Open /\ Members(todo)' = Members(todo)
  BY <1>1 DEF Claiming, Open, Members
<1> HIDE DEF left
<1>4. Members(todo) = {}
  BY <1>1 DEF Members
<1>5. TypeOK' /\ LineInv'
  BY <1>1, <1>2 DEF IInv, TypeOK, LineInv
<1>6. KnownInv' /\ ApartInv'
  BY <1>1, <1>2, <1>3, <1>4 DEF IInv, KnownInv, ApartInv
<1>7. OwedInv'
  BY <1>1, <1>2, <1>3 DEF IInv, OwedInv
<1>8. TrackedInv' /\ ReuseInv'
  BY <1>1, <1>3 DEF IInv, TrackedInv, ReuseInv
<1>9. SlotsInv'
  BY <1>1 DEF IInv, SlotsInv, SlotsCount, NoCrossedJoin, Unclaimed
<1> QED  BY <1>5, <1>6, <1>7, <1>8, <1>9 DEF IInv

\* The server answers.
LEMMA OutClaimInv ==
    ASSUME IInv, NEW r \in held, NEW long \in BOOLEAN, OutClaim(r, long)
    PROVE  IInv'
<1>1. /\ out = {} /\ r.id # NoId /\ held' = held \ {r} /\ out' = {r}
      /\ UNCHANGED <<todo, step, passed, stopped, off, count, awaiting, traffic, lawful>>
  BY DEF OutClaim, relayVars, clientVars
<1>2. /\ r \in Request /\ r \in awaiting /\ r.n <= count
      /\ r \notin Members(todo) \cup passed
  BY <1>1 DEF IInv, TypeOK, OwedInv, KnownInv, ApartInv
<1>3. Claiming' = Claiming /\ Here' = Here /\ Members(todo)' = Members(todo)
  BY <1>1 DEF Claiming, Here, Members
<1>4. ~off /\ Decided(r) => r \in unclaimed
  BY <1>1 DEF IInv, OwedInv, Decided
<1>5. \A u \in Members(todo) \cup passed : u # r
  BY <1>2
<1>6. step \in {"reply", "claim"} => Here # r
  BY <1>2, LineRest DEF IInv, LineInv
<1>7. CASE unseen' = unseen \cup {r} /\ UNCHANGED <<pend, joined, unclaimed>>
  <2>1. Open' = Open
    BY <1>1, <1>2, <1>3, <1>7 DEF Open
  <2>2. TypeOK' /\ LineInv'
    BY <1>1, <1>2, <1>3, <1>7 DEF IInv, TypeOK, LineInv
  <2>3. KnownInv' /\ ApartInv'
    BY <1>1, <1>2, <1>3, <1>7, <2>1 DEF IInv, KnownInv, ApartInv
  <2>4. OwedInv'
    BY <1>1, <1>3, <1>7 DEF IInv, OwedInv
  <2>5. TrackedInv' /\ ReuseInv'
    BY <1>1, <1>7, <2>1 DEF IInv, TrackedInv, ReuseInv
  <2>6. SlotsInv'
    BY <1>1, <1>7 DEF IInv, SlotsInv, SlotsCount, NoCrossedJoin, Unclaimed
  <2> QED  BY <2>2, <2>3, <2>4, <2>5, <2>6 DEF IInv
<1>8. CASE Claim(r) /\ UNCHANGED unseen
  <2>1. /\ pend' \in [Ids -> Slot \cup {Free}]
        /\ joined' \subseteq (1..MaxRequests) \X (1..MaxRequests)
        /\ unclaimed' = unclaimed \ {r}
        /\ SlotsInv'
    BY <1>1, <1>2, <1>4, <1>8, ClaimInv DEF Open
  <2>2. Open' = Open
    BY <1>1, <1>3, <1>8 DEF Open
  <2>3. TypeOK' /\ LineInv'
    BY <1>1, <1>2, <1>3, <1>6, <1>8, <2>1 DEF IInv, TypeOK, LineInv
  <2>4. KnownInv' /\ ApartInv'
    BY <1>1, <1>2, <1>3, <1>8, <2>1, <2>2 DEF IInv, KnownInv, ApartInv
  <2>5. OwedInv'
    BY <1>1, <1>3, <1>5, <2>1 DEF IInv, OwedInv
  <2>6. TrackedInv' /\ ReuseInv'
    <3>1. IsFiniteSet(unclaimed')
      BY <2>1, FS_Subset DEF IInv, TrackedInv
    <3> QED  BY <1>1, <1>8, <2>1, <2>2, <3>1 DEF IInv, TrackedInv, ReuseInv
  <2> QED  BY <2>1, <2>3, <2>4, <2>5, <2>6 DEF IInv
<1> QED  BY <1>7, <1>8 DEF OutClaim

LEMMA OutWriteInv == IInv /\ OutWrite => IInv'
<1> SUFFICES ASSUME IInv, OutWrite PROVE IInv'
  OBVIOUS
<1>1. /\ out' = {} /\ awaiting' = awaiting \ out
      /\ UNCHANGED <<todo, step, passed, stopped, pend, off, held, joined, unclaimed, unseen,
                     count, traffic, lawful>>
  BY DEF OutWrite, relayVars
<1>2. Claiming' = Claiming /\ Here' = Here /\ Members(todo)' = Members(todo) /\ Open' \subseteq Open
  BY <1>1 DEF Claiming, Here, Members, Open
<1>3. TypeOK' /\ LineInv'
  BY <1>1, <1>2 DEF IInv, TypeOK, LineInv
<1>4. KnownInv' /\ ApartInv'
  BY <1>1, <1>2 DEF IInv, KnownInv, ApartInv
<1>5. OwedInv'
  BY <1>1, <1>2 DEF IInv, OwedInv, ApartInv
<1>6. TrackedInv'
  <2>1. unclaimed \subseteq Open'
    BY <1>1, <1>2 DEF IInv, TrackedInv, Open
  <2> QED  BY <1>1, <2>1 DEF IInv, TrackedInv
<1>7. ReuseInv'
  BY <1>1, <1>2 DEF IInv, ReuseInv
<1>8. SlotsInv'
  BY <1>1 DEF IInv, SlotsInv, SlotsCount, NoCrossedJoin, Unclaimed
<1> QED  BY <1>3, <1>4, <1>5, <1>6, <1>7, <1>8 DEF IInv

LEMMA StutterInv == IInv /\ UNCHANGED vars => IInv'
<1> SUFFICES ASSUME IInv, UNCHANGED vars PROVE IInv'
  OBVIOUS
<1>1. /\ todo' = todo /\ step' = step /\ passed' = passed /\ stopped' = stopped
      /\ UNCHANGED <<pend, off, held, out, joined, count, awaiting, traffic, lawful,
                     unclaimed, unseen>>
  BY DEF vars, relayVars, clientVars
<1>2. Claiming' = Claiming /\ Here' = Here /\ Members(todo)' = Members(todo) /\ Open' = Open
  BY <1>1 DEF Claiming, Here, Members, Open
<1>3. TypeOK' /\ LineInv' /\ KnownInv' /\ ApartInv'
  BY <1>1, <1>2 DEF IInv, TypeOK, LineInv, KnownInv, ApartInv
<1>4. OwedInv' /\ TrackedInv' /\ ReuseInv'
  BY <1>1, <1>2 DEF IInv, OwedInv, TrackedInv, ReuseInv
<1>5. SlotsInv'
  BY <1>1 DEF IInv, SlotsInv, SlotsCount, NoCrossedJoin, Unclaimed
<1> QED  BY <1>3, <1>4, <1>5 DEF IInv

LEMMA NextInv == IInv /\ [Next]_vars => IInv'
BY SendInv, DecideInv, ReplyInv, ReplyClaimInv, ForwardInv, OutClaimInv, OutWriteInv,
   StutterInv DEF Next
-----------------------------------------------------------------------------
(* The theorems.                                                           *)

\* The invariant holds in every reachable state of the shim.
THEOREM Invariance == Spec => []IInv
BY InitInv, NextInv, PTL DEF Spec

\* The pending map, the line and the client's view keep their types (shim.go,
\* pending and slot).
THEOREM TypeCorrect == Spec => []TypeOK
<1>1. IInv => TypeOK
  BY DEF IInv
<1> QED  BY <1>1, Invariance, PTL

\* For any clients' traffic in which only inspected tools/calls share ids, a slot
\* of the pending map counts exactly the calls under its id that no answer was
\* claimed for (shim.go, "one response does not retire two requests").
THEOREM SlotsAreExact == Spec => []SlotsCount
<1>1. IInv => SlotsCount
  BY DEF IInv, SlotsInv
<1> QED  BY <1>1, Invariance, PTL

\* For the same traffic a response record names the call that the response
\* answers, whatever ids the client reuses while they are in flight (shim.go,
\* "misattributed evidence - strictly worse than none").
THEOREM JoinsAreRight == Spec => []NoCrossedJoin
<1>1. IInv => NoCrossedJoin
  BY DEF IInv, SlotsInv
<1> QED  BY <1>1, Invariance, PTL

\* Whatever its line holds besides, a call that policy stops is never written to
\* the server (block_rpc.go, filterBlockedCalls).
THEOREM StoppedIsKept == Spec => []StoppedNeverReaches
<1>1. IInv => StoppedNeverReaches
  BY DEF IInv, OwedInv, StoppedNeverReaches
<1> QED  BY <1>1, Invariance, PTL
-----------------------------------------------------------------------------
(* Traffic that never reuses an id.                                        *)

\* Then ids tell apart whatever an answer may still be claimed for.
PlainInv ==
    traffic = "plain" =>
        /\ \A a, b \in Open : a.id = b.id /\ a.id # NoId => a = b
        /\ \A id \in Ids : ~pend[id].ambiguous

\* Nothing becomes open again, and a slot becomes ambiguous only in track.
LEMMA PlainFrame ==
    ASSUME PlainInv, traffic' = traffic, \A r \in Open' : r.id # NoId => r \in Open,
           \A id \in Ids : pend'[id].ambiguous => pend[id].ambiguous
    PROVE  PlainInv'
BY DEF PlainInv

LEMMA PlainTrack ==
    ASSUME IInv, PlainInv, traffic = "plain", Track(Here), todo # <<>>, step = "decide"
    PROVE  \A id \in Ids : ~pend'[id].ambiguous
<1>0. pend \in [Ids -> Slot \cup {Free}] /\ Free.ambiguous = FALSE
  BY DEF IInv, TypeOK, Free
<1>1. Here \in Members(todo) /\ Here \notin unclaimed /\ Here.id \in Ids \cup {NoId}
  BY LineRest DEF IInv, ApartInv, Request
<1>2. CASE UNCHANGED <<pend, off, unclaimed>>
  BY <1>2 DEF PlainInv
<1>3. CASE pend' = [i \in Ids |-> Free]
  BY <1>0, <1>3
<1>4. CASE /\ Trackable(Here.id) /\ ~off
           /\ pend' = [pend EXCEPT ![Here.id] =
                         IF pend[Here.id].inflight = 0
                         THEN [call |-> Here.n, inflight |-> 1, ambiguous |-> FALSE]
                         ELSE [call |-> 0, inflight |-> pend[Here.id].inflight + 1,
                               ambiguous |-> TRUE]]
  <2>1. Here \in Open /\ Here.id \in Ids
    BY <1>1, <1>4 DEF IInv, OwedInv, Open, Trackable
  <2>2. Unclaimed(Here.id) = {}
    <3>1. ASSUME NEW u \in unclaimed, u.id = Here.id PROVE FALSE
      <4>1. u \in Open /\ u.id # NoId
        BY <3>1 DEF IInv, TrackedInv
      <4>2. u = Here
        BY <2>1, <3>1, <4>1 DEF PlainInv
      <4> QED  BY <1>1, <3>1, <4>2
    <3> QED  BY <3>1 DEF Unclaimed
  <2>3. pend[Here.id].inflight = 0
    <3>1. pend[Here.id].inflight = Cardinality(Unclaimed(Here.id))
      BY <1>4, <2>1 DEF IInv, SlotsInv, SlotsCount
    <3> QED  BY <2>2, <3>1, FS_EmptySet
  <2>4. pend' = [pend EXCEPT ![Here.id] = [call |-> Here.n, inflight |-> 1, ambiguous |-> FALSE]]
    BY <1>4, <2>3
  <2> QED  BY <1>0, <2>1, <2>4 DEF PlainInv
<1> QED  BY <1>2, <1>3, <1>4 DEF Track

LEMMA ClaimKeepsPlain ==
    ASSUME TypeOK, NEW r \in Request, Claim(r)
    PROVE  \A id \in Ids : pend'[id].ambiguous => pend[id].ambiguous
<1>1. pend \in [Ids -> Slot \cup {Free}] /\ r.id \in Ids \cup {NoId}
  BY DEF TypeOK, Request
<1>2. CASE UNCHANGED pend
  BY <1>2
<1>3. CASE /\ SlotOf(r.id) # Free
           /\ pend' = [pend EXCEPT ![r.id] =
                         IF pend[r.id].inflight = 1 THEN Free
                         ELSE [call |-> 0, inflight |-> pend[r.id].inflight - 1,
                               ambiguous |-> pend[r.id].ambiguous]]
  <2>1. r.id \in Ids
    BY <1>1, <1>3 DEF SlotOf, Trackable
  <2>2. pend'[r.id] \in {Free, [call |-> 0, inflight |-> pend[r.id].inflight - 1,
                                ambiguous |-> pend[r.id].ambiguous]}
    BY <1>1, <1>3, <2>1
  <2>3. pend'[r.id].ambiguous => pend[r.id].ambiguous
    BY <2>2 DEF Free
  <2>4. \A id \in Ids \ {r.id} : pend'[id] = pend[id]
    BY <1>1, <1>3
  <2> QED  BY <2>3, <2>4
<1> QED  BY <1>2, <1>3 DEF Claim

LEMMA PlainSend ==
    ASSUME IInv, PlainInv, NEW k \in 1..MaxBatch, NEW f \in Contents(k), Send(Line(k, f))
    PROVE  PlainInv'
<1> DEFINE l == Line(k, f)
<1>1. /\ step = "read" /\ step' = "decide" /\ awaiting' = awaiting \cup Numbered(l)
      /\ traffic' = Traffic(l) /\ UNCHANGED <<pend, unseen>>
  BY DEF Send
<1> HIDE DEF l
<1>2. Open = awaiting \cup unseen /\ Open' = Open \cup Numbered(l)
  BY <1>1 DEF Claiming, Open
<1>3. SUFFICES ASSUME traffic' = "plain"
      PROVE  /\ \A a, b \in Open' : a.id = b.id /\ a.id # NoId => a = b
             /\ \A id \in Ids : ~pend'[id].ambiguous
  BY DEF PlainInv
<1>4. traffic = "plain" /\ Clash(l, awaiting \cup unseen) = {}
  BY <1>1, <1>3 DEF Traffic
<1>5. ASSUME NEW a \in Numbered(l), NEW b \in Open', a.id = b.id PROVE a = b
  <2>1. a # b => <<a, b>> \in Clash(l, awaiting \cup unseen)
    BY <1>2, <1>5 DEF Clash
  <2> QED  BY <1>4, <2>1
<1> QED  BY <1>1, <1>2, <1>4, <1>5 DEF PlainInv

LEMMA PlainDecide == ASSUME IInv, PlainInv, Decide PROVE PlainInv'
<1>1. /\ step = "decide" /\ todo # <<>> /\ step' \in {"decide", "reply"}
      /\ UNCHANGED <<awaiting, unseen, traffic>>
      /\ UNCHANGED pend \/ Track(Here)
  BY DEF Decide, clientVars
<1>2. Open' = Open
  BY <1>1 DEF Open, Claiming
<1>3. traffic = "plain" => \A id \in Ids : ~pend'[id].ambiguous
  BY <1>1, PlainTrack DEF PlainInv
<1> QED  BY <1>1, <1>2, <1>3 DEF PlainInv

LEMMA PlainReply == ASSUME IInv, PlainInv, Reply \/ ReplyClaim PROVE PlainInv'
<1>0. todo # <<>> /\ Here \in Members(todo) /\ Here \in Request
  BY LineRest DEF IInv, LineInv, Reply, ReplyClaim
<1>1. CASE Reply
  <2>1. /\ step = "reply" /\ step' = "claim" /\ awaiting' = awaiting \ {Here}
        /\ UNCHANGED <<todo, pend, unseen, traffic>>
    BY <1>1 DEF Reply
  <2>2. Claiming = {} /\ Claiming' = {Here}
    BY <2>1 DEF Claiming, Here
  <2>3. \A r \in Open' : r.id # NoId => r \in Open
    BY <1>0, <2>1, <2>2 DEF IInv, OwedInv, Open
  <2> QED  BY <2>1, <2>3, PlainFrame
<1>2. CASE ReplyClaim
  <2>1. /\ step' = "decide" /\ Claim(Here) /\ UNCHANGED <<awaiting, unseen, traffic>>
    BY <1>2 DEF ReplyClaim, clientVars
  <2>2. Open' \subseteq Open
    BY <2>1 DEF Open, Claiming
  <2>3. \A id \in Ids : pend'[id].ambiguous => pend[id].ambiguous
    BY <1>0, <2>1, ClaimKeepsPlain DEF IInv
  <2> QED  BY <2>1, <2>2, <2>3, PlainFrame
<1> QED  BY <1>1, <1>2

LEMMA PlainOut ==
    ASSUME IInv, PlainInv, NEW r \in held, NEW long \in BOOLEAN, OutClaim(r, long)
    PROVE  PlainInv'
<1>1. /\ r.id # NoId /\ UNCHANGED <<todo, step, awaiting, traffic>>
      /\ \/ unseen' = unseen \cup {r} /\ UNCHANGED pend
         \/ Claim(r) /\ UNCHANGED unseen
  BY DEF OutClaim, relayVars, clientVars
<1>2. r \in Request /\ r \in awaiting
  BY <1>1 DEF IInv, TypeOK, OwedInv
<1>3. Open' = Open
  BY <1>1, <1>2 DEF Open, Claiming, Here
<1>4. \A id \in Ids : pend'[id].ambiguous => pend[id].ambiguous
  BY <1>1, <1>2, ClaimKeepsPlain DEF IInv
<1> QED  BY <1>1, <1>3, <1>4, PlainFrame

LEMMA PlainNext == ASSUME IInv, PlainInv, [Next]_vars PROVE PlainInv'
<1>1. CASE Forward
  <2>1. /\ step = "decide" /\ step' = "read" /\ UNCHANGED <<pend, awaiting, unseen, traffic>>
    BY <1>1 DEF Forward, clientVars
  <2>2. Open' = Open
    BY <2>1 DEF Open, Claiming
  <2> QED  BY <2>1, <2>2, PlainFrame
<1>2. CASE OutWrite \/ UNCHANGED vars
  <2>1. /\ awaiting' \subseteq awaiting /\ UNCHANGED <<todo, step, pend, unseen, traffic>>
    BY <1>2 DEF OutWrite, vars, relayVars, clientVars
  <2>2. Open' \subseteq Open
    BY <2>1 DEF Open, Claiming, Here
  <2> QED  BY <2>1, <2>2, PlainFrame
<1> QED  BY <1>1, <1>2, PlainSend, PlainDecide, PlainReply, PlainOut DEF Next

\* Claim before write (shim.go:71): as long as the client never reuses an id whose
\* answer the shim has not inspected, the shim never takes an id for ambiguous, and
\* so never gives up a join, however answers and requests cross.
THEOREM PlainStaysUnambiguous == Spec => []PlainIsUnambiguous
<1>1. Init => PlainInv
  <2> SUFFICES ASSUME Init PROVE PlainInv
    OBVIOUS
  <2>1. Open = {}
    BY DEF Init, Open, Claiming
  <2>2. \A id \in Ids : ~pend[id].ambiguous
    BY DEF Init, Free
  <2> QED  BY <2>1, <2>2 DEF PlainInv
<1>2. IInv /\ PlainInv /\ [Next]_vars => IInv' /\ PlainInv'
  BY NextInv, PlainNext
<1>3. PlainInv => PlainIsUnambiguous
  BY DEF PlainInv, PlainIsUnambiguous
<1> QED  BY <1>1, <1>2, <1>3, InitInv, PTL DEF Spec
=============================================================================
