-------------------------------- MODULE Policy --------------------------------
(***************************************************************************)
(* What a policy bundle concludes about one call and what the Act stage    *)
(* makes of it: internal/policy/policy.go, internal/bundle/bundle.go and   *)
(* cmd/gurdy-proxy/actuator.go. A document is named by its content, as     *)
(* "file:<hash>" and "<pack>@<version>+<hash>" are.                        *)
(***************************************************************************)
EXTENDS Naturals, FiniteSets

CONSTANTS
  Documents,  \* what a policy file can hold
  Content,    \* the policies of each document
  Tools,      \* tool names as a client or an upstream writes them
  Lower,      \* their lower-case form
  Sigs,       \* schema hashes an upstream declares
  NoSig       \* nothing was declared for the tool

Signature == Sigs \cup {NoSig}

\* on says whether the rule's conditions hold of a tool and its declared
\* signature; evaluating them can also fail.
Policy == [id : STRING, effect : {"permit", "forbid"}, enforce : {"flag", "block", "unknown"},
           on : [Tools \X Signature -> {"yes", "no", "error"}]]

ASSUME PolicyAssumption ==
  /\ Content \in [Documents -> SUBSET Policy]
  /\ Lower \in [Tools -> Tools]
  /\ \A t \in Tools : Lower[Lower[t]] = Lower[t]
  /\ NoSig \notin Sigs

\* Load refuses an annotation outside its vocabulary and a second rule under one @id.
Loadable(d) ==
  /\ \A p \in Content[d] : p.enforce # "unknown"
  /\ \A p, q \in Content[d] : p.id = q.id => p = q

-----------------------------------------------------------------------------
\* Cedar: a satisfied forbid wins, a permit is needed otherwise.
Answering(d, tool, sig, answer) == {p \in Content[d] : p.on[<<Lower[tool], sig>>] = answer}
Satisfied(d, tool, sig, effect) == {p \in Answering(d, tool, sig, "yes") : p.effect = effect}

Authorized(d, tool, sig) ==
  /\ Satisfied(d, tool, sig, "forbid") = {}
  /\ Satisfied(d, tool, sig, "permit") # {}

Determining(d, tool, sig) ==
  IF Satisfied(d, tool, sig, "forbid") # {}
  THEN Satisfied(d, tool, sig, "forbid")
  ELSE Satisfied(d, tool, sig, "permit")

\* Mutant of Evaluate: the least restrictive of the matching rules wins.
EvaluateLenient(d, tool, sig) ==
  IF Answering(d, tool, sig, "error") # {} THEN "indeterminate"
  ELSE IF Authorized(d, tool, sig) THEN "allow"
  ELSE IF \A p \in Determining(d, tool, sig) : p.enforce = "block" THEN "block"
  ELSE "flag"

\* Any rule that cannot be evaluated makes the whole conclusion indeterminate;
\* otherwise one matching rule that blocks is enough.
Evaluate(d, tool, sig) ==
  IF Answering(d, tool, sig, "error") # {} THEN "indeterminate"
  ELSE IF Authorized(d, tool, sig) THEN "allow"
  ELSE IF \E p \in Determining(d, tool, sig) : p.enforce = "block" THEN "block"
  ELSE "flag"

Decision == {"allow", "flag", "block", "indeterminate"}

\* Plan of the two actuators: only an enforcing one ever stops a call, and only
\* on "block"; an undecidable call is forwarded and marked as failed open.
Applied(enforce, decision) ==
  IF decision = "indeterminate" THEN "failed_open"
  ELSE IF enforce /\ decision = "block" THEN "blocked"
  ELSE "forwarded"
=============================================================================
