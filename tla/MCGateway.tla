------------------------------ MODULE MCGateway ------------------------------
\* Two requests, one that is no MCP or a batch with calls that are stopped, alone or beside
\* what shares their id or has none, and one that lists tools; and two bundle changes.
\* FilterBodies is for the run gateway_filter.
EXTENDS Gateway, TLC

CONSTANTS h1, h2, a1, a2

Symmetry == Permutations({a1, a2})

MCTools == {"ls", "rm", "RM"}
MCLower == [t \in MCTools |-> IF t = "RM" THEN "rm" ELSE t]

On(yes, err) == [x \in MCTools \X {"s1", "s2", NoSig} |->
                   IF x \in yes THEN "yes" ELSE IF x \in err THEN "error" ELSE "no"]
Inputs(T, S) == T \X S
Permit == [id |-> "permit-all", effect |-> "permit", enforce |-> "flag",
           on |-> On(Inputs(MCTools, {"s1", "s2", NoSig}), {})]
NoRemove(err) == [id |-> "no-rm", effect |-> "forbid", enforce |-> "block",
                  on |-> On(Inputs({"rm"}, {"s1", NoSig}), err)]
Undeclared == [id |-> "undeclared", effect |-> "forbid", enforce |-> "flag",
               on |-> On(Inputs(MCTools, {NoSig}), {})]

MCContent == [open |-> {Permit},
              partial |-> {Permit, NoRemove(Inputs({"rm"}, {"s2"})), Undeclared},
              broken |-> {Permit, [Undeclared EXCEPT !.id = "permit-all"]}]

E(kind, id, tool) == [kind |-> kind, id |-> id, tool |-> tool]
Stopped == E("call", 1, "RM")
Notified == E("call", NoId, "RM")
MCBodies == [h \in {h1, h2} |->
  IF h = h1
  THEN {<<E(k, NoId, "rm")>> : k \in {"llm", "llmbad", "big", "raw"}}
       \cup {<<Stopped, p>> : p \in {E("call", 1, "ls"), E("bad", 2, "ls"), E("list", 2, "ls"), Notified}}
       \cup {<<E("call", 1, "ls"), Stopped, E("list", 2, "ls")>>,
              <<Notified, E("list", 2, "ls"), E("other", NoId, "ls")>>}
  ELSE {<<E("list", 1, "ls")>>}]
\* Two notifications, of which one is stopped.
FilterBodies == [h \in {h1, h2} |->
  {IF h = h1 THEN <<Notified, E("call", NoId, "ls")>> ELSE <<E("list", 1, "ls")>>}]
D(t, s) == [tool |-> t, sig |-> s]
MCCatalogues == {<<D("RM", "s1")>>, <<D("rm", "s2"), D("ls", "s1")>>}
=============================================================================
