---------------------------- MODULE MCJobHandoff ----------------------------
EXTENDS JobHandoff

(* "n" runs a newer plugin than the others.                                 *)
MCBuild == [p \in Processes |-> IF p = "n" THEN 2 ELSE 1]

(* Two tenants of one gateway, and one of them with a query.                *)
Endpoints == {"here", "here?k", "tenant"}
MCBaseOf == [e \in Endpoints |-> IF e = "tenant" THEN "tenant" ELSE "here"]
MCOriginOf == [b \in {"here", "tenant"} |-> "gateway"]
MCQueryOf == [e \in Endpoints |-> IF e = "here?k" THEN "k" ELSE NoQuery]

MCContents ==
  {[state |-> "present", valid |-> TRUE, default |-> "local", providers |-> [local |-> Provider(e, c, d)]] :
     e \in Endpoints, c \in {"none", "inline", "X", "Y", "empty"}, d \in BOOLEAN}
  \cup {[state |-> "present", valid |-> v, default |-> "local", providers |-> [far |-> Provider("here", "X", FALSE)]] : v \in BOOLEAN}
MCRequests == {[provider |-> p, baseUrl |-> b] : p \in {None, "local"}, b \in {None} \cup Endpoints}
=============================================================================
