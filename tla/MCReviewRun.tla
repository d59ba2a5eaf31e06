---------------------------- MODULE MCReviewRun ----------------------------
EXTENDS ReviewRun

(* A default and another provider, with and without what must stay behind.  *)
MCContents ==
  {[state |-> "present", valid |-> v, default |-> d,
    providers |-> [local |-> Provider("here", c, c # "none"), far |-> Provider("there", "none", FALSE)]] :
      v \in BOOLEAN, d \in {"local", "gone"}, c \in {"none", "inline", "env", "empty"}}
MCRequests ==
  {[provider |-> p, baseUrl |-> b] : p \in {None, "local", "unknown"}, b \in {None, "here", "there"}}

(* A path may be added, changed or removed, staged or not, or be binary.    *)
NoPaths == [p \in Paths |-> Gone]
MCRepositories ==
  {[trees |-> [old |-> o, new |-> n, newer |-> f], head |-> "new", index |-> n, disk |-> n] :
      o \in [Paths -> {Gone, "v1"}], n \in [Paths -> {Gone, Binary, "v2"}], f \in {NoPaths, [p \in Paths |-> "v1"]}}
  \cup
  {[trees |-> [old |-> NoPaths, new |-> n, newer |-> NoPaths], head |-> "new", index |-> i, disk |-> d] :
      n \in [Paths -> {Gone, "v1"}], i \in [Paths -> {Gone, Unmerged, "v1"}], d \in [Paths -> {Gone, "v1", "v2"}]}
MCEdits == {Gone, "v2"}

(* Two quantizations of one model, and another model.                       *)
MCKeyOf == [id \in {"a", "a@q", "b"} |-> IF id = "b" THEN "b" ELSE "a"]
MCServers ==
  {[kind |-> k, listed |-> l, catalogue |-> c, loaded |-> m, embeds |-> e] :
     k \in Kinds, l \in {<<>>, <<"a@q">>, <<"a@q", "b">>, <<"a", "a@q">>},
     c \in {<<>>, <<"a", "b">>, <<"a", "a@q">>},
     m \in {{}, {"a"}, {"a", "b"}, {"a@q", "b"}}, e \in {{}, {"a"}}}
MCAsks ==
  {[named |-> n, preset |-> p, configured |-> FALSE, query |-> q] :
     n \in {No, "x"}, p \in {No, "b"}, q \in BOOLEAN}

(* Texts on both sides of each limit, with and without wide characters.     *)
MCTexts ==
  {[ascii |-> a, other |-> o] : a \in {3400, 13600, 54060, 54070}, o \in {0, 1000}}
  \cup {[ascii |-> a, other |-> 1000] : a \in {47600, 51000}}

High(l) == [at |-> l, severity |-> "high"]
Low(l) == [at |-> l, severity |-> "low"]
MCReplies == {<<>>, <<Low("f:1"), High("f:1"), High(NoLine)>>, <<Low("f:2"), High("f:1")>>}
MCOwnNotes == {{}, {"salvaged", "at cap"}, {"analysis cut", "dropped", "degraded"}}

(* Every kind of block, and lists that do and do not conform.               *)
Lists == {<<>>, <<"named">>, <<"message">>, <<"record">>, <<"wrapper">>, <<"named", "junk">>,
          <<"junk", "message">>, <<"wrapper", "junk">>, <<"message", "named">>}
Conforming(n) == Json(TRUE, TRUE, [i \in 1 .. n |-> "named"])

MCBlocks ==
  {Prose, Stray, Code, EmptyList, Conforming(0), Conforming(1)}
  \cup {Json(FALSE, FALSE, l) : l \in Lists}
  \cup {Json(TRUE, FALSE, l) : l \in {<<>>, <<"named">>, <<"record">>, <<"message">>}}
  \cup {Yaml(TRUE, <<"named">>), Yaml(TRUE, <<"record">>), Yaml(FALSE, <<"named">>)}

MCDrafts ==
  {<<>>, <<Prose>>, <<Conforming(0)>>, <<Prose, Conforming(1)>>, <<Json(FALSE, FALSE, <<"named">>)>>}
=============================================================================
