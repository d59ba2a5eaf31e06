------------------------------ MODULE MCSweep ------------------------------
EXTENDS Sweep

MCHistory == <<[sha |-> "c5", code |-> TRUE], [sha |-> "c4", code |-> TRUE], [sha |-> "c3", code |-> FALSE],
               [sha |-> "c2", code |-> TRUE], [sha |-> "c1", code |-> TRUE]>>

Report(findings, model, reported, cut) ==
  [overflow |-> FALSE, status |-> 0, doc |-> "report", reason |-> NoReason, findings |-> findings,
   model |-> model, declared |-> "served", reported |-> reported, cut |-> cut]
NoReport(doc, status, reason) ==
  [overflow |-> FALSE, status |-> status, doc |-> doc, reason |-> reason, findings |-> "unread",
   model |-> NoModel, declared |-> "served", reported |-> FALSE, cut |-> FALSE]

MCReplies ==
  {Report("none", "asked", TRUE, FALSE), Report("some", "asked", TRUE, FALSE), Report("none", "asked", TRUE, TRUE),
   Report("some", "served", TRUE, FALSE), Report("some", "another", TRUE, FALSE), Report("none", "asked", FALSE, FALSE),
   Report("unread", "asked", TRUE, FALSE),
   NoReport("envelope", 1, "idle-timeout"), NoReport("envelope", 1, "deadline-timeout"),
   NoReport("envelope", 1, "token-exhaustion"), NoReport("garbled", 1, NoReason)}

Settled(sha, reply) == EntryOf(Classify(reply), sha, TRUE)
NightOf(soft, commits, replies) ==
  Written(HeaderLine([commits |-> commits, setup |-> "setup", soft |-> soft]))
    \o FoldLeft(LAMBDA file, n : file \o Written(EntryLine(Settled(commits[n].sha, replies[n]))),
                <<>>, [n \in DOMAIN replies |-> n])

MCSoft == [diffOnly |-> FALSE, provider |-> "profile"]
MCOlderSoft == [provider |-> "profile"]

MCRival == NightOf(MCSoft, <<[sha |-> "c5", eligible |-> TRUE], [sha |-> "c4", eligible |-> TRUE]>>,
                   <<Report("some", "asked", TRUE, FALSE)>>)
MCReference == NightOf(MCOlderSoft, Enumerated, <<Report("some", "asked", TRUE, FALSE), Report("none", "asked", TRUE, FALSE)>>)
=============================================================================
