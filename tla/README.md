# Verification of the oai plugin

The repository is a command line plugin that hands tasks and reviews to an
OpenAI-compatible server. Commands (`/oai:task`, `/oai:review`, `/oai:status`,
`/oai:result`, `/oai:cancel`, `/oai:abandon`) are separate short-lived Node
processes; a background task is a detached worker process; they share one SQLite
database and a directory of files. Nothing coordinates them but guarded
`UPDATE`s, one transaction and pid probes. That is where this project starts.

Paths below are relative to `src/plugins/oai/scripts/lib/` unless they begin
with `src/`.

## 1. Inventory

### Background queue (modelled)

| part | state | operations | files |
|---|---|---|---|
| rows | the `jobs` table | `insertJob`, `markSpawned`, `registerWaiter`, `claimJob`, `beat`, `requestCancel`, `abandonUnstarted`, `finish` | job-record, job-store |
| liveness | none: pid columns and timestamps against the OS and the clock | `pidLiveness`, `relevantPid`, `livenessOf`, `beatIsStale` | job-liveness |
| turn taking | none: one `BEGIN IMMEDIATE` per attempt | `tryAcquire`/`decide`, `scanQueued`, `awaitTurn`, `timeOut` | job-queue, job-busy |
| submission | a foreground process | `submitTask`, `sweepQuietly`, `spawnWorker`, `spawnAndStamp`, `terminalizeSpawnFailure` | task-submit, job-spawn, job-launch-outcome |
| worker | a detached process, its log, its acknowledgement file | `runTaskWorker`, `runJob`, `runAndPublish`, `publishFailure`, `salvageOutcome`, `startHeartbeat`, `exitOnCancel` | cmd-task-worker, job-heartbeat, cancel-ack |
| recovery | none: run by every reader and every attempt | `reconcile`, `reconcileAll` | job-reconcile, job-view |
| readers | a listing held while rows are visited | `runStatus`, `runResult`, `runCancel`, `viewOf`, `blockingSeqFor`, `statusView` | cmd-status, cmd-result, cmd-cancel, job-view |
| operator | one locked step | `abandonRow`, `abandonDecision`, `couldDrain` | job-abandon, cmd-abandon, job-drain |
| retention | rows, logs, acknowledgements | `prune`, `orphanSeqs`, `removeFiles`, `sweep` | job-retention |

How they interact: everything is a row read, a pid probed, a row written. A
submitter inserts a row and spawns a worker that finds the row by its sequence
number; the worker registers, polls for the slot, claims it and calls the model
while a timer beats and looks for a cancellation; readers list the rows, decide
from what they read who is gone, and write. What is hard: any process may be
killed between two statements, the database may refuse any write, a pid may be
handed to somebody else, a listing is old when it is acted on, and two builds may
share the table. What makes it correct: one model call at a time, no verdict that
contradicts its worker, one verdict per row, no answer lost, submission order,
every row settled in the end, and files that outlive nobody's need of them.

### Transport

One request (`http.mjs` `send`) has three timers, an abort, a socket error and a
response, and must settle once and release everything. A streamed reply
(`sse.mjs`, `stream-collect.mjs`, `completion.mjs`) is ended by the first of
`[DONE]`, a stated refusal, a budget, a reserve cutoff or a cut connection, and
the cause that is reported must be the one that came first. Correct when: every
request settles exactly once, no timer outlives it, a truncated reply is never an
answer, and the reported cause is not replaced by its own after-effects.

### Answer retry, negotiation, ledger

`answer-attempts.mjs` retries an answer whose delivery failed, a bounded number of
times and under one deadline; inside each attempt `chat.mjs` sends again without a
capability the server refused by name (`capability-ladder.mjs`), and remembers it
for later calls of the same command. `review-request.mjs` stacks three more ladders
on top: prose when the grammar is refused, once more at a reply budget the server
stated, and up to two follow-ups that carry cut-off reasoning back. Every request
on the wire gets one ledger entry (`attempt-ledger.mjs`, `attempt-outcome.mjs`).
Correct when: the ladders are finite *together*, nothing refused is offered again,
no ladder outlives the deadline or hides that it was the deadline that ended the
command, and the record holds one answer at most and is true of every request.

### Review

`cmd-review.mjs` takes a command line to a report in one process: it resolves a
provider, collects a target from git, chooses a model and its window, sizes the
request, asks pass after pass, and says what came of them.

| part | state | operations | files |
|---|---|---|---|
| target | none: several git calls and file reads | `collectTarget`, `selectDiff`, `untrackedBlocks`, `readContent` | git-diff |
| sizing | none: the reserve, the rung, the analysis cap | `prepareLadder`, `prepareRequest`, `reserveFor`, `unconstrainedLadder`, `statedCapRetry` | review-ladder, delegate, context-guard, review-schema |
| passes | what came of each pass | `runMultiPass`, `mergePasses`, `servedModelFailure`, `runCauses` | cmd-review, review-passes |
| reading | none: two channels of text | `parseFindings`, `extractJson`, `emptyFindingsDocument`, `unparsedReply` | structured, json-scan, findings-candidate, findings-yaml, findings-empty, review-unparsed |
| telling | none | `caveats`, `caveatUnion`, `passSummary`, `errorReport`, `report` | review, review-report, review-passes |

The stages hand values to one another; under them `requestFindings` is the answer
above. What is hard: git is asked several times while somebody commits, stages and
edits; each limit of the sizing depends on the others at its edges; a reply may hold
drafts, quoted code, empty lists and half a quote beside the list that was meant; and
what narrowed a pass must survive merging, refusal and two output formats. Correct
when: a request claims to hold whole files only when it does, a pass leaves room for
its reply, a clean result is clean, agreement counts passes, and nothing that
qualifies a result is left unsaid.

### Preparation and configuration

The providers file (`config.mjs`) is created when it is missing and repaired when its
mode is loose, while other processes may write, replace or remove it. `model-info.mjs`
asks a server what it is, in up to half a dozen probes, while models are loaded and
unloaded; `model-selection.mjs` and `delegate.mjs` choose a model and a window from
that. `context-guard.mjs` counts tokens. Correct when: nobody's file is overwritten, a
credential and declared ids go only to the endpoint they were configured for, the
model chosen for a user who named none is one the description bears out, and asking
wakes nothing that sleeps. Argument parsing, prompt files, sampling presets, the
foreground task and setup's report are sequential.

### Job store, credentials and payload

`job-store.mjs` opens the database: it makes and tightens two directories, creates the
file, converts it to WAL, applies the schema and stamps a version, within a budget of
retries, and refuses a database that a newer plugin wrote, which `openJobs` then only
reads. Any number of processes of two builds do it at once and may die in between. A
row holds a frozen transport and which source a credential came from, never the
credential (`job-auth.mjs`); the worker looks it up again in a file that may have been
edited since. Correct when: a handle is of a whole and private database, a newer one is
left alone, and a worker sends what its submission would have sent, or nothing.

### Overnight sweep

`src/bench/review-sweep.mjs` reviews commits one by one under a deadline, puts each
entry in a ledger as it settles, stops opening work after several outages in a row, and
writes its report and record last. `recover-sweep.mjs` rebuilds a night that did not
end from its ledger; `sweep-reproduction.mjs` compares nights. Hard: any write may fail
or tear, the process may die in the middle of one, a run of the same millisecond has
the same file name, and the ledger may be read at any moment. Correct when: recovery
invents and loses nothing, a night's health is what it went through, each commit is
disposed of once and for the reason given, and only nights of one model are compared.

### Case benchmark and comparison (not modelled)

`run.mjs`, `compare.mjs`, `task-run.mjs` and their libraries: a sequential loop over
cases, a record per case, and arithmetic over finished records. Correct when sums and
rates are what they say; nothing interleaves.

### Residency experiment (not modelled)

`ttl-challenge.mjs` and the `ttl-*` libraries wait for hours and measure whether a
server still holds a model. State: one episode's timeline. What it concludes rests on
a server's behaviour in wall-clock time that no source here states.

The `components` list of PROJECT.json names each part with its files and what is
left out of it; its `hazards` list is what the properties are for.

## 2. Modules

| module | what it models | depends on |
|---|---|---|
| `QueueRules` | pure rules: liveness of a row, role of a queued row, verdict and side effects of one attempt, `couldDrain` | |
| `JobQueue` | the live queue: submitters, workers, readers, canceller, operator, OS and clock | `QueueRules` |
| `CallSlot` | abstract: jobs are submitted, one holds the slot, each gets a verdict | |
| `JobQueueSlot` | the refinement mapping from `JobQueue` to `CallSlot` | `JobQueue`, `CallSlot` |
| `QueueTable` | what status and abandon say of a table, over every small table | `QueueRules` |
| `Retention` | the sweep and the submissions around it | |
| `RequestEnds` | how a request to a model may end without a reply | |
| `AnswerRetry` | one task or one review pass: every request it sends, and the record of them | `RequestEnds` |
| `HttpExchange` | one HTTP request: timers, socket, the reader of its body, the verdict on the reply | |
| `OneReply` | abstract: a request is heard, speaks, runs out of a budget, is claimed, and ends once with one cause | `RequestEnds` |
| `HttpExchangeReply` | the refinement mapping from `HttpExchange` to `OneReply` | `HttpExchange`, `OneReply` |
| `SseParser` | one event stream, chunk by chunk, against a reading of the whole text | |
| `FindingsReading` | the findings in one reply of two channels | |
| `ProviderConfig` | the providers file and the profile a run is given | |
| `ModelChoice` | describing a server, choosing a model and its window | |
| `ReviewTarget` | reading a diff and the changed files out of a repository in use | |
| `ReviewSizing` | reserve, rung, analysis cap, token estimate, context guard | |
| `ReviewPasses` | the passes, their merging, what is told | |
| `ReviewRun` | a review from its command line to its report | the seven above |
| `JobStore` | opening the job database | |
| `JobAuth` | what a row authorises and what its worker sends | `ProviderConfig` |
| `JobHandoff` | these two, and what other commands make of the rows | `JobStore`, `JobAuth`, `QueueTable` |
| `SweepReading` | pure: classifying a reply, reading a ledger, health, report, comparison | |
| `Sweep` | the overnight sweep, with recovery asked of it at any moment | `SweepReading` |
| `MCJobQueue`, `MCHttpExchange`, `MCReviewRun`, `MCJobHandoff`, `MCSweep` | values of the constants for TLC | |
| `JobQueueProofs`, `RetentionProofs`, `QueueTableProofs`, `AnswerRetryProofs`, `HttpExchangeProofs`, `JobHandoffProofs`, `ReviewRunProofs`, `SweepProofs` | theorems | the module each names; `JobQueueProofs` `JobQueueSlot`, `HttpExchangeProofs` `HttpExchangeReply` |

`Retention` and `AnswerRetry` are checked as they are, without an MC module. A definition marked `\* mutant` stands beside the one it spoils; nothing uses
it but the mutants listed in PROJECT.json.

### JobQueue

State: `row` is the table (`waiter`, `worker`, `started`, `cancel` are "the
column is not NULL"); `sub` and `pc` say how far each job's submitter and worker
have come; `seen` and `errand` are the readers' listings and what they are for;
`ack` and `salvaged` are files; `recycled` and `late` are facts of the OS and the
clock; `answered` and `died` are history for the properties.

Grain: one SQL statement or one `BEGIN IMMEDIATE` transaction is one action.
`TryAcquire` is the whole of `decide`, with the rows it reconciles on the way,
because the code holds the write lock throughout. `reconcileAll` is *not* one
step: `ReaderLists` is its SELECT, each `ReaderVisits` one write, guarded by the
row as it then is but decided by the row as it was listed. A retried write that
still meets a busy database is the disjunct that leaves `row` unchanged.

Two facts that look like simplifications are in the code: a worker's registration
needs `waiter_pid IS NULL`, so each row has one worker for life; and a worker's
process ends at its last write, so "exited" and "its pid is gone" are one event.
`last_beat_at` is left out of `JobQueue`: it decides only whether abandoning a
live row needs `--force`, and both are open there. Rows that cannot be read
(`malformed`) are not producible by this build, so they are in `QueueTable`, whose
initial states are every table the columns can hold. Workers of `Foreign` rows
run a newer build, which understands every row.

### Retention

The life of a row is reduced to what a sweep can tell apart; the steps of a
submission are `sweepQuietly`'s DELETE, the directory listing, the second read of
the rows, one unlink pair per orphan, then the insert, the log and the spawn.
Each is a step of its own and the submission may end at each. A sequence number
is never handed out twice, which is SQLite's AUTOINCREMENT; deleting `jobs.db`
and keeping the logs is the residue job-retention.mjs names and is not modelled.

### QueueTable

A table is written down, one command acts on it, and what it said is compared
with what an attempt on the resulting table would do. `late` is a wait cap for a
queued row and a run cap for a running one.

### AnswerRetry

State: `call` is the `chatCompletion` under way (what it is for, its attempt, its
deadline, its prompt, what it offers), `step` where it is; `removed`, `grammar` and
`lowered` are what the command has learnt (`negotiation.removed`, `format.rejected`,
the stated cap); `entries` is the ledger, `awaiting` the `refusalSlot`, `dispatched`
the ledger's set of prompts it believes read; `original` is what a follow-up tries to
make good, `now` the clock.

The process awaits one thing at a time, so an action runs from one await to the
next: `Dispatch` is everything between building the body and the socket, `Answered`,
`Died` and `Refused` all that follows a response up to the next send, pause or error.
How a request can end is any *outcome the transport can produce*: `Deaths`
(`RequestEnds`) lists the reasons with the flags each can carry (a completion shape
needs headers, a first-token timeout has no text, and so on), `Refusals` the HTTP errors
by what their body names. That no end is missing from `Deaths` is not an assumption:
`EndIsAdmitted` says so of `HttpExchange`. A reply that comes as one document can idle
out with no text measured, and can be no JSON or break the protocol; an earlier
`Deaths` had left these out. `blamed`, `heard` and `read` in an entry are history: what really
happened, beside what the ledger recorded.

A cap is an instant, minted once (`expiresAt`); a follow-up takes the nearer of it
and its own. Left out: entry sizes, timings and texts, the reasons a follow-up is
not attempted (too little reasoning, no room), which is why `GiveUp` is open
wherever `Salvage` is.

### HttpExchange

State: `left` is what each of the four timers has still to run (`firstByteTimer`,
`totalTimer`, `idleTimer` of `http.mjs`, and `collectStream`'s `semantic` one, whose
budget is `naming`); `aborted`, `received` and `idleMs` are fields of `send`'s
`state`, `expired` is `collectStream`'s; `sock` is the connection, `buffer` the events
of the chunk being read, `answer` the accumulator, `phase` who is being awaited
(`sent` is "not `state.settled`"). `age`, `heard`, `cut` and `lastWord` are history:
time since `send`, whether headers came, whether the *peer* broke the connection, and
how the server last said generation stood.

Grain: an action is one callback of the event loop with the microtasks after it. So
the events of one chunk are folded in with no timer between them (`Frame`, `Done`,
`Junk` while `buffer` is not empty), a destroyed socket reports back in a callback of
its own (`Lost`), and callbacks due together come in *any* order, Node's own order
being approximate (http-budgets.mjs:49-53). Timers are urgent: `Tick` waits for every
timer that is due. After a claim, `closing` is the await of the generators' `return`,
in which a timer may run (stream-collect.mjs:103-109).

A frame is what the reader tells apart: text that is absent, blank, reasoning or
content; a stated error or none; how it says generation ends; `choices` or not. The
server may answer, stall, trickle, cut and lie at any point; a connection error
before headers is transient or not, a body may break with or without the request's
own error handler running (the two Node lines http.mjs:117-129 describes).
`BodyRead` says `answer` for a control-plane document whose content is its caller's
business. Left out: sizes in characters (a document is so many chunks), messages,
usage, the bytes of an event. `MaxText` is where the count of texts saturates
(`OneMore`): a stream may go on for ever.

`OneReply` is the same request with no timers, sockets or parsers: it hears headers,
speaks, a budget elapses (and before anybody is told another may), the reader makes its
one claim, and it ends once, with nothing held, for the cause that precedence names: the
claim, else the budget, else what the server or the peer did. In `HttpExchangeReply`
text has come when `naming` is the idle budget; of `aborted` only the elapsed budgets
count, since it also holds the reset of a broken connection; held is what is under way,
armed or open.

### SseParser and FindingsReading

Both are behaviours of one text. `SseParser` has the parser's `buffer`, `data` and
`events` and cuts the text into chunks at every place, also inside a CR LF; a symbol is
a field name with its colon, a line end, `[DONE]` or any other character. `Scan` is
`scanLines` to its end, `End` what `createSseParser` does when the stream closes.
`Reference` reads the finished text by line ends and empty lines, with none of the
parser's state; `AtOnce` is the parser given the whole text in one chunk.
`FindingsReading` has a channel as a sequence of blocks, the pieces its
readers tell apart: prose, an odd quote, brackets that are no list, `findings: []`,
JSON and YAML lists with what their elements are. Its two actions are the two results,
findings or the text shown as it is.

### ProviderConfig, ModelChoice, ReviewTarget

Each is one process against a world that moves between any two of its steps, bounded by
`MaxOthers`, `MaxChanges` and `MaxEdits`. `ProviderConfig`: the file is absent, dangling
or one of `Contents`; the check and the exclusive write are two steps, and up to three
lost creations are read again. `ModelChoice`: `step` is the next probe, `woken` the
requests that a gateway routed while one of its sessions slept; a window is named after the model that
stated it, so that a wrong join shows. `ReviewTarget`: trees, index and disk map paths to
contents; each git call and each file read is a step of its own, a branch may move and a
file change between them. `tip` is the commit that was resolved to an id.

### ReviewSizing

Numbers are the code's own: characters and tokens as integers, 3.4 characters a token,
the conservative count at a wide character's bytes. An enforced schema is sized once, a
described one at its widest and then again with the cap that came of it
(`unconstrainedLadder`); the server may reject the format or state a lower budget once.

### ReviewPasses and ReviewRun

A pass is findings, prose, a cut or empty reply, or an error with or without a request
sent, with the model that served it and the notes that qualify it. `told` is the end of
the run: findings, a text shown as it is, or a failure, each with the notes its text and
its JSON carry. `runMultiPass` plans, prepares and sends each pass on its own, with its
lens in the text, its own rung, its own reply budget and its own format, so a pass takes
any member of `plan.requests`, the notes of the requests that may be sent. What the
passes share, the target and whether the window is known, is what bounds them.
`ReviewRun` runs the stages in the order of `reviewFlow`. Each stage
hands on only what the next ones use (`known`) and forgets the rest, as the code's
values go out of scope, so that the stages' states add up and do not multiply; a window
that is known may then be any of `Windows`. From a model it goes one of two ways: one
request is followed through the ladder, a refused schema and a stated lower budget
(`Size`, `Fit`), or the passes are run (`Ask`, `Review`) with the requests
`RequestNotes` admits. `RequestIsAdmitted` is what joins the two: no sizing comes to a
request that the passes were not given. Which of the admitted ones two passes of one
run are given is open, so the run has pairs that no pair of lenses would produce, and
lacks none. What a pass reports is open in
`ReviewPasses`, and the two readers of a reply are separate behaviours of the same run:
`ReviewRun` therefore does not show that a given reply's text leads to a given report.
Left out: wording, progress, `--json` field by field.

### JobStore, JobAuth, JobHandoff

A change to the database is two steps, taking SQLite's write lock and committing, with
a death between them rolling back. `seen` is the `user_version` as it was read *before*
the lock. A process that finds the lock held starts again from the directories, up to
`MaxRetries` times. `Look` and `ReadOnly` are `openStoreForReading`. A stamp by the newer
build brings an older table to its shape. `JobAuth` has three versions of a row, as three
builds wrote them, an endpoint as base and query, and the file edited between submission
and run. The initial states of `JobHandoff` are those of either, or of `QueueTable`, with
the others idle: nothing of the opening bears on a row's content, nor that on whose turn
it is. Each part stands still while another moves, and each is proved separately.

### SweepReading and Sweep

The ledger is a sequence of newlines and what stands between them; `WriteFails` leaves
nothing or a part of the line, `Dies` may leave a part of the one being written, and a
gap line follows an entry that was lost. Recovery is a function of the files, asked in
every state: it changes nothing that the sweep reads. `wrote` and `traced` are history.
The child process is an input, one of `Replies`.

## 3. Runs

| run | instance | question |
|---|---|---|
| `JobQueueCore` | 2 jobs, 1 reader, everything that can happen to the older one | one call at a time, in submission order; living workers are spared, cancellations confirmed, answers kept; is it a `CallSlot`? |
| `JobQueueLive` | 2 jobs whose workers may die, the later a newer build's, `FairWorkers` | does a waiter get out of waiting without a reader's help; is every submission settled where somebody keeps looking; is the newer row left alone? |
| `JobQueueCancelRace` | 1 job, 2 readers | *violated*: see below |
| `Retention` | 2 rows, one foreign, 2 submissions of which one keeps coming, RETAIN 0 | is anything removed that is needed, and do leaked files go away? |
| `AnswerRetry` | 2 attempts, cap 2, pause 2, follow-up cap 1, all deaths | does the cap bound everything, is the record true, one answer, nothing offered twice, and does it end? |
| `HttpExchange` | 7 requests, 8 frames, 2 events a chunk, texts counted to 2 | is it a `OneReply`, is its end one the retries know, is silence bounded, no half answer given, and does it end unless uncapped text keeps coming? |
| `HttpExchangeTie` | the same, 1 event a chunk | *violated*: see below |
| `ReviewRun` | see below | chunks, reading, configuration, discovery, the target's promise, room, what narrows a request, what is told, agreement |
| `ReviewDiffAlone` | the same | *violated*: see below |
| `JobHandoff` | 3 processes of 2 builds, 1 retry; rows of 3 versions, 1 edit; every table of 2 rows, and of 3 whose clocks are in order | is a handle sound, is what is sent authorised, is what abandon offers and says so, and what status displays, blames and shows? |
| `Sweep` | 5 commits, 3 touching code within reach, 2 faults, abort after 2 | recovery, health, the night, its reproduction |
| `SweepUncounted` | the same | *violated*: see below |

`AnswerRetry`: a pause as long as the cap makes every retry race it; requests of 0
or 1 ticks let the cap fall due before, in and after one. Its fairness is that a step that can be taken is taken: each phase of a
request is under a timer (http-budgets.mjs), and the retry's delay keeps the process up
(answer-attempts.mjs:48), which the mutant `UnrefdDelay` undoes.

`HttpExchange`: a first-byte budget of 2 ticks with caps of 0 (none) to 3 puts the cap
before, at and after it; an idle budget of 1 falls due with either, and
one of 2 (without a cap) is one a server that is never silent could keep from falling
due if any event counted as progress. The control-plane
request has both its budgets equal, as `fetchModels` has. Two events a chunk put one
behind a claim, a refusal or `[DONE]`; counting to 2 crosses the reserve cutoff of 2 and
tells text on one channel from text on both. Without `--max-seconds` a model that keeps
emitting text is unbounded by design (http.mjs:38-42), and is so in the run:
`ExchangeEnds` says that a request ends, or has no cap and its stream emits text again
and again; every other trickle, silence or cut ends it. Fairness: time passes and timers run however busy the
socket is (strong fairness, since each chunk may disable them for a moment),
microtasks finish, and a destroyed socket closes. The server is owed nothing.
Deadlock checking is off because a request that is over stops.

`ReviewRun`: streams of up to six symbols hold two events, or one of two values, with a
CR LF cut in half and `[DONE]` among them; replies of three blocks put a draft before and
prose after the list that was meant. Two paths let one file be right and another wrong,
one edit falls between any two reads. Windows are unknown, no larger than
`REVIEW_MIN_TOKENS`, around one diff and ample; `--max-tokens` is absent, one below and
one at the least a review can hold, and the most; texts lie on both sides of each limit,
51000 characters between a reply of 3912 and one of 4096 tokens, 47600 where only the
conservative count refuses. Every set of notes in `RequestNotes` is that of some request
of the run. Two passes are enough
for one to be merged with, to contradict or to be narrowed unlike another; proofs cover
any number. The run has some eight million states and takes about two minutes.

`JobHandoff`: two processes of this build and one of a newer: two create at once, and
either build meets the other's. One retry lets a process start over, none of the
properties needs it to succeed. The endpoints are two tenants of one gateway and one of
them with a query: they share an origin, or a base, and not the rest.

`Sweep`: two failed writes tear a line and lose its gap line too; two outages reach the
threshold with a third commit left to skip. A rival's ledger has the header of the same
provider and an entry. The other night's header agrees on one soft axis and lacks
another, as one written before the envelope grew.

The first violated property. job-reconcile.mjs:85-89 and job-record.mjs:233-236 say a
job the user asked to cancel ends as `cancelled`. `reconcileAll` decides by the row
it listed; a cancellation recorded between the listing and the write is not seen,
and the row ends as failed with a request to cancel on it. `JobQueueCancelRace`
shows it in nine steps.

The second. http-budgets.mjs:54-56 says a cap due no later than the
first-byte budget subsumes it, so that who sets both alike hears of the cap. That is
so until headers: after them `postChat` (chat.mjs:222) arms the first-token timer for
the rest of `--timeout` with no regard to the cap, the two are due together, and when
both have run it is the reader's claim that is reported. `HttpExchangeTie` shows it
with headers at once and silence after.

The third. review-ladder.mjs:14 says whole changed files are sent if they fit the window
and the diff alone if they do not. In a window no larger than `REVIEW_MIN_TOKENS` (4096)
a request whose whole files leave less than half the window has its reserve raised to
that least, which is the window itself, and is refused for its reply length, not as
oversize; `prepareLadder` tries the diff alone only after an oversize, so the review is
refused although the diff alone would fit. `ReviewDiffAlone` shows it.

The fourth. A settled entry is on disk before the loop counts it, so a sweep killed in
between leaves one outage more than was counted, and its recovered streak can imply a
stop that was never decided. sweep-health.mjs:59-63 says so, "which is why a recovered
record renders the incomplete-timeline warning". But `timelineComplete` is derived from
coverage alone (recover-sweep.mjs:153): when the outage is that of the last commit the
loop could have attempted, nothing is missing and no warning is rendered.
`SweepUncounted` shows it. `HealthIsTrue` therefore does not promise it: it holds the
counter against the replay at every step, the step between entry and count and a death
there set apart, and a recovery with no warning against the replay of what settled.

Proving `RoomIsLeft` showed a narrower edge: with `--max-tokens` between 3912 and 4095
the conservative count is blamed by whether a typical count would have left 4096 tokens,
not the fewer that were asked for. The property says so; no text of the repository
promises otherwise.

Bounds. Two jobs are enough for two callers to collide and for one to overtake the
other; that no number of jobs makes a difference is what the proofs are for. Three
rows of a table let one be passed over between two others. One reader is enough for a stale
listing, and two for one reader to act between another's listing and its write. RETAIN is
50 in the code; 0 lets the same DELETE prune the one finished row of this build with two
rows, and leaves its `OFFSET` uncounted. `Mortal`, `Recyclable`
and `Abandonable` bound who may die, be impersonated or be written off; the
proofs have no such bounds.

Deadlock checking is off where the system may stop: when every job is settled and
nobody runs a command, or a review, a handoff or a night is over. `Retention` and
`AnswerRetry` keep it on: submissions may always begin, and a command that has ended
says so for ever.

Fairness. `WorkerFairness`: a live process is scheduled, its model call returns
(submission always sets a run cap, task-submit.mjs:246-249), and an attempt that
is repeated every poll is not refused by contention for ever (strong fairness of
`TryAcquire`). `WaiterResolves` needs nothing else. `ReaderFairness` is somebody
running `/oai:status` again and again and now and then letting it finish, a hypothesis
of `EverySubmissionSettles` alone; without
it a row whose worker died with nobody behind it stays active, as the code
intends. That property is of this build's rows. `SweepFairness`: the sessions in
`Regular`, not all of them, keep submitting, now and then sweep to the end, and a
file that can be unlinked at all is unlinked at some attempt. `ReviewRun`, `JobHandoff` and
`Sweep` have safety properties only and assume no fairness.

## 4. Proofs

TLAPS checks these for every value of the constants, from the named assumptions of
the modules, which TLC evaluates in the runs.

* `JobQueueInvariant`: `Spec => []IInv`, from `JobAssumption` (sequence numbers are
  positive naturals). `OneCall` is not inductive. That nobody
  owns the slot beside a running row is `OneOwner`; it survives `TryAcquire`
  because `RowMatchesWorker` ties a running row to a process that is either alive,
  so its pid answers and it blocks, or gone. A reader's write is the hard step,
  because its guard was evaluated on an old row: `ListingsAge` says what cannot
  have changed since (a cancellation stays asked for; a row listed as queued and
  cancelled is not started later), and the compare-and-set of `abandonUnstarted`
  does the rest. `InOrder` is needed for the queue order only. The verdict
  properties are conjuncts of the invariant, job by job (`JobInv`), so each action
  is one step with one case for the job it moves and one for the others.
* `OneCallAlways`, `VerdictsAreTrue`, `LivingAreSpared`, `CancellationsAreConfirmed`,
  `AnswersAreKept` and `TypeCorrect` follow from it; `NewerRowsAreLeft` from it and
  `ForeignAssumption` (the newer build's rows are among the jobs), by what is known of
  a terminal row.
* `VerdictsAreFinal` and `NobodyOvertakes` are action properties proved from the
  same invariant.
* `QueueImplementsSlot`: `Spec => Slot!SlotSpec`, one lemma per action saying
  which abstract step it is, or that it is a stutter. A `TryAcquire` that finds the
  front of the queue is `Start`; one that only collects is `Recover`.
* `SweepInvariant`, `SweepsTakeOrphansOnly`, `ProofsOutliveQuestions`,
  `AbandonedAnswersSurvive`, from `RetentionAssumption`: what a
  submission holds as `names` was inserted, so what is missing from a *later* read
  of the rows was pruned, and a pruned row is never present again.
* `AnswerInvariant`: `Spec => []IInv` of `AnswerRetry`, from `AttemptsAssumption` and
  `TimeAssumption`. None of the properties is inductive alone. `RefusedWasReplaced`
  needs that a refusal still pending is the *last* entry and names something the
  call under way no longer offers (`LedgerInv`, `OffersInv`); `NeverReoffered` that
  everything an entry was refused for is remembered in `Gone`; `CapBoundsAll` that
  every deadline lies in `1 .. Cap` (`CauseInv`); `RequestsBounded` a measure of the
  requests still payable (`WorkInv`): attempts of this call, calls that may follow,
  follow-ups and rungs, with every action spending what it uses.
* `RequestsAreBounded` (at most `3 * MaxAttempts + 4` requests), `CapIsKept`,
  `LedgerIsTrue`, `OneAnswerStands`, `NothingIsReoffered`, `RecordIsAlwaysTrue` and
  `CauseIsAlwaysNamed` follow.
* `ExchangeInvariant`: `Spec => []IInv` of `HttpExchange`, from `RequestsAssumption`,
  `LimitsAssumption` and `FramesAssumption`. `BoundedSilence` needs `TimerInv`: what a
  timer has left and the age of the request always add up to its budget, and the
  first-token timer's to at most one tick more. `CauseIsTrue` and `HeardIsTrue` need
  `CauseInv`: who has ended the request so far, and that a destroyed socket always
  has a reason on record before its reset comes back. `NoHalfAnswer` needs `WordInv`,
  which holds the accumulator against the order in which the server spoke. Every
  ending is an instance of the lemma `Ends`, which asks that what the caller is given
  be `Truthful`; every other step of `GoesOn`.
* `NothingIsLeft`, `CauseIsAlwaysTrue`, `SilenceIsBounded`, `NoAnswerIsHalf`,
  `TiesAreDecided` follow.
* `ExchangeImplementsReply`: `Spec => Reply!ReplySpec`, one lemma per kind of callback
  saying which step of `OneReply` it is, or that it is a stutter. Beside `IInv` it needs
  `TextInv`: when the reader counts text as come, that the first-byte timer is off by
  then, so that a request that has spoken cannot time out as one that has not, that no
  timer is left in the await after a claim, and that the peer's cut ends a request. A
  reset that our own destroy provokes comes back as `Ends` with the budget or the claim
  that was first (`LostMaps`), never as the connection's fault.
* `EveryEndIsAdmitted` and `ReplyEndsOnce` are proved of `OneReply` (`ReplyInv`) and hold
  of `HttpExchange` because it implements it. The first is what `AnswerRetry` rests on:
  its theorems are about requests that end in `Deaths`, with a reply or a refusal, and no
  request ends otherwise. It also settles what a comment of attempt-outcome.mjs only
  argues, that every site which can fail after headers says that the server answered.
* `CredentialsStayHome`, from `EndpointAssumption` (an endpoint is its base and its
  query; providers and options name endpoints): the row is what its profile authorised
  under its version, and the profile belongs to the request and to a file read before,
  so that a worker's comparison of base, query and source leaves only what the
  submission would have sent.
* `HandlesAreAlwaysSound`, from `ProcessesAssumption`: how far each process has come
  says what the database already is (WAL, a table, a version), and no step takes any of
  it back, because whoever commits holds the lock. A newer plugin's database stays at
  its version since nobody of this build gets past `TooNew`.
* `RoomIsAlwaysLeft`, from `SizingAssumption`: a sized request is what
  `prepareLadder` makes of the job and of the cap it now states (`SizeInv`), whichever of
  the sizings came last, and linear arithmetic over one request (`RequestFacts`) and over
  the two rungs (`LadderFacts`) says what that leaves.
* `RequestIsAlwaysAdmitted`, from the same: a request has what its rung left out and what
  was cut of its reply (`LadderNarrows`), and in a window that nothing could size nothing
  is cut (`UnsizedCutsNothing`).
* `NothingIsConcealed` and `AgreementIsAlwaysTrue`, from `PassesAssumption`: the passes
  are well formed, each recorded one is narrowed as one of the run's requests, and what is
  told is a function of them that later steps leave alone (`PassesInv`). A pass whose
  findings are shown is readable, so its notes are in the union. `runCauses` names the
  first recorded skip for all of them, which loses none because the requests of a run are
  `Alike`: the window was unsized for all or for none, so the two skips never meet
  (`SameSkip`, `RunCausesAre`). On that also rests that a line need not mention the
  window: a readable pass has said it. The worst of
  the worst of each voter is the worst of all.
* `PromiseIsAlwaysKept`, from `RepositoriesAssumption` (a repository is its trees, HEAD,
  index and disk), for any number of paths and of changes made meanwhile. As long as
  nothing a target is read from has moved (`Still`; a commit never does), what was listed
  is the change under review and each path of it is to be read, known unreadable, or held
  in its version (`Reading`); untracked files are disjoint from it by the index
  (`Gathering`), except where git says that a file is gone, which `ClaimsWhole` refuses.

* `AbandonIsAlwaysReliable`, `StatusIsAlwaysHonest`, from
  `SeqsAssumption` (sequence numbers are positive naturals), for tables of any size: they
  are of `TableSpec`, which the specification the run checks implements (`TableIsATable`).
  The type of a table is all the invariant they need: what they say is about
  the rules, of any table. That draining ends with a row that takes the slot needs a least
  waiting row, which the well-foundedness of the naturals gives; that no wait is shown
  without its cause, a lemma for each place the cause can be.
* `ConfigIsAlwaysHonoured`, from `ContentsAssumption` (where somebody put a file there
  is one): what was read is held against the file it was read from, which others may
  have replaced since.
* `NightInvariant`: `Spec => []IInv` of `Sweep`, from `SweepAssumption` (the history is a
  sequence of commits with names of their own, the abort threshold is positive, and a reply
  is of one of the three kinds the bench can receive). What is settled is right (`SettledInv`); the
  loop's counter and its replay agree up to the commit being written, also in death (`CounterInv`);
  and the file is a newline and a piece in turn, each piece the header, an entry that was
  settled, the trace of a lost one, or a fragment (`FileInv`), which is what a write that
  is torn before its first byte, within it or after it leaves behind. Replaying a night
  and reading a ledger are recursive functions over a list; the lemmas about them are
  proved by induction, in set form: a set of naturals that holds 0 and each successor
  is all of them, because the rest would have a least member.
* `RecoveryIsAlwaysTrue`, `HealthIsAlwaysTrue`, `NightIsAlwaysTrue`,
  `ReproductionIsAlwaysTrue` follow, for a history, replies and failed writes of any
  number and wherever the sweep is killed.

* `DiscoveryIsAlwaysSound`, from `ServersAssumption` (a server lists models and holds some
  of them), for any number of models, of servers that change meanwhile and of probes that
  fail. The invariant says of a description what a run may conclude from it: what its
  records type, whatever was loaded since (`Describes`, `Publishes`, `Confirms`), and what
  they say of the memory of a server that has held still (`Holds`). A merge of sincere
  records is such a description (`JoinIs`, `MergeDescribes`), each dialect reads sincerely,
  and a choice made of such a description is true (`AutoPicks`, `ChoosesTruly`). Nothing that
  sleeps is woken because `HealthInv` ties the query and the probes to what /health said.

* `ReadingIsAlwaysTrue`, from `ReadingAssumption` (what a block is), for replies of any
  number of blocks. The outcome is a function of two texts that no longer change
  (`ReadInv`); the rest is about the readers. A list with nothing in it is found only
  where the reply is nothing else, or opens with it and offers nothing below
  (`EmptyIsAll`); the last list that names a finding is the last candidate
  (`LastNamedIsFound`).
* `ChunksNeverMatter`, for streams of any length and symbols. The invariant is that the
  parser is where `Scan` takes all that has arrived (`StreamInv`). Its first half rests on
  `TwoChunks`: a line that has ended stays where it is when more arrives, which is what the
  held-back CR is for (`LineStays`); so a run of the parser over a buffer is one over a
  longer buffer too (`RunStays`), runs join, and two that reach the end are one
  (`RunsAgree`). `Scan` is a recursive function, so that there is one, and that it runs to
  the end of the buffer, are inductions in set form (`StepsExist`, `ScanRuns`).
  The second half holds the parser against the format, place by place: between two lines
  it stands at a place of the whole text (`Standing`) where it has the open event's values
  and has handed on the payloads of the events that ended before (`ReadTo`). The line it
  takes is the next one of the text (`LineInText`), which leads from place to place
  (`LineReadTo`, `EventReadTo`); the chunk's end is no place, and what is behind the last one
  is the end of the text (`EndReadTo`). What is handed on up to a place comes first of all
  that is (`HandedFirst`).

Proved and not the property of any run, since each supports one that is: the inductive
invariants, `HeardIsTrue`, `TieIsDecided`, `CauseIsTrue`, `NothingLeft`, `EndsOnce`,
`RefusedWasReplaced`, `CauseIsNamed`, `RequestsBounded`, `NothingSent`. `CauseIsTrue` and
`NothingLeft` say of the end what `ImplementsReply` says of every step.

Only model-checked: the liveness properties (`WaiterResolves`, `EverySubmissionSettles`,
`OrphansAreCollected`, `ExchangeEnds`, `CommandEnds`), since the prover has no ENABLED. Every
invariant of a run, and every action property, is stated by a theorem.

## 5. What is left out, and the plan

Built: the background queue with its refinement, the tables, retention, the job store
and what a row authorises, the answer with its retries, ladders and ledger, the request
under it, the stream under that, the review from its configuration to its report, and
the overnight sweep.

Not modelled, and why:

* `applySchema` reads the version before it takes the write lock (job-store.mjs:206).
  `JobStore` does so too, and `JobHandoff` lets both builds create one database at once,
  after which this build's stamp can stand over the newer build's shape. Nothing in the
  repository says what should come of that, so no property speaks of it.
* The case benchmark and the residency experiment, for the reasons in the inventory.
* Job rendering, progress and every report's layout: no state changes there.
* Argument parsing, prompt files, sampling presets, the foreground task, setup's report.
* Decoding of bytes, usage and model names of a stream; log writes that fail.
* Deleting `jobs.db` and keeping the logs, after which sequence numbers begin again.

The plan is carried out. One bound is left unstated: each pass of a review has a plan
and a ledger of its own (cmd-review.mjs:300), so n passes send at most n times what
`RequestsAreBounded` allows; no module counts requests over passes.
