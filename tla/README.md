# Verification of secureRAGapp

secureRAGapp answers questions from documents of three tiers (public, internal,
restricted). The claim it is built around is a trust claim: text that anyone
with a password can put into the index answers nobody until an approver has
signed off that very text. This directory models the code that keeps, or tries
to keep, that claim, checks it with TLC on small instances and proves the most
important parts with TLAPS for instances of every size.

Paths below are relative to `src/`; line numbers are those of `PROJECT.json`,
whose `map` names the code each definition stands for.

## 1. The system

One process: FastAPI, whose synchronous handlers run on a pool of threads, and
one background task that pulls from the ticket system every
`CONNECTOR_SYNC_SECONDS`. State survives a restart in the Chroma database and
in the directories `data/documents/`, `data/uploads/` and `data/quarantine/`;
everything else (rate windows, chat sessions, verification caches) is in memory.

| component | state | operations | interacts through |
|---|---|---|---|
| document index (`app/vectorstore.py`) | one collection per tier: chunks with source, hash, origin, review metadata | add, delete, mark reviewed, reject, list pending, reassemble | `_CLIENT_LOCK`, one acquisition per operation |
| upload and sweep (`app/ingest.py`) | upload and document files | `store_upload`, `ingest_tier` (list, read, delete, add, retract) | files, index |
| review (`app/main.py`) | quarantine directory; the hash an approver holds | read document, approve, reject, quarantine | index, files; a human between two requests |
| connector (`app/ingest.py`, `app/connectors/tickets.py`) | none of its own; a fetched list | `sync_connector`, background loop | upstream over HTTP, index |
| embedding model check (`app/vectorstore.py`) | metadata cache of the large file | `verify_embedding_model` | model files on disk |
| generator pin (`app/rag_chain.py`) | time of the last check | `check_model_pin` | the model server |
| retrieval (`app/retriever.py`) | none | tier-scoped query, trust split | index |
| answer pipeline (`app/rag_chain.py`) | none; holds a generation slot | screen, ground, trust, refuse, generate, finalise | retrieval, filters, slots |
| agent loop (`app/agent.py`) | rounds, spent queries, evidence | retrieve tool, mediation, final answer | retrieval, filters, slots |
| resource limits (`app/limits.py`) | rate windows `_HITS`, semaphore | `_allow`, `_caller`, `generation_slot`, body guard | every endpoint |
| chat sessions (`app/chat.py`) | sessions and turns | create, get, append, as_messages | `/chat` handlers |
| accounts (`app/auth.py`) | the table of users, read once per process; tokens are with the clients | authenticate, issue and verify tokens | every endpoint |
| text filters (`app/filters/`) | registered secrets and prompts, the cached spans of the prompts | validate, scan, redact | pipeline, agent |
| sealing (`app/crypto.py`, `app/vectorstore.py`) | the marker `enc` of each record | seal on add, open on read, re-index what is in the clear | index, connector |

Hard behaviour, by component:

* **index, upload, sweep, review.** `_index` deletes and adds under two
  acquisitions of the lock; `review_document` reads text and hash under two;
  `review_reject` drops chunks and moves a file in two steps; a sweep diffs the
  index at its end with a listing from its start. Any other call can run in each
  gap, and the process can stop there. A human sits between reading and
  deciding.
* **connector.** A fetch is stale from the moment it returns; a manual
  `POST /ingest` overlaps with the background loop; a record can move between
  tiers; a failure between delete and add must be repaired by the next run.
* **model check and generator pin.** A check whose cached state is written before
  the comparison it guards.
* **limits.** Fixed windows, a cap on keys, a semaphore released on every path.
* **accounts.** A token outlives the table of users it was issued from, over a restart
  with another table or key; it may expire between its check and the metering.
* **filters.** A cache that the first checks of a process fill together, without a
  lock; an embedding model that may fail at any of several calls.
* **sealing.** Records of two generations side by side, and text that looks sealed.
* **chat.** Sessions evicted while a request still holds them; turns appended by
  concurrent requests.
* **pipeline and agent.** The order of filters, and what each early return skips.

What makes each of them correct:

* **index, upload, sweep, review.** Only a sign-off of exactly a version makes that
  version answerable; chunks that agree on a hash are a whole document; a sweep
  that nothing disturbs leaves the index equal to the directory.
* **connector.** The index follows upstream in the end, whatever failed in between;
  no record is ever in a tier upstream did not put it in; an approval of an
  unchanged record survives.
* **model check and generator pin.** A swapped file or a moved tag is noticed by the
  next check that is due.
* **answer pipeline and agent.** An answer rests on trusted, readable, clean
  documents and states nothing they do not state; its cost is bounded; it comes.
* **limits.** No slot is lost or given twice; a window admits no more than its limit.
* **chat.** Turns of one account reach only that account, in order, the latest ones.
* **accounts.** What an accepted token permits was granted to its account at most a
  token's lifetime ago; logins are metered, refused ones included.
* **filters.** What is served was examined, whatever failed; the cache ends up whole,
  and a quote of a prompt is missed only while it is being filled; windows that
  overlap hide no match at a seam.
* **sealing.** What is written is read back, whatever it looks like; what was stored in
  the clear is sealed in the end, even if upstream never touches it again.

`PROJECT.json` lists the hazards at their lines, with the properties that
would catch each.


## 2. Modules

| module | what it is |
|---|---|
| `ChunkStore` | operators of one tier's collection: the rows, the reads and the writes of `vectorstore.py` |
| `TrustGate` | the abstract gate: a sign-off makes answerable, everything else only withdraws |
| `ReviewGate` | uploads, the sweep and review as concurrent calls over `ChunkStore`; implements `TrustGate` |
| `ConnectorSync` | the background loop and manual syncs over a `ChunkStore` per tier; implements `TrustGate` |
| `ModelIntegrity` | concurrent runs of `verify_embedding_model` while its files change |
| `Slots` | the constants `Generation` and `Egress` share: the requests and the slots |
| `Generation` | generation slots, the generator pin and its timed recheck |
| `Sealing` | the stored form of a chunk: what is sealed, how it is opened, what a decision rewrites |
| `Admission` | accounts, tokens and rate windows: who is let in and how often |
| `Egress` | the last check of an answer, as the threads that hold a slot run it |
| `AnswerChecks` | the text algorithms of the answer checks: figures, numerals, claims |
| `ReviewQueue` | the advisory scan of a document, its record in the index, the queue an approver pages through |
| `Spans` | overlapping spans: chunks of a document, windows of an answer |
| `Answers` | a question on its way through the pipeline or the agent, while the index changes |
| `Chat` | conversations: the table of sessions, lists of turns, replays beside appends |
| `MC...` | instances of each for TLC; one `.cfg` per run |
| `...Proofs` | the theorems about each; lemmas on the store are in `ChunkStoreProofs`, `SlotProofs` is about `Generation` and `Egress`, `ReviewGateProofs` also about `ReviewQueue`, `ConnectorSyncProofs` about `Sealing`, `AnswersProofs` about `Spans` |

`ReviewGate` and `ConnectorSync` are two concrete designs of one abstract
specification, and inherit what `GateSafe` says of it: answers come from versions that
were signed off, and from one version of a source. `Answers` takes from them what any review, upload or sync can do to a
document; the slot around a question is the subject of `Generation`, the
conversation around it that of `Chat`; `Admission` stands before it and `Egress`
behind it. `Sealing`, `AnswerChecks`, `ReviewQueue` and `Spans` have no state: they are operators with
what they promise, which the MC modules that extend them assert over bounded inputs.

### ChunkStore

A row is one chunk: source, index, the text of the version it was cut from,
origin, `reviewed` (absent, false, true) and `signed` (`reviewed_hash`). A
version is a member of `Texts` and stands for its own `content_hash`: sha256 is
taken to be injective. `NumChunks` says how many chunks `chunk_text` makes of a
version; zero is a blank document. Chunk ids are the pair of source and index.

`Overwrite` is the one thing about Chroma that matters and that this repository
does not say: an upsert over an existing id merges the metadata, so keys the new
record does not name keep their values. That is what the pinned release does
(`requirements.txt:4`, chromadb 1.5.9). No writer names `reviewed_hash`, and a sweep
does not name `reviewed` either; section 6 says what follows.

### ReviewGate

One action is one critical section under `_CLIENT_LOCK`, or the file operations between
two of them that no other call can tell apart (making a directory and writing into it,
testing for a directory and listing it, testing a destination and taking its mtime).
Calls are records with a program counter (`up`, `sw`, `ap`), one per concurrent
call. `UploadWrite` / `UploadDelete` / `UploadAdd` are `store_upload`.
`SweepList`, `SweepRead`, `SweepSkip`, `SweepDelete`, `SweepAdd`, `SweepDiff`,
`SweepRetract`, `SweepDone` are `ingest_tier` run over `data/documents/` and then
over `data/uploads/`; `SweepNothing` is its early return when there is no directory.
`ReviewText`, `ReviewRevision`, `Approve`, `Reject`, `DecisionRefused` are the three
review endpoints, and `QuarantineFile`, `QuarantinePlace`, `QuarantineMove` the steps of
`quarantine_upload`, which no lock holds together: is there a file, where does it go, and
the move of whatever is there by then over whatever is there by then. The `*Fail`
actions end a call where it stands (an exception, a disconnected approver) and
`Restart` ends them all; store and files survive. `HostEdit` is the operator
editing `data/documents/`, `HostRemove` the loss of a directory with all it holds;
`dirs` says which directories exist.

`signoffs`, `moves`, `crossed`, `overtaken` and `calm` are history variables: what each
approval named and what had been shown for it, what each quarantine moved, the uploads
that two rejections were moving at once, the sweeps whose source was approved between
their delete and their add, and whether a sweep ran undisturbed. No guard reads them.

Abstractions: one tier (source names embed the tier, and collections and
directories are per tier, so tiers do not interact here); a file write or read is
atomic; a version stands for the mtime of its file too, so two files of one name that
are rejected with the same content get the same suffix; the order in which a sweep visits files is any order; a file that
`_read_document` refuses (suffix, size, encoding) is one the sweep does not list
(the code then leaves it out of `seen`, so its chunks are retracted, as in the
model); validation of names and tiers happens before any state changes and is
left out. Which chunk a reader of `source_text` sees in which place is left out,
only the versions shown are kept.

### ConnectorSync

`upstream` is the ticket system, external: `UpstreamEdit` files, edits,
re-classifies or deletes a record. `SyncFetch` is the fetch with the mapping of
`_to_document` (records with an unknown ACL are dropped). For each tier in the order
of `TIERS`, `SyncDiff` is the one look at the index, `SyncDelete` a deletion,
`SyncReplace` and `SyncAdd` the two halves of `_index`, `SyncNextTier` and
`SyncDone` the end of a tier and of the sync. `SyncFail` and `Restart` stop it
anywhere. `indexed_state` returns one hash per source, that of the chunk it reads
last, so for a source whose chunks disagree the model takes the hash of any of
them (`SeenHashes`). `Approve` and `Reject` are decisions bound to a hash; how the
approver came by the hash is in `ReviewGate`.

`plain` holds, per tier, the tickets whose records have no `enc` marker. The program
writes none; `Init` begins with any records that a version before encryption may have
indexed for the tickets in `Legacy`. `indexed_state` answers `_NEEDS_REINDEX` for them,
so the next sync that wants them replaces them by sealed records, and takes away an
approval they may have been given in between. A source is in the clear as a whole:
every write deletes the source first.

`published` (what upstream ever said) and the field `since` of a sync (how many events
there had been when it fetched) are history. Left out: the compaction of the
database file after a sync that changed something (section 6).

### Sealing

`Encrypt` makes a ciphertext, a value of its own that holds its plaintext; `Decrypt`
opens those and raises for anything else, including words that merely begin with the
prefix (`LookAlikes`). `Seal` is what `add_chunks` stores, `Unsealed` a record from
before encryption, `Read` what a reader gets (the marker decides) and `Decide` the
rewrite of the metadata by `mark_reviewed`. The cipher itself (HMAC-SHA256 in counter
mode, encrypt-then-MAC), its nonces and a change of the key are left out.

### Admission

`users` is `_USERS`, seeded from any `DEMO_USERS` over `Entries` (`SeededUser`: a
missing role is the default one, an entry with an unknown clearance or role is
skipped). `tokens` is what clients hold. `hits` is `_HITS`: a window per bucket and
caller, as its age and count. `RateLimit` is the dependency of an endpoint: `_caller`
(the account of a valid token, the address otherwise; a token verified for the endpoint
may expire before it is verified again for this) and `_allow` (purge over the cap,
refusal if that did not help, count). `Login`, `LoginRefused` and `Call` are the
endpoints, `Discard` a client that drops a token, `Restart` a restart with any table
and key; `Tick` is time. Ages are cut off where no guard distinguishes them. `granted`,
`watch` and `fullAge` are observers. TIERS and ROLES are constants here, so the check
of a token against them always passes. Left out: the body guard and the test of the key
length at the start, which keep no state, passwords beyond right and wrong, and the
insecure mode.

### Egress

An answer is a record of what the checks tell apart: shapes of credentials, secrets
and quotes in a form (plain, spelled, coded, or a cipher nothing undoes), how near each
window and sentence is to the prompts, personal data, markup. `Submit` to `Apply` are
the steps of `apply` in its order. `GramsAssign`, `GramsLoad` and `GramsStore` are the
three steps of `_hidden_grams |= ...` that other threads can come between; `grams` is
the set the global names, known by the request that made it, and `content` what each of
these sets holds. The rewriting of an answer that passes (`Filtered`) clears what it
looks for and keeps everything else as it was checked. Both answer paths call `apply` inside `generation_slot`, so `Submit`
lets a request into the checks only while fewer than `MaxConcurrent` are there;
`Requests` may be more. `Restart` begins again with any
values of the environment. The prompts are registered when their modules are imported,
before the first check that needs them; `AGENTIC_RAG` switched on while the process
runs, which would import the agent later, is left out. The cached vectors of the
prompts are assigned as a whole and not modelled.

### AnswerChecks and Spans

`Compose` folds a run of number words into a quantity, `FiguresOf` is `_figures`,
`NormaliseNumerals` what the judge is given, `Claims` how an answer is cut for it. A
text is a sequence of tokens (number word, digits, glue, other word, mark). `Chunks` is
`chunk_text` and `Windows` is `_windows`, as sets of positions.

### ModelIntegrity

`disk` is the cache directory of the embedding model, `seen` the dict
`_seen_metadata`. A file is a record of whether its bytes match the pin, its
`mtime` and size (`meta`, which a copy may carry over) and a stamp for inode and
`ctime`, which no two versions of a file share. `HashFile`, `RecordStat`, `FileMatches` and `FileRefused` are the steps of
one file in the code's order (read, record the stat, compare), `SkipKnown` the skip
of the large file, `Verified` both ways to return. `refused` and `raced` are
history. `FileExists`, `HashDue` and `FileVanishes` are what lies between: `is_file`, a
stat that is not the recorded one, and a file that is gone at the next look. Left out:
the flag that only decides about a log line.

### Generation

`Arrive`, `Acquire`, `Busy` are `generation_slot`. `PinFresh` and `PinDue` are the
test of the recheck interval in `_get_model`, `FetchDigest` is `model_fingerprint`,
`PinMatches` and `PinRefused` the comparison of `check_model_pin`, which stores the
time before it compares. `AskOnceMore` is the agent's last call of the model
without tools; its other rounds reuse the model and take no step of their own here.
`Finish` is any other way out of the slot, before the model is fetched or after it
answered. Clocks are ages, cut off where no guard
distinguishes them any more (`PinCap`, `MoveCap`). `movedAge` and `denied` are
history. A deployment with `OLLAMA_MODEL_DIGEST` set and the filters on is modelled.

### Answers

A document stands for the chunks of one version of a source. `ChangeIndex` is
anything a review, an upload, a sweep or a sync does to one. `SearchCurated` and
`SearchUploads` are the two queries of `query_by_trust`, each under its own lock
acquisition. `PipelineKeeps` and `NothingKept` are screening, distance, trust and
`TOP_K` of the fixed pipeline; `AgentKeeps` is the tool of the agent.
`RequestTools`, `CallDenied`, `CallGranted` are a round of the agent and `_mediate`.
`PipelineServes`, `AgentServes` and `Withheld` are what becomes of the model's text;
the last has one disjunct per way to refuse it (`ModelGone`, `Ungrounded`,
`Unsupported`, `Unentailed`, `Blocked`). `CostIsBounded` counts the calls of the
answering model; the judge of the entailment check is asked once more at the end.
`agentic` is `AGENTIC_RAG`, any value at the start. `vouched` and `cost` are history.

Two abstractions carry the module. A text of the model is any set of figures, and a
figure is named after the one document that states it (or `Invented`): that is all
`unsupported_figures` tells apart. The figures of an answer are those of the text that
check read; the output filter after it may mask, drop or escape parts of the text, which
is the subject of `Egress` and not followed here. Ranking is a choice of any `TOP_K` documents: the
properties must hold whatever the distances are. Hits keep the review state they
were found with, as the code's documents do. Only the secure mode is modelled.

### Chat

`Open` and `Resume` are `create` and `get` with the start of a replay; `ReadTurn`
and `ReadDone` the loop of `as_messages`, which runs without the lock and whose
position is an index into the list; `Answer` and `Fail` the call of the answer;
`AppendTurn` and `Trim` the two halves of `append` under the lock. A session object
stays in `sessions` after its eviction from `table`, because a request may still
hold it. Turns are known by account and number, session ids by order of creation
(uuid4 is taken to be free of repetitions). `added` and `replay` are history.

### ReviewQueue

`Inspect` is the scan of a whole document: line by line, look-alike letters, rules that
match only in the joined lines, the name; sorted worst first and cut at `MAX_FINDINGS`.
`ScanMetadata` is what `_index` records of it, `Report` what `GET /review/document`
shows, with the opinion of the classifier beside the risk; `Queue` and `Page` are
`GET /review`. Which text a pattern matches is data.

## 3. Runs

Deadlock is checked in every run, and since a restart or a new call is possible in
every state it says little; that the requests themselves come to an end is said by
`RequestsEnd` and `QuestionsEnd`.

| run | instance | states | shows |
|---|---|---|---|
| `sweep` | an upload and a curated document; versions of 0, 1 and 2 chunks; one uploader and sweeper, two interchangeable approvers; 2 writes | 1.70 M | what is reviewed rests on one sign-off of its source, chunks that agree are a whole version, a second rejection keeps the first file unless the two cross, sweeps keep to their origin and reconcile, refinement of `TrustGate` but for sweeps an approval overtook |
| `loop` | two tickets, one of them perhaps stored in the clear, two tiers, the loop alone; 3 events | 853 000 | the index converges to upstream and stays, a sync that nothing disturbs leaves the index as it found upstream, everything is sealed in the end, a record leaves a tier before it arrives in the next, approvals survive, tiers are inherited, refinement of `TrustGate` |
| `swaps` | a small and a large file, two concurrent uses, 2 changes | 880 000 | a swapped file is passed over only after a refusal or a race |
| `slots` | 3 requests, 2 slots, wait 1 s, recheck 2 s, fetch 1 s | 86 000 | slots add up, a moved tag is refused in time, every request ends |
| `answers` | five documents (curated, unreadable, upload, hostile, off topic), `TOP_K` 1, 2 rounds, 2 calls, 2 index changes | 133 000 | answers rest on trust and state nothing else, cost a bounded amount, and come |
| `admission` | one account, one address, two keys, three entries (one misspelt), 2 buckets with limits 1 and 2, window 2, lifetime 1, cap 2 | 231 000 | bursts are bounded, authority is recent, a full table refuses for one window at most |
| `egress` | 3 interchangeable requests on 2 slots, 3 prompts, a long and a short secret, 7 answers | 579 000 | what is served was examined, the cache ends up whole, a quote is missed only while it is filled |
| `chat` | 2 accounts, 2 requests, 2 turns, 2 sessions, 5 questions | 204 000 | own turns only, the latest kept, replays faithful, newest sessions kept, every question ends |

The MC modules also assert, over bounded inputs, what the operators without state
promise: `SpansKeepRuns`, `ComposeInvertsSpelling`, `JudgeReadsTheFigures` and
`ClaimsCoverTheAnswer` in `MCAnswers`, `TheScanIsOfTheWhole` and `TheQueueIsPaged` in
`MCReviewGate`, `SealingReadsBack` and `DecisionsKeepText` in
`MCConnectorSync`. TLC evaluates them before the runs of those modules.

Four runs are expected to be violated. Each checks one statement of the repository
that the code does not keep, and is listed as a finding with the line quoted:

| run | statement | behaviour |
|---|---|---|
| `unread_approval` | `SignedWhatWasShown` | text read, upload replaces the document, hash read, approval of a text not shown |
| `carried_approval` | `TrustedWasApproved` | a sweep deletes a source, other text of it is uploaded and approved, and the sweep's add puts the text it had read under that approval |
| `stuck_mixture` | `OverlappingSyncsConverge` | two syncs with different fetches leave two versions mixed, and every later sync takes the ticket for unchanged |
| `reopened` | `FailsClosed` | the stat is recorded before the comparison, so the use after a refusal skips the refused file |

### Bounds

* **Versions.** Two versions with different chunk counts are enough to leave a tail
  behind and to mix versions within one source; `blank` has no chunks.
* **`MaxWrites`** (uploads, host edits and lost directories) 2: a version and its
  replacement. **One uploader and sweeper, two approvers:** sources interact only through
  the sweep's diff, and every pair of kinds of calls is there, two rejections at once
  included. More of each is what the theorems are for. `carried_approval` and
  `unread_approval` need one approver.
* **`MCCrowd`** bounds what the second approver of `sweep` adds: it reads only while the
  first is removing what it rejected; while two approvers are at work, or one reviews the
  curated source, no sweep is; and once two rejections have crossed, a behaviour is
  followed until both have moved. One approver on the upload, which is where the sweep and
  the review meet, is free of it. The theorems are not bounded so.
* **`MaxEvents`** (edits, manual syncs, rejections, failures) 3: an edit, a failure
  and another edit; `stuck_mixture` needs two edits and a manual sync. Two
  overlapping syncs are in that run; tiers and the gate are proved for any number.
* **`Legacy`** one ticket of the two: a sealed and a plain record side by side in one
  sync. **`Words`** one that looks sealed and one that does not; **`Keys`** one sealed and
  two filter keys.
* **One account and one address in `admission`** make four counters, so with `MaxKeys` 2
  the table goes over its cap, purges and refuses. `Window` 2 and `TTL` 1 differ; a limit
  of 2 in one bucket lets a burst straddle a boundary with more than one admission on
  either side. Any number of each is what the theorems are for.
* **Three requests on two slots in `egress`**: `MAX_CONCURRENT_GENERATIONS` is 2 unless
  it is set, and a third request comes to the checks while another is still in them. The
  number of slots is the program's own bound and it matters: section 6. Three prompts
  are those the program registers.
* **`MaxChanges`** 2 in `swaps`: a swap and a swap back or a race on top of it. In
  `answers`: an approval and its withdrawal between two searches.
* **One request in `answers`.** Requests share only the index, which changes freely
  beside the one; the theorems hold for any number.
* **`RoundCalls`** 2: more tool calls in one round than the budget still allows.
* **`MaxQuestions`** 5 with `MaxTurns` 2 and `MaxSessions` 2: lists are cut more
  than once during one replay, sessions are evicted while held. A list is always
  one conversation's, so longer limits add positions and not cases.
* **`Recheck`** 2 and **`Timeout`** 1: the interval and the fetch differ, so a bound
  that confuses them fails.

### Fairness

* `loop`: the loop starts a sync after every one that ended and each sync goes on
  if it can (`main.py`, the loop catches every exception). That some fetch succeeds
  in the end is assumed. Edits, rejections and failures are finite, and nothing more
  is asked of them; approvals are free.
* `egress`, `admission` and `sweep` claim safety only and assume no fairness.
* `slots`: time passes, and a request that can go on does. The wait has
  `GENERATION_WAIT_SECONDS`, the fetch of the digest an httpx timeout of 3 s, the
  model `REQUEST_TIMEOUT`. No request is promised a slot, only an end.
* `answers`: a request that can go on does, for the same reasons.
* `chat`: every request has a thread. Nothing is assumed of the lock: questions are
  finite, so the others run out of reasons to hold it.
* The gate claims no liveness: nothing in the code retries an upload or a review,
  and a pending document may wait forever.

## 4. Proofs

The theorems hold for every value of the constants that satisfies the named
assumption of the module: any sets of sources, versions, calls, requests,
documents, accounts and any limits. Every theorem follows from an inductive
invariant; the argument in each case:

| theorems | assumption | argument |
|---|---|---|
| `GateTypeOK` | `ChunkStoreAssumption`, `ReviewGateAssumption` | `TypeOK` contains `CallsOK`: a call past its first step knows its source and version |
| `GateTrust` | | every step does one of four things to the store (`StoreStep`: keep, delete a source, add chunks that are not reviewed, sign off a source whose chunks all carry the named hash). An add makes nothing reviewed that was not (`ApprovalsAreOld`, `SignedRows`), so `TrustRestsOnOneSignoff` is inductive over the four, whatever text an upsert puts under an approval |
| `GateComplete` | | `AgreementMeansComplete` is not inductive: a deletion or an overwrite could leave agreeing chunks. `WholeInv` is: indices are in range of their version, and a source with chunks has a version all of whose chunks are there, every chunk below its end being of it |
| `GateRefinement` | | each `StoreStep` but the add of a sweep is a sign-off or a withdrawal of `TrustGate`, or a stutter. Such an add is a withdrawal too while nothing of its source is reviewed, which `OvertakenInv` says of every sweep between its delete and its add that no approval has overtaken; the others are `CarriedOver` |
| `GateScope` | | `ScopeInv`: the sources a sweep has listed, is to visit or has in hand are of the directory it works on, and indexed chunks carry the origin of their source, so the diff against one directory cannot name a source of the other |
| `GateReconciles` | | `CalmInv`: of a sweep that nothing has disturbed, what it is through with is indexed as it is on disk, what it has in hand is read, and what has no file and is not about to be retracted has no chunks (`Reconciled`); with `ScopeInv` for what the diff may name |
| `GateQuarantine` | | `QuarantineInv`: of an upload that was not crossed, the name itself holds the first file moved there and the suffixed one the latest, and whoever is about to move has chosen its place by what is there now (`PlacesKept`, `OthersKeepQuarantine`): between the choice and the move nobody else moved, or both would have been about to. Inductive together with the record of all moves |
| `ConnectorTypeOK`, `ConnectorTiers`, `ConnectorRefinement` | `ChunkStoreAssumption`, `ConnectorAssumption` | `TierInv`: what any sync wants was published in its tier, and so was what stood in the clear at the start. No approval survives an upsert here, since every row a sync writes says `reviewed = False` |
| `ConnectorAnswers` | the same | `GateSafe` along the refinement, for any number of syncs: the rows that answer were signed off, and are of one version |
| `ConnectorLeaves`, `ConnectorApprovals` | `Syncs = {Loop}` as well | `LoneInv`: all rows come from the connector (`FromConnector`); what the sync does not want in a tier it has dealt with is not there (`Left`); what it is to delete is not wanted in that tier (`Unwanted`), what it is to replace differs from what it fetched (`Outdated`), and what it has deleted is not there (`Replaced`) |
| `ConnectorReconciles` | `Syncs = {Loop}` as well | `CalmInv`, on top of `LoneInv`: one version of a source in a tier (`OneVersionEach`), and with no event since the fetch, what was fetched is what upstream holds (`Fetched`), and what it wants in a tier it has dealt with is there as fetched (`Arrived`) |
| `PagesJoin`, `PagesComplete` | none | a page and the one that begins where it ends are the page of their joint length, and a page as long as the queue is the queue. For any sequence as queue, by its positions |
| `SealingRoundTrip`, `DecisionsKeepTexts` | `SealingAssumption` (no ciphertext can be written without the key) | free text is told from filter keys and from values that are no text by the same test when it is sealed and when it is opened, and a decision touches filter keys only |
| `IntegrityTypeOK`, `IntegritySwapIsNoticed` | `ModelIntegrityAssumption` | `StampsOK`: a recorded stamp that is the stamp on disk is that very file; `ReadingOK`: what a use hashed is what is on disk, or the file on disk raced it |
| `GenerationTypeOK`, `GenerationSlots` | `GenerationAssumption` | every step changes `free` by one exactly when it changes the set of holders by one request |
| `GenerationMoveIsNoticed` | `GenerationAssumption` | `PinInv`: a pinned digest that is already stale is no older than its fetch, and while the last check counts as fresh, an unnoticed move is no older than that check and one fetch |
| `GenerationBound` | `GenerationAssumption` | from `GenerationSlots`: never more holders than `MaxConcurrent` |
| `EgressTypes`, `EgressServed` | `EgressAssumption` | `ServedInv`: a thread that is past a check either knows of a hit or holds a text the check passes (`Examined`), and redaction adds nothing a check looks for (`FilteredText`), whatever the embedding model did on the way. Any number of requests and slots |
| `EgressCache`, `EgressMisses` | also `MaxConcurrent <= 2` | `WholeInv`: what a collecting thread has passed is in the set it is about to store, unless no other thread can still come between (`Shared`), and what every collecting thread has passed is in the set the global names and in every set it may name next (`Whole`). `SlotsKept` (an invariant of its own) and `TwoSlots` turn the bound into: beside a thread in the checks there is at most one other. False for three slots, section 6 |
| `AnswersTypeOK` | `AnswersAssumption` | with `LoopOK`: only the agent is ever inside a tool call, and with calls left |
| `AnswersTrust` | | `EvidenceInv`: what is trusted now is vouched for, a hit that looks trusted was, and what was kept passed every gate |
| `AnswersCost` | | `CostInv` ties searches to the budget spent and model calls to rounds |
| `WindowsKeepRuns`, `ChunksKeepRuns` | | the span that starts at the last start before a run holds it: starts are less than a span minus the overlap apart |
| `AdmissionTypeOK` | `AdmissionAssumption` | every step does one of five things to the table of windows and its observers (`LimiterStep`) |
| `Bursts` | | `WatchInv`: what the observer has counted is at most what the current window admitted plus, if that window began after the observer did, one limit from the window before |
| `Authority` | | `AuthorityInv`: what the table says counts as granted now, and what a token permits was granted no longer ago than the token is old |
| `Lockout` | | while the table is over its cap nothing is counted, so every window in it is at least as old as the excess |
| `ChatTypeOK`, `ChatOwnTurns`, `ChatLatestTurns`, `ChatReplay`, `ChatNewestSessions` | `ChatAssumption` | one invariant `IInv`: `TableOK` (the table is the last sessions created), `ListsOK` (a list is numbered consecutively and at most one too long, and then only while its appender holds the lock), `ReplaysOK` (the list a replay iterates over starts where it found it plus one for each cut since; so the k-th turn replayed lags by at most the number of cuts) |

`Syncs = {Loop}` is the background loop alone, with no `POST /ingest` beside it. The two
action properties of the connector need it: TLC finds both violated by two overlapping syncs
(section 6). `MaxConcurrent <= 2` is the default of
`MAX_CONCURRENT_GENERATIONS` (`app/limits.py:45`) or one slot. `ConnectorAssumption` also says
that no record is without chunks, because `_to_document` drops those with an empty body.

Only model-checked: everything that speaks of fairness (`Converges`,
`EverythingSealed`, `RequestsEnd`, `QuestionsEnd`), which is beyond the prover; what the
folds of `AnswerChecks` compute and how `ReviewQueue` sorts and cuts findings, since
induction over data is beyond the prover as well. Every other invariant and action
property of the runs that pass is stated by a theorem.

## 5. Coverage of the components

Modelled in whole: upload and sweep, review, connector, embedding model check,
generator pin, answer pipeline and agent (secure mode), chat, accounts, resource
limits. In part: the index (vectors, nearest-neighbour query, compaction and statistics
left out), the text filters (the check of answers is modelled, the patterns are data),
sealing (the cipher is symbolic) and the review agent (the scan and its report; the
classifier is an opinion nothing reads). Not modelled:

* **settings, secrets and audit log**: reading the environment, an append-only log.
* **user interface, upstream simulator** (`mocksource/`), **attack suite,
  dashboards, inventories**: around the program. The simulator's operations are the
  environment of `ConnectorSync`.
* **insecure mode**: the switches that turn defences off for demonstration.

## 6. Behaviours worth knowing that no run claims

* What `carried_approval` shows rests on chromadb's merge of metadata, which is taken
  from the release `requirements.txt:4` pins and is not part of this repository. Uploads
  and syncs write `reviewed = False`, which is safe whatever upsert does; a sweep that
  wrote the key would be too. `TrustRestsOnOneSignoff` and `GateRefinedUnlessOvertaken`
  say what is left: the source was approved, and the text is one the sweep read from
  its file.
* After a sweep of `data/uploads/` an upload has no `reviewed` key (`app/ingest.py:221`):
  it answers nobody and is not in the queue either, which selects where `reviewed` is
  False, although `pending_review` promises "Every unreviewed source in `tier`"
  (`app/vectorstore.py:630`). Its approver must know its name.
* A sweep of a tier whose directory is missing returns before its reconciliation
  (`app/ingest.py:192-193`): documents that vanished with their directory stay indexed
  and go on answering, where documents that vanished one by one are retracted.
* Two rejections of one filename that have both found the name in quarantine free (or
  taken by the same file) before either moves put both files in one place: the first one
  is erased, although the comment at `app/ingest.py:463-464` says "the second must not
  erase the first". That takes two rejections, of two versions of an upload, within the
  time of a few system calls; `SecondRejectionKeepsFirst` says that it is the only way. The file that is moved is the one that is there at the move.
* Two uploads of one name can leave chunks of both versions with nothing in
  flight. They can be neither approved nor rejected until the name is uploaded again
  or swept.
* A rejection drops the chunks and then moves the file, under two acquisitions. A
  corrected upload that writes its file in between is quarantined unread, and its chunks
  are retracted by the next sweep. The comment at `app/main.py:427-429` says that rejecting
  the version that was read must not destroy the version that was not: its chunks are
  spared, its file is moved. The file is kept in quarantine (`SecondRejectionKeepsFirst`).
* The agent's response has no `uploaded_sources`, which the pipeline's has: a client
  learns from the source names alone that an answer rests on uploads.
* Offsets of `GET /review` count from the top of a queue that other approvers shorten:
  what a decision moves up across a page boundary between two requests is on neither
  page. `TheQueueIsPaged` is about a queue that stands still.
* The third rejected upload of a filename overwrites the second in quarantine.
* A sweep retracts an upload stored after its listing; the next sweep brings it back
  without its place in the queue.
* Overlapping syncs with one and the same fetch can re-index a ticket that was
  approved in between, so `ApprovalSurvivesSync` holds for the loop alone; and a sync
  with an older fetch can put a record into a tier before the newer one has taken it out
  of another, so `LeavesBeforeItArrives` does too.
* After one refused digest, requests are served unchecked for the rest of the recheck
  interval. The judge model of the entailment check does not go through the pin.
* `_hidden_grams |= ...` keeps every span with the two slots of the default
  configuration. With three requests in their first check at once TLC finds
  `CacheIsWhole` violated: one brings back a set after two others have moved on, and the
  spans of a prompt are missing until the restart. Whoever raises
  `MAX_CONCURRENT_GENERATIONS` should build the set first and assign it once.
* While the first check fills that set, another request matches against a part of it
  (`MissesOnlyWhileBuilding`); the resemblance check still looks at every prompt then.
* The docstring of `resembles_hidden_context` says that a failure returns False; the
  code returns True and says why.
* Where only blanks stand between number words, the judge is given the very figures
  the figure check counts. Elsewhere they differ: "twenty-five days" counts as 25 and is
  handed over as "20-5 days"; "twenty. Thirty" counts as 50, "one, two" as 3.
* A compaction that finds the file busy is not repeated by the next sync unless that
  one changes something, although the comment on `compact` speaks of a step "that the
  next run repeats". A rejection and a replaced upload do not compact at all.
* The sync that seals a ticket stored in the clear indexes it as unreviewed, so an
  approval it had is withdrawn.
* Tokens of an account that lost a role stay good for up to `TOKEN_TTL_SECONDS`, over
  a restart too, unless the signing key changes. A table of counters over its cap
  refuses known accounts with everyone else, for one window at most.
* `verify_embedding_model` is better than its docstring: `app/vectorstore.py:138-143` (and
  the comment at line 87) says that the large file is hashed again only when its size or
  mtime moves, and that whoever copies both with `touch -r` "still gets one round".
  `_fingerprint` holds ctime and inode as well, and `SwapIsNoticed` states what that gives:
  a copy with the original's mtime and size is noticed like any other.
* A missing small model file ends the verification before the files behind it.
* A replay beside appends can skip a turn, the latest included, or hold
  `MAX_TURNS + 1` of them: `ReplayIsFaithful` says how far it can go.
* `chat.py` calls what it evicts an idle conversation; it is the one created first,
  idle or not.

## 7. Plan

1. Ranking inside retrieval: curated hits are not crowded out by uploads, pending
   uploads and approved ones share a budget, the best of each tier are the best of
   all.
2. The queue as it changes between two pages.
3. Proofs: what overlapping syncs still keep of `LeavesBeforeItArrives` and
   `ApprovalSurvivesSync`; `CacheIsWhole` for any number of slots when the set is built
   first and assigned once; `SecondRejectionKeepsFirst` without
   its exception when the three steps of a quarantine are held together by a lock.
