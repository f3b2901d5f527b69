# optiflow: a TLA+ verification project

optiflow is a plugin for a coding agent. It sits between the agent and its
tools and tries to spend fewer tokens: hooks advise or refuse wasteful tool
calls, an MCP server offers cached and diffing replacements for them, and other
parts shrink command output, keep checkpoints across sessions and measure what
was saved. This directory holds TLA+ models of the parts in which several
processes, a shared file or a long history of calls decide whether that is done
correctly, the TLC runs over small instances, and TLAPS proofs for all
instances.

Paths below are relative to the repository root (`src/optimizer/...` is the
TypeScript source; `PROJECT.json` names the same files with the checkout's
directory in front). `PROJECT.json` is the machine-readable side of this file:
components, runs, mutants, theorems, hazards with their lines, and the lines
each definition is translated from.

To repeat the checks:

    tlc -workers 2 -config HookConcurrent.cfg MCHookSession
    tlapm HookSessionProofs.tla

## 1. Inventory

### 1.1 How the parts interact

    agent --(tool call)--> host --spawns--> PreToolUse hooks
                             |                optimizer/hooks/pretooluse.ts  --+
                             |                chop/pretooluse.ts               |  state file per
                             +--spawns--> PostToolUse hook                     +- (session, agent),
                             |                chop/posttooluse-mcp.ts  --------+  under a lock file
                             +--spawns--> PreCompact hooks                     |
                             |                optimizer/hooks/precompact.ts  --+
                             |                handoff/precompact-hook.ts --> checkpoint files
                             +--stdio---> MCP server (one per session)
                                              tools --> CacheEngine --> cache.db (shared by all)
                                              tools --> working tree (shared with everything)
                                              every call --> batch queue --> analytics.db
    hooks, chop wrapper --append--> ledger.jsonl (rotated into ledger.jsonl.1), CCR store
    session end, compaction --write, prune--> checkpoints of the project <--read-- session start
    `optiflow install`, `uninstall` --copy, rename--> settings.json <--rewrite-- user, host

Nothing here has threads. There are two kinds of concurrency. One is between
operating-system processes: the host starts one process per hook event, and an
agent that makes several tool calls at once has several hooks running at once;
each session has a server process of its own, and all servers share one
`cache.db` and one working tree. The processes meet in files only, and of those
files only the session state has a lock. The other is within a server, on its
event loop: an async method runs to its next `await`, and what other calls do
comes between its pieces.

### 1.2 Components

| Component | State | Operations | Hard behaviours | What makes it correct |
|---|---|---|---|---|
| Hook session state and routing (`optimizer/hooks`, `chop/posttooluse-mcp.ts`) | one JSON file per (session, agent): files seen with their hashes, keys denied, parked redirects, MCP tools observed to work | load; decide; `saveState` and `clearSeen` (lock, read again, merge or clear, temp file, rename, unlock); observe; resolve | parallel hooks on stale copies; lock stealing; hooks killed at any point; refusing calls the agent cannot replace | no refusal toward an unreachable tool; no second refusal of a key once known; no lost evidence; context claims end with compaction; every hook answers |
| Cache engine (`optimizer/core/cache-engine.ts`) | SQLite table, or a Map; a memory tier per engine | get, set, delete, clear, evictLRU, reopen, self-heal | exceptions between the tiers; expiry; recency of keys answered from memory; several engines on one file | never answers anything but the last value set; eviction in order of use |
| File tools (`optimizer/tools/file-operations`, `utils/fs-generation.ts`) | baselines and search results in the cache; a write counter per process; the tree | smart_read, smart_write, smart_edit, smart_grep, smart_glob, smart_merge | the counter restarts while the entries persist; baselines outlive agents; outside changes; parts of files | own writes are seen; a diff builds on a text that was given |
| Other git and file tools (smart_status, -log, -branch, -diff) | entries in the cache | run git, format | keyed by HEAD | answers match the repository |
| Handoff (`src/handoff`) | checkpoint files, activity | write, prune, restore | killed half way through an in-place write; pruning while others write or restore; late writes with early timestamps | the newest `keep` stay, no more than they; a restore is not behind |
| Install, settings writer (`src/install/settings-writer.ts`) | the host's settings.json and its backups | install, uninstall, restore | read-change-rename without a lock; whole-file restore | nothing of the user's is lost |
| Install, detection and doctor | none | probes | none | |
| Ledger and core files (`src/core`) | `ledger.jsonl` and one archive | append, rotate, read | two writers rotating; appends that stop half way | only the oldest records go; a tear costs two |
| CCR store (`src/native/ccr-store.ts`) | originals of shortened results by hash | put, get | concurrent puts, truncated files | a handle returns its original |
| Kompress model download (`src/native/kompress-model.ts`) | model file, sidecar with its size | download, verify, rename | crash between the two files | a model that loads is complete |
| Native compressors (`src/native`, `native/headroom-*`) | none | text to text | none | |
| Chop (`src/chop`) | none; wraps a child process | intercept, filter, wrap | exit codes and streams of the child | output and exit code survive |
| Hook notes, wiki, metrics, recording | append-only files | append | none that decides a call | |
| Analytics (`optimizer/analytics`) | rows in memory until flushed; the table | save, flush by size, timer or reader, query, clear, close | a flush between the pieces of another; a failed transaction; exit before a flush | each row is queued, under way, stored or lost for a known reason, and stored once; a report has what was saved before it |
| Cache replication (`tools/advanced-caching/cache-replication.ts`) | nodes, log, snapshots in memory; the cache | configure, add, remove, promote, sync, resolve, snapshot, restore | operations between the awaits of a sync; a restore that throws half way | one primary; the cache follows the log; two sides of a conflict agree; replicas catch up |
| MCP server and dispatch (`optimizer/server.ts`) | that of its tools | dispatch, compress results | shutdown | |
| Tokens and compression core; other cache tools, API, build, analysis, dashboard, intelligence tools | per-process tables, cache entries | computations over one call's input | none across processes but through the cache engine | |
| Config, CLI, status line, TOON, transcript | files read, text printed | one-shot | none | |
| Generated code (`plugin/`), Rust and WASM sources (`native/`) | | | | not modelled: built from the above, or pure |

`PROJECT.json` lists every component with its files, its status and the reason
where it is not modelled.

### 1.3 The hazards

`PROJECT.json`, "hazards", has each at its line. They fall in seven groups:

1. *Hooks that overlap.* Every hook loads the state without the lock
   (`pretooluse.ts:230`) and merges its copy back many steps later
   (`policy.ts:448`). Some fields merge by union, some by time, one
   (`pending`) is overwritten.
2. *The lock.* A lock file with an age limit: its holder may be dead or slow,
   two waiters may both decide to break it, and the `finally` clause unlinks
   whatever is there.
3. *Evidence.* The hooks refuse a call only if a replacement is known to work.
   The evidence is collected by other hooks, is merged, and must not come from
   thin air or get lost.
4. *Claims about the agent.* "Its contents are already in your context" and
   "No changes" are claims about somebody else's memory, made from files that
   outlive it.
5. *Two copies.* Two tiers of a cache with exceptions between them; a counter
   in memory that keys entries on disk; a baseline and the file it came from;
   a replication log and the cache it is applied to.
6. *Shared files without a lock.* The ledger and the CCR store are appended to
   by every hook; checkpoints are written in place, listed and pruned by several
   sessions; settings.json is read, changed and renamed over while its owner may
   write it. Any of these processes may be killed between two calls.
7. *One event loop.* A flush empties the queue before it inserts; a report, a
   timer, a second flush or close() come in at the `await` between. A sync
   lists the nodes and then gives way at each of them.

## 2. Plan

Order: what can hurt the agent most comes first. A wrong refusal or a wrong
file content misleads it; a lost statistic does not.

| # | Module | Status | Composes |
|---|---|---|---|
| 1 | `SessionState`, the value and the pure rules | done | |
| 2 | `AtomicState` (abstract), `HookSession`: hook processes over one file | done | 1; refinement |
| 3 | `LossyStore` (abstract), `CacheEngine` (detailed) | done | refinement |
| 4 | `FileTools`, tools over the cache | done | sees the cache by get and set |
| 5 | `SettingsWriter`: install, uninstall, backups, the user and the host writing meanwhile | done | |
| 6 | `Archive` (abstract), `Handoff`: write, list, prune and restore checkpoints, with kills | done | refinement |
| 7 | `HomeFiles`: the ledger and the CCR store, as a filter run uses them in turn | done | |
| 8 | `ConflictResolution`, the rules; `CacheReplication`, the tool | done | rules by EXTENDS |
| 9 | `AnalyticsBatch`: the row queue, its flushes, close and the end of the process | done | |
| 10 | `FileTools` with the awaits of smart_read and smart_write as steps of their own, and chunked reads | open | 4 |
| 11 | `ModelDownload`: temp file, size check, rename, sidecar | open | |

*Abstract specifications.* Three, each implemented by a detailed module: the
lossy store by `CacheEngine`, the state that is merged into one copy at a time
(`AtomicState`) by `HookSession`, the archive by `Handoff`. Each leaves out what
its component is made of: tiers and exceptions; the lock and the steps between
a read and a write; listings, half-written files and kills. For the other
components what they promise is a property rather than a machine: for the
settings, "the user's part of the file is somewhere, whole"; for the ledger, "an
append-only log that loses from its old end".

*Runs.* One instance per component, for `HookSession` two, and three that show a
comment or a doc that the code does not keep. Two processes and one file or key
are enough for most races here, because every shared object is one file and
every rule is per target.

*What could be proved next.* The ledger as a log that loses from its old end, as
a machine; the rows of `AnalyticsBatch` as a bag that each row passes through
once; what a sync of `CacheReplication` leaves, which needs a history of what
came between its pieces.

## 3. What is modelled

### 3.1 `SessionState`: the state file and the rules

Operators only. `SessionStates` is the JSON object of `policy.ts` with the four
fields that decide an answer: `seen`, `pending`, `denied`, and the observed
tools with their time. `Merged` is the merge in `saveState`, `Cleared` what
`clearSeen` writes, `Observed` and `Consumed` the changes of
`recordOptimizerToolObservation` and `resolvePendingRedirect`. `Names` is
`optimizerToolsForHook`, `Decide` is `evaluateUcrGuards` followed by `decide`,
`Remember` is `remember`, `Deliberated` what `decidePreToolUse` leaves in
memory before it saves, `EffectiveMode` and `EnforceVerdict` are the functions
of those names.

Abstractions:

- The seven other fields of the file pace advisory notes and are left out.
- Of the eight replacement tools two are kept, one for reads and one for
  searches; the rules for the others have the form of the search rule.
- A call is its own loop-breaking key: every rule makes its key of the rule
  and the target, so two calls share a key exactly when they are the same
  element of `Calls`.
- A call has a kind: a full read, a read of a range, a shell command that dumps
  a file, a search, a shell search (refused without a redirect), anything else.
- A file's hash is its version number; files without a recorded hash are
  `Unhashable`. The repeat window is a free choice (`recent`), and so is the
  expiry of a redirect (`timely`).
- `TOKEN_OPTIMIZER_MODE` is "advise" or "enforce": the third value, "off", ends
  a hook before it reads any state. `TOKEN_OPTIMIZER_MCP_CAPABILITIES` is
  unset, and the experiment arm is the one that routes.

### 3.2 `HookSession`: the processes

`file` and `lock` are shared; every process in `Procs` has a program counter,
what it was started for, its copy of the state, the copy it read back under the
lock, the failed attempts and its answer. `context` is the agent's side: which
version of each file it has in full. `denials` and `credits` count what the
promises of the comments are about, up to two. `unsaved` and `uncleared` are
history: every caller ignores the result of `saveState` and `clearSeen`, so when
a save is abandoned (`Abandon`, in `GiveUp` and `WriteFails`) only these two
know of which refused call, or that a compaction did not clear. A compaction
whose hook is killed before it has cleared counts as uncleared too. `crowded` is
history as well: since no hook was last running, observations of two tools have
overlapped, or one was given the time of an earlier one. The list of tools is not
merged by name: `saveState` takes the list with the later time, so exactly then a
tool's proof can be lost.

| Actions | Code |
|---|---|
| `PreToolUse` | `decidePreToolUse` from `loadState` to its first `saveState` |
| `Answer` | the substitute, the ledger rows, `effectiveMode`, `enforceVerdict`, the output |
| `RunTool`, `SkipTool` | the host runs the call, or it was refused or stopped |
| `PostToolUse`, `Resolve`, `NothingToResolve`, `Credit` | `recordOptimizerToolObservation`, then `resolvePendingRedirect`, then the ledger row |
| `PreCompact`, `Compact` | `precompact.ts` with `clearSeen`, then the host empties the context |
| `TakeLock`, `AwaitLock`, `FindStale`, `BreakLock`, `GiveUp` | one attempt of `takeLock`; finding a lock stale and unlinking it are separate steps, because another process can come between the `stat` and the `unlink` |
| `ReadBack`, `WriteBack`, `WriteFails`, `Unlock` | the body of `saveState` and `clearSeen` under the lock, and its `finally`; `loadState` returns an empty state for a file it cannot read, and the merge then starts from nothing |
| `Resume` (in `GiveUp`, `Unlock`) | what the caller does next; every caller ignores whether the save succeeded, and the allowed path saves up to `ExtraSaves` more times (note pacing) |
| `Crash` | the host kills the hook: the call or the compaction goes ahead, the lock file stays |
| `LockAges`, `EditFile` | time, and the user |

The read of the state when a process starts is one step, as `readFileSync` of a
file that is only ever replaced by `rename` is; that this first read fails is
left out. Ids stand for the time stamps of
redirects. The host waits for the hooks of the current turn before it starts a
compaction; without that order even a correct `clearSeen` could be overtaken.

Six Booleans say which failures an instance has: `LocksMayWait` (a lock may be held
through all attempts), `WritesMayFail` and `ReadsMayFail` (under the lock),
`LocksGoStale`, `MayCrash`, `CallsMayStop`. A theorem that needs one of them off
says so in its statement. `TracksAgent` says whether `context` and `credits` are
kept and denials counted up to two: no step depends on them, and an instance that
claims nothing about them is smaller without.

`AtomicState` is what the lock and the second read are for: a state that each
hook changes in one step. A hook takes a copy of the state as it is, altered by
what the hook is about (`Deliberates`, `Reports`), and later merges it into the
state as it is then (`Saves`), or clears (`Clears`). The mapping is `file` for
the state and `mem` for the copies; `WriteBack` is the step that counts, all
others of a save are stutters. Stale copies are part of it on purpose: that a
hook decides on what it read long ago is how the code is, and `saveState` only
promises that the write itself is never built on an old read.

### 3.3 `LossyStore` and `CacheEngine`

`LossyStore` is what a caller may count on: a map that may forget any of its
keys and may fail any operation, but never answers with anything but the value
stored last. `CacheEngine` is the code: the table (`rows`: value and
`last_accessed_at`), a memory tier per engine, and the operations with the
order in which they touch the two. `SetFails`, `DeleteFails` and `ClearFails`
are the operations in which SQLite throws: set has touched nothing by then,
delete and clear have already emptied the memory tier. `Fails` is an exception
in get or evictLRU. `Touched` is `touch`. `Survivors` is the window query of
evictLRU with its order, `last_accessed_at DESC, key ASC`. `Reopen` is a new
process, with the self-healing of a corrupt file (`cache-engine.ts:442`).
evictLRU is two statements without a transaction, and two steps:
`SelectSurvivors` keeps what it chose in `evicting`, and `EvictLRU` deletes the
rest. `used` is a history
variable: when each key was last set or answered, whichever tier did it.

The running total of the query, a SUM over that order, is the number of bytes in
the rows of `UpTo` (`Bytes`, `RunningTotal`): a cardinality, of which the proof
can use that a larger set has a larger one.

What the three properties claim, they claim for one engine on the file. With two
TLC refutes `EvictionIsLRU` too, by the very race between the statements of
evictLRU: what the other engine sets or uses after the SELECT is deleted all the
same. That race is on the hazard list (`cache-engine.ts:261`). `get` with its
`touch`, and a set with the time it read before it, are one step; that is exact
with one engine.

Left out: counters and `created_at`, on which nothing decides, and the semantic
lookup, for which no caller passes a generator. Keys are numbers because SQL
breaks ties by key order. A process falls back to the Map, which persists
nothing, on its own (`cache-engine.ts:584`). `Persistent` is one constant, so an
instance is either all SQLite or one process with a Map; a mixture of the two is
left out, and on the hazard list.

### 3.4 `FileTools`

The servers, the tree, the cache rows under the two namespaces that matter
(`smart-read` by path, `grep` by write counter), each server's memory tier and
counter, and a search that is under way. `origin`, `given` and `latest` are
history: whose write tool changed a file last, which texts of it smart_read
gave in full, and what its agent's latest smart_read saw.

- `SmartRead` is one step: the lookup, the comparison up to white space
  (`hasMeaningfulChanges`), the diff if it is below half of the file, the size
  limit, the chunking, and the store when there was no baseline. `enableCache`,
  and `diffMode` with `chunkIndex` (`whole`), are free choices.
- `SmartWrite` and `SmartEdit` change the tree and call `bumpFsGeneration`.
  Their own copies under `file-write` and `file-edit` are left out, because
  nothing reads them.
- `StartSearch` computes the key, `FinishSearch` walks the tree and stores;
  anything another process does may come between. A search takes the tree at
  one moment, which is exact for one file. Only `useCache` searches are
  modelled; smart_glob keys and stores as smart_grep does.
- `ChangeOutside` is everything else that changes files, smart_merge included:
  it runs git and never bumps the counter.
- `Forget` and `Expire` are what the cache may lose, through any engine and by
  itself. `Restart` ends a server process; its counter starts at 0 again.

The awaits inside smart_read (large files) and smart_write (formatting) are not
steps of their own yet; the hazard list has them.

### 3.5 `SettingsWriter`

`settings` is settings.json, reduced to the version of the user's own keys and
to whose statusLine it has; `backups` and `snapshots` are the copies beside it,
by the millisecond of the command that made them; `cli` is the command under
way. The other variables are history: the file the user last left, and what an
install replaced.

| Actions | Code |
|---|---|
| `Install` | `setOptiflowStatusLine`, up to the call of `writeSettingsKey` |
| `Uninstall` | `uninstallOptiflowStatusLine`, up to `restoreSettingsBackup` or `removeSettingsKey` |
| `ReadAgain`, `Copy`, `Rename` | `writeSettingsKey` and `removeSettingsKey`: they read the file a second time, copy it, and rename a temporary file over it |
| `Snapshot`, `Restore` | `restoreSettingsBackup`; the backup it restores was found before and is not parsed |
| `Killed` | the end of a command between two steps, or within a copy, which leaves a copy that is cut short or empty |
| `UserWrites` | the user or the host rewrites the file, breaks it, removes it or sets the statusline by hand, also while a command runs |

Left out: permission errors; two commands at a time (a person types them); and
other keys of the file that optiflow could write, of which it writes none.

### 3.6 `HomeFiles`

A run of the chop wrapper or of a hook that filters an output: it stores the
text behind a marker (`Put`), looks at the size of the ledger (`Stat`), renames
it over the archive (`Rename`) and appends its row (`AppendLedger`), each a call
of its own on files that other runs use at the same time. Records are numbers in
the order of their appends. `PutTorn` and `AppendTorn` stop half way or just
before the newline, and leave a line that the next append continues
(`Appended`); `Stop` is a kill or an error before the first byte. A failing put
is swallowed and the run goes on, as in `storeCcrMarkers`, so a marker may be
printed whose text was never stored. `Purge` is `optiflow uninstall --purge`,
which removes ledger.jsonl and leaves ledger.jsonl.1.

The catch in `rotateIfOversized` swallows every error, and the append goes on:
`RotationFails` is a `stat` or `rename` that fails (no permission, a file held
open), after which the record goes to the oversized ledger. `blocked` counts those
since the ledger last began anew, up to `MaxBlocked`, and the bound of
`LedgerBounded` grows by one record for each. A missing file is not a failure: it
is what a second rotation meets (`Rename`).

`disturbed` remembers that two rotations met or that the ledger was purged: the
second of two writers renames the file the first has just begun, and the archive
is gone. That no new record goes with it is `OnlyTheOldestGo`; that the newest
`RotateAt` records stay is claimed only while `disturbed` is false.

Sizes count records rather than bytes. The readers are not steps: they read
ledger.jsonl alone, never the archive, and skip lines that do not parse.

### 3.7 `Handoff`

The checkpoints of one project, as two sets of files: those that hold a
checkpoint and those that do not parse, because they are being written in place
or were left half way. A checkpoint is its session and its timestamp.

| Actions | Code |
|---|---|
| `Take`, `Open`, `Write` | `buildCheckpoint`, which takes the timestamp before it asks git; `writeCheckpoint`, opening and last byte |
| `Readdir`, `ReadNext` | `listCheckpointFiles`: the names, then one file after the other; what is gone or does not parse is passed over |
| `Prune`, `Unlink`, `Pruned` | `pruneCheckpoints`, newest doomed file first; of equal timestamps the order of readdir decides, which is a free choice (`Prunable`) |
| `ReaddirFails`, `ReadFails`, `UnlinkFails`, `LoadFails` | the calls that fail for another reason than a file that is gone (permissions, too many open files). Each is caught where it is made and the process goes on: with an empty listing, without that file, with the next doomed one, without a checkpoint |
| `Restore`, `Pick`, `Load`, `Render` | `resolveCheckpoint`: list, pick the newest (`findLatestCheckpoint`, `findCheckpointById`), read it again, render it |
| `Killed` | a kill or a failing write |

`passed` is what a process could not read or remove though it was there, and
`left` what the process whose write was the last had passed over when it finished
pruning; `MaxPassed` bounds the former. `DirectoryBounded` is about the
checkpoints besides `left`: a failed unlink leaves its file to the next process
that prunes.

`Archive` is what the directory promises: a checkpoint turns up once, whole
(`Finish`), and is gone only when `keep` others that are no older have turned up
(`Retire`). The last byte of a write is the one, an unlink that finds its file
is the other; nothing else of `Handoff` shows.

Left out: what is in a checkpoint, the activity file it is built from, and the
scan for other projects. An id given to a restore is that of a session, and
matches the checkpoints of that session (`Candidates`). The two finer cases of
`findCheckpointById` are left out: the full id of one checkpoint, which is opened
by its name without a listing (`restore.ts:90`), and an id that is a prefix of
several sessions' (`:94`). A session runs one of these processes at a time.

### 3.8 `ConflictResolution` and `CacheReplication`

`ConflictResolution` has the pure part: comparison and merge of vector clocks,
and the four strategies. `CacheReplication` is the tool: `Configure`,
`AddReplica`, `RemoveReplica`, `PromoteReplica`, `ResolveConflict` (with
`applyReplicationEntry`), `CreateSnapshot` and `Restore` are its operations, one
step each because none of them gives way. `SyncBegin` and `SyncNode` are `sync`,
which gives way after each node. `log` is the replication log. `cache` is what the
cache engine answers for each key.

That engine is the one of the whole server (`server.ts:427`) and, through its
file, of other servers. `OthersRemove` takes a key of the log out of it:
invalidation, eviction, a clear, expiry. `OthersSet` puts another tool's value
(`Foreign`) under it. So the cache may answer nothing for a key at any time, and
`apart` names the keys for which it may answer something else: those another tool
has set since their last entry, and the one at which a restore stopped. `MaxForeign`
bounds what the others do.

`Restore` follows the code into its failure. It takes `value.length`; an object
has none, SQLite refuses the row, and the loop ends with that entry in the log and
not in the cache. A full or busy database stops it at any other value in the same
way. With the Map (`Persistent` FALSE) an undefined size is accepted and the
restore completes.

Left out: the interval timer that `configure` starts anew (a sync may begin at any
time, so its period shows nowhere); the strategy "custom", for which no caller can
pass a function over the protocol; two syncs at a time; and lag, health,
heartbeats and weights, on which nothing decides.

### 3.9 `AnalyticsBatch`

The row queue of one server, await by await. `ready` is the event loop's queue
of continuations; every method starts by joining it, and its pieces are `Save`,
`Insert` (the transaction), `Read`, `Flushed`, `Select`, `Delete`, `Close`,
`CloseInsert` and `Closed`. `Flush` is `flushBatch` up to its await, which every
one of save, timer, query and clear goes through. All that is awaited is settled
already, so continuations run in the order in which they were queued, and the
timer fires when the queue is empty.

`held` stands for an aliasing: close() hands the array `batchQueue` to
`saveBatch` and replaces it afterwards, so a row that joins in between is
inserted with it, and one that joins after the insert is dropped.

`InsertFails`, `FinishFails` and `CloseFails` are a transaction that throws
(`MayFail`: another process holds the database). `End` is the end of the
process: the server never calls close() (`server.ts:845`) and the timer is
unref'd, so what is in memory then is gone. A measurement's id is a UUID, so the
unique index, which covers ids that begin with "mcp:", does not catch doubles.

Left out: the JSONL fallback, which writes at once; the opening of the database;
the reports, which are arithmetic over rows.

## 4. What the runs check

| Run | Instance | Shows |
|---|---|---|
| `hook_concurrent` | 2 processes, 1 file, a read, 2 tools to observe at 2 times, 1 redirect, 1 extra save, saves given up for a lock that stays taken, no failing reads or writes, no kills and no stale lock, processes symmetric; 1.2 million states | `LockExclusive`, the refinement `SavesAreAtomic`, `EvidenceNeverLost`, `LoopBreaking`, `CompactionForgets` in every interleaving |
| `hook_crash` | 2 processes, a refused shell search, 2 versions, kills, stale locks, failing saves and reads, stopped calls, 2 attempts; 267 thousand states | `DeniedTowardReachable` survives all of it; `HooksAnswer` under fairness |
| `cache_single` | 1 engine, 3 keys, values of size 1 and 2, limits 0, 2 and 3, time 0..2, failures, persistent; 76 thousand states | `MemoryMirrorsRows`, the refinement `ImplementsStore`, `EvictionIsLRU` |
| `file_tools_session` | 1 server, 1 file, three contents of which two differ in white space only, 1 write per process, 1 restart; 157 thousand states | `SearchSeesOwnWrites`, `DiffsFollowReads` |
| `settings_writer` | 4 versions of the user's file, 4 commands, kills, writes during commands | `LastUserFileKept`, `InstallReversible`, `UninstallSettles` in every order of installs, uninstalls, kills and manual edits |
| `home_files` | 2 runs (symmetric), 1 hash, rotation at 2 records, 6 records, 3 stored lines, 2 tears, 2 failing rotations; 2.1 million states | `LedgerBounded`, `OnlyTheOldestGo`, `TearSpoilsTwo`, `HistoryFloor`, `WholePutsStay` |
| `handoff` | 2 sessions (symmetric), `keep` 1, 2 milliseconds, 3 checkpoints, 2 files passed over; 2.8 million states | the refinement `ImplementsArchive`, `DirectoryBounded`, `RestoreNotBehind` |
| `cache_replication` | 2 nodes, 2 keys, 4 entries (one a delete, one an object), 2 conflicts, 1 snapshot, 1 restore, 1 key removed or set by another tool; 920 thousand states | `Primaries`, `CacheFollowsLog`, `SidesAgree`, `RestoreBringsBack`; `ReplicasCatchUp` under fairness |
| `analytics_batch` | 3 rows in batches of 2, a report, a clear, a close, failing transactions; 570 thousand states | `NothingVanishes`, `ReadsSeeSaves`, `StoredOnce`; `RowsSettle` under fairness |

Each of these has one type invariant, except `hook_crash`, whose types the
theorem covers. `CHECK_DEADLOCK` is on for the hooks, the cache, the file tools
and the replication, where an idle system can always start something. It is off
where the system may really come to its end: the commands, records and
checkpoints of `settings_writer`, `home_files` and `handoff` are bounded, and the
process of `analytics_batch` ends.

*Why the bounds are enough.* The lock, the file and each rule are about one
object; a third process adds nothing to a race between a reader with a stale
copy and a writer, and the theorems cover any number. Two times and two tools
make one observation replace another; that is what `hook_concurrent` spends its
states on, so its file keeps one version: that copies which saw two versions of a
file are merged as claimed is left to the theorems. One redirect can be parked
by a hook and consumed by another, each merged over by a stale copy. One attempt at
the lock in `hook_concurrent` is enough to get it or to give up; with the two of
`hook_crash` a process can wait or break a lock and still do either, and the
code's 20 add only more of the same. A save that fails once it has the lock leaves
undone what one that never got it does, and is left to `hook_crash`. Searches are left to `hook_crash`, because
their rules have the form of the read rules, and refusals with a substitute, which
only code files get, to the theorems: `DenialsBreakLoops` counts them like the
others. In the cache,
sizes 1 and 2 with limit 2 and three keys make the running total of evictLRU
pass the limit before, at and after the last key. In the file tools one write
and one restart give the sequence search, write, search on both sides of a
restart, which is where the counter can mislead. An instance with two servers
is too large for a run of a few minutes; the theorems cover it.

Four commands allow install, uninstall, install and uninstall again, with a
backup of each kind to be found by the last. Six records rotate the ledger
twice and leave some in both files; two tears fall on one line or on two, and two
failing rotations let the ledger grow past its threshold and still rotate later. Three
checkpoints with `keep` 1 let two sessions prune each other's while a third is
written late with an early time, for which two milliseconds are enough; two files
passed over are more than `keep`. Two conflicts and a restore in between put a
set, a delete and a set that comes back into one log; they are resolved by
last-write-wins, and `SidesAgree` goes through the other strategies but "merge",
for which it is not claimed. Three rows in batches of
two fill a batch and leave one for the timer, the report or close. Every bound
is a constant of its module, and none of the theorems depends on its value.

*Fairness.* `FairSpec` asks weak fairness of `Proceed(p)` for every process:
the operating system schedules a process it has started. Nothing is assumed of
the agent, the user, the host's kills or the age of a lock. `HooksAnswer` then
rests on `takeLock` counting its attempts, including those spent on breaking a
lock; a mutant that does not count a wait makes it fail. `CacheReplication` asks
weak fairness of `SyncBegin`, which is on an interval timer, and of each
`SyncNode`, whose promises are settled. `AnalyticsBatch` asks it of `Run`, the
event loop, and of `Timer`; a mutant of save that does not start the timer makes
`RowsSettle` fail. Nowhere is it assumed that a call comes in, that a user acts
or that a process lives on: in `RowsSettle` a row lost with its process is a row
that settled.

### 4.1 Where the code and its comments part

Three runs check a sentence of the repository and find a counterexample.
`PROJECT.json`, "findings", quotes the sentences and their lines.

| Run | The sentence | What happens |
|---|---|---|
| `ranged_suppressed` | the contents are already in your context | a read of a range is remembered with the hash of the whole file, so the full read after it is refused |
| `stale_search` | any write we performed invalidates every cached search | the counter starts at 0 with every process and the entries do not: after a restart the first write leads to the key an earlier process used. `SearchSeesOwnWrites` is the form that holds, within one process |
| `uninstall_removes` | uninstall reverses the install | uninstalling makes backups too: after a manual setup was uninstalled, the newest backup holds optiflow's own statusline, and the next uninstall restores it |

Ten more sentences are stated at the end of their modules, under "and the code
does not keep". TLC refutes each when it takes the place of the properties of
the run's cfg, with the changes named here:

| Statement | The sentence | What happens | Refuted with |
|---|---|---|---|
| `DeniedOnce` (`HookSession`) | a denial is only ever issued once per target | two overlapping hooks both load before either saves. `LoopBreaking` is the form that holds | `HookConcurrent.cfg`, `TracksAgent = TRUE` |
| `CreditedOnce` | one redirect can never be credited twice | two PostToolUse hooks read the parked redirect without the lock | the same |
| `ToolsMerged` | persists the session state, merging (never overwriting) | two observations overlap, and the list with the later time replaces the other. `EvidenceNeverLost` is the form that holds | `HookConcurrent.cfg`, as a PROPERTY |
| `RowsStand` | only recorded when the refusal actually stands | the row looks at the configured mode, the answer at the effective one | `HookConcurrent.cfg` |
| `VetoStands` | a guard is a hard veto | until some MCP tool was observed, every verdict is downgraded to advice, a guard's too | `HookConcurrent.cfg`, `Guarded <- OneRead` |
| `DiffsSinceLastRead` (`FileTools`) | what changed since you last read this | the baseline is stored once and never replaced; the second diff is against the first version | `FileToolsSession.cfg`, as a PROPERTY |
| `WithinMaxSize` | maximum content size to return | a diff that is too long falls back to the whole file and skips the limit | the same, `Size <- OneLarge`, `ShortDiffs <- NoDiff` |
| `OwnRestored` (`Handoff`) | the just-written checkpoint is now the latest | another session of the project may have written one since | `Handoff.cfg`, `Keep`, `MaxTime`, `MaxTaken` 2 |
| `OnePrimary` (`CacheReplication`) | "master-slave" is an alias for primary-replica | promoting in it demotes nobody | `CacheReplication.cfg` |
| `LossesSurface` (`AnalyticsBatch`) | a flush failure surfaces as a slow response rather than a silently lost write | the batch that fails holds rows of calls that were answered before | `AnalyticsBatch.cfg` |

## 5. What is proved

With tlapm, for every value of the constants that satisfies the modules'
assumptions, the named ASSUMEs in the modules that declare them. TLC evaluates
those in the runs.

| Theorem | Under | Argument |
|---|---|---|
| *`HookSessionProofs`* | | |
| `TypeCorrect` | nothing more | `TypeInv`: types, and only an observing process is at "resolve" |
| `NeverDeniedTowardUnreachable` | nothing more: kills, lost saves, failing reads, broken locks | `ToolsInv` |
| `OneWriter` | `~LocksGoStale` | `LockInv` |
| `EvidenceKept` | `~LocksGoStale`, `~ReadsMayFail` | `LockInv`, `TimedInv`, `SpreadInv` |
| `SavesTakeEffectAtOnce` | `~LocksGoStale`, `~ReadsMayFail` | a step simulation under `LockInv` |
| `MergesCommute`, `SavingTwiceIsOnce` | nothing more | of the operators: `Merged`, field by field |
| `DenialsBreakLoops` | `~LocksGoStale`, `~ReadsMayFail` | `LoopInv`, on top of `LockInv` |
| `CompactionsForget` | `~LocksGoStale` | `CompactInv`, on top of `LockInv` |
| `NothingAbandoned` | `~LocksGoStale`, `~LocksMayWait`, `~WritesMayFail` | `NoLoss` |
| `HooksTakeBoundedSteps` | nothing more: kills, lost saves, broken locks | the measure `StepsLeft` |
| *`CacheEngineProofs`* | | |
| `CacheTypeCorrect` | nothing more | types |
| `MemoryIsACopy` | one engine on the file | `CacheInv` |
| `CacheImplementsStore` | one engine on the file | a step simulation under `CacheInv` |
| `EvictsInOrderOfUse` | one engine on the file; any sizes | `UseInv`, `SelectInv`, and that a running total grows along the order |
| *`FileToolsProofs`* | | |
| `FileToolsTypeCorrect` | nothing more | types |
| `SearchesSeeOwnWrites` | nothing more: any number of servers and restarts | `SearchInv` |
| `DiffsBuildOnReads` | no file above chunkSize | `BaselineInv` |
| *`SettingsWriterProofs`* | | |
| `TypeCorrect` | nothing more: kills and races | `TypedInv` |
| `UserFileSurvives` | nothing more | `KeepInv` |
| `UninstallGivesBack` | nothing more | `ReverseInv` |
| `UninstallConverges` | nothing more | `SettleInv` |
| *`HomeFilesProofs`* | | |
| `TypeCorrect`, `LedgerStaysBounded`, `NewRecordsStay`, `TearsSpoilFew`, `HistoryIsKept`, `StoredTextsStay` | nothing more: any number of runs, kills, tears, failing rotations | one invariant, `IInv`, with a part for each |
| *`HandoffProofs`* | | |
| `TypeCorrect`, `NewestAreKept`, `DirectoryStaysBounded`, `RestoresAreRecent` | nothing more: any number of sessions, any `keep`, failing reads and unlinks | one invariant, `IInv` |
| `DirectoryIsArchive` | nothing more | a step simulation under `IInv` and `Own` |
| *`CacheReplicationProofs`* | | |
| `MergedClockIsLeast` | nothing more | of the operators: the merge of two vector clocks is their least upper bound |
| `TypeCorrect`, `BothSidesAgree` | nothing more | types; a case for each strategy |
| `AlwaysAPrimary` | nothing more | `PrimaryInv` |
| `CacheAgreesWithLog`, `RestoresBringBack` | nothing more: whatever others remove from the cache or set in it | `LogInv` |
| *`AnalyticsBatchProofs`* | | |
| `TypeCorrect` | nothing more | types |
| `RowsAccountedFor` | nothing more: failing transactions, close, the end | `VanishInv` |
| `NoRowTwice` | until close() is called | `FreshInv` |
| `ReportsComplete` | nothing more | `CoverInv`, on top of `VanishInv` |
| `RowsHaveTakers` | nothing more | `WaitInv`, on top of `VanishInv` |

*Refusals point at tools that work.* The property is about an answer; the
invariant has to follow the evidence back to where it came from. `ToolsInv` says
that the file, every copy in memory and every copy read back know only
reachable tools, and that a verdict, once its process knows a tool to be
proven, points at one of the known. Merging is where this could break, and
since the merge picks one of two sound sets it does not matter in which order,
how often or under whose lock it is done: the theorem needs no assumption on
the lock.

*One writer.* `LockExclusive` alone is not inductive: unlocking removes the file
without a look. `LockInv` adds that whoever is inside has the lock file in place,
that no one is about to break one, and that a process which has read the file
back still agrees with it, which is what makes merge-and-write atomic. This is
exactly what a stale lock destroys, hence the assumption. The last part holds only
where a read under the lock does not fail. A hook whose read fails writes the
merge of its own copy with nothing, and whatever else the file held is gone:
denials, tools, redirects. So the three theorems that rest on that part assume
`~ReadsMayFail` as well; `hook_crash` has failing reads, and what it claims needs no
assumption on them.

*Saves in one step.* The same fact about the copy read back carries the
refinement. When a hook writes, `disk[p] = file`, so `WriteBack` merges its copy
into the state as it is: a step of `Saves`, or of `Clears`. Loading and observing
are `Deliberates` and `Reports`, since the copy is made of the state of that
moment; every end of a process drops its copy; taking, waiting, breaking,
reading back, failing and unlocking change neither state nor copy. That the
operators of the two instances of `SessionState` are the same ones is a lemma
(`SameOperators`). What is left of overlapping is then the order of two merges,
and `MergesCommute` says when it matters: for the parked redirects, which the
last save sets; for a file that changed between the two reads; and for
observations of the same millisecond. The first of these is why `CreditedOnce`
(4.1) is refuted.

*Evidence and loops.* A merge prefers the copy with the newer observation, so
`TimedInv` (a copy with a time has a tool) is needed for it never to prefer
an empty set. That no single tool is lost either, unless observations collided
(`crowded`), is harder, because a copy made long ago may be the newer one.
`SpreadInv` tells two kinds of copies apart. That of a hook which observes nothing
is no newer than the file, so the file's list wins (`Behind`). That of an
observation yet to be saved has all the file has and its own tool (`Ahead`), and
two of these observe the same tool. Where they do not, either list may
win, and the other's tool has to be observed again (`ToolsMerged`, 4.1).

`LoopInv` then says that every refusal delivered is noted, in the
file or in `unsaved`; that a process has its own refusal in memory before it
saves and noted before it answers; and that its verdict repeats what was refused
before it started, or that one is in `unsaved`. The code ignores
the result of the save (`pretooluse.ts:429`), which is a hazard of the list.
What it costs is now stated rather than assumed away: the one call whose save
was given up, and no other, can be refused again by a later hook.

*Compactions.* `CompactInv` follows the one process that compacts: everyone else
is idle from its start to its end, and from its write on the file has no
`seen`, unless it never got to write (`uncleared`): it gave the lock up, the
write failed or it was killed. That is the hazard at `precompact.ts:86`, and the
theorem says that nothing else leaves a claim behind. `NothingAbandoned` closes
the circle: where locks do not go stale and saves do not fail nothing is ever in
`unsaved`, and `uncleared` needs a kill. Its invariant has to say that nobody
ever waits for the lock, for giving up is the other way to abandon a save.

*Steps.* `HooksAnswer` is liveness, and stays with TLC; but what makes it true is
not the scheduler. `StepsLeft` counts what a hook still has to do: attempts at
the lock twice, because an attempt may find a stale lock and break it, then the
save, then the saves that follow. Each of its own steps makes the number
smaller and no step of another makes it larger, whatever is killed, stolen or
failing. A wait that is not counted, the mutant of `hook_crash`, is what would
break it.

*The cache.* `MemoryMirrorsRows` is inductive together with the types, but only
for one engine: a second engine deletes rows under the first one's copies. In
the program each server has at least two engines on the file (`server.ts:427`
and `shared-instances.ts:19`), and each session a server. The tools use
different namespaces, so that within one process a key is mostly used through
one of them; across processes the theorem does not apply, and `FileTools` models
the memory tiers separately for that reason.

*Eviction.* The row's time and the time of the last use are the same for every
row there is (`UseInv`), also when the use was answered from memory, because
`touch` writes the row then. A row used later than a surviving one comes before
it in the order, so all that is added up for it is added up for the other: its
total is no larger, and it survives. That needs only that a subset of a finite
set is no larger, and no induction over the rows. What it does need is that the
rows are still those that were selected from (`SelectInv`): nothing comes between
the two statements of evictLRU where one engine is on the file, and with another
the theorem would be false.

*Searches.* A cached search bears (as history) the process that stored it.
`SearchInv` says that an entry a process stored under its present count saw all
its writes, that none is stored under a count it has yet to reach, that a running
search still has the current count, and that no entry bears a process that is
still to come. The last part is what the refuted `OwnWritesInvalidate` lacks:
counts of two incarnations are comparable only if they are one.

*Baselines.* Every baseline is a text that smart_read once gave in full. A file
above chunkSize is stored whole though only a part was given, hence the
assumption; that the part is not the whole is on the hazard list.

*Settings.* `TypedInv` adds to the types that each moment is copied to once, by the
command of that moment, and that a restore has the newest backup there is. It is
what makes the rest short: a copy once made is never overwritten, so `KeepInv`
only has to say that before a command overwrites the file it has a copy of what
the user left, unless the user wrote after the copy. `ReverseInv` says that
while an install is in force the newest backup is the very file it replaced;
`SettleInv`, that after an uninstall either no statusline is left or the file is
the newest backup, so that another uninstall restores what is there.

*Ledger and CCR store.* The bound on the ledger is a count of processes: whoever
is about to append has seen the file below the threshold, has emptied it or has failed
to. So `BoundInv` adds those processes to its length, and `blocked` to the bound. `TearInv` charges a tear before
the damage is done: an open tail is counted with what the next append may spoil.
`CcrInv` places a stored text on a line that is not the open one, which no append
changes. `FloorInv` is arithmetic: a line is at least one record, and an
archive is at least `RotateAt` long.

*Checkpoints.* The difficulty is that a listing is old when it is used. Having
`keep` newer ones is stable, since finished checkpoints are only ever added: so
whatever any process has doomed, however long ago, may still go (`Kept`,
`Sound`). The bound on the directory needs that the process which finished its
write last sees all others in its listing, so that what it does not doom is at
most `keep` (`Bounded`), but for what it could not read or remove: those files are
carried along in `passed`, and end in `left`. A restore carries a witness through its steps, a file at
least as new as the newest it could have known; only if more than `keep` so new
exist may that file have gone (`Reaching`), unless it was one that could not be
read.

That the directory is an `Archive` uses the same stability: what a process
unlinks was doomed by a listing that may be long out of date, and may go all the
same. The other half is that a checkpoint turns up once: `Own` says that what a
session is about to write bears its name and was never finished before, since it
takes its timestamps one at a time and no millisecond twice.

*Replication.* `LogInv` orders the log by the version at which each entry was
applied, which is what "the last" needs to mean something when the same key is
set, deleted and restored. What others remove can only turn an answer into none,
and what they set is in `apart` until the next entry of that key, so neither
disturbs it; this is also why the property allows no answer at all. A snapshot keeps only the sets: that its last set of a
key is the value the key had follows from the log ending in a set for every key
that had a value.

*Rows.* `VanishInv` is `NothingVanishes` over the sequence of continuations. For
`NoRowTwice` the queue, the table and the rows of all continuations have to be
pairwise disjoint (`FreshInv`); close() is where the code breaks this, by
handing over an array that stays in use. `ReportsComplete` needs an order: what a
report must show is stored, or in an insert that stands before the report's own
continuation in the queue (`CoverInv`), and since the queue is first in, first
out, it stays before it. `RowsHaveTakers` is the part of `RowsSettle` that does
not depend on scheduling: rows in the queue have a timer set (`WaitInv`), all
other rows that have not settled are in an insert to come, and neither is left
behind when the process ends.

## 6. What only TLC checks, and what nothing checks

*Only TLC:* `HooksAnswer`, `ReplicasCatchUp` and `RowsSettle` (liveness; the
prover does not do fairness), and the refutations of 4.1. Of the first and the
last of the three the part that is not scheduling is proved
(`HooksTakeBoundedSteps`, `RowsHaveTakers`). Of `ReplicasCatchUp` it is not:
whether a sync left a replica behind depends on what was added, promoted and
restored between its pieces, which no variable remembers.

*Nothing:*

- How long a lock that a killed hook left behind keeps others out: its age is
  not a clock, it goes stale at any time or, with `LocksGoStale` off, never.
- Several engines with one process deleting what another holds in memory: the
  code promises nothing about it. Nor does it about evictLRU with another engine
  between its two statements.
- A process whose cache has fallen back to the Map while others have SQLite.
- A hook whose first read of the state fails (it decides as a new session would).
- A corrupt database that another process holds open while it is replaced.
- The awaits inside smart_read (large files) and smart_write (formatting), and
  reads in chunks; on the hazard list.
- The white-space rule of `hasMeaningfulChanges` is modelled as it is; whether
  it should be applied to languages in which indentation means something is not
  a question a model settles.
- The model download: one optional download per machine, two files.
- Text: filters, compressors, formats, parsers of shell commands, prices. They
  have no state, and their input is data a model cannot enumerate usefully.
- The simulations and statistics among the tools: most of the repository's lines
  are tools that format requests, parse outputs or compute over the input of one
  call, the bundles in `plugin/` are built from `src/`, and `native/` holds
  compression algorithms. None of them keeps state that another part relies
  on, beyond the entries they put in the cache.
