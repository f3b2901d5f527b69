------------------------------ MODULE FileTools -----------------------------
(***************************************************************************)
(* The file tools of the MCP servers over their shared cache: smart_read,  *)
(* smart_write, smart_edit, smart_grep and smart_merge                     *)
(* (optimizer/tools/file-operations), the generation counter that keys     *)
(* cached searches (optimizer/utils/fs-generation.ts), and the agents that *)
(* act on what the tools answer.                                           *)
(*                                                                         *)
(* Each session has a server process of its own; all servers share one     *)
(* cache.db and one working tree.  A tool runs to completion before its    *)
(* server takes the next call, except that other servers and programs may  *)
(* change the tree while smart_grep walks it.  The cache is seen through   *)
(* get and set only (CacheEngine has the rest).                            *)
(***************************************************************************)
EXTENDS Naturals

CONSTANTS
  Servers,
  Files,
  Contents,       \* what a file may hold
  Nothing,        \* no file, no cache entry, nothing known
  Text,           \* each content up to white space, as hasMeaningfulChanges sees it
  Size,           \* "small", "chunked" above chunkSize, "large" above maxSize
  ShortDiffs,     \* pairs whose diff is less than half of the file
  MaxWrites,      \* bound: writes of one server process
  MaxRestarts     \* bound: how often a session ends and another starts

ASSUME FileToolsAssumption ==
  /\ Nothing \notin Contents \cup Servers
  /\ Nothing \notin {Text[c] : c \in Contents}
  /\ Size \in [Contents -> {"small", "chunked", "large"}]
  /\ ShortDiffs \subseteq Contents \X Contents
  /\ MaxWrites \in Nat
  /\ MaxRestarts \in Nat

Texts == {Text[c] : c \in Contents}
Trees == [Files -> Contents \cup {Nothing}]
Generations == 0..MaxWrites
Outside == <<Nothing, 0>>     \* any program but the servers
\* A server process: whose it is, and the how many-th.
Processes == Servers \X (0..MaxRestarts)

VARIABLES
  tree,        \* the working tree
  origin,      \* history: the process whose write tools changed each file last
  rows,        \* cache.db: the contents smart_read and the results smart_grep kept
  mem,         \* the memory tier of each server
  generation,  \* fsGeneration() of each server
  search,      \* the generation a running smart_grep computed its key from
  restarts,    \* how often each server was started again
  given,       \* history: the texts of each file that smart_read gave in full
  latest,      \* history: the text of each file at its agent's last smart_read
  reply        \* what the latest step answered

vars == <<tree, origin, rows, mem, generation, search, restarts, given, latest, reply>>

Self(s) == <<s, restarts[s]>>

\* A stored search: what it found, and (history) the process that stored it.
Found == [tree : Trees, by : Processes]

\* The keys of one tier: 'smart-read' by path, 'grep' by generation.
Tiers == [read : [Files -> Contents \cup {Nothing}],
          grep : [Generations -> Found \cup {Nothing}]]
WithRead(tier, f, c) == [read |-> [tier.read EXCEPT ![f] = c], grep |-> tier.grep]
WithSearch(tier, n, e) == [read |-> tier.read, grep |-> [tier.grep EXCEPT ![n] = e]]
EmptyTier == [read |-> [f \in Files |-> Nothing], grep |-> [n \in Generations |-> Nothing]]

NoReply == [kind |-> "none"]
Replies ==
  {NoReply}
    \cup [kind : {"full", "part"}, server : Servers, file : Files]
    \cup [kind : {"diff", "same"}, server : Servers, file : Files, base : Contents]
    \cup [kind : {"fresh", "cached"}, server : Servers, found : Found]

TypeOK ==
  /\ tree \in Trees
  /\ origin \in [Files -> Processes \cup {Outside}]
  /\ rows \in Tiers
  /\ mem \in [Servers -> Tiers]
  /\ generation \in [Servers -> Generations]
  /\ search \in [Servers -> Generations \cup {Nothing}]
  /\ restarts \in [Servers -> 0..MaxRestarts]
  /\ given \in [Files -> SUBSET Texts]
  /\ latest \in [Servers -> [Files -> Texts \cup {Nothing}]]
  /\ reply \in Replies

Unread == [f \in Files |-> Nothing]

Init ==
  /\ tree \in Trees
  /\ origin = [f \in Files |-> Outside]
  /\ rows = EmptyTier
  /\ mem = [s \in Servers |-> EmptyTier]
  /\ generation = [s \in Servers |-> 0]
  /\ search = [s \in Servers |-> Nothing]
  /\ restarts = [s \in Servers |-> 0]
  /\ given = [f \in Files |-> {}]
  /\ latest = [s \in Servers |-> Unread]
  /\ reply = NoReply

Idle(s) == search[s] = Nothing

-----------------------------------------------------------------------------
(* smart_read.                                                             *)

\* get: the memory tier, then the database, which fills the memory tier.
CachedRead(s, f) == IF mem[s].read[f] # Nothing THEN mem[s].read[f] ELSE rows.read[f]

\* The answer without a baseline, and for an explicit chunkIndex.
Delivered(s, f) ==
  [kind |-> IF Size[tree[f]] = "small" THEN "full" ELSE "part", server |-> s, file |-> f]

\* With a baseline: nothing new, a diff, or the whole file when the diff would
\* be longer than half of it.
Compared(s, f, base) ==
  IF Text[base] = Text[tree[f]]
  THEN [kind |-> "same", server |-> s, file |-> f, base |-> base]
  ELSE IF <<base, tree[f]>> \in ShortDiffs
  THEN [kind |-> "diff", server |-> s, file |-> f, base |-> base]
  ELSE [kind |-> "full", server |-> s, file |-> f]

\* A slip: keeping what the comparison looks at instead of the content.
BaselineNormalised(f) == Text[tree[f]]

\* What a read that found no baseline stores.
Baseline(f) == tree[f]

\* `whole`: diffMode is off or a chunkIndex is given.  A part of a file does
\* not count as having it.
SmartRead(s, f) ==
  /\ Idle(s)
  /\ tree[f] # Nothing
  /\ \E enableCache, whole \in BOOLEAN :
       LET base == IF enableCache THEN CachedRead(s, f) ELSE Nothing
       IN /\ reply' = IF base = Nothing \/ whole THEN Delivered(s, f)
                      ELSE Compared(s, f, base)
          /\ mem' = IF enableCache
                    THEN [mem EXCEPT ![s] =
                            WithRead(@, f, IF base = Nothing THEN Baseline(f) ELSE base)]
                    ELSE mem
          /\ rows' = IF enableCache /\ base = Nothing
                     THEN WithRead(rows, f, Baseline(f)) ELSE rows
  /\ given' = IF reply'.kind = "part" THEN given
              ELSE [given EXCEPT ![f] = @ \cup {Text[tree[f]]}]
  /\ latest' = [latest EXCEPT ![s][f] = Text[tree[f]]]
  /\ UNCHANGED <<tree, origin, generation, search, restarts>>

-----------------------------------------------------------------------------
(* smart_write, smart_edit, smart_merge and other programs.                *)

Written(s, f, c) ==
  /\ tree' = [tree EXCEPT ![f] = c]
  /\ origin' = [origin EXCEPT ![f] = Self(s)]
  /\ reply' = NoReply

\* The write, then bumpFsGeneration.  The copies that both tools keep under
\* 'file-write' and 'file-edit' are left out: nothing reads them.
Change(s, f, c) ==
  /\ generation[s] < MaxWrites
  /\ Written(s, f, c)
  /\ generation' = [generation EXCEPT ![s] = @ + 1]
  /\ UNCHANGED <<rows, mem, search, restarts, given, latest>>

\* Formatting, or verifyBeforeWrite off, may write what the file already holds.
SmartWrite(s, f, c) ==
  /\ Idle(s)
  /\ Change(s, f, c)

\* A slip: keeping the result under smart_read's key, as the tool's schema says.
SmartEditRefreshing(s, f, c) ==
  /\ Idle(s)
  /\ tree[f] \notin {c, Nothing}
  /\ generation[s] < MaxWrites
  /\ Written(s, f, c)
  /\ generation' = [generation EXCEPT ![s] = @ + 1]
  /\ rows' = WithRead(rows, f, c)
  /\ mem' = [mem EXCEPT ![s] = WithRead(@, f, c)]
  /\ UNCHANGED <<search, restarts, given, latest>>

SmartEdit(s, f, c) ==
  /\ Idle(s)
  /\ tree[f] \notin {c, Nothing}
  /\ Change(s, f, c)

\* An editor, a checkout, a built-in tool; also smart_merge, which runs git in
\* the tree and leaves the generation alone.
ChangeOutside(f, c) ==
  /\ tree[f] # c
  /\ tree' = [tree EXCEPT ![f] = c]
  /\ origin' = [origin EXCEPT ![f] = Outside]
  /\ reply' = NoReply
  /\ UNCHANGED <<rows, mem, generation, search, restarts, given, latest>>

-----------------------------------------------------------------------------
(* smart_grep with useCache; smart_glob keys and stores the same way.      *)

\* A slip in generateCacheKey: the generation is not part of the key.
SearchKeyFixed(s) == 0

SearchKey(s) == generation[s]

CachedSearch(s) ==
  IF mem[s].grep[SearchKey(s)] # Nothing THEN mem[s].grep[SearchKey(s)]
  ELSE rows.grep[SearchKey(s)]

AnswerSearch(s) ==
  /\ Idle(s)
  /\ CachedSearch(s) # Nothing
  /\ reply' = [kind |-> "cached", server |-> s, found |-> CachedSearch(s)]
  /\ mem' = [mem EXCEPT ![s] = WithSearch(@, SearchKey(s), CachedSearch(s))]
  /\ UNCHANGED <<tree, origin, rows, generation, search, restarts, given, latest>>

StartSearch(s) ==
  /\ Idle(s)
  /\ CachedSearch(s) = Nothing
  /\ search' = [search EXCEPT ![s] = SearchKey(s)]
  /\ reply' = NoReply
  /\ UNCHANGED <<tree, origin, rows, mem, generation, restarts, given, latest>>

Result(s) == [tree |-> tree, by |-> Self(s)]

FinishSearch(s) ==
  /\ ~Idle(s)
  /\ rows' = WithSearch(rows, search[s], Result(s))
  /\ mem' = [mem EXCEPT ![s] = WithSearch(@, search[s], Result(s))]
  /\ search' = [search EXCEPT ![s] = Nothing]
  /\ reply' = [kind |-> "fresh", server |-> s, found |-> Result(s)]
  /\ UNCHANGED <<tree, origin, generation, restarts, given, latest>>

-----------------------------------------------------------------------------
(* The cache forgets, the session ends.                                    *)

Without(tier, R, N) ==
  [read |-> [f \in Files |-> IF f \in R THEN Nothing ELSE tier.read[f]],
   grep |-> [n \in Generations |-> IF n \in N THEN Nothing ELSE tier.grep[n]]]

\* Clearing, invalidation, eviction: through the engine of one server.
Forget(s, R, N) ==
  /\ Idle(s)
  /\ rows' = Without(rows, R, N)
  /\ mem' = [mem EXCEPT ![s] = Without(@, R, N)]
  /\ reply' = NoReply
  /\ UNCHANGED <<tree, origin, generation, search, restarts, given, latest>>

\* The memory tier's TTL and its capacity.
Expire(s, R, N) ==
  /\ Idle(s)
  /\ mem' = [mem EXCEPT ![s] = Without(@, R, N)]
  /\ reply' = NoReply
  /\ UNCHANGED <<tree, origin, rows, generation, search, restarts, given, latest>>

\* The session's process ends; cache.db stays.  The next one starts at
\* generation 0 with an agent that has read nothing.
Restart(s) ==
  /\ restarts[s] < MaxRestarts
  /\ restarts' = [restarts EXCEPT ![s] = @ + 1]
  /\ mem' = [mem EXCEPT ![s] = EmptyTier]
  /\ generation' = [generation EXCEPT ![s] = 0]
  /\ search' = [search EXCEPT ![s] = Nothing]
  /\ latest' = [latest EXCEPT ![s] = Unread]
  /\ reply' = NoReply
  /\ UNCHANGED <<tree, origin, rows, given>>

Next ==
  \/ \E s \in Servers :
       \/ AnswerSearch(s) \/ StartSearch(s) \/ FinishSearch(s)
       \/ Restart(s)
       \/ \E R \in SUBSET Files, N \in SUBSET Generations : Forget(s, R, N) \/ Expire(s, R, N)
       \/ \E f \in Files :
            \/ SmartRead(s, f)
            \/ \E c \in Contents : SmartWrite(s, f, c) \/ SmartEdit(s, f, c)
  \/ \E f \in Files, c \in Contents \cup {Nothing} : ChangeOutside(f, c)

Spec == Init /\ [][Next]_vars

-----------------------------------------------------------------------------
(* Properties.                                                             *)

\* A search that this very process stored is never answered from the cache after
\* the process has written one of the files: the write made the key unreachable.
SearchSeesOwnWrites ==
  reply.kind = "cached" /\ reply.found.by = Self(reply.server) =>
    \A f \in Files : origin[f] = Self(reply.server) => reply.found.tree[f] = tree[f]

\* smart_read answers with a diff, or with "No changes", only against a text that
\* it gave some agent in full: no answer builds on content nobody was given.
BaselineGiven ==
  (reply'.kind \in {"diff", "same"} /\ reply' # reply) =>
    Text[reply'.base] \in given[reply'.file]
DiffsFollowReads == [][BaselineGiven]_vars

-----------------------------------------------------------------------------
(* What the comments and schemas say and the code does not keep.           *)

\* fs-generation.ts: "any write we performed invalidates every cached search".
OwnWritesInvalidate ==
  reply.kind = "cached" =>
    \A f \in Files : origin[f] = Self(reply.server) => reply.found.tree[f] = tree[f]

\* smart-read.ts: diff mode answers "what changed since you last read this".
BaselineIsLatest ==
  (reply'.kind \in {"diff", "same"} /\ reply' # reply) =>
    Text[reply'.base] = latest[reply'.server][reply'.file]
DiffsSinceLastRead == [][BaselineIsLatest]_vars

\* smart-read.ts, the schema of maxSize: "Maximum content size to return".
WithinMaxSize == reply.kind = "full" => Size[tree[reply.file]] # "large"
=============================================================================
