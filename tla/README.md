# Specifications of virelia (mcp-kavach)

virelia stands between an AI client and its MCP tools. It scans tool results, and on request tool
arguments, for personal data and rewrites them by a policy; Claude Code hooks do the same for prompts and
tools; a vault makes tokens of values reversible. This directory holds TLA+ models of that code, the
configurations TLC checks them with, and proofs checked by TLAPS. Paths below are relative to
`src/src/virelia/` unless they start with `src/`.

    tlasany M.tla                          parse
    tlc -workers 2 -config X.cfg M         check one configuration
    tlapm M.tla                            check the proofs of a module

`PROJECT.json` lists the runs, one mutant per property, which definition stands for which lines, and the
hazards. A definition introduced by a comment that begins with "Slip" is a plausible mistake that no
specification uses: it is there to be put in the place of the definition after it, to see that a property
notices.

## 1. Inventory

| component | state | operations | hard behaviour | correct when |
|---|---|---|---|---|
| vault, `vault/store.py` | a SQLite table shared by processes and scopes, a connection and a mutex per process | `token_for`, `lookup`, `rehydrate`, `close` | read-then-insert between processes, rollback and retry, lock timeouts, crashes | tokens and values one to one, durable, reversible; every call ends |
| secret files, `vault/store.py`, `hooks/runner.py`, `engine.py` | `vault.key`, `salt` | create once, read | two-step creation | one key, one salt, never replaced |
| prompt guard, `hooks/prompt_guard.py`, `hooks/state.py` | one pending file per session, a shared `.tmp` name | `consume`, `store`, sweep | no locks between hook processes, kills, eviction, windows | a block is confirmed at most once, and as long as its message says |
| engine, `engine.py`, `models.py` | policy, pruned detectors, sink, vault | `scan_request`, `scan_result` | rule precedence, detector pruning, an exception at any point, events one by one | the result is what the policy asks for, and in the log |
| transformer, `transform/transformer.py` | none | `merge_clusters`, `transform_text`, `transform_whole_value` | nested, chained and touching spans; offsets under rewriting | every value hidden by the severest action, nothing else |
| path patterns, `pathmatch.py` | none | `compile_path`, `matches` | what is a pattern at all, backtracking at `..` | the grammar of its docstring |
| middleware, `adapters/fastmcp_middleware.py` (and `proxy.py`, wiring) | its options | `on_call_tool` | parts scanned one after the other, two exception handlers, an await | no unscrubbed part leaves, except under `fail_open` |
| tool input and output guards, `hooks/tool_input.py`, `hooks/tool_output.py`, `hooks/summary.py` | none | `handle` | four modes, payload shapes, a blocked scan and an allowlist in one chain of ifs; failing open, timeouts | nothing reaches the tool that was neither hidden nor named to the user |
| hook configuration, `hooks/config.py` | `config.yaml`, the environment | `load_config` | precedence, what YAML makes of a word | the guards do what the user has set |
| policy, `policy/schema.py`, `policy/loader.py` | none after loading | validate, load | conditions between fields of a rule | an unsound policy never reaches an engine |
| audit sinks and readers, `audit.py`, `cli/audit.py` | log files and tables, the readers' positions | `emit`, `tail`, `report` | several writers and a reader, lines seen in halves or cut short, even within a character, ids out of order, an emit that raises | every event reported, once; the tail shows what is new, once |
| checksums, `detectors/checksums.py` | none | Verhoeff, Luhn | tables, positions from the right | one wrong digit, or two swapped neighbours, show |
| column names, `detectors/structural.py` | name table | `detect_node` | the field of a value through lists | the innermost field decides |
| pattern detectors, `detectors/regex.py`, `entities.py`, `secrets.py`, `normalize.py` | pattern tables | `detect` | regular expressions | inputs of the engine's model |
| NER tier, `detectors/ner.py` | one loaded pipeline per process | `detect`, `load_ner_detector` | third-party models, loaded once or not at all | asked only for what the policy acts on, never surer than patterns |
| command line, `cli/main.py` | none | dispatch | - | not modelled |

Interactions. The middleware and each hook process call an engine; the engine calls detectors, the
transformer, which calls `Vault.token_for`, and at the end the sink. Hook processes live for one event and
meet only in files: the pending files, the salt, the audit log, the vault and its key. The MCP server is
one long-lived process with an event loop; scans do not await.

## 2. The models

**`CoatCheck`, `Vault`, `MCVault`.** `CoatCheck` is what the vault promises: a ticket is minted for one
value and then handed out for ever. `Vault` has an action for each statement of `token_for` (`Begin`: the
mutex; `Find`, `Number`, `Insert`, `InsertConflict`, `Commit`, `Return`), the timeouts of each
(`ReadBusy`, `InsertBusy`, `CommitBusy`), `Rehydrate`, `Close` and `Crash`. `rows` is the file; `open[c]`
are rows inserted by connection `c` and not committed; `lock[c]` and `intx[c]` are SQLite's file lock and
Python's implicit transaction. SQLite is external, modelled as the code uses it (rollback journal, default
busy timeout). Values and HMACs are model values. `Vault` implements `CoatCheck` under
`tickets <- rows, handed <- issued`.

**`SecretFile`.** Creating and reading the key and the salt: O_EXCL creation, the write in a second step,
`FileExistsError`, the empty file, `Engine.__init__`'s fallback to a random salt, crashes.

**`PromptGuard`, `MCPromptGuard`.** Hook processes in confirm mode, one action per file operation of
`consume`, `store`, `_write` and `_prune_stale_files`. `where[p]` follows a process's open file when
another process renames it. `owed` is a history of blocks that a resend may still confirm. `overlap`,
chosen at the start, says whether prompts are submitted while another hook process runs, and the bound
`Raced` in which sessions; without it every session takes part, one prompt at a time. Modes `off` and
`warn` change no state and are left out.

**`Transformer`.** One leaf, character by character: findings are absorbed into clusters one after the
other, then each cluster is replaced from the right. A marker remembers which characters it was made from
and which finding leads it; its wording is left out.

**`PathMatch`, `Engine`, `Demands`.** `PathMatch` translates `compile_path` from tokens to segments, says
which patterns compile (`Compiles`), translates `_match` as a recursive function, and gives the
docstring's grammar a declarative reading, `Covers`. `Engine` is `_scan`: leaf by leaf (`Walk`), the block
of a whole payload (`Withhold`), `Rebuild`, the audit events one by one (`Emit`), and an exception of a
detector, the vault or the sink at each point where it can arise. `Built` is its constructor, which prunes
detectors. A leaf comes with the spans that patterns and models would report if they all ran; which of
them do run is the engine's business and modelled (`IsFound`, `NerWanted`, `NerAsked`), and so are the
column-name detector (`ColumnSpans`) and the cap on a model's confidence (`Capped`). Inside a leaf, spans
have a place rather than offsets: place 0 covers the whole leaf, and how overlapping extents merge in
general is `Transformer`'s subject. A loop that keeps some elements of a list is `Kept` of `Subsequences`.
`Demands` states independently what the policy asks for on a leaf,
from the rules, from `Covers` and from what can be found at all; the properties of the next two compare
what was done with it.

**`Middleware`, `MCMiddleware`.** `on_call_tool` around the engine: request scan, the tool, the parts of
the result, `block_mode`, `fail_open`.

**`Hooks`, `MCHooks`.** One tool call of Claude Code between the two guards, each a process that reads
its configuration (`Mode`, `Allowlisted`) and the policy file (`PolicyOK`), scans with an engine of its own
and speaks or not: `Silent`, `Mask`, `Ask`, `Warn`, `InputDenied` before the tool, `OutputScanned` after
it. `InputFails` and `OutputFails` stand for every exception and for Claude Code's timeout, at any point.
`named` is what a guard's message lists. Claude Code and its user are external.

**`AuditLog`.** Writers, `virelia audit tail` and `virelia audit report` on one log, whose backend is
chosen in `Init`. `store` tells a missing log from a file without a table and a table. Entries of `log`
are rows or halves of lines: a JSONL line is one append, so other writers stay out (`NobodyWrites`), but a
reader may see its first half, and `CutLine` or `Die` leaves it at that. (`Die` is a process killed in the
middle of a write; elsewhere one that is killed just takes no more steps.) `split` has the events whose
half ends within a character of several bytes, which it may, because key and tool names are written as
they are. Such a half is `Garbled` at the end of the file or before another line, and so is the rest of a
line in which a tail began within a character: decoding then raises outside of the readers' `try`, and
`ReportRaises` or `ReadRaises` ends the reader. Files are decoded in blocks, so this may happen some
lines before the culprit is reached (`Undecodable`). A Postgres row draws its id in
`DrawId` and is seen from `CommitRow` on; SQLite has one writer at a time. `EmitRaises` is an emit that
fails, with the row there or not if Postgres is lost over the COMMIT. The tail is `Look`, `Appears` or
`Seek`, then `ReadLine` or `Fetch`; the report is `BeginReport`, then `CountLine` by line while the log
grows, or `CountRows`. `ById` is the rows of a query's `ORDER BY id`, and `Kept` those its filters leave.
Readers change nothing and so do not meet: a behaviour has one of them.

**`Checksums`.** The three functions read a number from its last digit to its first and use the position
only modulo 8 or 2, so a number of any length is a walk through finitely many states. Two numbers are read
side by side, one as issued and one with at most one typing mistake. Its theorems are at the end of
`TransformerProofs`.

## 3. What the runs show

| run | properties | shows | bounds |
|---|---|---|---|
| `vault` | `TypeOK` `NoDoubleBooking` `IssuedDurable` `RehydrateFaithful` `NoGaps` `RoundsNeedRivals` `ImplementsCoatCheck` | statement by statement interleavings of threads and processes, crashes and reopenings never double-book, lose or mix up a token | 4 threads on 3 connections: two threads sharing one, a rival process in the same scope, one in another; 2 values; 3 rounds of the 8, so that calls lose rounds, retry and give up |
| `vault_busy` | `ViewsOneToOne` `CallsEnd` | the same with lock timeouts: views stay consistent and every call ends, although stuck transactions keep others out | 2 processes, 2 values, 2 rounds |
| `vault_stuck` | `StableToken` violated | see finding 1 | as `vault_busy` |
| `guard` | `TypeOK` `ConfirmedOnceAlone` `PromiseKept` `SessionsApart` `FilesBounded` | hook processes killed anywhere, one at a time: the message's promise holds and a confirmation needs its own block; two at once over one `.tmp` file: files stay bounded and apart | 2 processes, 2 sessions (one of them raced in), 2 prompts, limit 1, so that evictions happen; window, minute and stale limit of 1 and clock to 3, so that entries expire and files go stale; 4.2 million states |
| `guard_double` | `OneConfirmationPerBlock` violated | see finding 2 | 2 processes, 1 prompt |
| `secret_file` | `SecretTypes` `KeyOnDisk` `SecretsKept` | no Vault works with a key that is not in its file; a written secret stays | 3 processes, 4 draws of random bytes |
| `transformer` | `TypeOK` `OffsetsHold` `MarkersOfOriginals` `SeverestHides` `NothingElseHidden` | every list of findings on a leaf | 4 characters, up to 3 findings, 3 actions, 2 confidences: every way three spans can nest, chain, touch and tie |
| `middleware` | `TypeOK` `ResultScrubbed` `BrakeHolds` `ToolGetsScrubbed` `AuditedFirst` `NothingInvented` | what tool and client get is what the policy asks for and is logged first, under every setting and failure | 5 engines (defaults block, mask, allow; with and without vault and NER), results of up to 3 parts and 2 leaves a part: structural, pinned, doubly detected, whole-result block, numbers, null, values of fields with telling names, through lists, empty and exempt |
| `hooks` | `TypeOK` `InputGuarded` `MessageExact` `LogMatches` | what the tool is called with was hidden or named to the user first; the message names what the policy is about and no more; the log agrees | 7 policies: two sound, one each for scope result without block, a path that does not compile, an unknown entity, an id used twice, a file that does not parse; 11 configurations with every mode, from file, environment and both; inputs and responses of every shape |
| `checksums` | `MistakesCaught` `OneCheckDigit` | every changed digit and every swap of neighbours is caught but Luhn's 09 and 90; the check digit makes exactly its number valid | none: every digit of numbers of every length |
| `audit_log` | `TypeOK` `EmittedReported` `ReportComplete` `PrintedOnce` `NoneSkipped` `AllPrinted` | what was emitted is in every report, once; a line cut short costs at most the next event too, unless it was cut within a character, which costs the whole report; the tail prints what is new once, in order and, but for Postgres and for lines that do not decode, all of it | 3 backends, 2 writers of 2 events: a line torn between characters or within one, one glued to it, one whole after it; ids committed in either order; one reader, tail or report, starting before, between and in the middle of them; 967 thousand states |
| `audit_torn` | `TornTolerated` violated | see finding 3 | 2 writers of 1 event |

Deadlock is checked in the vault and guard runs, whose actors never stop. `SecretFile` runs out of draws,
`Transformer` ends with its leaf, `Middleware` and `Hooks` with their call and `AuditLog` with its events,
so their configurations set `CHECK_DEADLOCK FALSE`. `Checksums` goes on for ever, a number having any
length.

**Fairness.** Only `CallsEnd` and `AllPrinted` need any. `CallsEnd`: weak fairness of each thread's steps
inside `token_for` (`FairSpec`). A thread there is running Python code or waiting in SQLite, whose busy
handler ends every wait; the mutex is taken in `Begin`, which is not fair: nobody must call, and nothing
must crash or close. With a read that waits without a timeout in place of `ReadBusy`, `CallsEnd` fails: a
transaction left open by `CommitBusy` shuts everybody else out. `AllPrinted`: weak fairness of the tail's
steps, which a loop takes twice a second; nobody has to write, finish a line or commit.

## 4. What is proved

For all values of the constants, by TLAPS. The properties of section 3 TLC checks in its runs; the others,
and the inductive invariants, were model-checked on the same small instances before they were proved.

| module | theorems | argument |
|---|---|---|
| `VaultProofs` | `VaultTypeCorrect`, `VaultTableConsistent` | `TypeInv` adds to `TypeOK` that the table is finite with bounded numbers, so that MAX exists, and that a thread at a statement has its key and number. `TableInv`: one call per connection, one writer per file, no clash in any view; every insert is made under the write lock and so sees the committed table. Both hold with timeouts too. |
| | `VaultIssuedDurable`, `VaultNoDoubleBooking`, `VaultRehydrateFaithful`, `VaultImplementsCoatCheck` | `CallInv`: an uncommitted row belongs to a call at its COMMIT, and a call at its return has its row in the file. It needs `~LockTimeouts`, and is false otherwise (finding 1): the theorems are stated under that assumption. The last one maps each step to one of `CoatCheck` or a stutter. |
| | `VaultNoGaps`, `VaultRoundsNeedRivals` | `GapInv`: MAX + 1 is read under the write lock, rows are never deleted and lock timeouts apart nothing committed is lost, so every number below the one a call holds is taken in the committed table (`BelowTaken`). `RoundsInv`: a round is lost only to a row that the call could not see when it last read the table, so its group has by then grown by more than the rounds it has counted (`Accounted`, `Lost`). Under `~LockTimeouts` like the durability theorems. |
| | `CoatCheckPromises` | A theorem about the abstract specification alone: no token for two values, a row for every token issued, nothing taken back. The vault inherits it through `VaultImplementsCoatCheck`, and so would any other vault shown to implement `CoatCheck`. |
| | `VaultCallsShrink`, `VaultNobodyStuck` | The safety half of `CallsEnd`. `Left` counts the statements a call may still execute, at most `3 * MaxTries + 2` (26 in the code): each of its steps lowers it, one that times out too, and no step of another thread raises it. `LocksInv`: without timeouts only a call about to commit keeps a transaction or a lock, so whoever has to wait waits for a call that can go on. |
| | `VaultInSpiteOfTimeouts` | What is left of durability when COMMITs time out, with no assumption on `LockTimeouts`: a row in the file stays there and rehydrates to its value on every connection of its scope, and a call returns the token of a row that its own connection sees (`SeenInv`). What finding 1 loses is a row that was seen by one process and never committed. |
| | `SecretFileTypeCorrect`, `VaultKeyOnDisk`, `SecretsAreKept` | `SecretInv`: an empty file has at most one creator that is still to write it, and only that creator writes. |
| `TransformerProofs` | `TransformerTypeCorrect`, `TransformerOffsetsHold`, `TransformerMarkersOfOriginals`, `TransformerHidesTheSeverest`, `TransformerHidesNothingElse` | `ClustersInv`: clusters are disjoint and ordered, each is covered without a gap by its findings, and led by a severest of them. `TextInv`: left of a frontier the text is the original, right of it come the clusters' markers, so that every replacement hits the offsets it was computed for. |
| | `ChecksumInvariance`, `EveryMistakeCaught`, `CheckDigitIsTheOnlyOne` | About `Checksums`, for numbers of every length. `D` is the product of the symmetries of a pentagon (`TableIsDihedral`), a group in which `INV` has the inverses; the rows of `P` are permutations after which no two neighbours commute, from one row to the next and from the last to the first (`NeighboursDoNotCommute`). So a turn of the loop tells different digits apart (`TurnTells`), and two turns their order (`SwapTells`). `DigitsInv`: once there was a slip the two numbers' sums differ and stay different (`SlipShows`), and the sum is that of the last digit with that of the digits before it (`LastApart`), by associativity. |
| `PromptGuardProofs` | `PromptGuardTypeCorrect`, `PromptGuardFilesBounded`, `PromptGuardSessionsApart`, `PromptGuardConfirmedOnceAlone` | `BoundInv`, `ApartInv`: not only the pending files but the `.tmp` files and the dictionaries about to be written are bounded and of one session; a file that a rename moved under its writer is still of that session, because both names are. `DebtsInv`, `TmpInv`: with one process at a time, every entry of a file, and of a `.tmp` file somebody still has to rename, has a debt of its own behind it. It holds for any number of processes, sessions and prompts; the last theorem is about behaviours without overlap and is false otherwise (finding 2). |
| | `PromptGuardPromiseKept` | `KeptInv`, without overlap: a promise that holds is in its session's file (`ParkedInv`) and in what a running hook is about to put in the file's place (`Handled`), at every point where it may be killed. What the sweep removes holds no promise, because no entry is younger than its file (`AgesInv`). The delicate part is eviction (`EvictedIsPushedOut`): the count of a promise is no less than the number of others as young (`CountsInv`), so one that is thrown out by `KeepNewest` has been counted up to `MaxPending`. Under `Minute <= Window <= Stale`: the message never promises less than a minute, and a file is swept `Stale` seconds after its last write, so the property is false of a shorter or a longer window. |
| `ScanProofs` | `PathsAsWritten` | `Match`, the code's recursion from the last segment, accepts the paths that `Covers` does, for patterns and paths of any length: what it computes behind a stretch of segments is where that stretch can end (`TokenMatches`), and where `..` stands every later start is tried (`NextStretch`). The rest of the module is what the next two rest on. `FoundIs`, `DemandsAre`, `LeafFindingsAre`: the findings of a leaf are the demands of the policy on it, although one is computed by loops over pruned detectors and the other stated by sets. `ScanInv`: a walk has the findings of the leaves behind it and no other (`Sound`, `Complete`), rebuilding hides each of them (`Rewritten`), and every demand is told once in the log and the events still to be written together (`Told`); a scan that stops does so for a rule that withholds (`Refusing`). |
| `MiddlewareProofs` | `CallTypes`, `ResultIsScrubbed`, `TheBrakeHolds`, `ArgumentsAreScrubbed`, `AuditComesFirst`, `NothingIsInvented` | `CallInv`: beside `ScanInv`, which scan runs at which point of the call (`Scheduled`), that each part handed on was scanned to its end, with its marks and its events (`Handed`), that every event in the log is of a demand on the arguments or a part (`Sourced`), and what each answer implies (`Answered`). |
| `HooksProofs` | `GuardTypes`, `CallsAreGuarded`, `MessagesAreExact`, `LogIsExact` | `GuardInv`: a guard scans only with a sound policy (`Guarding`; an unsound one has raised), what a verdict says was seen was scanned to the end (`Seen`), and a message names the entities whose events the log has (`InputInv`, `OutputInv`). The policy file itself may be anything: `RuleOK` is the program's check, not an assumption. |
| `AuditLogProofs` | `AuditLogTypeOK`, `AuditLogEmittedReported` | `AheadInv`: the log never runs ahead of its writers, so that an event which is sent next has no second half in the log, and while a writer is in the middle of a line the last entry is its open half. An end that is appended therefore is the new event's own and completes that half, and nothing that is appended later changes what an event has become (`StaysAccounted`): its line or row is intact (`EmittedIntact`), or it is torn or glued. `SplitInv`: the second half of a line follows its first at once, so that only the half of a torn line does not decode (`GarbledIsTorn`), and without one a report has every intact line. |
| | `AuditLogReportComplete` | `OnceInv`: every half line is in the log once. `ReportInv`, for a JSONL file: what is counted has its end behind the report's position, no line is left half read that was whole when the report began, and every such line behind the position is counted. `RowsReportInv`, for tables: one query counts each row once. That `ORDER BY id` yields every row once is `RowsAre`: the place of a row is the number of ids up to its own. |
| | `AuditLogPrintedOnce`, `AuditLogNoneSkipped` | `RowsInv`: ids are drawn once, and no row has one that is still to be drawn. `TailInv`: what the tail keeps of a line is the half of one that it has read to its middle (`HalfRead`); what was there when it began lies behind it (`BehindInv`), the ends of what it printed lie behind it in the order of printing (`ShownInv`), and what lies behind it and is intact is printed or was there before (`PassedInv`; not for Postgres, whose rows may appear behind it). |
| | `AuditLogTailGoesOn`, `AuditLogCaughtUp` | The safety half of `AllPrinted`: a tail that polls never goes back, a line read takes it further and not past the end, one query catches it up, and it goes on polling unless a line ends within a character; once it has nothing left to read, every event that came after it began and whose line or row is intact is printed. |

Assumptions are those of the modules (`VaultAssumption`, `NoKeyAssumption`, `SecretFileAssumption`,
`TransformerAssumption`, `PromptGuardAssumption`, `EngineAssumption`, `MiddlewareAssumption`, `NoVault`,
`HooksAssumption`, `AuditLogAssumption`), all evaluated by TLC in the runs: at least one round, a positive
limit and minute, type facts about the constants, and

- for the middleware, that rules passed the loader's `RuleOK`, as no engine is built otherwise;
- for the hooks, that their engines have no vault (`NoVault`), as `hooks/runner.py` opens none;
- of a leaf (`IsLeaf`), that no detector reports the same entity at the same place with the same confidence
  twice, as patterns and Presidio do not: the log would then have two events for one demand.

`DataFacts` holds what the others need of data: that a set of naturals has a least member and a bounded one a
greatest; induction in the form the provers can use, on the set of numbers for which something holds
(`UpTo`); that a function defined by recursion on a bounded natural is the one its equations describe
(`Recursion`), and what that says of `Kept` (`KeptIs`, `KeptHas`). The library's induction theorems take an
operator, which the installed provers cannot instantiate; a set can be instantiated, and that is how
`PathsAsWritten`, `RowsAre` and the facts about lists of findings are proved.

Only model-checked: `CallsEnd` and `AllPrinted`, liveness under fairness, for which there are no rules
here. What makes them true is proved as far as it is safety: a bound on the steps that are left, that
somebody can always take one, and what holds when there are none. Every invariant of the passing runs is
stated by a theorem.

No module declares a RECURSIVE operator.

## 5. Findings

1. `vault/store.py:153`. A COMMIT that fails with "database is locked" is not rolled back. The connection
   goes on handing out tokens of a row that is lost when it is closed; the value then gets another token,
   and the first token's number may go to another value, to which it then rehydrates.
2. `hooks/state.py:56`. `consume` is a read-modify-write without a lock: two resends at the same time are
   both let through by one block.
3. `cli/audit.py:46`. The report decodes the file in the head of its loop, outside the `try` that is to
   "tolerate a torn/foreign line rather than die mid-report" (`:53`). A line that a full disk cut short
   within a character of several bytes (`audit.py:113` does not look at what `os.write` wrote) raises
   `UnicodeDecodeError` there, in this report and in every later one of that file. The tail that comes to
   such a line ends in the same way (`:223`, `ReadRaises`).

Seen in the models, but no run, for want of a text they contradict or because another run matters more:

- `hooks/config.py:49`: the YAML loader reads a bare `off` as false, which no mode equals (`Mode`, against
  `Meant`): a guard that is set to `off` in `config.yaml`, as `src/docs/claude-plugin.md:109` and `:110`
  show it, stays on. A quoted `'off'` and the environment variables work.
- `hooks/prompt_guard.py:45` promises a minute for any window below one.
- `hooks/state.py:46`: with two prompts of a session at once, a sweep can remove a file that was just
  rewritten, and the promise with it.
- `hooks/runner.py:37`: a hook that reads the salt between its creation and its write hashes with a random
  salt of its own.
- `engine.py:109`: a rule that pins a leaf does not decide about the values detected in it. Each gets the
  action of its own rule, and severity decides (`src/docs/architecture.md:103` may be read either way).
- `engine.py:234`: when a payload is withheld, the events of findings on other leaves carry the HMAC of
  the empty text.
- `engine.py:199`: in the modes `ask` and `warn` the log has the action of the policy, `mask` say, although
  the tool got the value as it is.
- `cli/audit.py:271`: the Postgres tail never shows a row that commits after one with a larger id was
  fetched (`NoneSkipped` leaves Postgres out).
- `cli/audit.py:247`, `:268`: the tail of a database without the table ends in an exception, although
  that of a file that appears later waits for the table (`Seek`); so does the report (`CountRows`).

## 6. Limits

What the middleware's properties do not cover, because the code does not scan it: content blocks other
than text, `meta`, keys of objects, and the message of an exception the tool raises (`ToolRaises`). A sink
that fails midway leaves events of a scan whose result was not delivered; under `fail_open` the client
then gets the raw result, although some events say it was masked (answer "raw" with `sink` not empty); no
property is about that. `InputGuarded` says nothing of a guard that failed: hooks fail open by design.
Sessions that `_path` sanitises to one file name are one session of the model. Guard runs take windows of
whole minutes and no longer than the stale limit. In `AuditLog` a line is in the file in one half or in
two, and a half never parses: a line cut just before its line feed would, until the next line is appended.
`AllPrinted` promises nothing of a tail that a line within a character has ended. A COMMIT of the SQLite
sink that fails and leaves its transaction open is left out; the vault's runs show what that does.

### Not modelled

- The command line (`cli/main.py`) keeps no state; of `cli/audit.py`, counting by entity, action and tool
  and the rendering.
- What the regular expressions of `detectors/regex.py`, `entities.py`, `secrets.py`, of `normalize.py` and
  of the path tokenizer match: characters are not what these models are about, and a translation would say
  what the expression says.
- The NER recognisers, context words and name lists of `detectors/ner.py`: third-party models.
- Field types checked by pydantic, YAML syntax, the texts of presets, the rendering of policy errors.
- `InMemorySink`, a list, and the templates of `partial_mask`.

## 7. Plan

Done, most important first: the vault with its abstract specification, the secret files, the prompt guard,
the transformer, path patterns, the engine and the middleware, the audit log with its readers, the tool
guards with configuration and policy checks, the checksums; proofs of every safety property that the
passing runs check.

Next, in this order:

1. `Engine` with `Vault`: the composition of rebuilding and minting, tokens minted by scans that fail.
2. Several calls at once: `Middleware` for two clients that share an engine, a vault and a sink.
