# Verification of stratoclave-loom

stratoclave-loom gives a host program one interface to several coding agents. A
host creates an `AgentSession`, sends messages, iterates the chunks of each
answer, may cancel, and closes. Behind the session is a backend: `kiro_code`
(one long-lived `kiro-cli acp` child per session), `claude_code` (one
`claude --print` child per message) or `bedrock` (no child, a loop of Converse
calls and tools). Everything runs on one asyncio event loop. The library has no
locks: it is correct when the code between two awaits leaves a state that every
other task can live with. That is what these modules check.

Paths below are relative to `src/src/stratoclave_loom/`.

## Inventory

| component | state | operations | what is hard | what makes it correct |
|---|---|---|---|---|
| kiro_code turns, `adapters/kiro_code.py` | `turn_in_flight`, `turn_request_id`, `next_request_id`, `pending_responses`, `stream_queue`, the reader task, the child's pipes | `send_message`, `_stream`, `_reader_loop`, `cancel`, `close`, `_tear_down` | one queue serves all turns; an abandoned turn's updates and answer come late; the reader stops (exit, unreadable line, close) under a waiting stream; a send fails half way; a cancel arrives after the answer | one stream at a time owns the queue, it gets its own turn complete and in order, it ends, and the session is free for the next turn |
| session life cycle, `core/session.py` with kiro_code's `initialize`/`close` | `_closed`, `_initialized`, `_sessions`, the child being initialised | `initialize`, `send_message` (initialises lazily), `close` | initialisation has three awaits between its check and its effect; failed, cancelled, repeated and concurrent initialisations; close in the middle | one child per session, none left behind, nothing sent after close |
| stdio transport, `transport/stdio.py` | `_proc`, `_stderr_task`, the child's return code | `start`, `send`, `receive`, `cancel`, `close`, `_drain_stderr` | several tasks climb the SIGINT/SIGTERM/SIGKILL ladder together, each with its timers; timers expire while the child exits; callers are cancelled between two signals | cancel and close leave no child, signals go in order, every call ends |
| claude_code turns, `adapters/claude_code.py` | `state.transport` (also the mark of a turn in flight), `cli_session_id` | `send_message` (spawns), `_stream`, `_tear_down_transport`, `cancel`, `close` | a finally clause closes whatever transport the session has by then; a cancelled turn overlaps the next | each turn closes its own child, no child is lost, `--resume` names the last good turn |
| bedrock turns, `adapters/bedrock.py`, `adapters/_bedrock_tools.py` | the locals of `_stream_turn`; the session table | `send_message`, `_stream_turn`, `cancel`, `close` | the conversation is rebuilt event by event over several rounds; replies cut short, failing or holding several tools; the cap | the model is sent a conversation it accepts, the loop ends, the host sees every tool and result in order |
| bedrock catalogue, `adapters/bedrock.py:112-279, 534-747` | `_sessions`, `_catalogue_cache`, `_fallback_default`, each state's `current_model_id` and `active` | `initialize`, `send_message`, `list_models`, `_fetch_catalogue`, `_index_inference_profiles`, `_pick_default_model`, `cancel`, `close` | a cache filled from two listings, each of which may fail; calls that overlap in them; a session closed, or initialised again with another configuration, meanwhile | the cache is the place's offer, a session has a model of its own place and stays on it, a refusal has a cause |
| bedrock tools, `adapters/_bedrock_tools.py` | none | `web_fetch`, `file_read` | byte caps over pure I/O | not modelled; `execute_tool` never raises (lines 187-221), and BedrockTurns uses that |
| backend contract, `core/backend.py` | none | what `send_message` promises | | TurnContract states it |
| mock backend, `adapters/mock.py` | `_configs`, `_cancelled` | `initialize`, `send_message`, a stream per character, `cancel`, `close` | a cancel is a mark that waits for the next character, of this turn or a later one | a cancel ends one turn at most, and none of a later session |
| process pool, `runtime/process_pool.py` | a semaphore, `_active` | `lease` | a task cancelled while it waits, just after it was handed a permit, or in the lease | no permit is lost or made, the number of sessions is capped, waiters get their lease |
| model catalogue and filter, `core/catalogue.py`, `core/types.py` | none | pure functions | | not modelled: parsing and string matching |
| registry, configuration, errors, `normalize()`, command line | a dictionary of factories; none | | | not modelled: start-up data, formatting, argument parsing |

Interactions: `AgentSession` calls its backend; kiro_code and claude_code own
`StdioTransport`s and call `send`, `receive`, `cancel`, `close`; the kiro reader
task and the stream generator share `stream_queue`. `create_session` makes a new
backend for every session, and the modules of turns have one session each. A
backend may also serve several sessions (`core/backend.py:20-23`): what it then
shares, bedrock's session table and caches and the mock's two sets, is the
subject of `BedrockCatalogue` and `PooledSessions`.

## Modules

| module | models | composed with |
|---|---|---|
| `KiroTurns` | all turns of one initialised kiro_code session: host, generator, reader task, cancel, close, and the kiro-cli child with both pipes | implements `TurnContract` through `INSTANCE ... WITH`; `CloseReturns` relies on what `StdioTransport` shows of close() |
| `TurnContract` | the abstract promise of `AgentBackend.send_message`: a turn is accepted when none is going on, what the agent says for it is heard in order without gaps, and it ends with the agent's answer or with an error when the link is lost | |
| `SessionLifecycle` | `AgentSession` over kiro_code's initialize, registration and close, with each host call as a task of its own | turns are `KiroTurns`' subject: here a message is only delivered or refused |
| `StdioTransport` | one child, the tasks that cancel() or close() it, its stderr task, and the task in receive() | |
| `ClaudeTurns` | the turns of one claude_code session, a child for each | `CancelDone` and `Closed` rely on `StdioTransport` (the ladder ends, close() reaps) |
| `BedrockTurns` | the tool loop of a turn over any stream of Converse events, cancel and close | |
| `BedrockCatalogue` | one bedrock backend and its sessions: overlapping initialize, send_message and list_models calls, each suspended in the two listings; cancel and close | the stream that send_message returns is `BedrockTurns`' subject |
| `PooledSessions` | tasks that share a `ProcessPool` and a `MockBackend`: lease, session, turns as the command line's loop reads them, cancel(), and the cancellation of the task in any step | composes pool, session, mock and host |
| `MC*` | what TLC needs beside a module: a symmetry set | |
| `*Proofs` | theorems and their proofs | extends the module it proves about |
| `Selection` | `Only`, the elements of a sequence that are in a set, as a recursive function | used where a module selects from a sequence and a theorem needs to know what it gets |
| `SequenceLemmas` | induction over numbers and over sequences, and what `Only`, appending, joining and removing return | used by the proof modules |

How state corresponds to code: variables carry the attribute's name
(`turnInFlight` is `state.turn_in_flight`, `transport` is `state.transport`); the
position of a coroutine between its awaits is the value of `stream[t]`,
`phase[t]`, `step[c]` or `turn[t].phase`. A step is what runs between two awaits
that can suspend. Putting on the unbounded `stream_queue` never suspends, so the
reader's handling of a line is one step; `drain()`, `start()`, `wait()`, an
executor call and every `yield` do suspend. `PROJECT.json` maps each definition
to its lines.

A terminal chunk is a `yield` too: the generator's finally clause runs only when
the host resumes, closes or drops it, so "the host has seen end_turn" and "the
turn is released" are two states (`"ended"`, `"closed"`).

What is abstracted:
- texts, tool inputs, arguments, environment; the sticky model of claude_code. A chunk is
  the update, block or tool-use it comes from; `HasChunk` and `Lines` stand for
  what the two `_translate` methods tell apart;
- JSON-RPC ids: a kiro prompt is named by its id, which the code never reuses;
- times: a timeout is an action that is always possible;
- of a Bedrock listing, an entry is its model, inference types, whether it is
  streaming text, and its place in the picker's order; a profile is its id, its
  kind (regional, global, other) and its models; a region with its credentials
  is a place, and a configuration is a place and a preferred substring, an
  argument of each initialize(). A preferred substring is the set of the models that match it;
- asyncio's semaphore (CPython 3.11 and later): permits, the waiters without one in
  their order, and those that were handed one and have not run yet. Who comes
  later waits while anyone waits or was handed one;
- a host's restraint: `MayAbandon`, `MayCrash` and `Concurrent` are constants,
  so that a run says for which hosts its properties hold; `SessionLifecycle`
  records in `sequential` whether the host was such a one so far.

The children are external. kiro-cli is modelled from what the adapter sends and
reads and from the stub in `tests/adapters/_kiro_stub.py` (which, for instance,
lets a cancel that comes between two prompts hit the next one). It takes one
prompt at a time, answers each once, may write nothing at all, may exit, and may
write lines the adapter skips ("noise": blank, malformed, unknown) or that raise
in the reader ("poison": not UTF-8, or over the 64 KiB line limit). claude
writes an init line, some more, then a result or an error result, and may exit
anywhere. Grandchildren that keep a pipe open are not modelled.

## Runs

Every cfg says `CHECK_DEADLOCK FALSE`: a session with no message left to send,
or closed, really stops. Times are for two workers.

| run | question | bounds, and why they are enough |
|---|---|---|
| `KiroSafety` | what holds whatever fails: one live stream, right marks, a normally ended turn complete, a cut-off one without gaps, nothing left over in the queue and no chunk of another turn than one given up before, no stream stranded by a stopped reader, no session wedged without cause, close() complete; and does a stream end once its answer, the child's exit, an unreadable line or close() decided it, and does close() return? | 2 turns (an abandoned turn and its successor; safety is proved for any number), 1 update, 1 cancel, 1 poison line; abandoning and crashing hosts; 1.0 million states, 2 minutes |
| `KiroContract` | does the adapter implement `TurnContract` for a host that iterates its streams? | 2 turns, 2 updates (order and gaps), a cancel, a skipped or poison line, an exit; 1.9 million states; `MayAbandon` is FALSE because after an abandoned turn it does not (below); proved for any number of turns and updates |
| `SessionHosts` | which children can any host lose, is an open session known, is anything sent after close(); and does a host that awaits its calls own one child, and none after close()? | 4 calls: a failed initialisation, a retry, a send, a close; or any two calls that race with a third and fourth; all five properties are proved for any number |
| `StdioCalls` | what cancel() and close() leave, in which order signals go, does every call and receive() end? | 2 tasks (one can signal or reap under the other's timer; safety is proved for any set), 2 lines; 0.2 million states |
| `ClaudeSequential` | does each turn tear down its own child, is every child accounted for, does `--resume` name the last good turn, do streams end after cancel() and close()? | 2 turns, 1 line between init and result, 1 cancel; a host that awaits its calls and may abandon; 0.3 million states; safety is proved for any numbers |
| `BedrockLoop` | is the conversation well formed, played back as given, bounded, and shown in order? | cap 2, 3 blocks (a reply can reach the cap and jump over it), 2 text deltas; one turn, because turns share nothing but the session table; all six properties are proved for any numbers |
| `BedrockCatalogue` | is a cached catalogue the place's offer, with the best profile of each model; where can a session's model come from, each initialize() with a configuration of its own; why can initialize() raise and a message be refused? | 2 sessions, which may be in the same place, 3 calls (two that overlap and one that finds what they left), 2 accounts with every kind of entry: on-demand, profile-only with one, several or no profile, no text model; 1.9 million states; all four properties are proved for any accounts, configurations and numbers |
| `PooledSessions` | are permits accounted for and sessions capped, is a waiter served, what does a cancel end? | 3 tasks with 2 leases each, a pool of 1 (two waiters) or 2 (one that is passed over), 2 turns of up to 2 characters; 0.3 million states; safety is proved for any numbers |
| `KiroStranded`, `ClaudeTwoSenders`, `BedrockCancel`, `BedrockSticky` | the disagreements below | the smallest that show them |

Every property of a passing run has a mutant in `PROJECT.json`: a plausible bug
in one mapped definition that makes TLC find it violated. Mutated definitions
stand just before the definitions they replace (`QueueUndrained` before
`QueueAtSend`) and are used nowhere else.

### Fairness

`Spec` assumes none. `FairSpec` adds weak fairness of what the event loop runs
(the reader, generators that have something to read, close(), expired timers,
the stderr task, the child watcher), of the host iterating streams it has not
given up, and of a fatal signal being fatal. asyncio runs every ready callback,
so weak fairness per task is what its scheduling gives. Nothing is assumed of
the agents: that they answer, exit or write is never fair. That is why the
liveness properties start from "decided": the answer was written, the child is
dead, the reader has stopped, the session was closed. In `StdioTransport` a
timer step is always enabled, and its fairness is that timers expire. Callers
being cancelled, hosts abandoning and hosts calling are not fair. In
`PooledSessions` a woken task runs, and a host that holds a lease reads its
streams and leaves: without the second nobody can promise a waiter its lease.
`BedrockCatalogue` has no liveness: a listing may take forever.

## Disagreements between the code and its words

Shown by a run:
- `KiroStranded`: the sentinel is queued once, when the reader stops
  (`kiro_code.py:447`). A turn sent afterwards drains it (line 264) and waits
  forever while the child lives, against `backend.py:57-58`. `late` marks such
  turns, and the positive properties exempt exactly them.
- `ClaudeTwoSenders`: the in-flight check (line 264) and the mark (line 273)
  have the spawn between them.
- `BedrockCancel`: cancel() sets `active = False`, and the running turn never
  reads it: an event that arrives after the cancel is taken and its text shown,
  against the comment at `bedrock.py:535-537`. A converse_stream that was already
  issued is not what is held against it; `rounds` counts calls when they are
  issued.
- `BedrockSticky`: an initialize() still listing stores its default in whatever
  state the session has by then (`bedrock.py:253`), also over the model of a
  message that went out in the meantime, against `backend.py:69-71` ("stay on
  whatever the adapter last used for this session") and `bedrock.py:99-100`. Two
  first messages sent together are enough (`session.py:76-77` initialises for
  both). The same line can put a default of another place there, when the two
  had different configurations; `OwnModel` has that as its only exception.

Seen while modelling, without a run of their own; most are the exact exception in
a property that holds, which the entry names:
- after an abandoned kiro turn, its late updates are yielded by the next turn's
  stream (`kiro_code.py:430` asks only whether some turn is in flight).
  `KiroContract` shows that this needs an abandoned turn, and `StreamedInOrder`
  that nothing worse happens: the turn's own updates come without a gap, and the
  others are of earlier turns that ended without being told how;
- a kiro send_message that fails after line 255, or whose stream is dropped
  unstarted, leaves `turn_in_flight` set and every later message refused with
  advice to await a stream that does not exist (`WedgedOnlyByLostSend`);
- two first messages sent together initialise a session twice, and the second
  registration hides the first child (`LeakExplained`). close() during an
  initialisation returns at once and the child is registered later; its pending
  message still goes out, no later one does (`NothingSentAfterClose`);
- close() of a claude session during a spawn finds no transport and returns;
  the child then ends only with its own stream. `ClaudeSequential` is for hosts
  that await their calls;
- bytes that are not UTF-8 and lines over the limit raise out of `receive()`
  (`stdio.py:95-101`), against its docstring ("lines that are empty or fail to parse
  are dropped silently"). `StdioTransport` has it as `EndsLoop`, and
  `KiroStranded` shows what it does to a kiro session;
- the tool cap is compared once per reply (`bedrock.py:466`), and a reply with
  several tools then has them all run, against "caps how many toolUse blocks the
  adapter will service" (`_bedrock_tools.py:35-36`). `ToolsBounded` has the bound
  that does hold;
- at the tool cap the bedrock stream yields an error chunk and then an end_turn
  chunk. The command line stops at the first;
- a catalogue fetched while `list_inference_profiles` failed is cached for good
  (`bedrock.py:673`), and of two calls that fetch at once the later may store
  such a catalogue over a full one (`CacheIsThePlaces` has it as the only
  exception; `RefusedForCause` says what it can lead to);
- a bedrock session closed while its initialize() lists makes it raise KeyError
  (`bedrock.py:253`, `RaisesOnlyIfClosed`); initialised again meanwhile, perhaps
  in another place, the older call's default goes to the new state. `earlier`
  names, for each state, the calls that can do so, and `OwnModel` exempts them
  and no others;
- `list_models` says it uses the configuration "last initialised"
  (`bedrock.py:569`); a session that is initialised again keeps its place in the
  dictionary, so another one's may be used (`Latest`);
- `_index_inference_profiles` says it prefers the profile of the configured
  region (`bedrock.py:682`); the code prefers any regional one, the first listed
  (`BestProfile`);
- a cancel between two turns of the mock ends the next one (`mock.py:92`); with
  `CancelEndsOneTurn` that is all it ends. The host of `PooledSessions` cancels
  through its session, inside the lease. A `cancel()` called on the backend itself
  for a session that is closed leaves its mark for a later session of that id,
  which `backend.py:89` does not expect; it is not modelled;
- a kiro cancel that the agent reads between two prompts ends the next one
  (`kiro_code.py:287`). No property reports it: that prompt is answered, with
  "cancelled", and so ends by its own answer;
- a host that stops iterating at end_turn, without resuming or closing the
  generator, still has a turn in flight (`kiro_code.py:491`): `MarkNamesLiveStream`
  and `WedgedOnlyByLostSend` count that stream as live, as the code does;
- a claude send_message that is cancelled, or whose stream is dropped unstarted,
  leaves `state.transport` set, so that later messages are refused until
  close() (`SendCancelled`, `DropUnstarted`).

## Proofs

TLAPS checks these for every value of the constants, from the named ASSUMEs
(bounds are naturals, flags are Booleans, `None` is no call, no model and no
profile, sets of tasks are finite, the cap is positive, listings are sequences
of well-formed entries). Every invariant and action property of the passing runs
is proved, and so is the refinement that `KiroContract` checks.

- `KiroTurnsProofs`: `TypeCorrect`, then `OneStream`, `MarkIsRight`,
  `FreshStream`, `ReaderWakesStream`, `WedgeIsExplained`, `CloseIsComplete` from
  one inductive invariant. None of the six is inductive alone. That only one
  stream is live needs that the mark is up while one is (`Marks`); that the mark
  has an explanation needs that it names the turn that set it (`MarkExplained`);
  `NoLeftovers`, which `StreamedInOrder` contains, needs that everything queued was queued for the live turn
  (`QueueIsFresh`); that a stopped reader wakes its stream needs that its
  sentinel is still the last item of the queue (`SentinelLast`); what close()
  leaves needs the order of its steps (`CloseOrder`).
- `TurnIsComplete`, in the same module, from `WireInv`. A turn's updates are in
  three places at once: delivered, in `stream_queue`, and in the pipe.
  `NothingLost` says that while a stream waits, the three joined (`Flow`) are what
  the agent wrote for it and has a chunk. The stream is ended by its
  own response, and then the last two hold none of its updates, because no update
  of a turn comes after its response (`AnswersLast`), because the agent takes a
  prompt once and not after it answered it (`PromptsOnce`). Late lines of an
  abandoned turn pass through all three and are not the turn's own.
- `StreamIsInOrder`, in the same module and also for any host: what a stream has
  yielded at any moment, and after it was left. While it waits, `Flow` makes
  that a first part of the turn's updates; once left it gets no more
  (`LeftInOrder`). That another turn's chunk is of an earlier turn whose end was
  not told needs that every update on its way is of such a turn
  (`UpdatesUntold`), which in turn needs that a response or a marker has none of
  its turn's updates behind it (`AnswersLast`, `MarkersLast`), and that the
  live stream is the latest turn's (`LiveIsLatest`).
- `ContractIsKept`, the refinement `KeepsContract`, for hosts that iterate their
  streams (`MayAbandon = FALSE`; why it needs that is among the disagreements
  above). `KeptInv` says that such a host's
  stream has heard nothing but its own updates (`OnlyOwnUpdates`), and that it
  is left with its response, or because the reader stopped or the write failed
  (`StreamsInOrder`). Under it each action maps to one of the contract or to
  a stutter, a lemma for each:

  | contract | adapter and agent | lemma |
  |---|---|---|
  | `Ask` | `SendMessage` | `AskMap` |
  | a stutter | a write that is done, a stream's first step, `Cancel`, close()'s later steps, what the reader queues or skips | `AdvanceMap`, `QuietMap`, `ReaderMap` |
  | `Hear` | an update with a chunk is taken from the queue | `HearMap` |
  | `Conclude` | the turn's own response is taken | `ConcludeMap` |
  | `Break` | a sentinel is taken | `BreakMap` |
  | `Leave` | the stream finishes, or the write raises | `LeaveMap` |
  | `Say`, `End` | the agent writes an update that has a chunk, its answer | `SayMap`, `EndMap` |
  | `LoseLink` | the reader stops by itself | `ReaderMap` |
  | `LoseLink`, `Close` | close() begins, while the reader runs or after | `CloseMap` |

- `SessionLifecycleProofs`: `TypeCorrect`; `KnownSession` and
  `LeaksAreExplained` from which child belongs to which call (`ChildOfCall`);
  `ClosedSendsNothing`, a property of two moments, from what a call that had not
  begun at close() can become (`TurnedAway`); `OneSubprocess` and
  `NothingOutlivesClose` for a host that has awaited its calls so far, for which
  at most one call is pending, and every live child is registered or that call's
  own (`Orderly`).
- `StdioTransportProofs`: `TypeCorrect`, `CloseReaps`, `CancelReaps` and
  `LadderInOrder`, from what each rung knows of those below (`Rungs`) and
  what a task past the ladder has seen (`Gone`): no rung can be left upwards
  before the child is reaped, unless its caller is cancelled.
- `ClaudeTurnsProofs`: `TypeCorrect` for any host; for one that awaits its calls
  (`Concurrent = FALSE`) `OwnTearDown`, `NoProcessLost`, `ConversationContinues`
  and `TurnsAreSequential`. The last states `OneTurnInFlight`, which
  `ClaudeTwoSenders` refutes without that hypothesis. A turn begins only
  when those before it are over (`Superseded`), so the session's transport is
  the running turn's own unless close() took it (`Owned`, `Closing`); and since
  the init line is the first thing its stream reads (`InitFirst`), the session's
  id is that of the turn by the time a result is read (`Latest`).
- `BedrockTurnsProofs`: `LoopIsBounded`, from counting that each further call
  had at least one tool run before it (`Counted`); `ReplyIsPlayedBack`, from the rebuilt
  blocks being those of the reply after every event, with a pending text just
  when a text block is open (`Mirrored`). `TypeCorrect`,
  `ConversationIsWellFormed`, `ToolsAreBounded`, `HostSeesToolsInOrder` and
  `ToolsAreAnswered` from one more (`Good`), which relates four lists that the
  loop builds apart from each other: the tools of the reply, those still to run
  (`ToolsLeft`), the results gathered for the next message (`Told`), and what the
  host was shown (`Viewed`). That the results answer just the tools of the
  last assistant message needs that it is the reply (`Mirrored`).
- `BedrockCatalogueProofs`: `TypeCorrect`, which includes that the session table
  is a dictionary with its keys in insertion order, each once; and
  `OnlyCloseMakesItRaise`, for any listings, which needs that the session of a
  pending initialize() is in the table unless it was closed since (`Known`).
- `CacheIsRight`, `ModelIsOfItsPlace` and `RefusalHasCause`, in the same module,
  have a part about data and one about interleaving. Data: the three passes give each model its best
  profile (`IndexIs`, `BestIs`), the sort neither loses nor invents an entry
  (`SortedSet`), so the catalogue holds just what the place offers
  (`PlaceCatalogue`); the default is one of its ids, and there is none just when
  it is empty (`DefaultFits`). Interleaving (`PInv`): however calls overlap, a
  waiting message fetches with the configuration of the state it found
  (`Waiting`), so its default is of that state's place. A pending initialize()
  writes to whatever its session has in the table, and that is the state it made
  itself or one that was made while it was listing (`Inherits`, which needs that
  only initialisations put states there, `Tabled`). So each model a state holds is of its own
  place or of such a call's (`Stuck`), and the latter has returned.
- `PooledSessionsProofs`: `TypeCorrect`, `PermitsAgree`, `PoolCapsSessions` and
  `OneTurnPerCancel`, for any finite set of tasks. Counting needs that a task
  waits in exactly one of the two ways and that the queue holds each waiter once;
  the cap follows because the backend's sessions are those of leases that have
  not ended; a cancel ends one turn because its mark is pending, spent or gone
  with the session.

`TypeOK` is proved for these modules and takes no place in their runs.

What a recursive definition computes is proved here too, by induction over a set:
`SequenceLemmas` derives `Induction` (a set of numbers that has 0 and successors
is all of them) from the well-foundedness of the naturals, and from it
`SequenceInduction`; a statement is then the set of those that satisfy it. For
that the models write what they select from a sequence with `Only`, whose test
is a set, and bedrock's index, sort and default with it: the library's
`SelectSeq`, `SortSeq` and folds take operators, which these provers cannot
reason about. `Inserted` and `Sorted` are list.sort's contract, a
stable sort, and not its algorithm.

Only model-checked: liveness (`StreamEnds`, `CloseEndsStreams`, `CallsEnd`,
`ReceiveEnds`, `CancelEndsTurn`, `CloseEndsTurns`, `WaiterServed`), which is out
of the prover's reach. `ResumesLatest` runs with two turns, so there is no failed or
cancelled turn between the one resumed and the one that resumes it; that case is
covered by its theorem, for any number of turns.

## Not modelled

- `_bedrock_tools.py`, `core/catalogue.py`, `core/types.py`, `normalize()`, the
  CLI's argument parsing, configuration: pure functions or one read each; no
  state, no interleaving.
- `respond_permission`, which no backend uses, and the requests of an agent
  that wait for it: kiro_code drops them (`kiro_code.py:432`) and promises no
  answer.
- The sticky model of claude_code. A message that is refused for a turn in
  flight has already changed it (`claude_code.py:263`), as the words of the
  comment at lines 205-207 have it.

## Plan

Done: the modules, runs and proofs above. Next, in order:

1. What liveness rests on, as safety theorems: that a stream whose end is
   decided has something to take or a reader that will run, and that each turn
   of a signal ladder comes nearer to its end.
2. State `TurnContract` for a host that may abandon, with what `StreamedInOrder`
   says of the turns after it, and prove it from `OrderInv` instead of `KeptInv`.
3. Model the sticky model and the tier map of claude_code, and `TurnContract`
   for the mock.
