# Cordyceps in TLA+

Cordyceps is a daemon (Node, TypeScript) that starts command line AI agents
(claude, codex, gemini, ollama), sends them prompts and hands their answers to
clients over a WebSocket. This directory models the parts of it where an
interleaving can go wrong, checks them with TLC on small instances and proves
the central facts with TLAPS for every instance.

Paths below are relative to the repository; line numbers are in `PROJECT.json`
under `map`.

## 1. Inventory

The daemon is one Node process: it has one thread, and everything that happens
is a callback (a socket frame, a timer, data or exit of a child process) or the
continuation of an `await`. Two continuations never overlap, but state read
before an `await` can be stale after it. This is where most of the hazards are.
The commands (`cordy ...`) are processes of their own; they meet the daemon and
each other through instance files, signals and connections only.

| component | source | state it keeps | operations | who it talks to |
|---|---|---|---|---|
| exec runtime | `src/agents/exec-controller.ts` | status, exited, activeChild | submit, interrupt, kill; stdout, exit, error, timer | driver parser, child process, manager |
| server-http runtime | `src/agents/server-http-controller.ts`, `src/drivers/ollama/control.ts` | status, exited, activeAbort, pendingBody | submit, interrupt, kill; response lines, end, failure, timer | ollama parser, HTTP server |
| pty runtime | `src/agents/pty-controller.ts`, `src/core/pty.ts`, `src/drivers/claude/control.ts` | status, activity, blocking | submit, interrupt, approve, reject, kill; screen data, exit, timers | terminal program, claude's parser |
| server-ws runtime | `src/agents/server-ws-controller.ts` | child, socket, ready, exited | start, submit, interrupt, kill; frames, close, exit, timers | spawned server |
| parsers | `src/drivers/*/parser.ts` | messageBuf and flags, one instance per driver | feed | the controllers |
| agent manager | `src/agents/manager.ts` | registry id -> agent, runtime factories | spawn, kill, remove, killAll, registerRuntime | driver registry, factories, event listeners |
| engine | `src/cli/engine.ts` | stopping flag, instance file | start, shutdown on a signal, stop() | all of the above |
| plugin loader | `src/plugins/loader.ts` | loaded plugins, method table, disposables | order, load, destroy | manager, bus, plugins |
| rpc and sessions | `src/transport/{rpc,server,methods,client-session}.ts` | clients, subscriptions, cleanup handles | dispatch, subscribe, publish, close | manager, bus |
| rpc client | `src/cli/client.ts` | pending calls and their timers | connect, call, close | server |
| mcp bridge | `src/cli/commands/mcp-stdio.ts` | connection, counter of handlers, end of input | read a line, answer, finish | a daemon, its host's pipes |
| council | `src/plugins/builtin/council/index.ts` | one review each | reviewers in parallel, chair, clean-up; chunker | manager |
| bus | `src/core/bus.ts` | a Set of listeners per event | on and its handle, once, emit, waitFor | plugins, transport, drivers |
| audit plugin | `src/plugins/builtin/audit/index.ts` | subscriptions per agent | append to a log | bus |
| driver registry | `src/drivers/registry.ts` | drivers, aliases, probe cache | register, probe, chooseMode | manager, council |
| driver probes | `src/drivers/*/driver.ts`, `src/core/semver.ts` | none | probe, grade a version, build a command line | registry |
| daemon discovery | `src/daemon/instances.ts`, `src/cli/commands/{daemon,ephemeral}.ts` | instance files on disk | start, stop, restart, list, find | other processes |
| peer, manager plugins | `src/plugins/builtin/{peer,manager}` | none | spawn and submit | manager |

How they interact: a client's frame is dispatched to a method, which calls the
manager; the manager awaits the driver's probe, then the runtime's factory, and
registers the agent and announces it; the transport and the audit plugin
subscribe to the agent's events; a submit goes straight to the agent's
controller, which starts a child, a request, a frame or keystrokes, feeds what
comes back to the driver's parser and emits messages and states on the bus, from
where they go to subscribed clients and the trail. `council.review` is a client
of the manager inside the daemon: it spawns one agent per reviewer and chunk,
asks it, kills it and frees its id. On a signal or `stop()` the engine kills the
agents, destroys the plugins and closes the transport, in this order, and then
removes the instance file by which commands had found it.

What makes it correct, and is hard to test:

- *controllers*: one turn at a time; no text of the agent's other turns in an
  answer, and none that is dropped; kill and interrupt reach whatever runs; a
  killed agent stays exited; the exit is announced once; every accepted submit
  settles even if the tool hangs;
- *parsers*: a redraw is not a new message, no message is lost, the status is
  what the screen shows, although one parser object serves all agents of a driver;
- *manager*: an id names one living agent, every living agent is found under
  its id, an id changes hands only after its agent is gone;
- *engine*: no agent is forgotten when its plugin or the daemon goes, whichever
  teardown ends it, or both; a teardown ends;
- *rpc*: every call settles once, subscriptions follow the order of the calls,
  no event follows the last unsubscribe;
- *bus and its users*: no listener is lost or left behind, an agent's message
  reaches clients and trail, a driver that waits for idle misses no wake-up;
- *loader*: an order of loading that keeps every hint, or an error;
- *council*: every reviewer sees the whole source, tasks keep to their own
  agents, nothing is left behind, the call is answered;
- *discovery*: a daemon that serves can be found, a command talks to the daemon
  it found and comes to its end, the bridge answers all it has read;
- *versions*: the comparison is an order, ranges have no holes.

All hazards with their lines are under `hazards` in `PROJECT.json`, those
without a property with the reason.

## 2. Modules

| module | models |
|---|---|
| `DriverParsers` | `feed` of the codex, gemini and ollama parsers as pure functions |
| `SerialAgent` | abstract specification: what any agent promises its callers |
| `ExecController` | the exec runtime, implements `SerialAgent` |
| `HttpController` | the server-http runtime with ollama's control and parser, implements `SerialAgent` |
| `ClaudeParser` | claude's `feed` as a pure function on texts with a beginning, and what it promises of a whole screen |
| `ClaudeScreen` | `ClaudeParser` fed chunk after chunk, as a state machine |
| `ClaudeChunks` | sample chunks for TLC |
| `PtyController` | the pty runtime with claude's control, texts reduced to their origin, the terminal program external |
| `WsController` | the server-ws runtime, the server external |
| `AgentManager` | the registry and the factories, as actions without a specification of their own |
| `Engine` | startup and both teardowns, composed with `AgentManager` by EXTENDS |
| `Chunker` | the council's `chunkByLines` and what reviewers rely on |
| `Council` | one `council.review` on an instance of `AgentManager` |
| `Bus` | the events half of the service bus, as operators on its state |
| `EventFlow` | transport, audit plugin, another plugin and waiting drivers on an instance of `Bus` |
| `PluginLoader` | `sortPlugins` and what the order promises |
| `RpcSession` | one client's connection: its calls and timers, the dispatcher, the session's subscription, the notifications |
| `Discovery` | daemon processes, their files, and the commands that start, find, use and stop them, as actions |
| `McpBridge` | `mcp-stdio` beside the other commands, on `Discovery` by EXTENDS |
| `Semver` | version comparison, ranges, the grade a probe gives |
| `*_proofs` | theorems about ExecController, HttpController, Engine, Council (with Chunker), RpcSession, McpBridge (with Discovery); `Drivers_proofs` about PtyController, ClaudeParser and Semver; `Events_proofs` about EventFlow (with Bus), WsController and PluginLoader |
| `MC*` | symmetry sets, definitions for TLC, and the bounded evaluation of the pure modules as assumptions |

Operators whose comment begins "Faulty variant" are not used by any
specification. Each is a plausible bug of the definition it precedes and serves
to show that a property fails if the code had it.

### Steps

An action is what runs between two points at which other code can run.

- *Continuations.* `await` of something already resolved (`await
  this.interrupt()` in exec and http, `await control.submit()` in http) only
  queues a continuation. Node runs all of them before the next timer, pipe or
  process callback: the guard `Quiescent` of every callback says so. A further
  *call* can come in between only if its frame arrived in the same chunk as an
  earlier one, so that both handlers start before any continuation:
  `HttpController` has this as the constant `Batched`. In `ExecController` calls
  are not restricted at all, which allows more than the code does only for
  submits over a preempting one.
- *Real waits* (a child, a request, a sleep of the pty control) end an action.
- *Processes.* In `Discovery` and `McpBridge` the processes interleave between the
  system calls that tell them of one another: reading the directory, reading a
  file, probing a pid, unlinking, renaming, signalling, connecting. Two steps take
  more than one call: `Bind` probes a range of ports, and a `stop()` that ends with
  the file's removal ends the process. Between two steps any daemon may be killed
  (`Crash`).
- *Emits.* The bus calls its listeners before `emit` returns, so an event and
  all that its listeners do is one step (`EventFlow`).
- *Texts* are abstracted to where they come from. A message is the set of turns
  whose text is in it, so "no other turn's text" is `collected[s] \subseteq {s}`
  and a lost answer is an empty set. Only `ClaudeParser`, which compares texts,
  keeps them as sequences, and `Chunker` keeps a line's length and whether it is
  blank. The council compares a file's size in bytes with a string's length in
  UTF-16 units; `Council` has one unit for both.
- *One parser for all.* The registry holds one driver object per tool, and this
  one parser (`src/drivers/index.ts:13`). Where a parser has a buffer, the steps
  of other agents of the driver (`Neighbour`, `NeighbourData`) read and write it.
- *History.* Where a property holds but for a fact of the past, a variable keeps
  that fact and is read by nothing else: who raced with whom (`rivals`), who came
  after the teardown began (`late`), whose submits overlapped (`overlapped`), what
  could not be seen (`unseen`), and so on. The exception is then in the property,
  not in a constant that forbids the case.
- *Lines* are abstracted to what the parsers branch on (`begin`, `text`, `end`,
  `flush`, and `other`, which changes nothing); frames of claude's screen
  likewise.

### ExecController

`SubmitRefused`, `SubmitIdle`, `SubmitPreempt`, `SubmitResume` are the branches
of `submit`: refused, accepted, cut at `await this.interrupt()` (line 128), and
resumed with nothing checked again. `Start` is everything up to the `await` of
`runChild`. `Stdout`, `Exit`, `SpawnError`, `Timeout` are the four callbacks
`runChild` installs; `Exit` and `Timeout` include the `finally` of `submit`, which
runs as a continuation of theirs before anything else does. `Kill` sets `exited`,
sends SIGTERM and returns: the child runs on until its `Exit`. A process is
`none`, `running` or `exited`; SIGTERM only marks it, and it may write, hang or
exit afterwards. `Writes` is the external tool: one begin line, any answers, one
end line, any of them possibly missing. `scratch` is the buffer of the driver's
parser. `Neighbour` is a line of another gemini agent, or the flush at the exit
of its child: the former adds to the buffer, either may take from it what this
agent's child has said. `published` keeps whose text has come out, at whatever agent.

### HttpController

The same shape with one more cut: `Prepare` writes `pendingBody`, `Post` takes it
after `await control.submit()` and opens the request; `TakeBody` is line 140, where
a submit that finds the body gone sends its own prompt in the default one
(`plain`). `Line`, `Done`, `Fail`, `Timeout` are the reader loop, its end, its
rejection and the timer that aborts it. A request that is not answered needs the
timer; an aborted one rejects. `Neighbour` is a line of another ollama agent.

### ClaudeParser and PtyController

`ClaudeParser!Feed` follows `feed` part by part: spinner, message, blocking,
status, and the copy of the state that is thrown away when no part claims a
change. `FirstText` is lines 245 to 249: only the marker is taken out of the chunk,
and what is left is read from its beginning, so that text before the marker begins
the message, and behind a line end or a status glyph nothing is read. `ClaudeScreen`
feeds it any sequence of chunks. `PtyController` has the same parser with texts reduced to
their origin; a chunk whose text is cut off is a choice of `Shown`, and that an
answer which reads like the last one published is dropped is the choice `Deduplicated`.

`Prepare` is the part of `submit` up to the first sleep of `control.submit`: it
installs the message listener with its timer, unless the caller passes
`expectMessage: false`, and clears the input line, or waits for idle.
`BannerSettled`, `TypePrompt`, `EnterPrompt` are its remaining pieces between
sleeps; without a listener `EnterPrompt` is its end. `PtyData(frame)` is the whole
of `onPtyData`: parser state, message buffer, status, publication and everybody it
wakes. The program keeps an input line, the prompts entered, and a dialog that
takes all keys while it is open. `Approve` asks for nothing but `blocking`, like the
code: at the prompt its `y` and Enter are a prompt of nobody's (`Stray`), as are the
keys of `agents.raw` (`RawWrite`). `NeighbourData` is the same parser reading another
agent's screen. `MessageTimeout` sets `crashed` when the promise is rejected while
nobody awaits it.

### WsController

`Start` spawns the server, or connects to one that is there; `ConnectWs` is the
continuation after 200 ms; `Opened`, `ConnectFails`, `Closing`, `Closed` are the
socket, `ServerExits` the child. `OnConnectionClosed` is the one function the close
event, the exit and kill's timer call. A submit whose write is refused leaves its
message promise behind (`refused`), and the timer of that ends the daemon. `kill`
waits 500 ms, then ends the agent whether or not the server has ended.

### AgentManager and Engine

`SpawnCall`, then one of `SpawnUnavailable`, `SpawnInUse`, `SpawnBuild` after the
probe, then `SpawnRegister` or `SpawnAborted` after the factory: three steps of one
`spawn`, with the id checked in the second and entered in the third. `runtime` is
the controller's life as the manager sees it, `processes` what has become of its
programs; only on a terminal do they end together. `KillRuntimes` has the three ways
in which `kill` returns: exec and server-http have set their flag at once, server-ws
sets it after 500 ms, pty awaits the exit. `ProcessEnds`, `ConnectionClosed`,
`ChildStarts` and `ChildTimesOut` are as much of the controllers as matters to
whether a program is still running, has been told to stop, or is out of its
controller's reach (`stray`). In `Engine` a teardown is the signal handler's
`shutdown` or the handle's `stop()`; each has its own progress (killing, destroying,
closing), its own array of agents it waits for, and its own set of plugins it has
destroyed, because the code lets both run at once. `Serve` are the clients' calls,
possible until the transport is closed.

### Chunker and Council

`ChunkByLines` is the loop of the source, a recursive function of the lines read
(`Scan`): the chunk under construction, the index behind its last blank line, the
flush with its carried-over tail. In `Council` `Convene` is everything up to the
`Promise.all`: who reads the file with tools, who gets chunks, and the synchronous
part of all spawns at once. `Spawned`, `WarmedUp`, `Answered`, `SubmitFailed` and
`Killed` are the awaits of `runOneReviewer` and `runChair`, the last three with
their `finally`. The manager's steps are those of `AgentManager` with a task for a
spawn; `ClientKill` is any client that kills a reviewer meanwhile. Nobody else
submits to the council's agents. `Released` is what `kill` and `remove` leave
behind: the controller's flag is set and its program told to stop; that of a
terminal has ended.

### Bus, EventFlow and PluginLoader

`Bus` keeps for every event the Set it has now, and for every listener the Set
its handle closes over, because these may differ. `EventFlow` walks the daemon
from startup to the end: the transport's listeners, the audit plugin's, another
plugin's that may leave at any time, the agents' own as they are announced.
`cleanups` and `disposables` are the lists the code removes them by.
`WaitForReady` reads the status and adds the listener in one step, as
`waitForReady` does before its first `await`. `PluginLoader` is pure: priority
groups, hints inside a group, topological order by name. A priority is its rank
among the priorities in use, so that the groups can be counted through.

### RpcSession

The two ends of one WebSocket and what is on its way between them. `Call`,
`Settle` (in `DeliverAnswer`), `Timeout` and `ClientCloses` are what `client.ts`
does with its `pending` map; a call is known by its id, `nextId++`. At the other
end a request that `Arrives` is dispatched at once: `DispatchWork` starts a
handler that awaits something (`Finish` is its return, in any order),
`DispatchWrong` and `DispatchSwitch` are handlers that await nothing. The answer
goes out in a step of its own (`Reply`), because the dispatcher awaits every
handler and requests of one chunk are all dispatched before the first answer.
`Broadcast` is an event of the bus for the session's subscription. `Break` ends the
connection and loses any tail of what was on its way in either direction; the two
close events come after what was received. `toServer` and `toClient` are external:
TCP, in order.

### Discovery and McpBridge

A daemon goes through `Bind` (the first free port), `Publish` (temporary file, then
rename) and `Teardown` (socket, then file), may die at any moment (`Crash`) and then
leaves its file. A command is a record: what it does (`op`), how far it is (`pc`),
what it has still to read of the directory and what it has found. `Readdir`, `ReadFile`,
`ProbeFile` and `UnlinkFile` are `listInstances`, one step for each system call. Each
may fail (`Fault`): whatever keeps it from reading a file makes it unlink the file,
and a probe that is refused counts as dead. `Open` has no timer; `CommandDone`
only begins the end of an ephemeral command, which awaits its engine's
(`EngineEnds`). `Fork`,
`Poll`, `Stop`, `Stopped`, `Restart` are the daemon command; `Find`, `Open`,
`CommandDone` every other command; `Ephemeral`, `Booted`, `EngineEnds` the mode in
which a command brings its own engine. A daemon's number stands for its pid, its
token and the time it started. `McpBridge` adds `ReadLine`, `ReadCall`,
`CallSettled`, `Close` and `Finish`: one bridge that connects once and counts the
handlers under way.

### Semver

`Satisfies` and `GradeCompat` on what the two regular expressions make of a text.

## 3. Runs

Every property has a mutant that breaks it (`mutants`).

| run | question | bounds |
|---|---|---|
| `exec` | without preemption: every child reachable by kill; implements `SerialAgent`, with the other agents of the driver as strangers | 3 submits, another gemini agent (the only exec parser with a buffer), timers that fire while the child lives |
| `exec_preempt` | whatever callers and other agents do: no signal to a dead process, no text dropped, every submit settles | 2 submits, both values of `interruptIfBusy`, another gemini agent, output after the exit event, liveness |
| `http` | calls one per callback: one reachable request at a time, foreign text only from cut requests and other agents, exited is terminal; implements `SerialAgent` | 3 submits, symmetric, another ollama agent, requests that fail or are cut |
| `http_races` | batched and preempting calls: a body the driver built is posted once, every submit settles | 2 submits, another agent, liveness |
| `pty` | one agent, calls one after the other that wait or do not: another turn's answer only in the cases named; the claude parser on whole screens | 3 submits, 2 messages a turn, one stray key; 41,370 screens of at most 4 chunks |
| `pty_races` | whatever callers and the driver's other agents do: exited is terminal, no blind key into a dialog but in the cases named, every submit settles unless the daemon dies | 2 submits that may overlap, another agent on the same parser, liveness |
| `parser_marker` | **violated**: is all text kept that stands behind a marker? | 14 sample chunks, any sequence |
| `ws` | server, socket, timers and callers end the agent in any order: one exit, a kill is final, every call comes back | 3 submits, 2 kills, liveness |
| `engine` | spawns that race for an id, two teardowns: living agents are found, an id changes hands after the end or in a race, a teardown ends | 2 spawns, 2 ids, terminals and sockets, liveness |
| `shutdown` | the same with exec agents, whose children outlive their kill: every agent is told to stop before plugins and daemon go | 2 spawns, 2 ids, agents of all kinds |
| `council` | every reviewer gets the whole source, tasks keep to their agents, the chair comes last, nothing is left, the call is answered; chunker and version grades against their definitions | 10 reviews of at most 2 reviewers and 2 chunks, chunks of 6 bytes, sources of at most 15; the chunker on all sources of at most 5 lines; liveness |
| `events` | no listener lost or left, messages arrive once, no wake-up missed; the loader's order against its definition | 2 agents, 2 ids, one message each, symmetric; 4096 sets of 3 plugins |
| `rpc` | answers that overtake each other, are late or lost: every call settles with its own outcome or none; subscriptions follow the calls | 3 calls, any method, connection that breaks anywhere, events run at most 2 ahead; liveness |
| `discovery` | readers unlink no serving daemon's file that they could see, commands reach what they found | 2 daemons, 2 commands, 2 ports, 2 daemons dead at most by crashes, one failing system call |
| `bridge` | the bridge answers all it has read, every command ends or is in a wait without a timer | 2 daemons, a bridge and one other command, 2 ports, 2 lines, crashes, no failing system call; liveness |

`parser_marker` is a finding. The comment at `src/drivers/claude/parser.ts:239` says
"Extract text after the ● marker, up to the first status-frame terminator"; line
245 removes only the marker and line 246 matches from the beginning of the chunk. A
chunk in which a line end or a status glyph stands before the marker gives an empty
text, and the message is lost unless a redraw begins with its marker. With other text
before the marker the message begins with that text. `NothingPaintedIsLost`
and the theorem `ParserLosesNothing` therefore speak of markers that open their chunk.

Why the bounds suffice for what the runs ask:

- *Controllers*: the bad histories involve a turn that is given up or preempted,
  the one after it, and one more that observes the damage, hence three submits; a
  request's or a child's life is bounded by its own phases; the controllers keep
  no counters, so what a fourth submit meets is a state three could leave. One
  neighbour suffices: its lines come at any time and any number of times.
  `exec_preempt` and `http_races` ask what holds for every caller, and two submits
  show every pair of steps; what they check of safety is proved for any number.
  `Messages` bounds how often one terminal turn prints: two is the first value at
  which a turn has a message left for somebody else. `MaxStrays` bounds the keys
  typed at the prompt and not by a submit: one is the first that starts a turn of
  nobody's. `Len(queue) < 2` bounds the prompts entered when calls overlap.
- `ws`: of two kills one may find the agent running and the other exited, and both
  timers may be pending.
- `engine`, `shutdown`: two spawns race for one id, or one takes the id the other had,
  or comes when the teardown has begun; two ids show that one's end does not touch
  the other's. The safety properties are proved for any number of spawns.
- `council`: the reviews differ in what the handler branches on: who can read the
  file, what is refused, whether the source is cut (also with a tail that is
  carried over and then overshoots), which mode is available, with and without a
  chair. Two reviewers and two chunks give the names that could collide.
- `events`: two agents one after the other on one id are the first case of stale
  listeners; two on different ids show that removal keeps to its own.
- `rpc`: three calls are a subscribe, an unsubscribe and one more that is
  overtaken or overtakes; `Backlog` bounds only how far events run ahead of the
  client.
- `discovery`, `bridge`: two daemons are one that dies and leaves its file and one
  that takes its port or is started beside it; two commands list side by side while
  they start, stop, restart or bring an engine of their own. `Faults` bounds the
  daemons a command is kept from seeing; one such daemon beside one that is seen
  shows that the failure takes no other file. `bridge` has none, because liveness
  does not depend on them: a failing call takes a command forward like any other.

Deadlock is not checked: a daemon whose callers have made their calls stops, and
a stopped one stays so.

### Fairness

Assumed: queued continuations run and timers fire (the event loop); a child that
got SIGTERM exits (`exec_preempt`), as does a terminal's program whose kill is awaited
(`engine`, `council`): the pty controller's kill waits for it without a timer, and where
a program ignores the signal that kill, the teardown and the review wait with it.
The other kills do not wait for the program: exec and http return at once, ws after
500 ms. An aborted fetch rejects; a teardown's steps follow one another. In `bridge` a
command goes on once it has begun, a daemon that has begun to start binds and
publishes or dies, a call settles (by its timer at the latest), and the polling's
deadline passes. That a daemon told to stop does stop, and that the other side
answers the upgrade, are not assumed: `CommandsEnd` leaves commands out that wait for
either. Not assumed anywhere: that a tool or server
answers or closes, that a caller calls, that a connection carries anything, or
that anybody stops the daemon. So `SubmitSettles`, `CallSettles` and `CallsSettle`
rest on timers alone; each `WF` is per call, per process or per task, since the
event loop starves nobody.

### What the models leave open

Facts of the code met while modelling. The properties are stated so that they hold
in spite of them, with the exception written into the property or, where it is
named, under an assumption on the callers.

Controllers:

- *Preemption loses the child.* `interruptIfBusy` sends SIGTERM and starts the next
  child at once; the late exit of the first then clears `activeChild`, which names
  the second (`exec-controller.ts:275`). `ChildIsReachable` is therefore checked and
  proved without preemption. The same path returns the preempted child's last
  answer to the next submit (a collector takes any message of the agent).
- All agents of a driver share one parser object. Gemini and ollama agents take each
  other's buffered text into their answers, or lose theirs to another's
  (`Strangers`, the neighbours in `ForeignTextIsFromCut`); claude agents publish
  each other's messages (`Shared`, `mingled`). What holds is `TextIsKept`: the text
  comes out at some agent.
- exec's and http's `kill` set `exited` and return while the child still runs or the
  request still aborts. A line of an exec child after kill puts `busy` or `idle` over
  `exited`; text that arrives after the `exit` event is not in the answer (`LateOutput`).
- Two http submits in one batch both pass the busy check. The first to go on posts
  the body of the second, and the second posts its own prompt again, in the default
  body: one prompt is sent twice, the other never (`plain` in `BodyIsTakenOnce`). The
  text of a request that was cut short is prefixed to the next answer (the exception
  of `ForeignTextIsFromCut`).
- `expectMessage: false` returns when Enter is pressed, and the answer goes to the next
  submit that waits. `blocking` outlives the turn: an approval that comes late types its
  `y` at the prompt and starts a turn (`strays`).
- An answer that equals the last one published is dropped. Text behind a marker that
  does not open its chunk is lost or changed (`parser_marker`).
  Two submits to one idle terminal are entered as one prompt (`Overlapping`).
- A message timer that fires before `submit` awaits its promise ends the daemon
  (`pty-controller.ts:139`): `crashed` in `PtyController`, and in `WsController` for a
  refused write. A server command that does not exist ends it too: the child's
  error event has no listener.
- ws: a connection that fails leaves the spawned server running; after an
  unexpected close the server is never killed, since a later kill returns at
  once; a server that exits while the connection is being made leaves an exited
  agent with an open socket; frames that arrive after the exit revive the status;
  two submits that wait take the same message. Such servers are the `stray` programs
  of `AgentManager`, of which no property of the engine or the council speaks.

Manager, engine, plugins:

- Two racing spawns of one id both pass the check (`manager.ts:111`); the later
  registration replaces the earlier agent, which nobody can list or kill (`rivals`).
  A spawn under way when a shutdown begins outlives it (`late`); so does the council's.
- After `killAll` an exec agent's child may run on, beyond its plugin and the daemon:
  it has been told to stop, and nobody waits for it. The same holds of a review's
  agents when the call returns.
- `stop()` does not look at `stopping`: called during a shutdown it tears down a
  second time, which is harmless (checked); a signal during `stop()` is ignored.
- Order hints between plugins of different priority are ignored.
- `peer.tell` and `manager.spawn` start submits whose rejection nobody handles.
- The probe's warning about versions outside the tested range can never be given
  (theorem `ProbesNeverWarn`).
- A handle of the bus called twice may delete the entry of a newer Set.
  Everybody in the repository calls each handle at most once before the shutdown.
- Forwards and audit listeners of an agent stay until the end: the events of a
  re-used id are forwarded once per holder. Events before `agent.created` are not
  forwarded. The audit plugin subscribes to `agent.exited`, which nobody emits.

Council, discovery, bridge:

- A chunk may exceed the limit by less than a line; a failed chunk's result does
  not say which lines it was.
- A command that cannot read a serving daemon's file (EACCES, EMFILE), or is refused
  the probe of its process (EPERM), unlinks the file (`unseen` in
  `LiveIsDiscoverable`). The handshake of a connection has no timer
  (`client.ts:64`), and an ephemeral command waits for its engine to stop without one
  (`ephemeral.ts:48`): the two waits that `CommandsEnd` leaves out.
- Two `daemon start` at the same time start two daemons. With re-used pids a stop
  may signal a stranger (pids are not re-used in the model). An ephemeral
  command may talk to a daemon that started later. Temporary files of a daemon
  that was killed are never swept. The third listing of `start` may come out
  empty, and printing it throws.
- The bridge never reconnects. A line `null` on its input is an unhandled
  rejection, which ends it.
- `src/core/env.ts` says that several files are loaded in order; the first that
  exists is loaded.

## 4. Proofs

All theorems hold for every set of submits, spawns, ids, daemons, commands and
lines; what they assume of the constants is written in the theorem.

*ExecController.* `TypeOK` and `Attached` (activeChild, if set, runs; a waiting
submit's child runs) are inductive for every caller. `OneChildAtATime` and
`ChildIsReachable` are not inductive: a submit cut at `await this.interrupt()`
starts without checking. With `Polite` (nobody preempts) no submit is ever cut,
and `Tracked`, "the running child is activeChild", is inductive and implies both.
`AnswerIsOwn` needs to know whose text the parser's buffer holds, between turns too:
`Owned` says it is only that of activeChild and of strangers, because every exit
flushes the buffer. `ExecImplementsSerialAgent` maps each action to a step of
`SerialAgent` or a stutter: a timer maps to `Fail` that keeps the turn occupied,
the later exit to `Release`, and a neighbour's line to a stutter. `TextIsKept` needs
nothing of the callers, but `Kept`: what a child has said as a jsonl line is in the
buffer or published; so what an exit flushes, or a neighbour's exit, is all of it.

*HttpController.* `Taken`: a body in `pendingBody` belongs to a submit still being
prepared, a body sent to one that is past it, and those taken from it differ. It is
inductive without assumptions and gives `BodyIsTakenOnce`. `Orderly` (no
preemption, one call per callback) makes `Exclusive` inductive: at most one submit
is being prepared, it found the agent free, not killed, and the body is its
own; an open request is activeAbort; once killed all open requests are aborted, so
that no line can set the status again. Four theorems follow.
`ForeignTextIsFromCut` follows from `Residue`: what the buffer holds of the agent's own is
text of requests that have not had their final line. `OwnText` says that what is
buffered and collected is the open request's own or a stranger's, and
`HttpImplementsSerialAgent` maps the controller to `SerialAgent` as above: the turn is
the submit that is prepared or posted. Strangers are the other agents and, if requests
may be cut short, those requests.

*WsController.* `Early` (nobody has the agent before `start` resolves) and `Handshake`
(start and socket go through it together) make `ExitIsAnnouncedOnce` and
`KillIsFinal` inductive, without assumptions.

*Drivers: the pty runtime.* Types need `Working` (the program works on a prompt, if on
any), and `ExitedIsTerminal` needs `Ended` (the screen says no more once the program has
ended). The other two are proved for all callers, approvals, stray keys and other agents:
as long as none of what the properties name as their exceptions has happened, an
invariant holds, and once it has happened it stays so (the history variables only
grow). `Base` says what waiting callers buy: one submit is pending, its
listener is where its sleeps have left it, the input line holds its own text or
nothing, and only what was printed is heard. `Missed` is a submit that returned without
its own turn's answer, and it is for good. Until there is one, at most one turn is
on, its submit listens or has been answered, and nobody types before the turn ends
(`InTurn`); so no key goes into a dialog, whatever other agents of the driver do:
`NoBlindAnswer`. For `ForeignAnswerIsLate` the buffer must not have been shared: unless
another submit is late, a submit types on a clean screen and hears only its own turn
(`OwnTurn`), and between two submits a turn that is still on has had its say (`Between`).

*Drivers: claude's parser.* The theorems are about `ClaudeScreen`, fed any chunks. What a
step publishes is not what was published last, and is remembered as such; activity
and blocking agree with the status. So no screen of any length has a message twice in a
row. `ParserLosesNothing` is `OpeningTextIsKept`: the text behind a marker that opened
its chunk is the beginning of the buffer or of a published message. The invariant
(`LostInv`) adds that the buffer is empty unless a message is being captured (`Tidy`)
and what was published last.

*Engine.* `Registry`: entries are under their own id (`Entries`), and whoever awaits
its factory for an id is the rival of all who do for the same id, also of one that
has been registered meanwhile (`Contested`). So the entry of a living agent is taken
only by a rival, which gives `LiveIsRegistered`, `OneAgentPerId` and
`IdChangesHandsAfterExit` without assumptions. For the teardowns `Programs` says
that a controller whose flag is set has told every program it can reach, and
`Draining` that once a teardown has begun every living agent that was announced in
time and has kept its id is in the list of every `killAll` that was called; a
teardown past its killing has seen the flags of its list set, which gives
`NoAgentIsForgotten` for either or both.

*Council.* Two tasks of a review never ask for the same id (`Distinct`: with one chunk
the tasks differ in the reviewer, with more the chunk is part of the name). So the
registry's entry under a task's id is its own agent from the registration until the
task frees the id (`Tasked`, `Entries`), whoever kills that agent meanwhile, and a
task is done only when `kill` has returned for its agent (`SubmitKeeps`, `FinallyKeeps`),
with which its programs are told. `Staged` ties the review to the tasks:
the chair begins after all others are done, and their results change no more.
`AgentIsOwn`, `NothingLeftBehind` and `ChairComesLast` follow for any panel, any number of
chunks and any answers. For these `CouncilAssumption` asks of the chunker only that
it returns a sequence that fits the names; TLC evaluates it for the reviews of the run.

*Chunker.* `ChunksAreTheSource`: for every source and every limit the chunks are the
source, line by line, numbered as they are, and none exceeds the limit by a line.
`Scanned` is the loop's invariant: the chunks made partition the lines before the
one under construction, the index of the last blank line lies in it, and what was
carried over fits. `CouncilSeesTheSource` (`AllOfTheSourceIsSeen`) follows with
`Called`: the tasks of a reviewer are the chunks.

*Bus and EventFlow.* The bus's operators are described by what they do to the
listeners that are on (`Up`) and have been (`Had`), as long as every listener that is
on is in the Set its event has now (`WellBus`): that is what a handle called for the
second time would break. `FlowInv` says besides who is on at each stage and for
which agents (`Registered`), which handles the owners still hold (`Handles`,
`PluginHandle`), who has never been on (`Fresh`) and what has become of the agents
(`Lived`). It is inductive for any finite number of agents and any ids, without
assumptions, and gives `ListenersAreHeard`, `EventsArrive`, `NoWakeupIsMissed` and
`NothingIsLeftBehind`.

*PluginLoader.* `PluginsAreSorted`: `SortsRight`, which TLC evaluates for 4096 sets of
three plugins, holds for every finite set of plugins, priorities and hints. While
a group is shifted, whoever is in the result comes behind all it is to follow
(`Follows`). If nobody is ready and somebody is left, each of those waits for
another of them, and the first of them in any order breaks a hint. Groups
are joined one after the other (`Joined`).

*RpcSession.* `Requests`: what is on its way to the daemon is in the order of the ids,
not dispatched, and behind all that is. So the switch dispatched last is the one
with the highest id (`Subscription`), which gives `SubscriptionAsAsked`. `Truthful`:
an answer on its way says what its handler did, and a handler that is back
changes no more; `OutcomeIsOwn` is part of it. `Silent`: behind the answer to the
last unsubscribe no event is on its way, because `Broadcast` needs the
subscription; it gives `NoEventAfterUnsubscribe`. `Closing`: the close event
comes on a connection that is down, where nothing is sent any more; it gives
`WaitingOnClosedNeverRuns`. Nothing is assumed but that `None` is no method.

*McpBridge.* `Connects`: a command keeps the record it picked until it is connected,
and being connected is the last it comes to; with the token check this is
`ReachesWhatItFound`. `LiveIsDiscoverable` is not inductive, because read, probe and
unlink are steps of their own: `Seen` says that whatever a reader is about to unlink
belongs to a daemon that no longer serves, and will not again (`Onwards`), or that the
reader was kept from seeing. `Counted`: the counter is the number of calls without an
answer, which needs `Lines` to be finite; a bridge that ends has counted down to none
(`Bridged`), and hence `NoLineIsLost`. Daemons, commands, ports, crashes and failing
system calls are arbitrary; the ports and `Ports`' order play no part.

*Drivers: versions.* `compareVersions` is a total order and ranges are intervals of
it, by case analysis on the three fields.

What recursive functions compute (`Scan`, `Sums`, `OnSteps`, `OffSteps`, `Shifts`,
`Sorted`) is proved by induction over sets of numbers: the provers cannot
instantiate the library's induction rules, which take an operator, but its
well-founded minimum is about sets and gives the least number (`Least`), from which
`Induction` follows. That such a function exists and satisfies its equation is
proved the same way (`ScanDef`, `OnStepsDef`, `ShiftsDef`, ...).

Only model-checked: all liveness (`SubmitSettles`, `CallsSettle`, `TeardownCompletes`,
`CallSettles`, `ReviewEnds`, `CommandsEnd`), which TLAPS does not reach. The
parser's theorems are about the machine that is fed chunk by chunk, what `pty`
evaluates (`ParserAssumption`) is about whole screens.

## 5. Not modelled

- *No state or callers that race*: configuration, environment and names; command
  line parsing and printing, the shell; authentication beyond its outcome
  (`Admits`); the drivers' command lines and the process I/O of their probes.
- *Thin*: the peer and manager plugins call spawn and submit and keep nothing;
  their unhandled rejections are noted above. `/health` and `daemon logs` only
  read; `daemon status` is the listing with which every command begins.
- *Called by nobody in the source tree*: `switchModel`, `switchMode`, `quit` and
  `resize` of the pty agent, `once` and `off` of the bus, `unregister` of the driver
  registry.
- *Data*: token counts, model names, cost, tasks and context fields of parsers;
  prompts and reports of the council; the bus's key-value half, which no
  decision reads.
- *Abstracted to a choice*: the registry's probe cache. Whether a probe finds a
  mode is free in `Engine`, fixed per review in `Council`; the age of the answer
  cannot matter to either.
- Pids that are used again, and clocks that jump. Terminal data that comes after the
  exit event. Several reviews at once: their names differ by a random part, and what
  others spawn under a review's names is left out.

## 6. Plan

Done: all runtimes, parsers, manager, engine, plugins' life on the bus, rpc,
discovery and bridge, council; a theorem for every property the runs check
except liveness. What is left, by weight:

1. The refinement of the ws controller to an abstract agent that may answer two
   waiting submits with one message.
2. A composition of one controller with `RpcSession`: a client that hears the
   answer as an event before the call that asked for it returns.
3. `DriverRegistry`: aliases, and probes under way together.
