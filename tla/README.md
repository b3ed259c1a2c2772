# biglybigly in TLA+

biglybigly is one Go program with two roles. As a **server** it keeps a SQLite
database, an HTTP API and a web UI. As an **agent** on a host it filters the
host's DNS queries, watches its connections and its resources, and reports to
the server. This directory holds TLA+ models of the parts in which order,
failure and concurrency matter, the TLC runs that check them, and TLAPS proofs
of their safety properties. Paths below are relative to the repository.

`tlc -config X.cfg M` checks a run, `tlapm M_proofs.tla` checks the proofs;
`PROJECT.json` lists the runs, what each models (`map`), the disagreements
found between code and documentation (`findings`), and the hazards the
properties are for.

## The system

| Component | State | Operations | What makes it correct | Where |
|---|---|---|---|---|
| Rule and blocklist distribution | server and agent tables of rules and lists, the two maps of `BlocklistManager` | the rule and list handlers, `SyncRulesFromServer`, `LoadFromDB`, two tickers | the maps come from rules that stood together, do not go back, and converge to the server's | `RuleSync` |
| Domain matching | the maps, a walk per query | `parseHostsFile`, `IsBlocked`, the swap | an answer is the policy of one pair of maps; lists cannot cut off the host | `DomainMatch` |
| DNS proxy and query log | `logBuf`, requests under way, `dnsfilter_queries` | `handleQuery`, `addLog`, `FlushLogs`, `SendDNSLogs`, `handleIngest`, `runCleanup` | at most once, no loss without a cause, newest entries kept | `QueryLog` |
| Host DNS configuration | the host's setting, `originalDNS`, `configured` | `Configure`, `Restore`, signals | the host is not left with a resolver that does not run, and gets its own back | `DnsConfig` |
| System monitor | `sysmon_snapshots`, `sysmon_disks`, row ids | `handleIngest`, `cleanup`, the views | a snapshot has its own disks, the pages agree, nothing stays for ever | `SysMon`, `SysViews` |
| Network monitor | flows, DNS cache, hostname history, requests under way | `collectAndStore`, `SendFlows`, `handleIngest`, the enricher, the views | counts are sightings, and the views show no others; names are kept and reach the history; an address is tried as long as the enricher can keep up | `NetMon`, `FlowViews` |
| Network collectors | none beyond a round | `/proc/net` and `/proc/*/fd`, PowerShell and netstat, lsof | a connection is found, and is shown as its own process's | `Collectors` |
| URL monitor | URLs, their last status, history | add, delete, check, history | the status is that of the last check; no foreign history | `UrlCheck` |
| Setup, modes, module registry, shutdown | settings, mounted routes, started modules | setup, `Registry.Start`, `main` | a set-up server that runs serves its modules | `Lifecycle` |
| Agent start, connection status | status, rules in force, kept-alive connection | `runAgent`, `Ping`, `SendFlows`, `sendJSON` | an agent is not locked out; the shown status is true in the end | `AgentLink` |
| Configuration, storage | environment, one SQLite connection | `Load`, `OpenDB`, `RunMigrations` | - | settings in `Lifecycle`; else its consequences only |
| CPU, memory and disk readers, preflight, VPN detection | none, or the last CPU sample | read /proc or run a command, parse its output | - | not modelled |
| Web UI | what it last fetched | polling, forms | - | not modelled |

How they interact: the agent fetches rules and lists over HTTP and writes them
into its own database; from there and from list URLs it builds the maps, which
the proxy's handlers read under a lock. The handlers append to the log buffer,
which a ticker empties into a POST. The host's resolver setting sends the
queries to the proxy, those of the agent itself included. Snapshots and flows
are POSTed by tickers of their own. In one process all database statements go
through one SQLite connection (`SetMaxOpenConns(1)`), so a statement, and a
transaction, is atomic; nothing else is. Foreign keys are declared but SQLite
does not enforce them unless told to, and `OpenDB` does not.

What is hard here: two goroutines that run the same unserialised pipeline;
passes over several statements without a transaction; ignored errors of
database calls; downloads that outlast the next pass; a buffer that is emptied
before its content has arrived; timeouts while the server commits; a setting of
the host that only the memory of a process can put back; an agent whose own
requests pass its own filter; several writers of one status; names that are
asked for long after the number they belong to. `PROJECT.json` lists
them under `hazards`, each at its line.

## The modules

Each component module has its state as variables, an action per handler or
step, and the properties at the end. Definitions named "Fault variant of ..."
are wrong versions of the definition after them; no specification uses them.
They are there to show that a property notices such a bug.

**RuleMirror** is the promise of the rule pipeline: the policy in force is
`Compile(R, L)`, where `R` is part of some state that the server's rules were
in, and `L` are whole lists. "Part of", because the table is replaced by a
DELETE and INSERTs, and a load may see it half done. The promise ends if the
agent's database fails to delete (`mixed`): the code ignores the error.

**RuleSync** implements it. `SetServerRules` and `SetServerLists` are the
administrator's handlers (a call without effect is a stuttering step). Each
goroutine has a `pc`; a phase is the code between two points at which another
goroutine or a crash can come in: a fetch, a database statement, a download,
the swap. `RuleTick` waits until the startup goroutine has left its sync,
because the sync has a 30-second context and the first tick comes after five
minutes; it does not wait for the downloads, which have a minute each and no
common limit. The ignored errors of the DELETE and the INSERTs are actions.
`snapVer`, `rulesVer`, `draftVer`, `memVer` are history: the server state a copy
was read from. `torn` says that a replacement was cut short and not redone. An
agent's lists have one bit less than its rows: `enabled` is 1 in every row the
API can make.

**DomainMatch** has names as sequences of labels. A walk (`Ask`, `Look`) holds
the read lock, so `Load` waits for it; every turn of the walk is a step, and
several handlers walk at once. `Blocks` is the reference definition: some stop
of the walk is blocked and neither it nor an earlier one is allowed. The lists
that a load reads are one file here; several are their union.

**LossyLog** is the promise of the query log: entries are open, then settled,
stored or not, once. **QueryLog** implements it with the entries that are in the
buffer or in a request as the open ones. Entries are numbered. A handler leaves by
one of three exits (the name is blocked, no upstream answers, one does), and each
is an answer of its own followed by a log call of its own (`AnswerBlocked` and
`LogBlocked`, and so on), between which other handlers and the shipper run. Of an
entry `says` keeps the exit, which its fields tell. A message without a question is
refused and leaves no entry (`Refuse`). The shipper's `waiting` is the request it waits for; `TimeOut`
leaves the request alive at the server, `Break` takes it with it. A restart
empties the buffer and leaves requests that are under way. The ingest is one
step, being one transaction on the only connection; a skipped INSERT and a
failed commit are actions. `committed` and `acked` are the numbers of the requests that the
server has committed and that the agent has counted. `sent` and `errors` count DNS
batches; in the code the counters are shared with the other senders.

**SysMon** models an ingest as one step and the cleanup as two, one per DELETE.
`lastRow` is the connection's last insert id, which `LastInsertId` returns after
an upsert that has updated; other modules' inserts change it (`OtherInsert`).
Times are the agent's clock, so an ingest may be old. **SysViews** adds the
views as operators on the same state: the overview, an agent's page and its
chart, the disks, the agent list and the dashboard's two counts. A view is one
query, so it shows one state; what is worth checking is that they agree.

**DnsConfig** models one host and the runs of its agent, one after the other, on
Linux with a plain resolv.conf, on Linux with resolvconf(8), on macOS and on
Windows. The steps of `runAgent` are phases. `dns` is the set of resolvers that the
host asks, `{}` is "automatic" for an adapter and no nameserver in a file.
`setDNSDirectly` overwrites the whole file, so whatever else its owner wrote
(search, options, the order, comments) is gone with the first `SetDNS` and no
`Restore` brings it back: that is the bit `lines`. `setDNSResolvconf` writes the
record "biglybigly" beside the host's own (`record`), and `Restore` only writes it
again, so it stays. What resolvconf(8) makes of its records (it merges them, and may
cut the list after a loopback address) and what the PowerShell command returns for
an automatic adapter are assumptions about external programs. `Detect` leaves out
127.0.0.1 on Linux only. `SetToFails` may leave a truncated file. `own` is what
others set last, `due` and `past` remember what a run must give back, and `trouble`
says that the last run was killed or that something in it failed.

**NetMon** models both ways into `netmon_flows`. The server's own collector
writes flow by flow (`Collect`, `Store`); an agent posts a batch (`Send`), waits
for its reply, and gives up or loses the connection (`TimeOut`, `Break`); the
server stores a batch in one step (`Ingest`), in which any INSERT may be skipped.
The two upserts differ: `Merged` keeps a hostname and a process it knows,
`Overwritten` does not. The enricher's pass is cut at its statements and
lookups; `mappings` serves both of its loops over the history, because it holds
what is read and not yet written in either. A cache entry counts for `Ttl`
passes and ages at the start of one. What a lookup may return is `Ptr`; the agent's
own lookups at collection time use the same names.
**FlowViews** adds the views as operators, for all hosts or for one. The LIMITs of
the queries are constants (`MaxFlows`, `MaxTop`, `TopLimit`, `GraphLimit`). Which of
equal rows a query leaves out is SQLite's choice, so `ListFlows`, `TopHosts`,
`TopPorts` and `Edges` are the sets of all results that the query may have
(`Largest`), and a property of a view speaks of each of them; `NodeTypes` is a set
for the same reason.

**Collectors** is one round of `collectPlatform` and the filter, on each system.
On Linux the four tables are read one after the other, each in chunks, for the
scanner fills its buffer, and the holder of every line is looked for in /proc before
it reads on (`ReadChunk`, `FindPid`); after the last table each process name is
read. A table that changes between two chunks may skip or repeat lines (`Tears`).
On Windows there are three or four commands: PowerShell for TCP, netstat in its
place if that fails or is empty, which with `-p TCP` lists only what is IPv4, and
says LISTENING of a listener; PowerShell for UDP; the names. On macOS there is one
`lsof`. `spoilt` are the ways to a connection that have failed or were torn. The
output of `lsof` (external, after the comment and the tests of
collector_darwin.go) is an order of the open sockets in which those of a process
stand together (`Listings`), with a process's lines before them; `ReadLine` is the
parser's `switch`, which the model applies line by line to the parser's own
variables. Meanwhile processes end and their PIDs are given away. The two loops,
`Filter` and `ParseLsofFields`, are recursive functions, one round for each flow
and for each socket. A host has finitely many sockets (`SocksAssumption`).

**UrlCheck** cuts a check into its SELECT, its HEAD request and its two
statements; several handlers run at once. A result is a number in the order of
the answers. Nothing bounds the request: `http.Head` has no timeout.

**Lifecycle** is the server's process over boots: the choice of the mode, which
routes exist, setup. **AgentLink** extends it with the agent that talks to it:
`runAgent` up to its goroutines, the two requests of `Ping`, one rule, which
blocks the server's name, on its way from the server to the agent's table and
filter, and the status that three senders write. A request
reaches the server over the connection that is still open, or else needs the
name, and with it the host's resolver or the agent's own proxy. What RuleSync and
DnsConfig take apart is one step here.

## The runs

| Run | Bounds | Shows |
|---|---|---|
| `RuleSync` | 3 domains, 2 lists, 1 rule domain with both actions, which is also in the second list, 2 edits, 1 fault, 1 crash | the agent's table is one snapshot or a part of it; only the startup goroutine's late swap brings older rules back; RuleMirror is implemented; the policy converges |
| `QueryLog` | buffer of 2 dropping 1, 2 handlers, 3 queries, 2 faults, 1 restart | at most once, newest kept, at each exit every answer logged as what it was, "sent" was committed, losses have a cause, LossyLog is implemented, entries settle |
| `DomainMatch` | names of up to 4 labels, 3 list files with every form of line, 2 handlers, all combinations of 2 block and 3 allow rules | answers follow the reference policy; no list blocks the host's own names |
| `SysMon` | 2 agents, 2 disks, 3 ticks, retention 1, 3 ingests, 1 fault, 1 restart | the pages show an agent once and agree, disks stay with their snapshot, fresh snapshots are whole, orphans have a cause, old ones go |
| `DnsConfig` | 2 resolvers, 4 platforms, 1 fault, 2 kills, 2 changes by others, runs without a bound | who strands a host, and that on Linux the next run repairs it; which resolvers runs in order leave behind; a stop on Linux frees the host |
| `NetMon` | 1 agent and the server, 3 connections to 3 addresses and 2 ports, one address with two names, one of them the agent's, 2 collections, 1 fault, 1 address a pass, cache of 2 passes, lists of at most 2 flows, 2 hosts and 1 port, a graph of at most 2 edges | counts are sightings; only `collectAndStore` forgets a name; `last_seen` goes back only by a batch that its agent gave up; every address is tried unless more than fit the cache's lifetime lack a name; shown names reach the history, which has no others; no view shows more than was seen, and an uncut one no less |
| `UrlCheck` | 2 URLs, 2 handlers, 3 adds, 3 answers, 1 fault | a URL's history is its own; the status shown is the newest, unless a fault or an overlap is to blame |
| `AgentLink` | 1 fault; boots, halts, kills, setups and edits without a bound | who is cut off by a rule; "connected" means set up; the status tells the truth in the end |
| `Collectors` | 2 PIDs, 2 programs, 4 sockets (TCP over IPv4 and IPv6, UDP, a listener), any subset open, 1 change (a process ends, or another socket comes or goes), failures without a bound | connections are attributed; one that stays open is found once unless every way to it was spoilt; a state is of the connection or its own process |

Why the bounds are enough: an interleaving hazard of `RuleSync` needs two passes
that overlap and an edit between them, and going back needs a second edit. Each
list has a domain that no rule and no other list has, so that memory tells which
lists it was built from, and the second list shares a domain with the rules. In
`QueryLog` three entries fill a buffer of two and make it drop one, or leave a batch
under way while a second one is built, and each can take another exit; two faults
give a timeout and a failing server. `SysMon` needs a snapshot, one that clashes
with it and one beside it, and a clock that passes the retention. `DnsConfig` needs a
kill, the run that misreads the setting, and one more. `NetMon` needs two batches
that meet in one row and one of them out of order, which one timeout gives; one
batch sees a connection twice, with a name and without. One address a pass and a
cache of two passes make three addresses compete: with two the third is not
starved, and with all three nameless it can be. Without the clause `Crowded` of
`EveryAddressIsTried` TLC finds that starvation, which is what the code does with
more than 50 nameless addresses for each pass within the hour that an entry counts:
the query's order is fixed, so the first are asked again when their entries expire.
Three connections make lists of two and a graph of two edges cut. In
`UrlCheck` the third add reuses an id if ids can be reused, and two handlers
overlap. `AgentLink` has no bound but the faults. `Collectors` has a socket of each
kind that the code tells apart but one on the loopback interface, which the filter
treats as it treats a listener; one change makes a PID change hands or tears one
table. The drop of 2000 out of 10000 is scaled to 1 out of 2; the proofs hold for
every capacity and every limit.

Three further runs each violate one property that a document or a comment states
and the code does not keep:

| Run | Stated | The code |
|---|---|---|
| `BlocklistChangesReachAgent` | agents poll for blocklist changes (README.md:108); a deleted list goes at the next refresh (dnsfilter/handlers.go:311) | a deleted list is never removed from an agent |
| `IngestKeepsChildren` | a snapshot is updated plus its disks (sysmon/handlers.go:13) | after an update the disks go to the last inserted id |
| `StopFreesHost` | the original DNS is restored on shutdown (README.md:105) | macOS and Windows may restore 127.0.0.1 after an earlier kill |

`CHECK_DEADLOCK FALSE` stands where the bounded model stops: queries run out in
`QueryLog`, answers in `UrlCheck`, a round ends in `Collectors`, and collections
run out in `NetMon`. In the other runs some step is always possible.

## Other places where code and words part

Met while modelling; no run is about them, or the model shows them in passing.

- A list that fails to download once is left out of the new maps
  (blocklist.go:125), although they are to merge all enabled lists
  (blocklist.go:18).
- A batch of queries or flows that fails to send is dropped (main.go:361, 387);
  the shipper computes a backoff "for retries" (main.go:372) and never uses it.
- A block on a single label does not block the names below it (blocklist.go:70
  against blocklist.go:49).
- `collectAndStore` is to preserve "any non-null hostname/pid/process that has
  been previously enriched" (netmon/collector.go:93), but what it inserts is never
  NULL: an empty hostname overwrites a known one (`Overwritten`). The ingest keeps
  hostname and process, and does not update the pid at all, although it is said
  to use "the same upsert pattern" (netmon/handlers.go:373).
- The history of a deleted URL stays (urlcheck/handlers.go:99 says "via FK
  cascade"): foreign keys are not switched on.
- "if setup is complete, use DB mode (env var overrides)" (main.go:112):
  `BIGLYBIGLY_MODE=server` does not override a saved mode "agent", because the
  test is for "server" wherever it comes from. A host that was set to agent mode
  in the wizard cannot be made to serve again.
- Setup answers "Server mode active" (server.go:160) while no module's routes exist
  until a restart. `Ping` takes a 404 for this case (client.go:300), but POSTs to
  such a server get a 405, since the UI's "GET /" matches every path.
- `sendJSON` leaves the status alone when the server rejects what it sends;
  `SendFlows` shows a disconnection.
- The dashboard selects `os` and `last_status`, columns that the tables do not have
  (`os_info`, `status`): its agent summaries and its URLs that are down stay empty.
- "The original contents are preserved in memory by the DNSConfigurator and
  reapplied by Restore on shutdown" (dnsconfig_linux.go:75): what is preserved and
  reapplied are the addresses of the nameserver lines, without 127.0.0.1; the rest of
  the file is gone after the first run (`lines` in `DnsConfig`). The record that
  `setDNSResolvconf` adds is never removed.
- `Configure` "on failure ... leaves the system untouched" (dnsconfig.go:33): a write
  that fails has truncated resolv.conf before, and nothing restores it, because
  `configured` is not set (`SetToFails`).
- A list or a graph of the network monitor that is cut at its LIMIT does not say
  so: its sums fall short of the totals.
- Without PowerShell's `Get-NetTCPConnection` IPv6 connections of Windows are not
  seen at all: `netstat -p TCP` lists IPv4 (collector_windows.go:114). (It also says
  LISTENING of what PowerShell calls Listen, but no listener passes the filter.)
- The lsof parser forgets the state of a listener only with the process: a UDP
  flow after it is shown as LISTEN (`StatesAreOfTheirProcess` says how far that
  goes). On Windows no UDP endpoint passes the filter.

## Fairness

- `RuleSync`: each goroutine goes on (weak fairness of `Work`): Go schedules it,
  and every request has a timeout. The five-minute ticker is chosen again and
  again (strong fairness): it shares its goroutine with the six-hour one, but Go's
  `select` picks among ready channels at random. Nothing makes anybody boot the
  agent, edit rules or crash; `MemoryConverges` asks only for `<>[]up`.
- `QueryLog`: a handler that has a query answers and logs it (the upstream
  timeouts bound it), the shipper ships and gets its reply or gives up, and the
  server serves what it was sent. Restarts, faults and queries are not fair.
- `SysMon`: the hourly cleanup goes on.
- `NetMon`: the enricher goes on: its ticker fires every minute and each lookup
  ends. Nobody has to collect anything, and no request has to arrive.
- `AgentLink`: requests end, within the client's 30 seconds, and their senders write
  the status; `runAgent` gets on; the monitor's ticker sends a snapshot every 30
  seconds, because `Collect` never fails (sysmon/collector.go:99). Nothing makes
  anybody boot, stop, set up or edit, and the rule tickers are not fair either.

Faults are bounded, so the liveness properties say: after the last fault, it
gets there. `DomainMatch`, `DnsConfig`, `UrlCheck` and `Collectors` state no liveness:
nobody has to start or stop an agent, and a check's request may take for ever.

## The proofs

`*_proofs.tla` prove, for all values of the constants (under the named
assumptions of the component modules: bounds are naturals, constants have their
types, 127.0.0.1 is not among the resolvers, the drop fits the capacity):

- **RuleSync_proofs**: `TypeCorrect`, `TableFollows`, `NeverBack`,
  `MirrorsServer`. The properties are not inductive by themselves. The
  strengthening: the server's table is the last state of its history; two
  goroutines are never in a sync together (`SerialSync`, from the ticker's
  guard); a goroutine between its fetch and its last INSERT holds what the table
  still lacks of its snapshot (`ReplaceInv`); memory and drafts were read from
  table versions no later than the present one, and the ticker's draft from this
  one, at any time (`VersionInv`, which gives that only the startup goroutine's swap
  goes back); every draft is
  compiled from what has been read so far (`DraftInv`, which gives the
  refinement).
- **QueryLog_proofs**: `TypeCorrect`, `NoEntryTwice`, `NewestKept`,
  `SentCommitted`, `LossHasACause`, `AnswersLogged`, `ImplementsLossyLog`. `AnswersLogged`
  goes exit by exit: an answer adds one to the handlers that have yet to log it, a
  log call moves one of them to the entries of the same exit, and rows are of
  entries, each of one at most (`NoEntryTwice`). `SentCommitted` rests on a number for
  each request: a reply says "ok" only for one that was committed, and the shipper
  takes only the reply to the request it waits for. The rest of the strengthening says
  where entries are: the buffer is an interval that ends at `logged`, requests
  and rows hold earlier ones, no two places hold the same entry, and request
  numbers tell which replies can still come.
- **Host_proofs**, on DomainMatch and Collectors, the two things a host does on its
  own. Of DomainMatch: `TypeCorrect`, `WalkIsPolicy` (the walk is the reference
  policy: it has met neither map at the stops before the present one),
  `HostStaysReachable`, and two facts on the policy itself, `PolicyIsMonotone` and
  `AllowAlwaysWins`. Of Collectors: `RoundAttributed`, `RoundFindsOpenConnections`,
  `RoundStatesAreOfTheirProcess`, all from `RoundInv` (`RoundInvAlways`). The
  properties speak of the end of a round; the invariant says what holds on the
  way: an open socket's holder runs what it ran (`HoldersRun`); a flow tells of its
  socket what is so, even while its PID or its name is still missing and whoever
  has that PID now (`OwnFlows`); what is to come of a table is of that table, and not
  yet in the flows unless the table was torn (`UnreadInv`); an open socket whose table has been reached is in the
  flows, still unread, or in a table that was torn or failed, and netstat is asked
  only when PowerShell failed or had nothing to find (`FoundInv`); no socket is in two
  flows unless its table was torn (`OnceInv`). The loops are proved about
  round by round. `UpTo` is induction up to a number, by a least counterexample;
  `LoopExists` shows with it that a recursive function on `0..n` exists, so that
  its equations may be used; `FilterFacts` and `ListingFacts` are what the filter
  and the parser return, and `InBlock` is the parser's loop invariant.
- **SysMon_proofs**: `TypeCorrect`, `OneRow`, `DisksStay` (ids are never above the
  AUTOINCREMENT counter and never used again), `OrphanCause`. `FreshWhole`, with
  `FreshInv`: each snapshot is that of a post so far. `AgentsShownOnce`, from one
  row for each sample and a finite table: an agent's newest snapshot exists and is
  the only one, so overview, page, chart and counts cannot differ. That a finite
  set of snapshots has a newest one, and can be sorted, is proved by a minimal
  counterexample: the subset ordering of a finite set is well-founded.
- **NetMon_proofs**: `TypeCorrect`, `ForgetsLocally`; `HistoryBacked`, with
  `NameInv`: every name in a row, in a request, in the cycle, in the history or in
  `mappings` comes from a lookup of its address, and rows are never deleted;
  `LastSeenCorrect`, with `OrderInv`: the request that an agent still waits for is
  its newest and no older than anything it has stored (`WaitInv`), whatever faults
  there were before, and another request of it is left only after a fault; `CountsCorrect`,
  with `WireInv`: requests have numbers of their own, so that a step which moves
  flows from a request or the cycle to their rows takes as many as it adds
  (`Balanced`, one lemma for each kind of step). `ViewsCorrect` holds for all limits. What
  the hosts have seen is finite (`FiniteInv`), and every stored row was seen at least
  as often as it counts (`StoredWasSeen`). `Sum(f)` is how many units `<<x, i>>`,
  `i <= f[x]`, there are (`SumIsUnits`, again by a minimal counterexample), so that
  sums compare as sets of units do: a group counts no more than was seen of what can
  fall into it, groups add up to all rows, and each edge is in the sizes of its two
  ends. A cut list is a part of the groups (`LargestIs`, `ListsAre`), so the upper
  bounds hold for it too; the lower ones need the list to be shorter than its limit.
- **DnsConfig_proofs**: `TypeCorrect`, `StrandedCause`, `ResolversRestored`,
  `LinuxFrees`. `InOrder` is why the resolvers come back: before a run they are in the
  host, during it in `originalDNS`, and what is there stems from what the first run
  read (`Stems`: itself, or what the platform makes of an empty setting). `Repaired` is
  why on Linux only the last run can have stranded the host: from a `SetDNS` that did
  not fail on, whatever earlier runs left is overwritten.
- **AgentLink_proofs**: `TypeCorrect`; `ConnectedSafe`, with `AnswerInv`: an "ok"
  that a sender still holds came from a module, modules have routes only after
  setup, and setup is never undone; `CutOffSafe`, with `CauseInv`: without a
  failure and a cause, the server serves, the rule is not there, the proxy is
  bound, and after the startup sync the agent's table is empty, so that no load
  can bring the rule into force.
- **UrlCheck_proofs**: `TypeCorrect`; `HistorySafe`, with `IdInv`: rows, entries and
  checks under way agree on whose an id is, and none has one that is still to be
  given out; `ShownSafe`, with `ShownInv` and `NewestInv`: as long as the checks of
  a URL have not overlapped there is one at most, its result is the newest from
  the end of its request on, and what the list does not show yet is the result
  that is just being written.

Only model-checked: all liveness (`MemoryConverges`, `EntriesSettle`,
`OldSnapshotsGo`, `EveryAddressIsTried`, `NamesReachHistory`,
`StatusFollows`), which the prover cannot do under fairness. Every safety property
of a passing run is proved. TLC has checked `RoundInv` on the instance
of the run too, but no run lists it. The type invariants and `OneRowPerSample`
that are proved are not all checked by a run as well. That the three violated
statements are violated is shown by the runs alone.

## Not modelled, and the plan

Rendering, logging, authentication, parsing of HTTP bodies beyond what a handler
decides on, the row orders and search filters of the views, the two limited lists of
hostnames (`handleHostnames`, `handleRecentHostnames`), the views of the query log, the dashboard other than its agent counts, the readers of CPU, memory
and disks (a formula on what the system says at one moment; their one hazard, a
counter that goes back, is listed), the probes of preflight and VPN detection, the
environment's configuration, and the web UI.

What is left is in this list; most of it only reads. Worth adding would be the CPU
percentage, a difference of unsigned counters over samples and failed reads.
