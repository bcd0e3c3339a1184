# TarsSecureGuard: TLA+ models, checks and proofs

TarsSecureGuard is one Go process that stands between AI clients and AI providers: an HTTP
gateway with a firewall, a policy gate in front of tools, outbound adapters to some dozens
of providers, plug-in sidecars and an audit trail. Almost everything is package-level state
behind a handful of mutexes, changed by many request goroutines and a few background
loops, so what is hard here is what happens *between* two critical sections, and after a
restart. That is what this directory models.

Paths below are relative to the repository root.

## 1. Inventory

| Part | State | Operations | What is hard | What makes it correct |
|---|---|---|---|---|
| Circuit breaker and outbound path (`circuit.go`, `adapters.go`) | `cbTable` per provider, response cache | `cbAllow`, `cbRecord`, `callProviderChatFull`, admin probe | results recorded long after admission; paths that record none; audit line written after the unlock | opens only after a run of failures, one trial per cool-down, comes back |
| Gatekeeper (`gatekeeper.go`) | pending tokens, rate windows | `executeToolAs`: decide, redeem, rate, count, issue, run | check and use in separate critical sections; reload in between; token races | a guarded call runs only with its own token, once; rules only tighten |
| Audit chain (`auditv2.go`) | file per day, chain head in memory | write, roll-over, seed, verify | crash and torn writes, restart, midnight, a file that cannot be read, edits | unharmed files verify; after an edit nothing is counted from the first line on that does not fit |
| IP reputation and bans (`iprep.go`, `firewalldriver.go`, middleware in `main.go`) | score and ban time per address, memory bans, OS rules, policy | penalty, tick, ban, unban, reconcile, save, load | three copies of "banned"; policy switch racing a ban; crash leaves rules | copies agree, an unbanned address gets through, decay restores |
| Module switches and workers (`modules.go`, `adapt.go`) | enabled map, worker table, goroutines | set, apply, start, stop, reconcile | reconcile from three goroutines without a lock around it | dependencies closed, one worker per enabled module |
| Configuration (`config.go`, `handlers.go`) | `cfg`, file, last hash, roll-back snapshot | load, save, watch, API change, revert | file and memory written by two parties; saves that fail unnoticed | memory and file agree, but for what is known not to be saved |
| Sidecar hub (`sidecarhub.go`) | module table, one supervisor each | scan, bring up, monitor, back off, unload, reload | supervisors outlive their entry; sockets shared by successors | one live process per module, crash loops end |
| Rate limiter (`ratelimit.go`) | token buckets | allow | several buckets charged in order | a refused request costs nothing |
| Semantic guard (`semanticguard.go`) | verdict cache, grey quota | classify, merge, cache | concurrent engines for one fingerprint | verdicts only tighten |
| Shared memory (`sharedmemory.go`) | entries, revision | set, get, list, persist | eviction, TTL, restart | revisions grow |
| Coordination (`crownext/skylink/coord.go`) | keys with leases | campaign, resign, keep alive | read then write | one leader |
| Resource guardian (`resourceguardian.go`) | tier, timers | sample, enter, leave, shut down | hysteresis, order of the shut-down | tiers follow pressure |
| Quotas (`tenant.go`) | tokens used per day and scope | check, record, persist, load | check before, charge after; stale snapshot | usage not lost |
| White list (`whitelist.go`) | baseline hashes | reconcile, roll back | boot against reload | a rejected value stays rejected |
| Update (`pkg/update`) | binary, history | apply, verify, roll back | a crash between the steps | the old or the new binary is in place |
| Tier-1 probe (`tier1.go`) | signed cache file, breaker per command | snapshot, store, invalidate | a forged cache, commands that hang | a failing command is left alone for a while |
| Local models (`models.go`) | the child process and its flags, model files and downloads, what other runtimes offer | start, stop, wait, download, discover | a waiting goroutine outlives its process; two downloads in one file; two rounds of discovery | the engine that runs can be stopped, a file that is called done is whole, the list has what was answered and what the registry names |
| Logins (`oauth.go`) | states, sessions, provider metadata | login, callback, logout | the provider is asked between two critical sections | one session per login |
| Integrations (`pkg/mcp`) | child process and watchdogs per integration | enable, disable, update, watch | stop waits without the lock | no process without an owner |
| Locks | some thirty mutexes and reader-writer locks | every handler and worker | read locks taken again inside, waiting writers | nobody waits for itself or in a circle |
| Request path (`main.go`, `waf.go`, `csp.go`, `wsevents.go`) | policy cache, event streams | middleware, rules, streams | a stream closes while it is sent to; a panic unwinds the middleware | what is refused never reaches its handler |
| Chat routing (`chat.go`, `router.go`) | switches, reachability | route by capability, by bandit, by name | every stage reads the switches at another moment | a request goes where a switch and its own wish let it |
| Providers and capabilities (`providerregistry.go`, `capabilities.go`, `persona.go`) | overrides, lists, keys | judge, reroute, advise | one reading per provider while the configuration changes | a request leaves its model only for one that is ready and able |
| Security centre (`security360.go`) | threats, last result | scan, publish, resolve | a scan reads seven components one after the other | a score is explained by the threats on record |
| Observability and token meter (`observability.go`, `tokenmeter.go`) | traces, metrics, ring, days | begin, end, scrape, count, reset | unbounded tables, gauges in three steps, midnight | what is told is what happened |
| Knowledge (`knowledgebase.go`, `pkg/kb`, `sharedinfo.go`, `contextmcp.go`) | sealed entries and files, index, records, packs | put, load, delete, ingest | an entry is labelled before it is sealed; files that cannot be written | every label names the key that opens its file |
| Assistant (`crownext/assistant`) | conversations, provider health, quotas, confirmations | chat, save, call a tool, confirm | one conversation read from its file twice; saves that fail unnoticed | no message is lost, but for those after the last save |
| Tripwire (`tripwire/`) | none | analyse, scan | offsets of four versions of one text; disguises inside disguises | hidden runes and disguised phrases are found |
| Profiles and personas (`adapt.go`, `persona.go`) | profiles, persona, what agents are told | apply, save, choose, toggle, tell | one goroutine per choice; the watcher applies what was chosen; the shared memory has other writers and may not be saved | what a user chose is what happens |
| Vault (`crownext/vault`) | two files, derived keys, opened values, masks | derive, seal, open, wipe, rotate | a key is used after the lock is given up | what was sealed can be opened |

The other parts (parsing, formatting, downloads, reports, the user interface) keep no state
whose order matters; `PROJECT.json` lists each with the reason it is left out.

**How they interact.** A request passes `gatewayMiddleware` (ban check, WAF, identity, role,
quota, rate limit) and reaches a handler. A chat handler calls `callProviderChatFull` for a
provider, guarded by the breaker. A tool call, from HTTP or MCP, goes through
`executeToolAs`. Everything that refuses or changes something writes an audit entry. A
change of `config.json`, by the API or by an editor, is followed by `reconcileModuleWorkers`,
`sidecarHotRescan` and `firewallReconcile`, from whichever goroutine noticed it.

## 2. Plan

The order was that of exposure: first what decides whether a call may go out or a tool may
run, then what remembers it, then what is switched and supervised, then the stores and
services around it. All of this is done:

1. `ProviderBreaker`; `TwoPhaseConfirm` (abstract) and `Gatekeeper`, shown to implement it;
   `AuditChain`; `ModuleHost`; `IpBan`: each with proofs.
2. `ConfigStore` with proofs; `SidecarLifecycle` (abstract) and `SidecarHub`, shown to
   implement it, with proofs.
3. What begins something that has to end, composed by `MCEnds`: `IpBan` and `SidecarHub` once
   more, with fairness, `IpReputation` and `ResourceGuardian`.
4. What stands between a request and its answer, and what that goes by, composed by
   `Guards`: `SemanticGuard`, `RequestPath`, `ChatRouting`, `Capabilities`, `Profiles`,
   `ModelRunner`, `Assistant`, `Tripwire`, `Knowledge`, `Telemetry`, `Security360`.
   `Gateway_proofs` and `Modules_proofs` prove about seven of them.
5. Services around it, composed by `Services`: `Tier1`, `OAuth`, `Update`, `SharedMemory`,
   `Coord`, `McpManager`, `Whitelist`, `RateLimit`, `Tenancy`, `Vault`; and `LockOrder`, the
   locks that all take. `Services_proofs` proves about all of them.

What the plan has left: an append-only log as an abstract specification of `AuditChain`, and
a second writer in it (`--mcp-stdio` runs beside the gateway on the same directory); a lease
with one owner as that of `Coord`; and proofs for the components of `Guards` whose
properties are computations (`ComputedRight`, section 5).

## 3. The modules

### ProviderBreaker (`circuit.go`, `adapters.go`)

| Model | Code |
|---|---|
| `breaker` | `cbTable`; `elapsed` is the time since `openedAt`, kept in the open state, where alone it is read |
| `cached` | the providers that have a live response-cache entry (one per provider) |
| `actor`, `shaky` | what each request goroutine and probe handler is doing, and whether its upstream was down at some moment of the exchange |
| `trail` | the last circuit audit line of each provider |
| `enabled`, `keyed` | `providerEnabled`, `providerAPIKey`: any reload may change them |
| `Admit`, `ReturnEarly`, `Send`, `Complete`, `Finish` | `callProviderChatFull`: `cbAllow`; the three early returns that record nothing; the exchange; `cbRecord`; its audit line and the cache fill |
| `ProbeAll`, `ProbeOne`, `ProbeSend`, `ProbeRecord` | `handleV32ProvidersProbe`: list the targets, then probe and record one after the other |

`providerHealthWorker` takes no step, because nothing starts it (section 6). Requests,
answers and protocols are abstracted to a success or a failure. The circuit parameters are
constants: a reload of them is not modelled. `streak` and `trials` are history variables.

### Gatekeeper and TwoPhaseConfirm (`gatekeeper.go`)

`TwoPhaseConfirm` is what the header of `gatekeeper.go` promises of a confirmation token:
it is asked for one call, is granted at most once while it lives, and executes that call
once. `Gatekeeper` is `executeToolAs`, split where `gkMu` and `cfgMu` are released: `Start`
reads the mode, `Judge` the rules (`gkDecide`), `Redeem` is `gkConsumeConfirm`, `Rate`
`gkRateExceeded`, `Count` `gkPendingCount`, `Issue` `gkIssueConfirm`, `Run` the execution.
`age` and `asked` are `gkPendings` (`Gone`: not in the table), `window` is `gkRateWin`.
A request stands for a tool with its arguments, so that equality of requests is equality
of `gkArgsHash`; tokens never repeat. The built-in rules are a constant, the configured
ones may be any of `RuleLists` at every read.

The refinement maps a token to its stage: `granted` while a goroutine holds it redeemed,
`spent` once it ran, `unissued`, `live` or `void` by the table.

### AuditChain (`auditv2.go`)

| Model | Code |
|---|---|
| `file[d]`, `cut` | the lines of `audit-<day>.jsonl`; whether the last one lacks its newline |
| `mem`, `busy` | `auditV2Day`, `auditV2Seq`, `auditV2PrevHash`; `auditV2Mu` held by a write |
| `Begin`, `Commit`, `WriteFails`, `OpenFails` | `auditV2Write`, with the roll-over and `auditV2SeedFor`, for which a file that cannot be read is one that is not there |
| `Crash` | the end of the process, before, in or after the write of a line, and the restart |
| `Alter`, `Insert`, `Excise` | one edit of a file by somebody else |
| `Checked`, `Total`, `Broken`, `Panics`, `Intact` | `auditV2Verify`, and the verdict of `handleAuditVerify` |

A hash is a pair of the sequence number it covers and a number drawn once per write: equal
hashes are hashes of the same line. There is one writer and the clock does not go back.

A line may be changed, or put in, with any number, and with its hash as it was, gone, or
computed anew: the hash has no key (auditv2.go:177), so a line that was given the hash of its
new content fits, and it is the line behind it that does not, if there is one. A line that
does not fit and says it has number 0 is taken for "not broken" (auditv2.go:291), and one
whose `prevHash` is shorter than what the report cuts off makes it panic (`Panics`).
`TamperLocated` therefore says less than auditv2.go:8, which lets every edit be located:
no line is counted from the first on that does not fit, and the verdict is not "intact"
unless that line has number 0. An edit behind which every line fits (`"end"`: the last line
removed, or changed with a new hash) is not noticed, and `hurt` says so.

### ModuleHost (`modules.go`, `adapt.go`, `persona.go`, `handlers.go`, `config.go`)

| Model | Code |
|---|---|
| `on`, `conf`, `shared` | `modStates`, `cfg.Modules`, and whether they are the same Go map |
| `table`, `runs` | `moduleWorkers`; the module each goroutine serves until it is cancelled |
| `Toggle` | `setModuleEnabled` (from `handleModules` and the suggestions of `adapt.go`) |
| `Profile` | `applyModuleStates(closeDeps(...))` |
| `ApplyPersona` | `applyPersona`, `handleOnboardingDemo`: they write `cfg.Modules` in place |
| `PostRead`, `PostWrite` | `handleConfig`, `tars_config_set`: marshal `cfg`, change a setting, unmarshal all of it |
| `Load`, `ApplyModules` | `loadConfig` up to, and in, `applyModulesFromConfig`; by the watcher or by `revertConfig` |
| `ReadSwitch`, `StopWorker`, `StartWorker` | one module of `reconcileModuleWorkers`: `moduleEnabledByID`, `stopModuleWorker`, the rest of `startModuleWorker` |
| `Ends` | a worker that returns by itself (`autoStartModel`) |

A reload may bring any switches, so the file itself is not in the state. `cfgMu` is held
between `PostRead` and `PostWrite`, which keeps other posts and personas out (`CfgMuFree`)
but not those who write `cfg.Modules` under `modMu` or under no lock at all. A cancelled
worker is taken to return. `Met` says what the loop of `applyModulesFromConfig` computes;
the loop itself is `Pass` in `MCModuleHost`, and the assumption `LoopComputesMet`, evaluated
by every run of that module, says that for every order of the registry that lists
dependencies first (as `moduleRegistry` does) one pass makes it and a second changes
nothing. `due`, `clash` and `touched` are history variables.

### IpBan (`firewalldriver.go`, `iprep.go`, `main.go`)

| Model | Code |
|---|---|
| `policy`, `active` | `cfg.Security.Firewall.Policy`, `fwActivePol` |
| `left` | `bannedIP`, as ticks until the end of each ban; `Gone` is no entry, an expired entry is 0 or less |
| `rules` | the rules of the present instance id in the system's firewall, by name; `PortRule` is the rule of `osFirewallStart` |
| `Arrive`, `Answer`, `Penalise` | `gatewayMiddleware` up to `isBanned`; a request without and with a call of `ipRepPenalty` |
| `ReadPolicy`, `InsertEntry`, `InsertRule` | `firewallBanIP`: the policy, then the entry or the rule |
| `Double`, `Extend` | `firewallBanIPExtra`: the policy, then the longer entry; after it the middleware's own `firewallBanIP` if the WAF was hit |
| `Unban`, `Reap`, `Unrule` | `firewallUnbanIP`: the entry, the policy, the rule |
| `Post`, `ConfigSet`, `Load`, `Adopt` | `handleConfig`; `tars_config_set`; `loadConfig`, which empties `cfg` before it reads the file, by the watcher or by `revertConfig` |
| `Align`, `Clear`, `Arm`, `Degrade`, `Yield` | `firewallReconcile`: compare and note, clear the old effects, start os-link, and the two notes of its failure |
| `Restart` | the end of the process and `main` up to its `firewallReconcile`, when nobody else runs |

Scores are left open: any penalty may or may not take an address below 40. Any command of
the system's firewall may fail. `Floor` cuts the age of an expired entry off where it can
no longer matter: everyone who arrives deletes it, and those already inside are too few to
extend it past now. `raced` and `unsettled` are history variables, and say what the code
gives no promise about: a switch that met a ban or another switch half done, and a switch
that nobody aligned or a command that failed.

### SidecarHub and SidecarLifecycle (`sidecarhub.go`, `sidecarhub_unix.go`)

| Model | Code |
|---|---|
| `table`, `hubCtx`, `worker` | `hubMods`; the hub's context and the worker that owns it |
| `sup`, `sock` | each `sidecarSupervise` goroutine with its context, `Fails` and its child processes; whose process listens at the module's socket path |
| `actor` | `sidecarHubWorker`, `sidecarHotRescan` and the reload handler, each in a scan |
| `raced` | history: modules handled by two scans at once, or whose old supervisor was not waited for |

The verdict of a manifest (same, refused, fit) is open at every reading: pins, hashes and
artifacts may have become anything. What is displayed of a module and the length of a pause
are left out. `SidecarLifecycle` is what the header of the file promises of one supervisor:
it tries, serves, tries again with nothing left of the last try, and ends with no process.
The refinement maps each supervisor to that stage, raced or not.

### Tenancy (`tenant.go`, `main.go`, `chat.go`)

`users`, `tenants` and `lastValid` are `cfg.Users`, `tenantsRT` and `lastValidUsers`;
`loader` is the goroutine that reloads them, in the two halves of `applyTenantsFromLoad`,
each of which may be refused and replaced by its last good version. `used` and `file` are
`quotaUsed` and `data/quota-usage.json`. A handler is identified, checked (`quotaCheck`),
served, identified again and charged (`quotaRecord`), and writes a copy that it took under
the lock (`quotaPersist`); that may fail, which nobody looks at (`Unwritten`). The process
starts with a file that passes the checks. `spoilt` and `mixed` are history: two copies of the
usage were under way at once, or one could not be written; the users and tenants in force
never stood in one file.

### ConfigStore (`config.go`, `handlers.go`)

`cfg`, `file`, `last` and `prev` are the configuration in memory, `config.json`,
`lastCfgHash` and `prevCfgJSON`; a hash is the content it was taken of. A configuration has
one part that only the file sets and one that the API sets too, which is what tells a lost
change from a kept one. `Half` is a file between truncation and write. `loadConfig` is one
action per step, since no lock spans them: empty, read, correct, marshal, write, mark.
`changes` bounds a run and `raced` says that two parties met in their steps, or that a write
was cut off.

Memory and file part without any race too, and `apart` remembers it until the file is next
loaded, or saved by one who notes its hash: a POST whose JSON is refused half-way has set
fields already and saves nothing (`PostFails`, handlers.go:278); no save looks at whether it
succeeded (`SaveFails`, and the save of a `Restart`); and at a start `wlReconcile` takes a
white list back, in memory and after the save (`RolledBack`, config.go:299).

### The composed runs

A behaviour of `MCEnds`, `Guards` or `Services` picks one of its components at the start
(`part`; `piece` in `Guards`), and its variables `v1`, `v2`... (`g1`, `g2`...) are that
component's. The components of one of them
share no variable in the code either, or what one reads of another (the score that a rate
limit lowers, the quotas of a tenant) is an input in the model. A component that does several
kinds of work has a part for each, so that their states add up.

### Composed by MCEnds

`IpBan` and `SidecarHub`, above, in small instances with fairness, and:

- `IpReputation` (`iprep.go`): scores, the recovery by the hour and by the day, the file and
  its two writers. Scores are scaled (full 5, banned below 2) with the differences in the
  order of those of the code; `Day` caps the age of a penalty, `MaxEvents` the penalties.
- `ResourceGuardian` (`resourceguardian.go`, `guardsupport.go`): `tier`, `since` (the timers),
  `fuse` and `phase` of a shutdown. `Sample` is one reading of the load with the tier it leads
  to; `streak` is history. `Longest` caps a timer where it no longer matters.

### Composed by Guards

Like `Services`, `Guards` leaves the constants of its components open: `Given` is a record of
them, and `SmallGiven` that of the run. A component may be there several times, as `Stock(p)`
for the names `p` in `DOMAIN Stocks`, with other constants for every kind of work.

- `SemanticGuard` (`semanticguard.go`): `cache`, `meter` are `sgCache`, `sgGrayIP`. `Classify`
  (off, fixed, cached or missed), `Metered`, `Answer` and `Fail` are the steps of one
  classification, with no lock across them; several answers about one text may be under way.
- `RequestPath` (`main.go`, `waf.go`, `csp.go`, `tenant.go`, `wsevents.go`): `Handle` is one
  step of `gatewayMiddleware` or of a handler behind it, from the decoys to the answer; `Emit`
  sends to the copies of the list of streams and panics on one that was closed; `cache` and
  `lock` are `cspCache` and `cspMu`. Texts are told apart by what the rules find in them: a
  body that cannot be read is as good as none. A request that is `odd` is refused for itself,
  one that has used up the WAF's own rate among them; a session of OAuth is a key.
- `ChatRouting` (`chat.go`, `router.go`, `capabilities.go`): a request is screened or not,
  moved by capability, given to a local backend by the smart router, and routed by name;
  `Change` and `ComeAndGo` move switches and backends between any two of these. Which arm of
  the bandit is best is left open.
- `Capabilities` (`providerregistry.go`, `capabilities.go`, `persona.go`): `over` and `auto`
  are the administrator's labels and the switch for rerouting, `world` what else of the
  configuration is read. `Serve` judges a request provider by provider; `Administer` changes
  things in between. What a persona is advised is an operator. A model's name is one value,
  with the set of the patterns that are found in it.
- `Profiles` (`adapt.go`, `persona.go`): who chooses switches for the user. `mods` holds the
  switches, `cfg.Modules`, whether they are one map, and whether the file was saved unmarked;
  `Select` only writes the file and starts a `writer`, which tells the agents; `Reload` is the
  watcher. `memory` and `stored` are what the entry `persona_current` of the shared memory
  says, in memory and in its file: whoever may write there may write, delete or push it out
  (`Unsay`), saves come with everybody's changes (`SaveMemory`), and may fail unnoticed, while
  the persona is marked as told all the same. A restart brings back what the file has.
- `ModelRunner` (`models.go`): three parts. The engine: its flags, its processes, and one
  goroutine per process that waits for it and clears the flags, whichever process they are
  about by then. Downloads: blocks written into a file that another download may have created
  anew. Rounds: the runtimes asked one after the other, by the worker and by the demo. `Listing`
  is `getModels`: what the runtimes answer now, then whatever the registry names of a local
  provider (`Known`), which is appended as it is, whether it is listed already and whether its
  runtime is there, and from the last round what is not in the list yet. A runtime stands for
  one model.
- `Assistant` (`crownext/assistant`): a conversation is an object in memory and a file, read
  and entered in two steps; every save may fail, which the server does not look at, and then
  what was said since the last one (`safe`) is gone after a restart; providers with the age of
  their last check; tools with quotas (0 is none) and confirmations. The parts are `desk`
  (two requests at once), `narrow` and `alone` (one at a time, and more messages than their
  windows of one and of two hold) and `tools`.
- `Tripwire` (`tripwire/`, `tripwire_bridge.go`): `Read` and `Flush` are `Analyze` on one rune
  and at the end, `Scan` is the pipeline, all its phases in one step, since it keeps no state.
  A thing in a text has the severity and the score of its signature, and, if it is encoded, the
  length of its run: shorter than 16 (base64), 32 (hex) or 4 (variation selectors) it is not
  tried, nor with an odd number of hex digits (`LongEnough`). A phrase counts for a quarter
  right after a word about phrases, and for 40 per cent right after a quote. A severity is
  fixed before the score of what was decoded is raised.
- `Knowledge` (`knowledgebase.go`, `pkg/kb`, `sharedinfo.go`, `contextmcp.go`): `Begin`,
  `Save`, `Enter` are `Put`, which labels an entry with its key, seals it and enters it, while
  the user sets or takes away the key; `disk` keeps each file with the key that sealed it. An
  entry whose file cannot be written is not entered. The package offers `SetUserKey`; nothing
  in the gateway calls it, so the exception that `RecordsAgree` makes for a key that changed
  under a save is one for other users of the package. The index, the records and the packs are
  operations under their locks.
- `Telemetry` (`observability.go`, `tokenmeter.go`): requests that begin and end a trace and
  are counted, a scrape that reads the metrics one after the other, the meter by day and by
  model, and midnight.
- `Security360` (`security360.go`): `Look` is one category of a scan, which reads the world as
  it is then, `Note` enters the threats, `Publish` the result; `Change` and `Midnight` come in
  between.

### Composed by Services

`Services` leaves the constants of its components open; a `.cfg` gives them values, and
`Parts` names the components that the run looks at. The vault has several services under
names of their own: `Store(s)` is the vault of the name `s`, `Stores` has the constants of
each, and `SmallStores` those of the runs: two secrets under one name (`secrets`), two
handlers for one secret (`openers`), values that are masked in turn (`masks`).

- `Tier1` (`tier1.go`): a snapshot in its steps (cache, forged mark, breaker, run, store),
  which `tier1SnapMu` makes one at a time, and whoever writes the cache file in between.
- `OAuth` (`oauth.go`): `Login` hands out a state; a callback takes it, exchanges the code,
  fetches keys and verifies without a lock, and creates the session under another one. A
  token is its issuer and whether its other claims pass.
- `Update` (`pkg/update`, `pkg/install`, `pkg/data`): download, verify, rename, unlink, link,
  read the history, write it; the end of the process between any two; jobs that share one
  temporary file. An open file keeps its content under every name.
- `SharedMemory` (`sharedmemory.go`): set, get, list, delete of keys in three kinds of name
  space, with expiry; saves that fail; restarts, with a file that is read or cannot be. An
  entry has the time of its write, `clock`
  has the last. A limit for each name space and one for all are drawn anew at each write,
  since the configuration may change: the oldest entries of a full name space are evicted,
  and a new key is refused when all together are full.
- `Coord` (`crownext/skylink/coord.go`): campaign, renewal and resignation over the store's
  atomic operations.
- `McpManager` (`pkg/mcp`): one integration, the requests of the marketplace, and a watchdog
  for each process that was ever started, since none is told to end.
- `Whitelist` (`whitelist.go`): the lists in memory, in the file, in the baseline and in its
  file, at a start, at a reload and at a change by the API. `named` collects the lists that
  an audit record has named.
- `RateLimit` (`ratelimit.go`): `bucket` is `rlBuckets`; a request asks the bucket of its
  address, its user and the address's total in turn (`Ask`, which may `Take`), keeps what it
  took when a later one refuses, and a refusal sweeps idle buckets of a crowded table. Quotas
  are inputs, since they follow the configuration and the tenant. `meter` is a leaky count of
  what a bucket gave: `RateBounded`.
- `Vault` (`crownext/vault`): the two files with every way to write them, keys derived and
  handed out as slices, sealing and opening that go on with them after the lock is given up,
  wipes in between, the cache of the store, and the protector with its masks. A derived key
  is the pair of what it was derived from.
- `LockOrder`: which lock is taken inside which. A function of the code is the set of its
  outermost sections, a section a lock and what is taken inside it; a goroutine runs one
  function at a time and goes through all of its sections, in their order. Readers of a
  `sync.RWMutex` wait behind a writer that waits, which is what makes a read lock taken twice
  dangerous. Locks that nobody writes after the start, and locks under which no other is
  taken, are left out; the queue among blocked readers is not kept.

## 4. Runs

Every run passes but `self_recovers`, which TLC is to refute: it shows the finding of that
name (section 6). Bounds are in the `.cfg` or in the composing module.

| Run | Instance | Shows |
|---|---|---|
| `provider_breaker` | 1 cloud provider, 2 callers, 1 administrator, threshold 2, cool-down 1 tick; `AttendedSpec` | `OneTrialPerCoolDown`, `OpensAfterThreshold`, `CloudRecovers` |
| `self_recovers` | the same provider, 1 caller that goes on calling, no administrator; `BusySpec` | violated: `SelfRecovers` |
| `gatekeeper` | 2 users, 2 calls at once, 2 tokens, 3 requests (free, guarded, forbidden), 2 rule lists; life, window, rate and cap 1 | `GateHolds`, `PendingBounded`, `ImplementsTwoPhase` |
| `audit_chain` | 2 days, 4 writes, one edit per file; the number of an edited line is 0 or its own | `UnharmedIntact`, `TamperLocated` |
| `module_host` | 2 modules, one depending on the other, 2 handlers and the watcher, 3 goroutines | `DepsClosed`, `AlignedUnlessRaced` |
| `ip_ban` | 2 handlers and the watcher, 1 address, bans of 1 tick, 2 rules of a name, Linux | `BanBounded`, `OnlyOwnEffects` |
| `ends` | bans: 1 handler, the watcher, 1 address, every new entry sweeps the table; reputation: 1 handler, 1 address; guardian: five loads, short times; hub: 1 module, 1 supervisor; with fairness | `OnlyWithCause`, `AllForgiven`, `LoadDecides`, `HubOffStops`, `TriesEnd` |
| `sidecar_hub` | 1 module, 2 supervisors, 1 hub worker or reload handler and the watcher, 2 failures | `OneAtATime`, `NothingForgotten`, `ImplementsLifecycle` |
| `tenancy` | limiter: 1 handler, 1 address, 1 user, 1 class, quotas 1 and 2; tenants: 2 handlers, a user in each of 2 tenants, 2 days, calls of cost up to 2 | `RateBounded`, `OvershootBounded`, `FileCurrent`, `PlacedUnlessMixed` |
| `config_store` | 1 handler and the watcher, 2 values of each part, one of which is corrected, 4 changes; `FairSpec` | `AgreeUnlessRaced`, `Settles` |
| `guards` | 22 parts of 11 components, see `SmallGiven` in `Guards` | `NothingUnchecked`, `RecordsAgree`, `AssistantKeeps`, `ChoicesKept`, `ModelsKept`, `ComputedRight` |
| `services` | 11 parts of 9 components, see `Services` and its `.cfg`; for example 2 jobs and a history of 2 for updates, 3 keys and 3 writes of a user who may write to two of three name spaces, limits 1 and 2, and 2 and 3 in all, for the shared memory, 2 requests and a worker for the locks | `SpacedRuns`, `OneOfEach`, `Durable`, `AllNamed`, `OnlyReentryBlocks` |

The runs of `ends`, `guards` and `services` also check the types of every component in them
(`TypeOK`, `GuardsTypeOK`). A composed property stands for those of its components:
`NothingUnchecked` is what each of three components says of its checks, and `Guards` names
them.

What a property means is said where it is defined. `PROJECT.json` names, for each, a change of
the model (`Fault...`, a dropped guard, a swapped order) under which TLC finds it violated.

**Why these bounds.** Breakers are independent per provider, so one is enough, and two
callers with a probe give every order of one early, one late and one foreign result; the
threshold 2 tells a count from a flag. With the cap, life, window and rate of the gatekeeper
at 1 every limit is reached within two calls, and two racing calls with two tokens cover
every race over a token and the overshoot of the cap. Four writes cover a roll-over, a
restart, a failed write, an edit and a write after it; 0 is the number that the verdict
misreads. The module run needs a dependency and two reconciliations on one worker module; a
third goroutine is the one that leaks. Bans of different addresses meet only in the sweep of
a crowded table and in a cleared one, so one address shows the races, and `ends` calls every
table crowded; two handlers and the watcher are two penalties with a switch, or two switches
with a penalty. Modules of the sidecar hub meet in nothing but the order of a scan, so one
module shows the races and two supervisors of it are an old and a new one; liveness is
checked with one, since a second adds nothing to how long the first lives. Two tenants with
a user each, one with a zero quota and a list over the cap, give every verdict on either
half of a reload, and two days a midnight between a check and a charge. Four changes of the
configuration are an edit, an API call, another of each. In the composed runs each component
has the smallest instance in which its limits are reached and two goroutines can meet in it.
The bounds of the state (`Worker`, `Token`, `MaxWrites`, `LastDay`, `MaxRules`, `Sup`,
`MaxChanges`, `MaxEvents`, `MaxHistory`, `Proc`) are named constants. The theorems below
hold for any of these numbers. Handlers that differ in nothing may be exchanged for each
other (`Symmetry`, `TwinSymmetry`), and so may jobs and requests (`JobsAndRequests`): their
names are model values, and no choice between them is made by name.

**Deadlock** is checked in `provider_breaker`, `self_recovers`, `gatekeeper`, `module_host`,
`ip_ban` and `tenancy`, where somebody can always go on. It is not checked where a run really
ends: when writes, days, changes, supervisors, processes, keys or messages are used up
(`audit_chain`, `config_store`, `sidecar_hub`, `ends`, `guards`, `services`). Waiting for
locks is the subject of `LockOrder`, whose property says in which states nobody can go on.

**Fairness.** `ProviderBreaker` asks that an exchange ends, since every HTTP client of the
code has a timeout, that a goroutine between two steps is scheduled, and that time passes;
`AttendedSpec` adds an administrator who asks for a probe of all providers again and again
whenever the handler is free for it. The strong fairness of `ProbeAll` is an assumption about
that person, not about the code, and `CloudRecovers` must be read so: nothing in the program
itself closes a breaker that an early return left half-open, which `self_recovers` shows
under `BusySpec`, where a caller goes on calling instead. `ConfigStore` asks that the steps
of a load and of a save are taken and that the watcher polls; editors and API calls need not
happen. `MCEnds` asks that time passes, that the hourly recovery runs, that a penalty that
began is finished, that the guardian's sampling runs and a shutdown goes on, and that a
supervisor which can take a step takes one (its bring-ups, waits and pauses have time
limits); it does not ask that a module ever answers, nor that a killed process is quick. The
other specifications have no fairness and no liveness property.

## 5. Proofs

All for every value of the constants that the named assumptions allow; tlapm checks them to
the last leaf.

| Module | Theorems | Inductive invariant |
|---|---|---|
| `ProviderBreaker_proofs` | `TypeCorrect`, `Consistent`, `OneTrial`, `OpensOnlyAfterThreshold` | `TypeOK`, `BreakerConsistent`, `OneTrialPerCoolDown` and `StreakCounts`: a closed breaker's failure count is at most the run of failures seen. Without the last, the action property does not follow from what a single step sees |
| `Gatekeeper_proofs` | `TypeCorrect`, `Implements`, `Bounded`, `Invariance`, `Gate` | the types, `TableSound` (a spent token is out of the table) and `HoldersSound` (who is about to run with a token holds it alone, out of the table, for its own call). `Bounded` counts: every step adds to a user's pending tokens only what left `Issuing` |
| `AuditChain_proofs` | `TypeCorrect`, `Unharmed`, `Located` | up to which line a file's chain is good, that the head in memory continues an unharmed file, and of an edited one which line does not fit and that all before it do (`StopsAt`). That a hash covers the number of its line makes the line behind a removed one fail to fit, and that it is never that of other content the one behind a changed line |
| `Modules_proofs`, of `ModuleHost` (and `Guards`, below) | `TypeCorrect`, `Closure`, `Aligned` | `TableSound` (no two modules share a worker) and `OneByOne`: of a module that no two reconciliations handled together, the one that handles it acts on the switch as it is and has emptied its place before filling it |
| `Gateway_proofs`, of `IpBan` (and `Guards`, below) | `TypeCorrect`, `Bounded`, `OwnEffects` | `BanBounded` is inductive with the types: who may still extend a ban was let in before it, and each extension uses one of them up. `Orderly` (until a race one actor switches, and those about to ban hold the present policy) and `Staged` (which policies may have effects at each point of a switch) carry `OnlyOwnEffects` |
| `ConfigStore_proofs` | `TypeCorrect`, `Agree` | the types, and until two parties meet `Orderly`: at most one actor is at work, and the place it is at says how memory, file and hash stand to each other, where `apart` says whether memory may differ from what was saved. The lemma `Shape` (the place of an actor determines the fields of its record) keeps the steps short |
| `SidecarHub_proofs` | `TypeCorrect`, `Implements`, `One`, `Remembered` | for the refinement `Alone`: a supervisor has at most one process, and none before it starts one, while it pauses and when it is over; a killed or ended process is gone before the next try. For the other two `RInv`, the books of a module that nobody raced for: one goroutine at most is changing it (`Single`), its entry is out of the table before anything is awaited or loaded (`Vacated`), a reload waits for what is in the table (`Covered`), who still works for it is in the table or awaited (`Accounted`), and who serves for it has the socket path (`Owned`) |
| `Services_proofs` | `Invariance`, `OneOfEachHolds`, `NamedAlways`, `SpacedAlways`, `BucketsBounded`, `QuotasBounded`, `UsageKept`, `UsersPlaced`, `DurableAlways`, `ReentryOnly`, `TypesKept` | `Holds`: in a behaviour of a component, that component's invariant, from the next table |
| `Gateway_proofs`, of `Guards` | `GuardsInvariance`, `NothingAlways`, `RecordsAlways`, `AssistantAlways` | `GuardsHold`: the same for `SemanticGuard`, `ChatRouting`, `RequestPath`, `Knowledge` and `Assistant` |
| `Modules_proofs`, of `Guards` | `GuardsInvariance`, `ChoicesAlways`, `ModelsAlways` | `GuardsHold`: the same for `Profiles` and `ModelRunner` |

| Component | Invariant | Why the property is not enough |
|---|---|---|
| `Tier1` | `ProbeHolds` | the breaker and the history of the command are different counters: one that has not tripped counts every failure in a row, and one that has tripped has waited no longer than the command was left alone |
| `OAuth` | `LoginHolds`, for its types `CacheHolds` | a state that was taken is in the hands of one callback at most, which has made no session of it yet; a state still in the table has led to none. Only with this does the second lock, under which the session is made, not need to look at the state again |
| `Update` | `UpdateHolds` | until two jobs meet, one is at work, and its place says what it has: the file beside the version's directory is its own while it writes it, and whole when it goes on; from the rename on the directory has a whole one. The process, the pointer, the history and what was read of it lead to whole ones only, since the next step copies the one to the other |
| `Coord` | `ElectionHolds` | until two steps clash, a candidate that takes itself for the leader holds the key, its lease ends no earlier than its term, and one that resigns has no term left |
| `McpManager` | `IntegrationHolds` | a process that lives is the manager's or somebody waits for it: that nothing is lost, with the actor that holds it in every step |
| `Whitelist` | `ListsHold` | besides the list in force, the records have named the one in the baseline and the one in its file, which the next reload and the next start compare with; a list that was left open is excepted |
| `SharedMemory` | `MemoryHolds` | no two entries of a name space, in memory or in the file, are of one time, and none is later than the clock: the limit after an eviction is counted by that, as many stay as have fewer newer ones than the limit allows |
| `Vault` | `VaultHolds(s)` | what is in memory was read from the files or written to them, or wiped; every key a handler holds, or a blob was sealed with, is worth nothing or that of the files as they are, unless a file was misread; and a handler between its two locks has in its hands what some blob has |
| `LockOrder` | `LocksHold` | what a goroutine still has to do is sound from here to its end (`Legal`): whoever asks for a lock holds only locks of lesser `Rank`, or that one. If nobody in a knot asked again for what it holds, then behind each would stand another that asks for a lock of greater rank, and there are four ranks |
| `RateLimit` | `LimitHolds` | `Conserved`: what a bucket gave lately and what it could give now, together, are never more than a full bucket. Forgetting a bucket in a sweep keeps it because a bucket idle that long is full again. `AskersKnown` says which bucket a request may ask |
| `Tenancy` | `TenantsHold`, for its types `ActorsHold` | `SpendingHolds`: what a key was charged is below the limit of some list and one call more for each handler that can charge it no longer; those that can (`Pending`) are past their check, or read the clock before midnight. The same holds of every copy of the usage on its way to the file and of the file, since a restart reads it. `FileHolds`: what a start would restore, of the copy being written or of the file. `PlacedHolds`: the last good table, and that of a reload between its halves, fit the list |
| `SemanticGuard` | `ScreenHolds` | `ScreenFresh`: an answer in the cache that allows a text is no fresher than the engine's last one for it, whichever of several callers wrote it; and the cache is within its size, as an entry leaves a full one before one is put |
| `ChatRouting` | `ChatHolds` | every request on its way has seen all switches that are on now (`seen` only grows, and a switch joins it in the step that turns it on); from the start of the call on, those of its target are among them |
| `RequestPath` | `PathHolds` | `PathCallers`: what got past the ban, the rules and the key has met each in a state that let it through, and who is on a copied list of streams and not marked closed is a stream. `PathPolicy`: the policy in the cache, and the one that the holder of the lock is about to put there, are in force unless a reload changed it or an update is about to drop it |
| `Knowledge` | `StockHolds` | who is about to write an entry has its label from the level and the key there was (`StockNamed`), so that a file whose key was not changed in between names its seal; revisions are given once and up to the counter, in memory and in the file that a restart reads (`StockGiven`) |
| `Profiles` | `ChoiceHolds` | `ChoiceTold`: what the last persona asked for is what the configuration comes to with its dependencies, and once it was read what the switches are. `ChoiceMemory`: who still writes writes of the present persona, and until the shared memory has lost it, what it says is what was written last. `ChoiceSnaps`: a snapshot of the switches that nothing stirred agrees with them as far as it has come, and they are closed; only with this is the finished snapshot closed |
| `ModelRunner` | `ModelsHold` | `EngineHolds`: one start at a time, none while a process is published, and the process of a start is nobody else's. `FilesWritten`: a file that one download alone writes has what that download has got so far. `RoundsFair`: a round that looks for runtimes has asked those it has passed, and got those that answer and were not switched meanwhile; a list of some of the runtimes in turn has each once (`Kept`) |
| `Assistant` | `DeskHolds` | for every place of the window, what was said there, in memory up to now and in the file up to the last save (`Told`): the newest messages with none of the system before them (`Newest`), or the first of the system and the newest others (`Headed`). Appending a message keeps it for a window one longer (`OneMore`), trimming for the shorter one (`TrimKeeps`). `DeskSpent`: what was used of a quota and who is about to charge it are together no more than the quota and all handlers |

Assumptions: `ProvidersAssumption`, `CircuitAssumption` (threshold and cool-down positive),
`GateAssumption` (finitely many goroutines and tokens, positive limits), `BoundsAssumption`,
`RegistryAssumption` (dependencies have no dependencies, as in `moduleRegistry`),
`NoneAssumption`, for `IpBan` `ActorAssumption` (finitely many handlers), `NameAssumption`
and `BoundAssumption` (a ban has a positive length), and for `ConfigStore` `ValueAssumption`
and `NoConfigAssumption` (a half-written file is no configuration), and for `SidecarHub`
`NameAssumption` (no supervisor and no goroutine is called `None`). TLC evaluates each of
them in every run that extends the module. The theorems about `Services` rest on
`ServicesAssumption`, which gathers what the components assume: positive lives, pauses and
thresholds (`TimeAssumption`, `LifeAssumption`, `TtlAssumption`, `RestartAssumption`), a
largest quota and no bucket swept before it was idle for a minute (of `RateLimit`), tables
and lists of the shapes that `loadConfig` accepts (`ConfigAssumption`), finitely many
handlers (`BoundAssumption`), that a file which is none is not a copy (`FileAssumption`),
limits above zero (`LimitAssumption`), numbers for versions, those installed by hand told
from the others (`VersionAssumption`), and names that stand for nothing given to nobody
(`JobAssumption`, `KindAssumption`, `NoneAssumption`, `VaultAssumption`, and no vault called
like another service). Those about `Guards` rest on `GuardsAssumption` and `NamesAssumption`
(no two pieces have one name): sizes, lives and queues above zero, a window of one message
or more, finitely many handlers of the assistant, a registry that lists each module once and
whose dependencies have none, each runtime listed once, keys other than 0 (which is none),
and `None` and `"none"` given to nobody.

For `LockOrder` the sections are proved sound where they are put together: `Block` is a
section that gives back what it takes, `Covers` a set of sequences closed under going on, all
of them `Ordered`; a section inside another is sound when its locks are of greater rank. So
the theorem is about the table of sections in the module, each translated from its function,
for any number of requests and workers.

The library's induction needs an operator as a parameter, which no prover here can
instantiate. Where an argument goes over all numbers, it is by the least counterexample
instead (`LeastNumber`, from the well-foundedness of `<`): that the list of some runtimes,
built step by step, has each of them once and no other (`KeptListed`), and that the first
message of the system is the first (`FirstOf`).

In `Gatekeeper` the decision of the rules is a quantified definition, the first rule that
matches; the loop of the code over the list is `LoopDecides` in `MCGatekeeper`, an assumption
that TLC evaluates for all lists of the instance.

**Only model-checked.** Liveness (`CloudRecovers`, `Settles`, `AllForgiven`, `LoadDecides`,
`HubOffStops`, `TriesEnd`), which is out of the prover's reach. `ComputedRight`, of `Guards`:
its parts say what a computation comes to (the text behind a disguise, the counts of an index,
a score, the model that fits), over recursive functions and folds of the data, and a proof
would be an induction over data. `GuardsTypeOK`, since it covers the components of
`ComputedRight` too; the types that the proved ones need are in their invariants. Of
`MCEnds`, `OnlyWithCause` and `TypeOK`: that module gives the constants of its components the
values of the instance. That the loops of `applyModulesFromConfig` and `gkDecide` compute what
the models say, as they go over data. Everything in TLC's runs is
shown for the instances of section 4 only.

## 6. Where the code and its words differ

Met while modelling. Each is in `PROJECT.json` with its lines; a definition in the module
states what the comment says, where that can be stated. One of these definitions is checked
by a run of its own, `self_recovers`; no run checks the others.

- Breaker: `SelfRecovers` (circuit.go:78; adapters.go:679 says "recovers by itself after the
  cool-down"): a trial that ends in an early return records nothing, and the half-open breaker
  refuses everybody. The worker that would probe it is never started, since the registry entry
  of `cloudModels` (modules.go:42) lacks `HasWorker`. `TrailAgrees` (circuit.go:13): the normal
  recovery writes no audit line.
- Gatekeeper: the cap on pending confirmations can be overshot (gatekeeper.go:32;
  `PendingBounded` states by how much).
- Audit: `CorruptTailReported` (auditv2.go:113): a line that is not JSON has the number 0,
  which the handler takes for "not broken". Not every edit is located (8): a hash without a
  key can be computed anew, and then it is a later line, or none, that does not fit.
- Modules: `NoLeak` (modules.go:23): two reconciliations that start one worker together leak
  one. `AlignedAtRest` (config.go:604): a roll-back does not reconcile. `cfg.Modules` is at
  times the map of the switches and is written in place under another lock (modules.go:204);
  the branch that switches a dependency on is dead (modules.go:102).
- Configuration: `SafeAtRest` (config.go:304): the API saves values that a load would
  correct. A file that does not parse can be written over (config.go:292), and a save that is
  cut short leaves a file that does not parse (config.go:347).
- Bans and reputation: `NoStaleBan` (firewalldriver.go:159): a ban decided before a switch to
  passive is set after it. The doubled ban after a hit of the WAF is cut back to a single one,
  and the WAF bans at once what the reputation would spare (main.go:509); an unban on Linux
  deletes one of two rules (firewalldriver.go:407); the 24-hour recovery is out of reach and
  unbans nobody (iprep.go:135); rules of an earlier process are never cleaned
  (firewalldriver.go:59); the unban tool of the MCP process does not reach the gateway
  (mcpstdio.go:200); a score read before an unban bans after it (iprep.go:119).
- Sidecars: failures in a row are counted anew after every bring-up, so a crashing module is
  never given up (sidecarhub.go:504); a hub that is switched off and on again leaves dead
  modules dead (195) and a rescan works on a hub that is off (156); an old supervisor removes
  the socket of its successor (616).
- Tenants: `AlwaysPlaced` (tenant.go:870): the halves of a reload are refused one by one, so
  that users may be bound to a tenant that is gone. `DayKept` (580): a call that read the day
  before midnight deletes the new day's usage. An older copy of the usage may be written last
  (589); a lowered cap refuses the change instead of shrinking the quotas (475); a tenant of
  quota 0 skips the quotas of its users and groups (537); some routes are checked and never
  charged (main.go:551).
- Guards: tenants share buckets (ratelimit.go:45); one text is sent to the engine by each
  caller that misses the cache, and the last answer stays (semanticguard.go:385); a start soon
  after a shutdown audits that this run does not shut down by itself, and does
  (guardsupport.go:181); the tiers 1 and 2 meet at 60 per cent, so that tier 2 is left for 0
  and 1 entered again (resourceguardian.go:256); the eco mode switches no module off (92).
- Request path: a stream closed under an announcement panics, so that a refusal is answered
  500 and not counted (wsevents.go:117); a reload leaves the old policy in answers (csp.go:383;
  `PolicyFresh` says for what it is right); the stream of languages never works
  (i18n_ws.go:45).
- Routing: the bandit's pick is handed on as the name of a model (router.go:245) and its
  successes are recorded under no name (chat.go:504); `AllScreened` (chat.go:662): only one way
  in passes the semantic guard; aliases are never loaded (v4101_model_alias.go:32).
- Providers: `BareIsReady` (providerregistry.go:213); no listed model is long enough for a
  researcher (persona.go:560), a provider that is not preferred counts as the most preferred
  (698), and the matrix and the router know one provider by two names (capabilities.go:306).
- Personas: a persona's switches wait for the watcher, which another writer keeps from seeing
  them (persona.go:326); the older of two choices may tell the agents last (436); the agents
  count as told although the shared memory was not saved (sharedmemory.go:273); nothing
  acquires a slot, and a new persona replaces the channel under those who hold one
  (chainopt.go:12).
- Models: a failed download stays as a file that can be started, and two may share one
  (models.go:603); a start of any model succeeds while one runs (174); of two rounds the older
  may write last (386); `Orphaned` (237): the goroutine of an old engine clears the flags of
  the new one; the fuse guards one of four ways to start (420); the list names a model of the
  registry again, and one of a runtime that is down (117).
- Assistant: a conversation that could not be saved is lost without a word (server.go:94), two
  requests for one lose messages (session.go:210), the window is
  one short (107), a quota of n lets n + 1 through (tools.go:136), a confirmation serves any
  tool (server.go:63), and nothing checks the providers' health (router.go:173).
- Tripwire: a mention hides a use of the same phrase (tripwire.go:111), offsets are off
  behind a character that is not ASCII (normalize.go:355) and are those of the normalised
  text (tripwire.go:37), a mostly Chinese text is not decoded (decode.go:35), 30 hex digits
  that a test wants decoded are too few (18), bare addresses of `javascript:` or `data:` are
  never found (markdown.go:82), and nothing in the gateway calls the scan
  (tripwire_bridge.go:23).
- Knowledge: no entry in a category survives a restart and every start plants the seeds again
  (knowledgebase.go:309); a deleted entry's file stays (248); the highest backup holds the
  fewest entries (567); a document ingested again is counted twice (kb.go:66); revisions may
  be given again (sharedinfo.go:263); a pack may change its tenant (contextmcp.go:173).
- Observability: labels come from requests (observability.go:7); gauges of yesterday stay
  (363; `GaugeFresh` says for what they are right).
- Services: `ForgedOnceOnly` (tier1.go:403) and empty snapshots served as good (571);
  `MetaFollowsConfig` (oauth.go:252) and a nonce that nobody draws (470);
  `RestartsIntoCurrent` (restart.go:15), sums that never match (update.go:298), a pointer that
  is missing in between (install.go:91), a second roll-back that rolls forward
  (update.go:228); `RevisionsGrow` (sharedmemory.go:51); `OneLeader` (coord.go:153);
  `DisabledStays` and zombies that count as running (manager.go:102, 55); `RefusedIsGone` and
  lists taken without a record (whitelist.go:226, 177); a file of the vault that cannot be
  read for a moment is drawn anew (vault.go:123), keys that are used while they are wiped and
  after it (61), the cache that outlives a blob and a wipe (store.go:39), a failed rotation
  that leaves other bytes (memory.go:112).
- Locks: `NobodyBlocks`: a read lock is taken again by functions that hold it (tenant.go:135),
  and `handleScoreBoard` locks `sbMu` twice (scoreboard.go:136).

## 7. What is not modelled

`PROJECT.json` lists every part with its reason. Whole parts: the connection pool and the
stability helpers (statistics, and code that nothing starts), self-protection, diagnostics
and logging (they read the others' state and change none), the `crownext` libraries that
only the demonstration and the Android program use, the taxonomy of plug-ins, connectors,
languages and the extender (content and formatting), the slots and hints of `chainopt.go`,
the sticky router, model aliases and protocol translation (called by their tests only), the
user interface, the Android program and deployment.

Of the modelled parts: parsing and protocol adapters, the audit files' retention and export, a
second process that appends to the same audit file, values and their validation in the
configuration, signatures and ciphers, the patterns of rules and scanners, texts and reports,
and data races as such: a concurrent access to a Go map that ends the process is reported
above but is not a step of the models. A request that an adapter cannot build, or that a
provider refuses as the caller's fault (4xx), is a failure of `ProviderBreaker` like one of the
upstream, which may fail and come back around a single call: that covers what the breaker may
count, and `CloudRecovers` is about an upstream that stays up and callers it does not refuse.
In the list of models the entries of clouds, of model files and of installed runtimes are not
kept; they are read from the configuration and the disk each time.
