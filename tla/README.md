# MikroTunnel: specification and proofs

TLA+ models of the MikroTunnel agent, the TLC runs that check them on small
instances, and theorems checked by TLAPS for every instance. Source paths are
relative to the repository root (`src/` in `PROJECT.json`).

## The system

One process (`cmd/mikrotunnel serve`), started and restarted by systemd, runs an
HTTP API and a controller over one SQLite file. Clients say what tunnels they
want; the controller makes Linux agree and records what it observes.

| Part | State | Operations | Made correct by |
|---|---|---|---|
| store (`internal/store/sqlite.go`) | tables `tunnels`, `operations` | one SQL statement per call, no transactions | unique names; an operation finishes once |
| API tunnel handlers (`internal/api/server.go`) | locals of each request goroutine | create, update, enable, disable, delete: read row, write row, record operation | no claim survives a change; every change is recorded |
| controller (`internal/controller/reconciler.go`) | its copy of the table, the row in hand | requeue at start; list, then per tunnel: mark running, provider, write back, finish operations | claims and successes are reports; converges; keeps desired state |
| GRE provider (`internal/provider/gre`) | the kernel's links, addresses, iptables rules | Observe, Reconcile, Remove as sequences of netlink calls | touches only links it has marked |
| interface API (`server.go`, `provider_linux.go`) | kernel links, a row on import | list, remove, import a discovered link | adopts no link without a marker; a row that cannot be adopted goes |
| forwarding (`server.go`, `main.go`) | a file in `/etc/sysctl.d`, the kernel's switch, a FORWARD rule | set, restore at start | one rule; file, switch and rule agree |
| process (`main.go`, unit file) | none of its own | start, graceful stop, crash, restart, `service`, `uninstall` | nothing half done is lost; it comes up again |
| migration (`sqlite.go`) | schema | create tables, add columns | may be interrupted anywhere, and is finished before the store is used |
| dashboard, authentication, configuration, inspector, installers | page state; none; none; none; files | polling, forms; stateless checks; read once; read only; run once | - |

Interaction: API and controller never call each other. They share the two
tables, each statement atomic and nothing larger; the controller polls. The
provider is called by the controller only, except for the interface API, which
works on the same links from a request goroutine. Forwarding shares nothing with
the tunnels but the process: its state is the host's, and the start of the
process repairs a part of it. The schema is a precondition of everything that uses
the store, established before the listener and the controller exist.

What is hard: a handler and the controller both work read-modify-write on whole
rows with no version check, so each can overwrite the other; an operation is
recorded after the change it records; operations are finished per tunnel, not
per operation; the process can end between any two statements; provider calls
fail and are retried with backoff; a write can meet the UNIQUE constraint with a
name read long ago; an import marks a link between two statements, while the
controller may be working on it; forwarding looks at the chain and changes it in
two commands; a start can be cut off between any two `ALTER TABLE`s.
`PROJECT.json` lists these hazards line by line with the property that watches each.

## Modules

| Module | Models |
|---|---|
| `Domain` | records and vocabularies all parts share |
| `TunnelStore` | the two tables and each SQL statement as an operator |
| `ApiServer` | the handlers that change a tunnel: create, update, enable and disable, delete, import |
| `Reconciler` | the controller goroutine over an arbitrary `TunnelProvider` |
| `OperationLog` | abstract: the documented life of an operation record, and the records that leave it out |
| `ControlPlane` | ApiServer, Reconciler and crashes over one store; the properties |
| `Host` | external: links, iptables rules and default route, and what others do to them |
| `GREProvider` | Reconcile, Observe, Remove call by call on Host; RemoveDiscovered |
| `Adoption` | Adopt call by call, in the goroutine of an import |
| `Agent` | ControlPlane with GREProvider for its provider and Adoption for its imports |
| `Backoff` | when the controller attempts a tunnel: ticker, passes, `retry_at`, in time |
| `Migration` | `migrate` and `ensureColumn`, statement by statement |
| `Forwarding` | `setIPv4Forward`, call by call, and what others do to its setting |
| `Service` | the process from its start by systemd to its end: Migration, then Forwarding |
| `MCControlPlane`, `MCAgent`, `MCService` | instances for TLC: the bound on mishaps, symmetry |
| `ControlPlaneTypes` | proof of type correctness; lemmas on the row operators |
| `ControlPlaneSafety` | proofs of the safety invariants and of `DroppedAfterRemoval` |
| `ControlPlaneSteps` | proofs of `DisturbsOnlyByRace`, `DeletionStands` and of the refinement of OperationLog |
| `AgentImplementation` | carries what is proved of ControlPlane over to Agent |
| `AgentOwnership` | proofs about links and markers |
| `AgentIdempotence` | proof that what is in order stays in order |
| `BackoffSafety` | proofs about `retryDelay`, passes and deadlines |
| `ServiceSafety` | proofs about starts, schema and the forwarding setting |

ControlPlane, whose provider may answer anything, implements `OperationLog`. `Agent`
is composed of it: each of its steps is conjoined with one of ControlPlane or leaves
its variables alone. So it implements ControlPlane by the way it is built,
which is no check of the provider; it only lets what is shown of ControlPlane be
used of the agent. What the provider does is for the properties of `Agent` itself.

`Backoff` and `Service` stand beside it. Time, left out of ControlPlane, is all
that `Backoff` is about, with one tunnel, a row of two fields, and handlers and
observations reduced to what they do to these. `Service` ends where ControlPlane
begins: a crash of ControlPlane is an `Exit` of Service, and its restart assumes
the schema that Service shows to be there.

### Control plane

- `tunnels[id]` is a row or `None`. `config` stands for endpoints, address, MTU,
  TTL, peer address, description and masquerade, which the control plane copies
  and never looks into; `Agent` gives it the fields the provider reads. `retry` is
  `retry_at IS NOT NULL` and `failing` is `failure_count > 0`: the model does not
  count seconds, so a pass may skip (`Skip`) or take (`Begin`) a tunnel in
  backoff. `last_error`, messages and timestamps are left out.
- Identifiers are fresh uuids; a tunnel is named by the request that creates it,
  an operation by the request that records it. A request may address any
  identifier, also one that no longer exists or does not exist yet (a 404).
- `requests[r]` holds a handler between statements: `idle` (not sent yet), `insert`
  or `update` (row computed, not written), `adopt` (an import has its row, and Adopt
  is under way), `withdraw` (Adopt has failed, the row is to go), `audit` (written,
  operation not recorded), `done` (answered, or dropped with the process). Reading the row and
  computing the new one is one step, because nothing between them touches shared
  state; in `updateTunnel` the body is read from the client after the row, which
  only lengthens the time until the write.
- `controller.pc` names the next statement or provider call of
  `Run`/`ReconcileAll`/`ReconcileOne`; `pending` is the rest of the list, `row` the
  copy in hand, which is what `mark` and `fail` write back. The list is by
  `created_at`, a text whose order is not always that of time, so the order is
  left open. The branch for a missing provider is left out: GRE is the only type
  and `main.go` always installs it.
- Provider calls return anything their signature allows, and so does Adopt.
- `Crash` covers a kill and a graceful stop: `serve` returns when the listener
  closes and does not wait for the controller. The store survives, locals do not.
- `reports` and `touched` are history variables: what the provider has said, and
  which rows a handler has written since the controller's list. No action's guard
  reads them.

### Provider and host

- `links[name]` is a link or `None`: endpoints, TTL, MTU, addresses, up or down, the
  alias (the tunnel of a marker, or `None`), and `maker`, history: the tunnel whose
  `LinkAdd` it was. `rules` holds the mark and the NAT rules with a tunnel's
  comment, `route` the interface of the default route.
- `call` is the provider method under way: `pc` the next netlink call or command,
  `drifted` the addresses `ensureAddress` has still to drop, `egress` what
  `defaultRouteInterface` has returned, `result` what the controller will be told.
  `held` says whether the link looked up last is still the one with the name:
  netlink changes a link by its index, and an index is not used again, so calls
  on a link that is gone fail and never reach its successor. Calls that go by
  name (lookups, `ip link set ... alias`, iptables) reach whatever has the name.
- `adoptions[r]` is the same for the Adopt of import `r`: the next call, and whether
  the link found is still in place. It is kept when the call is over, so that
  `Imported` can say which links an import has, by then, been at.
- An import takes what `Discover` lists (`Importable`): a GRE link with a marker and
  an address. The list and the INSERT are one step, the list being read only; all
  that can change afterwards, Adopt's own lookup sees or misses.
- `Leftovers` are links that an earlier installation has left with the marker of one
  of its tunnels (`Former`): `uninstall --purge` deletes the database and no link.
- Each call is one step of the controller's goroutine, or of the import's; `Intervene` lets others act
  between any two: other programs add links without a marker, change TTL, MTU,
  addresses or state of any link, move the default route, and the interface API
  removes any GRE link at any time (`RemoveDiscovered`). Others do not write
  markers. `AgentCrash`
  ends the process, or the machine, and then kernel state is empty again.
- The kernel may or may not keep the alias given to `LinkAdd` or to `LinkSetAlias`
  (comments at `provider_linux.go:206` and `:227`); `ip link` keeps it
  (`:227-229`). `LinkAdd` answers EEXIST for a name in use and for endpoints in
  use (`:183-186`).
- `ensureAddress` compares addresses by their texts (`provider_linux.go:254`). In the
  netlink of `go.mod` (v1.3.0) such a text ends in the label of the address; the kernel gives
  every IPv4 address one, by default the link's name, and `ParseAddr` gives none. So the
  texts never agree and `ListAddresses` takes every address for drifted, the one
  asked for too. The addresses of one link are taken to lie in different
  networks, so that the kernel drops none together with another.
- `Enter`, `Provide` and `Receive` are the call of the provider, its work and its
  return in `ReconcileOne`; `Proceed` is everything else the controller does.
  `NameIsFree` is the interface check of `createTunnel`.

### Time

- A unit is five seconds, the shortest delay; `RetryDelay` is the loop of `retryDelay`
  in it. `row.wait` is `retry_at` as the time left, so the clock is steady.
- `pass` is where `Run` and `ReconcileAll` are and how long the pass has been busy.
  `Elapse` lets time pass between any two steps: the pass may come to the tunnel at
  any time of its own, and the others of its list only take time. `ticker` is a
  Go ticker: it fires every `Interval`, and its channel holds one tick.
- `earliest` and `latest` are history variables that go by the documented delays
  (`Documented`), not by `RetryDelay`.

### Process, schema, forwarding

- `schema` is the set of tables, index and later columns the file has; `migration` the
  statement to come and whether its PRAGMA has been read. `MigrationInit` is no
  file, or that of a release with any of the later columns.
- `persisted`, `forwarding`, `accepts` are the file, the switch and the number of copies
  of the rule. `changes[r]` is a request between two calls. A request that has been
  answered may be sent again: `Requests` bounds how many overlap, not how many there
  are.
- `agreed` and `spoiled` are history: what was asked for last, if nothing has come
  in its way, and whether the rule may be missing or doubled through no fault of
  the code.
- `phase` is the unit: `due` (systemd is to start it), `open` (`store.Open`), `read`,
  `check`, `append` (`restoreForwardingRule`), `serve`, `failed` (given up), `stopped`.
  `starts` counts against `StartLimitBurst`; its interval passes at any time.
- `Stop`, `OperatorStarts` and `PowerOff` are `mikrotunnel service`, `mikrotunnel
  uninstall`, and a reboot, at which systemd-sysctl reads the file and the chain is
  empty. The disk keeps what was written: that a power failure can lose the last
  write of a file nobody has synced is left out.
- `Backoff.Fail` leaves out the `mark` of an unhealthy observation before it
  (`reconciler.go:80`): it writes back the copy's count and a time that is over, which
  holds up no attempt and lets no one come too early.

## Properties and runs

| Run | Instance | Checks |
|---|---|---|
| `faults` | 2 requests, 2 names, 1 config, 2 mishaps | `TypeOK`, `UniqueNames`, `ClaimsAreReports`, `SuccessIsReported`, `BackoffMatchesHistory`, `DroppedAfterRemoval`, `DisturbsOnlyByRace`, `DeletionStands`, `LogSpec` |
| `liveness` | 2 requests, 1 name, 1 config, 1 mishap, fair | `RecordsSettle`, `LiveOperationsFinish` |
| `agent_safety` | 2 requests, 2 names, 2 TTLs, 1 mishap | `AgentTypeOK`, `RemovalIsReal`, `TouchesOwnedOnly`, `KeepsInOrder` |
| `agent_repair` | 1 request, 1 name, which may be a leftover's, 2 TTLs, 2 addresses, 2 egresses, 2 mishaps, fair | `ConvergesUnobstructed`, `ImportsManagedOnly` |
| `agent_lifecycle` | 2 requests, 1 name, 1 mishap, fair | `ConvergesUnobstructed`, `ClaimsComeTrue` |
| `service` | 2 requests at a time, 2 starts in a row, 4 mishaps, fair | `ServiceTypeOK`, `SchemaComplete`, `OneRule`, `SettingHolds`, `ServesAgain` |
| `backoff` | 1 tunnel, interval 4, passes of up to 9 units, up to 8 failures | `InTime`, `WaitsForFailures`, `NeverEarly` |
| `lost_update` | 2 requests, no mishap | `ControllerKeepsDesiredState` is violated |
| `premature_success` | 2 requests, no mishap | `DeleteSucceedsAfterRemoval` is violated |
| `address_flap` | 1 request, 1 name, 1 of everything, no mishap | `Idempotent` is violated |
| `unmarked_link` | 1 request, 1 name, 1 mishap, fair | `EnabledConverges` is violated |
| `leftover_link` | 3 requests, 2 names, no mishap | `DeletionLeavesNothing` is violated |

A mishap is a failing statement or call, an unhealthy observation, a crash or, in
`Agent` and `Service`, a reboot or an act of others on the host; in `Service` also an
exit, a cut-short PRAGMA, and the commands that stop or remove the service.

Control plane:

- `UniqueNames`: stale names are written back by three writers; the constraint
  holds them off.
- `ClaimsAreReports`: `actual_state` is up or down only with a matching report of
  that name, config and desired state, so not after an update, nor after a
  write-back that has lost one.
- `SuccessIsReported`, `DroppedAfterRemoval`: nothing succeeds, and no record goes,
  before the provider has spoken; the row of an import that could not adopt its link
  is the exception the code makes.
- `BackoffMatchesHistory`: failures, retry and observation of a row agree
  whoever wrote it last.
- `DisturbsOnlyByRace`: the controller's lost updates and drops of changed rows
  happen only in the window between list and write-back; outside it, it keeps
  what was asked for. It bounds the defect that `lost_update` shows.
- `DeletionStands`: a queued deletion can be undone by a handler or a pass that has read
  the row before it. Once none holds such a row (`Withdrawn`), nothing that
  comes later brings the tunnel back. That a change is refused after a deletion takes
  three requests to matter, a creation, the deletion and the change, and so is for
  the theorem; the run has the failed imports, write-backs and restarts.
- `LogSpec`: the records implement `OperationLog` under the mapping `Status(o)` (no
  record is "absent"): made once, running before they finish, never touched after
  that, put back by a restart all together. The one departure from
  `architecture.md:35` is in OperationLog itself: a record made while a pass over its
  tunnel is under way (`Late`) may be finished by that pass straight from the queue
  (`sqlite.go:196`); once the pass is over it may not. Two mishaps are needed for it: a
  finished operation, then a failing pass or a crash.
- `RecordsSettle`, `LiveOperationsFinish`: once clients and failures stop, every
  remaining tunnel is observed up or down, deleted ones are gone, and operations
  of remaining tunnels are finished.

Agent:

- `TouchesOwnedOnly`: the marker is checked once, links change under the
  provider's hands afterwards, and still it changes none that is not its own -
  except for the marker itself (below).
- `RemovalIsReal`: a removal that answers ok has left no marked link of that name,
  although a lookup and a deletion are two calls.
- `ImportsManagedOnly`: the marker importInterface has seen is looked at again by
  Adopt, on the link it then holds by index; so whoever replaces links in between,
  no unmarked one is adopted. Only the fallback to `ip link`, by name, may.
- `KeepsInOrder`: once link and rules are what the row asks for (`InPlace`), the controller
  does not change the link again, nor leave the rules incomplete, at any single step:
  not in a later pass, not for a moment, not when a call or a statement fails,
  nor after a restart - but for the address, which a pass over the tunnel itself takes
  away and gives back. `InOrder` excepts what the controller decided
  before: a copy that says otherwise than the row, and a pass that is replacing or
  adding the link. Handlers, others on the host and reboots may change the link,
  and are no steps `ByController`. `Idempotent`, what `roadmap.md:18` says, has no
  exception for the address, and is violated (`address_flap`).
- `ConvergesUnobstructed`: from any leftover of crashes, failures, drift and
  rerouting, a tunnel gets the link and the rules of its record once nothing
  goes wrong any more, if no other link holds its name or endpoints and there
  is a default route. The condition is the least: without it the code refuses. The
  address is there from then on, except between the two calls with which each pass
  drops it and assigns it again (`Addressed`).
- `ClaimsComeTrue`: in the end a record that says up or down is right about the
  link, obstructed or not.

Time:

- `NeverEarly`: after a failure the tunnel is left alone for the whole documented
  delay, although the skip is decided on a copy and `retryDelay` counts by doubling.
- `InTime`: and no longer than until the pass after, although passes may be longer
  than the interval, ticks get lost, changes come in mid-pass, and starts requeue.
- `WaitsForFailures`: a wait and its count explain each other, whatever was
  written back over whatever.

Process:

- `SchemaComplete`: from any release's file, and through any number of starts cut off
  anywhere, nothing uses the store before every table and column is there.
- `OneRule`: start and handlers look and append in two commands each; requests that
  do not overlap never add up to a second copy.
- `SettingHolds`: whenever the process serves, file, switch and chain say what the last
  request asked for, through crashes, reboots, upgrades, purges and flushes.
- `ServesAgain`: no state a start can be stopped in, and no database a PRAGMA error has
  sent it down on, keeps the process from coming up, unless systemd gives up.

The violation runs are disagreements between code and documents met while
modelling (`findings` in `PROJECT.json` quotes them): an update undone by a stale
write-back; a deletion finished by the pass that was applying the tunnel; an
address dropped and assigned again by every pass; a link added and not
marked, refused ever after; a link left by the deletion of a renamed tunnel. More
show in the model without a run of their own. An operation recorded after its
tunnel is gone (`server.go:312`), or requeued by a restart between `DeleteTunnel` and
`CompleteOperations` (`reconciler.go:68`), is finished by nobody, although
`architecture.md:35` has the controller advance every record: `LiveOperationsFinish`
excepts it. One recorded during a pass finishes without having been running:
`OperationLog` excepts it. With two names and two requests,
`EnabledConverges` also fails for a renamed tunnel, whose old link keeps the
endpoints it needs (`provider_linux.go:70` and `:190`).
`operation` drops the error of its INSERT (`server.go:355`,
`RequestStoreError`), so a change can be answered with success and leave no record;
a stranger's link that gets the name right after `LinkAdd` is marked as the
provider's own (`provider_linux.go:202`, `Load`), and a link can be imported for
another tunnel while the controller goes on with it for the first: the exceptions
in `TouchesOwnedOnly`. An import cut off between its INSERT and the marker leaves a
record that is refused at every retry, with a link that cannot be imported again
under its name (`server.go:109`); two forwarding requests that overlap can leave two
copies of the rule, of which a later request removes one (`server.go:125`).

`EnabledConverges` is
`ConvergesUnobstructed` with links of the tunnel's own making not counted as
obstacles: the documents excuse convergence only for interfaces of others.

**Bounds.** `Requests` bounds the changes clients make in a behaviour (in `Service`,
how many are under way), `MaxMishaps` (in the MC modules only) what goes wrong.
Two requests give every pair of conflicting operations with the controller between
them; three add a bystander, and take too long with imports, so for three and more
stand the theorems, which state every property of `faults` for any number.
`agent_repair` has one tunnel and two values of all that drifts, since repair
looks at one tunnel at a time; `agent_lifecycle` has two requests and single
values, since two tunnels meet only over a name or over endpoints. In `Agent` one
mishap is enough to leave every intermediate state of every method behind, and
two let the repair itself fail. Imports are asked for in `faults` and `liveness` (with
any outcome) and in `agent_repair` (call by call, on a leftover that is up, with
every address and one TTL; `MCInit`, `MCImportConfigs`); the other runs of `Agent` ask
only for configurations with masquerade, which no import makes. How an import and
the controller meet over one link is the subject of `TouchCorrect`, `RemovalCorrect`
and `ImportCorrect`, for any number of requests.

In `Service` four mishaps stop two starts and disturb what comes after each; two
starts reach the limit of systemd, which is five in the unit file and only a number
to the model. Two requests overlap in every way that one setting can be overtaken.
In `Backoff` the interval is that of `configs/development.yaml` (20 seconds); passes of
up to 9 units are longer than two intervals, so that ticks are lost; `FiveMinutes` is the
code's: the seventh failure in a row gets there, the eighth goes beyond. The Backoff
module bounds `MaxFailures`, `MaxBusy` and `Interval` itself, since its properties hold
relative to them.

Every action fires in the passing runs. Safety runs use symmetry in requests, names
and configurations, none of which is ordered; the fair runs use none. No run hits a
deadlock: the controller always has a step, time always passes or a pass goes on,
and a service can always be stopped or started, so deadlock stays checked.

**Fairness.** `WF` on the controller's own steps and on a handler's steps, an import's
calls included, once its request is in: goroutines run, and netlink calls and
commands return. `SF` on `Begin(id)`: delays are capped at five minutes while the
ticker goes on, so a listed tunnel is not skipped for ever (`Backoff` shows it). Clients owe nothing. Nothing says that
failures end: the properties assume it where they need it (`FailuresStop`,
`MishapsStop`: from some point on every step is one in which nothing fails). In
`Service`, `WF` on starting: systemd starts a unit that is due, and the process goes
through its start or, at a column that is there already, exits. It is one `WF`, for
one process is doing one or the other. Nothing is assumed of the start limit's interval, of
requests or of the operator. `Backoff` needs no fairness: `InTime` is a deadline.

## Proofs

All for arbitrary constants and any number of mishaps, assuming only that `None` is
none of the values it stands apart from (`NoneAssumption`, `NoneOnHostAssumption`,
`NoneIsNoLinkAssumption`) and, for `Agent`, the fields of a configuration
(`ConfigsAssumption`) and that the marker of an earlier installation is none that a
tunnel can have (`FormerAssumption`). `StartLimitBurst` is any number; so are the
`Interval`, `MaxBusy` and `MaxFailures` of `Backoff` (`BackoffAssumption`), the first and
the last not zero: a ticker needs an interval, and a first failure can always happen.

1. `TypeCorrect`: `TypeOK`, which includes that whoever is between two statements
   has a row in hand. Lemmas: the row operators return rows, the bulk updates
   keep the tables typed.
2. `NamesUnique`, by `TableSteps`: a step leaves `tunnels` alone, writes one row that
   someone had in hand under a free name, drops one, or clears the retries.
   `UniqueNames` is inductive with `TypeOK`.
3. `HeardCorrect`: `ResetInHand` (rows in handlers' hands are reset) and
   `HeardInHand` (at `mark`, `drop` and `succeed` the controller has heard the report
   it acts on). `ClaimsAreReports` and `SuccessIsReported` are not inductive
   without them: the report and the write that relies on it are two steps apart.
   `ClaimsCorrect`, `SuccessCorrect` and `DropsCorrect` follow.
4. `BackoffCorrect`: the same predicate for the table and for the controller's copies,
   since a copy becomes a row again at the write-back.
5. `DisturbanceCorrect`, with `CopiesMatch`: for rows no handler has touched, the
   copies still say what the table says, and at `remove` and `drop` the copy is one
   to delete. `CopiesCorrect` states it by itself: 13 needs it too.
   `DeletionCorrect`: whoever writes the row of a withdrawn tunnel writes a deletion
   (`RowStaysWithdrawn`), and none gets another row of it in hand (`WithdrawnKept`). It
   needs `RowsFollowRequests`: a tunnel is made by its own request, once, so no
   INSERT still to come can bring it back.
6. `LogImplemented`: `OperationSteps` lists what a step does to the records;
   `RecordsFollowRequests` (a request not done has no record) makes a creation a
   step from absent, and `LateSteps` says that only an INSERT during a pass adds a
   late record, so that whatever else a pass finishes was running.
7. `AgentImplements` (a lemma, by the way Agent is composed): its steps are steps of
   ControlPlane or leave the variables of that alone.
   `AgentSafe` carries 1 to 4 over to the agent, `AgentSteps` what 3 says of drops, 5 and 6.
8. `OwnershipCorrect`: the invariant `Ownership`. `Holds`: with `call.held`, the name has
   a link with the marker of the tunnel in hand, or one an import has been at
   (`Mine`), and some link between `LinkAdd` and the end of `markOwnership`.
   `RowDirects`: the method called is the one the desired state asks for. `RemovalDone`: a Remove
   that has answered ok has left the name empty, or to a link of others (`Gone`).
   `AdoptionHolds`: the link an import holds has a marker. None follows from the
   guards alone: the marker is checked calls earlier. They are inductive because
   others remove links (and `held` with them), change them, or add them under free
   names, but write no markers, and because an import writes one only where it has
   found one. `AdoptionFrame` takes every step after its own action; what it does to
   the holds is proved once (`FrameKeeps`, `FrameFinds`) and added to each step
   (`FramedKept`). `TouchCorrect`, `RemovalCorrect`, `ImportCorrect` and
   `AgentTypeCorrect` follow.
9. `ServiceTypeCorrect`, which includes that no request is under way unless the
   process serves: a new process finds no handler half-way.
10. `SchemaCorrect`, by `MigratedSoFar`: while the file is opened, every object before
    the next one is there. Statements only add, and a start begins at the first.
11. `OneRuleCorrect`, by `AppendsWhatLacks`: unless a copy too many is excused, there is
    one request at most, and whoever is about to append, request or start, has an
    empty chain before it. `OneRule` alone does not say what the append will meet.
12. `SettingCorrect`, by `Underway` and `Agreement`: how far a request that is alone has
    got with file and switch, and that what is agreed stays so while the process is
    down and starts. `Agreement` rests on 11: a request to disable deletes one copy,
    so there must be no second.

13. `KeepsInOrderCorrect`: `InOrder` is kept by every step `ByController`, given `Orderly`
    (1, 2, 5, 8 and `CallDirects`). `CallDirects` is what 8 does not say: a call that sets
    the link up or down is for a row that asks for it. So a pass over the tunnel
    itself makes only calls that change nothing (`FittingStays`) or no more than the
    address (`ReaddressedFits`, `WorkInOrder`); a pass over another one writes to the link of
    its own name, which is another by `UniqueNames` and `Agrees`, and to rules with its
    own comment (`WorkElsewhere`); and a write-back keeps the row, for the copy agrees
    with it (`ControllerInOrder`). What it leaves of `ConvergesUnobstructed` to TLC is
    that the place is reached.
14. `DelayIsDocumented`: the loop of `retryDelay` is the table of the documents, for
    every count of failures. The library's induction takes an operator as a parameter
    and cannot be used; its theorem that every set with an element has a least one takes
    none (`LeastNumber`, from `WFMin`), so the claim is proved of the least count for
    which it fails. That the recursive definition has a value at all is shown by
    giving one (`DoubledEquation`), which values it has by the least count
    (`DoubledValues`).
15. `ScheduleCorrect`: the invariant of `Backoff`, `BackoffInv`. `UntilAttempt` is how
    long it can still take, from where the pass is, what the copy says and when the
    ticker fires, and `InReach` says that the deadline is no nearer. `InTime` alone is
    not inductive: it says nothing about the next tick. `CopyStands` (a row is not made to
    wait behind the pass's back) lets a skip count on the next pass, `Respected` lets
    the copy decide for the row. `InTimeCorrect`, `WaitsCorrect` and `NeverEarlyCorrect`
    follow, and `WithinCap`: no history puts the deadline further off than five
    minutes and one more pass.

Only model-checked: the liveness properties `RecordsSettle`, `LiveOperationsFinish`,
`ConvergesUnobstructed`, `ClaimsComeTrue` and `ServesAgain`, since liveness under
fairness and `ENABLED` are outside the prover, and the violations. Every other
property of the passing runs is a theorem.

## Not modelled

- Authentication (`security/apikey.go`, the session cookie) and configuration: pure
  functions of one request or one file; nothing in them has a next state. The table
  `api_keys` is created by the migration and written by nothing in the agent.
- The inspector, `Discover` as a list, `networkSettings`, `probeTunnel`: read
  only. `Discover` is in the model where something relies on it (`Importable`).
- The dashboard page: its requests are those `ApiServer` enumerates; its sessions hold
  no state in the agent.
- The installers: shell scripts run once by an administrator. What they leave, a unit
  and its limits, is in `Service`.
- Rules of versions before the comment-marked ones, which removal deletes as well, and
  rules that exist twice: their texts would have to be modelled for a promise that
  no document makes. Errors of removing rules are in the model (`RuleStays`).
- Message texts, timestamps, validation of addresses, logging.
- A clock that is set back: `retry_at` is wall-clock time in the file; `Backoff` has a
  steady clock.

The dropped error of `operation` (`server.go:355`) has no property: an operation that is
not recorded leaves nothing in the state that tells it from a request refused.
