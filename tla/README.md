# Formal models of agent-directory

agent-directory keeps AI agents as accounts of an Active Directory domain and runs them as workers of an enterprise.
This directory holds TLA+ models of the parts that run concurrently, the TLC configurations that check them on small instances,
and theorems about them whose proofs TLAPS checks.

Run a model with `tlc -config goal_plan.cfg MCMission`, check the proofs of a module with `tlapm Mission_proofs.tla`.
`PROJECT.json` lists the runs, and for every definition the lines of the source it models.

## The system

| Component | Source | State it keeps | Operations |
|---|---|---|---|
| Provisioning service | `enterprise/provisioner/service.py`, `lease_store.py`, `ldap_client.py` | the lease table (SQLite, shared by processes); in the directory the password of an agent account and the computer account `sbx-<identity>` | `POST /provision` (search, reserve, set the password, create the computer account, build the bundle, or roll back), `POST /release`, `GET /agent/{name}/config`, `DELETE /credentials/{ref}` |
| Credential store | `enterprise/provisioner/credential_store.py` | a file for each reference | store, fetch and delete, purge |
| Policies and configuration | `enterprise/provisioner/policy.py`, `enterprise/broker/config_assembler.py`, `samba4/docker/agent-broker.py` | `_policy_cache` of a process; the configuration being sealed | load, cache, filter, sort and merge policies; assemble a sealed configuration and launch the agent with it |
| Directory administration tool | `samba4/scripts/agent-manager.py` | attributes of agents and policies in the directory | create an agent (three operations), update, delete, grant, link, show |
| Agent runtime | `enterprise/agent/base.py`, `routing.py`, `trajectory.py`, `task.py` | the task and trajectory it works on; a durable consumer of each queue | subscribe, fetch, execute step by step, publish the result, acknowledge, retry, fail, escalate |
| Reactions, checkpoints, events | `enterprise/agent/reactions.py`, `checkpoint.py`, `events.py` | checkpoint files | choose a reaction, save and load, encode |
| Escalation handling | `enterprise/coordinator/escalation.py` | an in-memory queue and dictionary of escalations | receive, resolve, notify, re-escalate, stop |
| Workforce management | `enterprise/coordinator/workforce.py` | pools of agent records | maintain (health, scale up, scale down), request, mark working, release, heartbeats |
| Mission coordinator | `enterprise/coordinator/service.py`, `goal.py`, `goal_ingress.py`, `llm.py` | records of goals | decompose a goal with an LLM, publish its tasks, report |
| Observability | `enterprise/observability/` | metrics of agents, an audit buffer | count events, aggregate, prune, query |
| Directory administration cmdlets | `powershell/AgentDirectory/` | attributes with the prefix `msDS-Agent`, which only the cmdlets read | create, link, grant, revoke, test access |
| Sandbox, launchers, schema, event log | `enterprise/sandbox/`, `samba4/`, `schema/`, `events/` | none of their own | build a command line, start a process, install |

They interact through four media, which differ in what they lose:

- **JetStream work queues** between goal submission, coordinators and workers. A task stays stored until it is acknowledged and is delivered again
  when an acknowledgement is late, negative or lost. `TaskQueue` and `Mission` model this.
- **core NATS subjects** for escalations, answers, heartbeats and events. A message reaches who is subscribed when it is published, in order, and nobody else.
  `Escalation` and `Workforce` (heartbeats) model this.
- **HTTP calls** of the workforce manager to the provisioning service, which may time out after they were carried out. `Workforce` models the caller, `Provisioner` the service.
- **the directory and the lease table**, which several processes change with separate operations, without a transaction over both. `Provisioner` models this.
- **the directory and SYSVOL**, which administrators change while the service and a launcher read them with one search or file after the other. `Configuration` models this.
- **the directory of credential files**, which the processes of the service share without a lock. `CredentialStore` models this.

Within a process asyncio switches coroutines at `await` only. Every model therefore has one action for the code between two awaits that matter, and the state
that another coroutine can change in between is read again, or not, as in the code.

### What is hard, and what makes each component correct

`PROJECT.json` lists the hazards line by line. In short:

- *Provisioner*: a lease has a term but the VM does not; the rollback undoes a part of the steps; releases are late, repeated or half done; the computer account is deleted by name.
  Correct: two VMs never run as one identity; a lease stays until its term or its own VM gives it up; the password in a bundle is the one of the account; every request is answered.
- *Agent runtime*: crash between result and acknowledgement, tasks that outlive `ack_wait`, retries counted in a copy of the task, a subscription that is refused.
  Correct: no task leaves the stream unsettled, results are not duplicated without a reason, one worker at a time works on a task, queues that are served drain.
- *Escalation*: an in-memory queue, errors inside the error handler, a level that is not carried in messages, nobody subscribed, several coordinators of one level.
  Correct: no escalation vanishes, one answer as long as one coordinator gets it, the hierarchy ends with a human.
- *Workforce*: the pool changes while a release or provisioning call is awaited.
  Others take identities, and leases end at their term, which the coordinator does not renew.
  Correct: records match leases, sizes keep their bounds.
- *Policies and configuration*: policies change between two reads and after they were cached; a lookup or a file fails; equal priorities; three programs that merge or show policies by different rules.
  Correct: an answer is that of the directory; the highest priority determines a limit; a sealed configuration denies what the service denies; what an administrator is shown is what is used.
- *Directory administration tool*: creating an agent is three operations, and others delete and create the same name in between.
  Correct: one command at most reports to have made an account that is there.
- *Credential store*: a purge removes what it cannot read; a process ends between removing a file and answering; two processes read one file before either removes it.
  Correct: credentials that could be fetched do not disappear (that they are handed out once only is what the documents say and the code does not ensure, see below).
- *Mission coordinator*: the LLM or a publication fails half way through a goal, a goal that was decomposed, answered or escalated is delivered again, records exist in memory only.
  Correct: a goal in progress has all its tasks, none disappears, each is settled.

## The modules

| Module | Models | Run by | Theorems |
|---|---|---|---|
| `LeaseStore` | the SQLite lease table: what `reserve`, `release` and `purge_expired` do to a set of rows, each a transaction | through `Provisioner` | - |
| `Provisioner` | provisioning and release handlers, processes that die, time | `MCProvisioner` | `Provisioner_proofs` |
| `IdentityAssignment` | abstract: an identity is nobody's or one request's; each request is served once | refined by `Provisioner` | in `Provisioner_proofs` |
| `LeaseService` | abstract: an identity is leased to one VM at most, and to another after that lease has ended | refined by `Provisioner` | in `Provisioner_proofs` |
| `WorkQueue` | abstract: one worker at a time works on a message, which goes for good once it was settled | refined by `TaskQueue` and by `Mission` | in `TaskQueue_proofs`, `Mission_proofs` |
| `TaskQueue` | agents, workers and a JetStream stream | `MCTaskQueue` | `TaskQueue_proofs` |
| `Escalation` | coordinators' escalation handlers and the subjects between them | `MCEscalation` | `Escalation_proofs` |
| `Workforce` | one pool, its manager, its callers and the provisioner as they see it | `MCWorkforce` | `Workforce_proofs` |
| `Mission` | the goals of a mission coordinator, which is an agent on a task queue | `MCMission` | `Mission_proofs` |
| `PolicyMerge` | policies as data: what applies, how they are sorted and merged by the service and by the assembler, and a reference definition of the result | through `Configuration` | `PolicyMerge_proofs` |
| `AgentDirectory` | agents and policies in the directory, and the administrators' commands | through `Configuration` | `Configuration_proofs` |
| `PolicyService` | processes of the service that answer requests for configurations, with their caches | through `Configuration` | `Configuration_proofs`, `MergedConfiguration_proofs` |
| `ConfigAssembler` | a launcher that seals a configuration | through `Configuration` | `Configuration_proofs`, `MergedConfiguration_proofs` |
| `CredentialStore` | one-time references shared by processes | through `Configuration` | `Configuration_proofs` |
| `Configuration` | the composition of the five: all of them on one directory at the same time | `MCConfiguration` | `Configuration_proofs`, `MergedConfiguration_proofs` |

Definitions whose comment begins with *Variant:* are not part of a specification. Each is an action with a plausible mistake; put in the place of the action after it,
it breaks the property `PROJECT.json` names; this shows that the property depends on the code it is about.

### Provisioner

A request is one `POST /provision` and the release that follows it; `pc` is how far its handler got. One action per step between LDAP subprocesses:
`Search` (directory search and purge), `Grant`, `Refuse`, `NoneLeft` (the candidate loop), the password reset, the computer account, `Assemble`, `Respond`, and `Rollback` for an
error of any of them (it removes the lease only, as lines 244-246 do). `Unanswered` is a process that dies. `CallRelease`, `DeleteComputer`, `ReleaseLease`
and `ReleaseUnknown` are the release handler, `Destroy` the end of a VM. `Tick` is time; LDAP has no timeout, so a handler may stall, also beyond the term of its lease; `MaxStall` bounds how long in a run, and no theorem depends on it.
`VMOf` lets two requests carry the same vm_id (a client's retry), `Adopted` are requests whose coordinator releases without a vm_id.
Passwords and bundles are abstracted to the request that made them; attributes of identities to the sequence a search returns (`Matching`).

Two abstract specifications say what the service is for. `Implements` maps the running VMs and the accounts to `IdentityAssignment`. `LeasesPromised` maps the rows of the lease table (`Leased`) to `LeaseService`, which is what a client of
the service may count on whatever handlers stall, die, repeat or release by name: an identity comes to a VM only when it is leased to none.

### TaskQueue

`stored` and `delivered` are the stream, `consumer` the durable consumer a queue has (a work-queue stream admits one), `pc`, `job`, `attempt`, `verdict` a worker coroutine.
`Fetch`, `Begin`, `End`, `Publish`, `Escalate`, `Retry`, `Fail`, `Ack`, `Nak`, `Skip`
follow `_process_queue`, `_handle_message` and `_execute_task`. What an LLM or a tool does in a step is the verdict it ends with; trajectories are not modelled. A result is published for the tasks that ask for one (`Replied`).
`Queue` maps the stream, the tasks workers hold (`Working`) and those with an outcome (`Worked`) to `WorkQueue`; `QueueKept` is its specification.
`AckWait` is the server's timer. `settled`, `results`, `lost` and `crashes` are observations: no action depends on them, except that `Faults` and `MaxCrashes` bound what goes wrong.

### Escalation

`Publish` puts a message into the inbox of every running subscriber; if there is none the message is in `unheard`, or with the operators. With several, which is possible since there is no queue group, each gets a copy, and `doubled` (an observation) has the escalation.
A task queue of a coordinator that is itself one for `escalations.*` makes a stream of these subjects (`base.py:143-152`, `170`), which that queue alone reads; the handler of `escalation.py` subscribes to core NATS.
`Receive`, `Take`, `Attempt`, `Notify`, `ReEscalate` and the failing forms follow `_handle_escalation_message`, `_process_loop` and `_process_escalation`
with its exception handler. The record starts at level `team` whatever the message says, as lines 169-176 do.

### Workforce

A record is `state`, `fresh` (a heartbeat in the last two minutes) and `vm`; `maint` is the maintenance loop, `task` and `given` a caller, `call`, `subject`, `sent` the HTTP call a coroutine awaits.
`CheckHealth`, `BalanceUp`, `BalanceDown`, `Balanced` are one round of `_maintenance_loop`; `Register` and `Delete` are what follows the answers; `CallFails` an error or a timeout, before or after the
service did what was asked; `Stop` is `stop()`. `lease` is the part of the service that a pool can see: an identity has a lease of one VM or none. It takes every step `LeaseService` allows to a lease, except that a lease is granted to a VM with a new id (`uuid4`, `workforce.py:373`): the pool's own calls grant and end leases (`Provision`, `EndLease`), other clients of the service
take free identities (`Elsewhere`), and a lease ends at its term (`Expire`, `lease_ttl_seconds` in `config.py:79`) or because somebody released it. `Provisioner` implements `LeaseService` by theorem (`LeasesArePromised`), so the invariants of a pool assume nothing
of the service that the service does not keep. `untold` are the identities whose lease ended without the coordinator knowing whose it was.
The vm_id numbers are reused as soon as nobody holds one, so a bound on those in use at a time is no bound on how many there have been.

### Mission

A goal's message goes `none -> queued -> held -> done`; a worker coroutine takes it (`Take`), asks the LLM (`Decompose`, `NoLLM`, `LLMFails`, `DecompositionFails`), publishes the tasks one by one
(`CreateWorkerTask`), marks the goal (`Planned`), answers or escalates, and acknowledges, which are steps of their own: between them the process may end, and an acknowledgement, also of an escalation or of an expired goal, may be lost (`Redeliver`). `record` is the in-memory record of the goal, which a crash forgets; `published` are tasks in the streams, which it does not.
`Queue` maps the goals' messages to the same `WorkQueue` that `TaskQueue` implements, since a coordinator is an agent on a queue: a goal is `gone` once it was acknowledged, and `Worked` are the goals answered, escalated or given up.
Reviews, rebalancing and generic tasks of the coordinator change no state and are left out.

### PolicyMerge

A policy is its attributes (`enabled` as it is written or `"absent"`, `priority`, filters by type and trust) and the content of its file: keys with a value, lists with items.
`Applicable` are the policies that are enabled and pass the filters (a filter with one value arrives as a string, in which a type is looked for as a substring: `Part` are the types whose names are part of the name of a type), `Sorted` their stable sort by priority, given by what a stable sort is (`Upto`: the position that has k elements no later than it comes k-th), so that it can be reasoned about without recursion.
`Rounds` is the loop over the sorted policies, as a function from the number of rounds to what is merged by then. `ApplyPolicy` is one round of `_apply_policy`: a key overrides, a list extends; the list `Egress` stands for the egress lists, which are read only if the file has a section `network` too. `LoadPolicies` is
`load_policies_for_agent` (filter, sort, loop), `SealPolicy` a round of `_merge_policies` of the assembler, which knows the keys in `SealedKeys` and the list of denied tools only.
`ValueOf` and `ItemsOf` say, without order or loop, what the result has to be: a key has the value of the policy that `Wins` among those `Having` it, a list the items of all. `HighestWins` compares the two in every reachable state.
Each of the many settings of `MergedPolicy` follows one of these patterns; a key or a list of the model stands for those of its pattern.

### AgentDirectory

`place`, `entry` and `creating` are an account (in `CN=Users`, in the container of agents, with or without the class `x-agent`) and how far a create command is: `CreateUser`, `Move`, `AddAttributes`, and `CreateFails` for an error or an interruption
between them. The other commands are one LDAP operation each. `attrs` and `file` are the policies, which change by `EditPolicy` and `EditFile` (`ldapmodify` and SYSVOL; the tool has no command for them).
`EffectivePolicies` and `EffectiveGPOs` are what the tool shows, the latter with the flag and the merge strategy of each instruction GPO (`GPOAttrs`). `Listed` is the order in which the values of an attribute arrive, which LDAP does not promise to be any order in particular.
`made` is an observation. `MaxRequests` bounds commands and requests.

### PolicyService, ConfigAssembler

`request[s]` is the request a process works on; `Ask` reads the agent, then for each linked policy there is `Hit` (in the cache), or a lookup (`Found`, `NotFound`) and after it the file (`ReadFile`, `ReadFails`), and `Respond` at the end.
The lookups are blocking subprocesses inside a coroutine, hence a process has one request at a time and everybody else may act between two of its reads. `missed` is an observation: the policies that changed while the request was under way, or whose lookup or file failed. `FreshAnswers` excuses these and what could not be read, and nothing else.
`SystemPrompt` has all instructions that are linked, by priority: `config_assembler.py:397-425` uses neither the flag nor the merge strategy, and `ShownIsUsed` is about agents whose instructions are all enabled and appended.
`sealing` is an assembly: `ReadAgent`, `ResolveTools` (tools and instructions, whose objects do not change here), then `SearchPolicy` and `ReadPolicyFile` for each policy, `PassOver` for what fails, `Launch`.

### CredentialStore

A reference is a file that is fresh, expired or gone. `Store` and `Find` purge first, and a purge may hit any file it cannot read. A fetch is `Find`, `Read`, `Unlink` and `Hand` (or `TooOld`, `NoFile`); another process may do the same between any two of them, and a process
may end between any two (`Drop`). `handed` are the references that were answered, `spoilt` those lost to their age, to a purge or to the end of a process that had removed them.

### Configuration

`Process(s)` is one process of the service, which serves requests for configurations and for credentials, `Restart` its end and new start with an empty cache. `Edit` and `Behind` let a change of a policy mark the requests under way and the assembly that has seen the old one.

## The runs

| Run | Question | Instance and why it is enough | Result |
|---|---|---|---|
| `prov_once` | Do two VMs ever run as one identity, and is each request answered, when releases are sent once? | 3 requests, 2 identities, 2 VMs (the third request is a retry of the first), a lease shorter than a handler may stall, a release without vm_id: two requests contend while a third comes late | `TypeOK`, `Exclusive`, refinement of `IdentityAssignment` (`Implements`) and of `LeaseService` (`LeasesPromised`), `Answered` hold |
| `prov_term` | Do leases exclude each other and last, and who can take the password of a bundle within its term? | 3 requests from 3 VMs, releases up to twice, a term of 2 and handlers that stall as long, 4 instants: a lease can expire under its handler, be granted again and be released late | `TermExclusive`, `PasswordCurrent`, `TermKept`, `RevokedByOwner` hold |
| `prov_twice` | Is an identity exclusive when a release is repeated? | 1 identity, 3 requests | `Exclusive` violated (finding) |
| `queue_safe` | Are tasks lost or duplicated, and is everything worked off? | 2 agents of a team on one queue of which one is started again, 2 tasks with every way to end, one of which asks for a result, a crash, lost acknowledgements, failing publications and subscriptions, 2 deliveries of a task for these reasons: a delivery can overtake a handler, and an agent can take over from one that ended | `TypeOK`, `NothingLost`, `ResultsExplained`, refinement of `WorkQueue` (`QueueKept`), `Drained` hold |
| `queue_retry` | Do retries end after `max_attempts`? | no faults, a task that always asks to be retried | `RetriesBounded` violated (finding) |
| `esc_flow` | Is every escalation accounted for, and answered once? | two coordinators of a team and one of the department, 4 escalations (a blocked task of the team, one of the department that may be resolved, a timeout, one for the operators), 2 failing publications, a coordinator that stops: two failures are what loses one, and after a stop one coordinator of the team is left | `TypeOK`, `Accounted`, `NotifiedOnce`, `TimeoutsAnswered` hold |
| `esc_human` | Does an escalation nobody resolves reach a human? | one coordinator of the team and one of the department, no failures | `ReachesHuman` violated (finding) |
| `work_pool` | Do records match leases, and sizes their bounds? | 3 agents (symmetric), one caller and the manager, `min_size = max_size = 2`, failing calls, heartbeats at any time, leases that expire or that other clients take: the pool can exceed its maximum and shrink again | `TypeOK`, `CallsMatch`, `PoolLeased`, `Overshoot`, `MinKept` hold |
| `goal_plan` | Is every goal planned whole, or known not to be, and settled? | 2 goals on one subject or two, with and without an LLM, up to 2 tasks, 2 faults: a goal can fail half way, be redelivered and fail again | `TypeOK`, `PlannedWhole`, `AnsweredPlanned`, `Accounted`, `DecomposedAgain`, refinement of `WorkQueue` (`QueueKept`), `Settled` hold |
| `conf_serve` | Do merged and sealed configurations follow their rules, are accounts made once, and credentials kept until they are fetched? | 2 agents (one to be created, by 2 administrators), 3 policies (a base policy, one for coordinators, one for trusted agents) with edits that disable one, lose its file, or make two equal in priority, 3 instruction GPOs of which one is disabled and replaces, 2 processes of the service of which one gets requests for configurations, 1 launcher, 1 reference, 3 commands and requests: enough for create - delete - create, ask - edit - ask, ask - edit - seal, store - fetch - fetch | `TypeOK`, `CreatedOnce`, `HighestWins`, `SealedAsStrict`, `ShownIsUsed`, `CredentialsKept` hold |
| `conf_stale` | Does the service answer with the policies of the directory? | the same | `FreshAnswers` violated (finding) |
| `seal_order` | Does a sealed configuration follow the priorities of policies? | the same with 1 request | `SealedByPriority` violated (finding) |

Runs say `CHECK_DEADLOCK FALSE` because the systems really come to rest: all requests answered, all tasks worked off, all coordinators stopped.
Symmetry is used in `work_pool` only, which has no liveness property and treats all agents alike.
`conf_serve` needs one process that answers requests for configurations, because processes share nothing in this but the directory; the other one shares the credentials. Its three commands and requests are the bound that
keeps it small; the theorems below have no bound. `SealedAsStrict` and `ShownIsUsed` say under which conditions three programs agree: no failed search, no change behind a reader, instructions that are all enabled and appended, and (`Explicit`) policies that say whether they are enabled, because the programs
differ in what a missing attribute means. The types of `conf_serve` are not parts of each other's names, as those `agent-manager.py:588` offers are not, so that the substring filters matter to the proofs only.

### Fairness

- `Provisioner`: weak fairness of a handler that has started. asyncio runs a coroutine until it returns; the subprocesses it awaits end. Dying remains possible, as a step of its own.
- `TaskQueue`: weak fairness of what a running worker does next and of the server's `ack_wait` timer; `Start` is fair for the agents in `Restarted`, those an orchestrator starts again. A step of an agent may go on for ever only until its verdict, for which `Handle` is fair: the loop in the code ends after `max_iterations`.
- `Escalation`: weak fairness of the callbacks and of the processor of a running coordinator. Nothing is assumed of failures and stops.
- `Mission`: weak fairness of the workers, and of taking up each goal, be it to decompose it or to find it expired: the stream hands out messages in order. A nak or an escalation is a step of the worker.
- `Workforce` and `Configuration` have safety properties only and assume none.

## What is proved

All theorems hold for every value of the constants that satisfies the assumptions in the modules: any number of requests, agents, tasks, goals, any bounds.
`Init`, `[Next]_vars` and the inductive invariants are used without fairness.

**`Provisioner_proofs`**
- `TypeCorrect`.
- `OneVMPerIdentity`: with at most one release for each request, `Exclusive`. The invariant is `AccountOwned`: from its creation to its deletion, the computer account of a request's identity is the one that request made.
  This, not the lease, is what excludes the second VM once a lease has expired, and a repeated release is what breaks it.
- `LeaseTermsExclude`, `LeasesLast`: if requests have VMs of their own and name them when they release, `TermExclusive` and `TermKept`. The invariant `TermRecorded` says that a request in its term finds its own row, and that the table has one row for an identity.
- `BundlesStayValid`: under the same assumptions `PasswordCurrent`, however long handlers stall. A request sets the password of an identity nobody else is in its term for (`TermExclusive`), or it has outlived its own lease and leaves its name behind (`PasswordStep`); `PasswordOfGrant` says that who has set a password never gets another lease.
- `OnlyOwnersRevoke`: `RevokedByOwner`.
- `ImplementsAssignment`: `Provisioner` implements `IdentityAssignment` under the assumption of `OneVMPerIdentity`, with `AccountOfGrant` for the mapping of `holder`.
- `LeasesArePromised`: the lease table implements `LeaseService`, without any assumption on requests or time. A row is inserted for an identity without one or replaces the row of the same VM; purges, releases and rollbacks remove rows.

**`TaskQueue_proofs`**: `TypeCorrect`; `TasksAreKept` (`NothingLost`, from `Settling`: a worker about to acknowledge has settled its task); `ResultsBounded`: results are explained by faults if each queue has one worker of an agent
(`Holding`, `ResultPaid`: an unacknowledged task has at most as many results as there were crashes and lost acknowledgements). `QueuePromiseKept`: the agents implement `WorkQueue` if each agent has one worker for a queue. The mapping needs what is invariant: the durable consumer admits one agent to a queue,
hence two workers never hold one task, what a worker holds is stored, and who acknowledges has settled (`Settling`).

**`Escalation_proofs`**: `TypeCorrect`, with the fact that no record is above `department`; `EscalationsAccounted`, where what has to be followed is an escalation on its way from an inbox through the queue, the record and the next inbox, and `ErrorCounted` (who is in the error handler has had a failure) excuses the one that is dropped.
`AgentsNotifiedOnce`: `NotifiedOnce`, for any number of coordinators and any levels they listen to. The invariant `Single` gives every message, queued record and record at work a place, and says that an escalation that is not `doubled` is in one place at most and nowhere once its agent was notified;
every step moves the first of one place to another (`SingleMoved`), and a publication that does not double it has at most one receiver (`PublishedOnce`).

**`Workforce_proofs`**: `TypeCorrect`; `CallsMatched`; `RecordsAreLeased`; `OvershootBounded` (by counting: who asks has just seen the pool below its maximum, and at most as many others ask as there are callers; an answer turns one that asks into one record with a VM at most); `MinimumKept`.
`RoomToShrink` says that the pool is above its minimum while a release is awaited, `Answers` and `NoRecordNoVM` connect the answers under way with the records: an answer that is under way has its lease or that lease ended at its term or by name, and no other call or record has its VM.

**`Mission_proofs`**: `Inductive` proves `IInv`: the safety properties with `Assigned` (a worker's goal is held and of its subject), `Progress` (how far a decomposition got and what is published) and `Counted`
(runs against faults). `TypeCorrect`, `GoalsPlannedWhole`, `AnsweredArePlanned`, `GoalsAccounted` and `DecomposedOnceWithoutFaults` follow; the last counts every run of a goal against the crashes, failing answers and lost acknowledgements, those of an escalation included. `QueuePromiseKept`: the coordinator implements `WorkQueue`, from `IInv`: a worker's goal is `held` and no other worker's (`Assigned`), so that it is free when it is taken.

**`Configuration_proofs`**
- `TypeCorrect`, for any number of agents, policies, processes and references.
- `AccountsMadeOnce`: `CreatedOnce`, inductive by itself: the directory refuses the class to an object that has it, and a deletion takes the account with who made it.
- `CredentialsAreKept`: `CredentialsKept`, with `ExpiredLost` (an expired file counts as lost). A file goes by age, by a purge or by the `Unlink` of a fetch, and who has removed it answers or ends.

**`PolicyMerge_proofs`**: what the loop of the service computes, for links, policies and keys of any number and any priorities.
- `ArrangementExists`: the sort by `Upto` is a bijection between `1 .. n` and the positions that were chosen, in ascending order of priority and, among equals, of position (`Arranges`). Its heart is that the set a position comes no later than grows by one element from one position to the next, so that every cardinality occurs once.
- `RoundByRound`: the recursive function `Rounds` satisfies its recursion. `LastWins` and `EachAdds` are inductions over its rounds: after `m` rounds a key has the value of the last of the first `m` policies that has it, and a list the items of all of them.
- The theorems `KeysAreTheWinners` and `ListsAreUnions` follow: `LoadPolicies` is what `ValueOf` and `ItemsOf` say. `FirstShownWins` is the same for the order in which the administration tool shows policies.

The induction is the one the library proves as well-foundedness of `<` on the naturals: the least round at which the claim fails (`WFMin`) has a predecessor at which it holds. The induction theorems with an operator parameter are not used.

**`MergedConfiguration_proofs`**: the properties of `Configuration` that depend on what a merge computes.
- `HighestPriorityWins`: `HighestWins`, whatever a process has in its cache.
- `SealedDeniesAsMuch`: `SealedAsStrict`, from `LauncherInv`: an assembly that lost nothing has denied the tools of every enabled policy it has passed, as those policies are *now* (`PassedDenied`), starts with the first policy (`Starting`) and has all instructions of the agent (`Instructed`). An edit behind the launcher's back marks the assembly, an edit before it is seen.
- `AdministratorSees`: `ShownIsUsed`, from `FirstShownWins` and `KeysAreTheWinners`: the first of a list in descending order is the last of the loop in ascending order when no two priorities are equal. Its conditions are that the process has the policies as they are, and that all instructions are enabled and appended: the tool shows a flag and a strategy that the assembler does not use.

Only model-checked: liveness (`Answered`, `Drained`, `TimeoutsAnswered`, `Settled`), because fairness and ENABLED are out of the prover's reach. Every other property of the runs that pass, safety, action property or refinement, is proved.

## Where code and documents differ

Found by a run (see `findings`):

- A repeated release takes the computer account of the next VM, and an identity may then be run twice (`prov_twice`; `lease_store.py:4`).
- A task that asks for retries is never escalated (`queue_retry`; `base.py:234`).
- An escalation nobody resolves circles at the department coordinator and reaches no human (`esc_human`; `escalation.py:4-5`).
- The service answers with a policy as its process first loaded it, whatever became of it since: `_policy_cache` is never invalidated, `invalidate_cache` has no caller (`conf_stale`; `provisioner/service.py:278` "Get current configuration", `280` "refresh their config at runtime", `286` "Reload policy").
- A sealed configuration takes each limit from the policy that is read last, whatever the priorities (`seal_order`; `config_assembler.py:450` against `docs/USER-GUIDE.md:146` and `samba4/docs/SCHEMA.md:167`).

Seen while modelling; the models have the behaviour, and no run is about it unless said:

- *Provisioner.* A repeated request of a running VM refreshes its lease, and its rollback removes it (`lease_store.py:99`, `service.py:244-245`). A handler that has outlived its lease sets the password of an identity that another VM has by now, whose bundle is then worthless (`service.py:174`; `PasswordCurrent` says that nobody else does). A failing lookup or deletion in the directory is answered as success and leaves the computer account (`service.py:252-270`, `ldap_client.py:98-100`).
- *TaskQueue.* The result is published before the acknowledgement (`base.py:220-224`), so results are not exactly-once. A failing escalation is logged and the task acknowledged (`base.py:485-486`, `245`; outcome `dropped`). A second agent's durable consumer of a work queue is refused, and its worker returns (`base.py:173-183`). A worker whose subscription fails once returns as well (`base.py:184`): if it is the only one, its queue is not served any more, which `Drained` excuses.
- *Escalation.* Coordinators subscribe without a queue group, so two of one level both handle every escalation, although `coordinator/service.py:5` says that several can run: each may answer (`NotifiedOnce` says that this is the only way an agent is answered twice), and at the department, where an unresolved escalation returns to the same subject, each round doubles its copies. An error of the notification turns RESOLVED into RE_ESCALATED. An error of a re-escalation skips a level.
- *Workforce.* An agent marked working while its release is awaited is deleted. An agent granted again while an older release of it is pending loses its record and keeps its lease. OFFLINE agents never recover and count for the size. Agents known from heartbeats have no vm_id and are released by name. A provisioning call that times out may leave a lease nobody knows of. No part of the coordinator renews a lease, which ends 15 minutes after it was granted (`config.py:79`) while the record and the VM stay; the identity can then be assigned to another client. (`PoolLeased` excuses the leases that end by name, at their term or with a failing call.) `request_agent` does not reserve the agent it returns.
  A scaled-up agent stays STARTING, since nothing in the code sets it to IDLE but a release, while `workforce.py:27` describes the state as being provisioned.
- *Mission.* Without an LLM the message says that a single task was created (`coordinator/service.py:289-295`) and none is; the goal stays PLANNING and its task is answered as completed. An error of the LLM leaves the goal PLANNING. A goal that was decomposed and is redelivered is decomposed again: the record starts over, and the tasks of the earlier run stay in the streams.
- *Credential store.* Two processes can both read a file before either removes it, and both hand out the credentials: `credential_store.py:6`, `47` and `service.py:525` say "exactly once". A process that ends between the removal and the answer, or whose answer does not arrive, takes the credentials with it, so that they are not handed out even once. A fetch that finds its file removed by another process ends with an error 500.
- *Policies.* A file that cannot be read is cached as an empty policy (`policy.py:248-252`), a failed lookup is not cached. The egress lists of a file are read only if it has a section `network` (`policy.py:343-353`). A filter with a single value arrives as a string, in which types are looked for as substrings (`policy.py:283`; `Part`, which the theorems leave open and the run has no use for).
  A policy without `x-policy-Enabled` is enabled for the service (`policy.py:238`) and disabled for the assembler and the administration tool (`config_assembler.py:464`, `agent-manager.py:417`).
- *Sealed configurations.* The assembler filters policies neither by type nor by trust. A denied tool whose lookup fails stays authorized (`config_assembler.py:303-320`), while `samba4/docs/ADMIN-GUIDE.md:1145` says "Denied tools always win". Instruction GPOs that are disabled are used, and those that are to be prepended or to replace others are appended: the assembler asks for neither `x-gpo-Enabled` nor acts on `x-gpo-MergeStrategy` (`config_assembler.py:397-425`), while `agent-manager.py:554-556` shows both and `samba4/docs/ADMIN-GUIDE.md:655-661` and `docs/USER-GUIDE.md:407-414` say they count.
- *Administration tool.* A trust level of 0 is dropped on creation (`agent-manager.py:97`) and shown as 2. A creation that fails between its operations leaves an account that blocks the name until it is deleted.

Seen while modelling, and not in the models:

- *Agent runtime.* An agent with two queues has one trajectory and one current task for two tasks (`base.py:151`, `260-265`, `390`): the events of one go to the trajectory of the other. Trajectories are not modelled.
- *Escalation.* A re-escalated message carries `source_agent`, and `agent_id` is read.
- *Mission.* `completed_tasks` is never counted and COMPLETED never set. Dependencies, sub-goals and `requires_approval` are ignored.
- *Observability.* A retried task leaves `stop_reason` FINISHED behind (`base.py:276-336`), so that `metrics.py:220` counts it as completed. `get_recent_events` of the audit log takes the last events before it filters them.
- *Sealed configurations.* The default of `max_steps` is 50 (`config_assembler.py:284`) and 100 in the service. Two launchers of one agent write the same file.
- *Policies.* A filter by trust level with a single value is taken apart into its digits (`policy.py:241-243`), which makes no difference for levels of one digit.
- *Cmdlets.* They keep `msDS-Agent*` attributes, the Samba programs `x-agent-*`: neither sees what the other wrote.

## Not modelled

- `Provisioner`: what is in a bundle (the policy in it is `PolicyService`'s answer, the credentials those of `CredentialStore`). `TaskQueue`: the LLM and tools of a step, the trajectory, `stop()`. `Escalation`, `Mission`: counters for statistics. `Workforce`: requirements of a request, except that an agent may not satisfy them; other pools, which share nothing with this one but the identities.
- `AgentDirectory`: the list commands and the export of keytabs, which change nothing in the directory. `ldap_client.py`: the parsing of LDIF, and `create_agent`, which nothing calls. `config.py`: environment variables read once.
- `ConfigAssembler`: the text of prompts and the mapping of tool names; tools and instructions do not change while they are read.
- Cmdlets in PowerShell: they work on attributes that no other part of the code reads. `Start-AgentFromAD.ps1` reads an agent as the assembler does.
- Observability: `metrics.py`, `audit.py` and `dashboard.py` are used by no other part of the code; see the plan.
- Reactions: a pure choice that the runtime makes with one hook at a time. Checkpoints: saved and never loaded, since no task carries a `checkpoint_id`. Events: records and their JSON form.
- Sandbox, other launchers, schema installation and event log: no state of their own, or pure input and output.

## Plan

Done, in this order: `LeaseStore`, `Provisioner`, `IdentityAssignment`, `TaskQueue`, `Escalation`, `Workforce`, `Mission`, then `PolicyMerge`, `AgentDirectory`, `PolicyService`, `ConfigAssembler`, `CredentialStore` and their composition `Configuration`, each with its runs and proofs; then `WorkQueue` and `LeaseService`, what the components promise each other, and the proofs about what merges compute.

Next, most important first:

1. `Metrics`: the collector's view against the agents of `TaskQueue`: which counters can be believed when events are reordered or lost.
2. `ToolAccess`: the decision of `Test-ADAgentToolAccess` (deny, direct grant, group, trust level), and the cmdlets that read a list of tools and replace it.
3. Composition of `Workforce` with `Provisioner` over HTTP: the leases that calls leave behind, bounded by the term.
