# A verification of the OpenHound Okta collector

The collector (`src/src/openhound_okta`) reads an Okta org over its HTTP API,
turns what it reads into tables with dlt, and the tables into a graph. These
TLA+ modules model two things about it. The first is what depends on order:
threads that share a token, throttles and telemetry, retries that share budgets,
and listings that change or fail while they are read. The second is what the
graph says: the way of roles and of federation from an org that changes while it
is collected, through tables that may have lost rows, to edges. TLC checks each
model on small instances. TLAPS proves the safety properties that the runs
check, the same formulas, for every value of the constants.

File names below are relative to `src/src/openhound_okta` of the repository.

## The system

| component | state it keeps | operations | who calls it |
|---|---|---|---|
| Bearer token cache, `utils/auth.py` | cached token with two deadlines, next refresh attempt, mutex | sign a request, fetch a token, classify and handle a 401 | the request loop, on every thread |
| Request admission, `utils/http.py` `OrgThrottle`, `EndpointThrottle` | permits, slots, deadlines, pacing intervals, the last rate limit window, two counters | acquire, begin, end, observe, defer, release | the request loop |
| Request loop, `utils/http.py` `OktaRESTClient._send_request` | counters of one request, budgets of read timeouts and time | one request with all its attempts | every resource, through dlt's paginator |
| Resources, `source.py` | page sizes, the grants breaker, the factor claims, fingerprints of assignments | one generator per resource or parent record | dlt, which resumes them in turn or on worker threads |
| Entra tenant resolver, `utils/entra_tenant.py` | tenant ids by domain name | resolve, enrich | a map step of the applications |
| Telemetry, `telemetry.py` | interval, summary, queue, flags, the file | record, flush, finish, three threads | the request loop, `main.collect` |
| Endpoint routing, `source.py` `ClientPool` | clients by endpoint family | the client for a path | resources |
| Role assignments, `models/*role_assignment.py`, `models/resource*.py` | none | scope of a role, edges | the conversion to the graph |
| Federation, `models/saml.py`, `models/hybrid_auth.py`, `oin_routes/` | none | route evidence, normalised issuers and consumers, edges | the conversion to the graph |
| Lookup, `lookup.py` | a DuckDB session, caches | queries over the tables | models, in the conversion |
| Transforms, `transforms.py` | derived tables | build them | once, between the two |
| Records and nodes, other `models/*.py`, `graph.py` | none | one record to one node | the conversion to the graph |

The request path ties the first five together. A resource asks the client of
its endpoint family for a page. The client takes a slot of the family and a
permit of the org, waits for both deadlines, signs the request with the shared
token and sends it. What the response says about the rate limit goes to the
throttle, how long everything took to the recorder. A 401 goes to the token
cache, a 429 to the family's deadline, and a failure of the server to the
deadline of the whole org, before the slot is freed. The resource yields rows
to dlt, or fails. Most resources are wrapped by the framework, which logs their
exceptions, keeps the rows so far and goes on; the authoritative ones
(applications and group assignments) are not, and their failure fails the run
before anything is published.

### What is hard here

- *Concurrency*: looks without a lock, results that are used after the lock was
  freed, counters kept beside the semaphore they describe, a queue whose
  consumer may stop.
- *Order*: responses of one rate limit window observed out of order, a 401 for
  a token that has been replaced meanwhile, a backoff that must be published
  before the permit is freed.
- *Retries*: two counters and three limits for one request, a budget that the
  pages of a listing share, a listing that starts again with smaller pages.
- *Partial failure*: rows yielded before a later page fails, a breaker fed by
  listings that interleave, a fetch that fails after the user was claimed.
- *Time*: deadlines read before and used after a wait, lifetimes counted from
  the arrival of a response.
- *Limits*: a full queue or file when the summary arrives.
- *No snapshot*: the tables of one graph are read at different times, and what
  one says of who is an administrator another may contradict.
- *Absence that looks like a fact*: targets of a role that could not be fetched,
  a table without rows, a mapping whose values were trimmed. Each must not turn
  into "all", "none" or "complete".
- *Contradicting sources*: several settings, metadata and a catalogue tell the
  same route; a URL and an ORN stand for the same resource.

Components for which these do not matter (records and nodes, the command line)
are not modelled; see the end.

## The modules

| module | models | composes |
|---|---|---|
| `BearerAuth` | `OktaBearerAuth`, and the 401 branch of the request loop | |
| `Throttle` | `OrgThrottle`, `EndpointThrottle` and their callers | |
| `RequestRetry` | `_send_request`, one request | |
| `Listing` | what a paginated collection promises (abstract) | |
| `GroupListing` | `groups()` with its page sizes | `RequestRetry`; implements `Listing` |
| `Telemetry` | recorder, flusher, writer, the hook in `main.collect` | |
| `OktaOrg` | the applications, a constant that two modules share | |
| `GrantsBreaker` | the breaker and `application_grants` | `OktaOrg` |
| `GroupAssignments` | `application_group_assignment_rows`, `group_assigned_apps` | `OktaOrg` |
| `Applications` | the applications listing, the tenant resolver, the end of the run | the two before |
| `FactorClaims` | `user_factors`, its claims and its count | |
| `GraphKinds` | kinds of nodes and edges, the `EdgeDef`s of roles and resources | |
| `Lookup` | `OktaLookup`, as far as roles need it; URLs and ORNs of resources | |
| `ResourceNames` | how Okta names the members of a resource set: what a URL and an ORN mean | `Lookup` |
| `RoleEdges` | the edges of role assignments, resources and bindings | `GraphKinds`, `Lookup` |
| `Entitlements` | what roles entitle to, in Okta's terms (abstract) | `GraphKinds` |
| `Pipeline` | collection of what roles need, `transforms.py`, the conversion | `RoleEdges`, `ResourceNames`; held against `Entitlements` |
| `OinRoutes` | `oin_routes/`: the catalogue, its resolvers and validators | |
| `SamlRoutes` | `models/saml.py`: issuer, service provider, consumer services of an app | `OinRoutes` |
| `SamlClaims` | the same: claim mappings and what they assert of a user | `SamlRoutes` |
| `SamlTrust` | the same: identity providers, their rules and linked users | `SamlClaims` |
| `HybridAuth` | `models/hybrid_auth.py`: targets in other products | `OinRoutes` |
| `FederationKinds` | the `EdgeDef`s of federation | `GraphKinds` |
| `FederationEdges` | the edges of applications, identity providers, groups and their users | the three before |
| `Federation` | collection of what federation needs, and the conversion | `FederationEdges` |

`MC<module>` gives the constants of a module their values for TLC;
`<module>_proofs` holds its theorems, those of `RequestRetry` are with the ones of
`GroupListing`. Operators under a comment that begins
with "Wrong:" are no part of the model. Each is a plausible mistake in the
definition after it, and names the property that finds it when it takes that
definition's place.

### BearerAuth

Threads make requests. A thread looks at the cache without the mutex
(`LookUnlocked`, with the clock it has read in `ReadClock`), then with it
(`LookLocked`), and fetches while holding it (`StartFetch`, `FetchSucceeds`,
`FetchFails`). Okta issues tokens (`Issue`) before the response arrives or is
lost. A 401 blames the token, blames something else, or says nothing
(`Rejected`); `HandleUnauthorized` decides under the mutex whether to drop the
token and whether the request may be retried. The clock ticks between any two
steps. Lifetimes of zero and below are in the instance, since the code clamps
them.

`FreshIsAccepted` relates the cache's two deadlines to the time at which Okta
stops accepting the token, although the lifetime is counted from the arrival of
the response. It needs `LatencyAssumption`: no response takes longer than the
skew or half the lifetime. With the default settings those are 300 seconds and
half an hour, and the token request times out after 10 seconds.

### Throttle

A thread goes through `acquire`: it takes a free slot (`Enter`) or joins the
queue, gets a slot and leaves the queue (`JoinQueue`, `Dequeue`, `LeaveQueue`),
then waits, takes a permit and books its start (`Paced`, `OutageOver`,
`TakePermit`, `Check`, `Book`, or back with `WaitAgain`). It begins, sends, ends,
observes, defers and releases. Each of these is a step of its own, because each
takes a lock of its own. Okta counts requests in windows; other API clients use
up some of them. Replies with headers, without, with malformed ones, 429s,
outages and everything else are chosen per reply. Deadlines are whole clock
readings, rounded up.

`Interrupted` is an exception in the waiting loop, which gives everything back.
The queue before it is outside the `try`: `InterruptedInQueue` leaves the thread
counted as waiting and, if it had its slot already, the slot taken. What is lost
in this way is kept in `lostCounts` and `lostSlots`, and `ResourcesConserved`
says that nothing else is lost, on any path. With all slots of a family gone its
requests wait for ever, so `RequestsFinish` is about runs in which every family
has a slot left.

`NoStartDuringOutage` speaks of pauses that were published before the request
took its permit, and of failures whose thread has freed its permit: these are
published when another request starts. A request that has passed its last look
may start while a failure is on its way whose thread still has its permit; the
code and its comment promise no more. `StartsAreSpaced` takes the interval that
was in force when the previous start was booked, which an observation may have
changed since. `SpentWindowBlocks` needs `WindowAssumption`: a window is shorter
than the cap on pauses (60 and 300 seconds).

### RequestRetry and GroupListing

`RequestRetry` is the loop of one request: waits, the attempt, and one action
for each kind of end (`Succeeds`, `Fails`, `Unauthorized`, `RateLimited`,
`ServerSide`, `ReadTimeout`), with the counters and limits of the code. Time
passes with `Tick`. `GroupListing` sends one such request per page and starts
the listing again with a smaller page size when the first page exhausts its
retries by read timeouts. The page sizes are computed as in the code, from a list
of divisors, and Okta may return fewer items than asked for.
`Listing` is the abstract promise: rows in order, each once, complete only with
all of them. `ListsEveryGroupOnce` states that `GroupListing` implements it,
`RetriesAreLimited` what the counters of a request may add up to.

### Telemetry

Workers add samples and flush when a flush is due, which is left open; so do
the flusher and, in `finish`, the main thread. The queue is bounded, the writer
takes records from it and writes them to a file of bounded size, of which a
part is reserved for the summary. `Fault` is an exception inside the recorder:
`ResilientTelemetryRecorder` turns it into a `finish` by the thread that met it,
so several threads may finish at once. Joins may time out. The process may end
once the collection has.

`late` records that the join of the flusher timed out: that a summary which
claims complete telemetry is true (part of `FileIsHonest`) holds only without
it, and the run `telemetry_loss` shows why. The file may exceed its
limit by one truncation notice, when a record arrives after the summary; the
property says so (`FileKeepsItsBounds`). The record that begins a run may be
evicted from a full queue to make room for the summary; then the summary says
that records were dropped.

### Applications

The listing yields applications one at a time, with the tenant id that the
resolver adds (`Arrive`). Each application that has arrived has a generator of
grants and one of assignments. The grants transformer is not parallelized: a
generator runs from one yield to the next, so its look at the breaker and its
first request are one step, and other generators' requests come between two
pages. `GrantsPage`, `GrantsDenied` and `GrantsFail` are the three kinds of
answers that the breaker tells apart.

An assignment may change at any time (`Update`), and Okta may list a group
again on a later page. `NewAssignment`, `DuplicateAssignment` and
`ConflictingAssignment` are the three branches of the code. What an assignment
says is a number, which stands for its SHA-256 fingerprint; the model assumes
that different evidence has different fingerprints. `Abort` may happen at any
time, since some exceptions are logged by the framework's wrapper and others
fail the run; `Publish` needs all generators to have ended without one.

### FactorClaims

The records that reach `user_factors` are users with roles of their own and the
members of groups, if the collection is limited, and all users otherwise. One
generator runs for each record, in parallel. `Claim` is atomic, under the lock of
`UserFactorClaims`. A generator reads all pages before it yields a row, and a
failure on any page ends it without rows (`FetchFails`). `Count` is the SQL of
`user_authentication_factors_count`. The group's statistics are taken to be up
to date: a group without users when it was listed has no members.

### Pipeline

An org is a record: users, groups and their members, apps, roles with their
targets, resource sets with their resources and bindings, secrets. It passes
through the versions of a history while the resources are collected. Every
request sees some version. The requests of a transformer for a record of its
parent see that of the parent's listing or a later one; nothing else relates two
requests, so the model takes the resources one after the other
(`CollectListing`, `CollectChildren`, `CollectAssignments`) and still has all
outcomes. `Partial` is an exception that OpenHound's wrapper logs: any subset of
the rows may be left. The scope of a role is a request of its own, whose failure
leaves the row without targets (`ScopedRow`). `Preprocess` is `transforms.py`,
`Convert` the edges of every row. A lookup in a table without rows raises, and
the rest of the row's edges is lost (`RowRaises`).

`RoleEdges` has one operator per generator of edges of the code, each with its
own filters on the holder's kind, the role's type, the scope and the permissions
of a custom role. `Lookup` resolves a resource by its URL or, without one, by
its ORN.

`Entitlements` says the same in Okta's terms, from facts of the org, without
tables, stages or URLs. An assignment and its scope are separate facts, because
Okta tells them separately, and so is that somebody is no administrator. Its
definitions are monotone in the facts, so that what
the facts of all versions together entitle to is an upper bound on a collection
that mixes versions (`OnlyWhatOktaGrants`), and what the facts that never change
entitle to is a lower one (`GrantsAreFound`). `AdminsAreNoTargets` and
`CustomRolesAreExplained` relate edges of one graph, whatever was lost. The
second covers the secrets of the applications that a resource set contains;
built-in roles read secrets with the same kind of edge, so it leaves out these
edges of holders that also have such a role. Where rows with which the code
recognizes an administrator are dropped by the wrapper, it cannot know;
`OnlyWhatOktaGrants` says so with `Guarding`. Nor can it where none of the groups
of a scope was collected, which is the finding of `pipeline_scopes`;
`ScopesAreSeen` leaves these graphs out.

What a member of a resource set means is part of the org (`ResourceNames`), its
URL and its ORN are the two names that the comments and the lookups of
`lookup.py` expect of it, and either may be missing.

### Federation

The same collection for applications, their users and group mappings, identity
providers and their users. Metadata that cannot be fetched is left out
(`CollectApplications`, `CollectIdentityProviders`), as is the name of a
mapping's target group; the profile of a user is trimmed of the skipped keys,
and the users of an application may be filtered.

A text is the sequence of those of its parts that matter: a URL that a template
makes equals the one that a setting states if the parts do. A value of a profile
is what it is exactly, folded, as a UUID, and whether it is an address. These
are the comparisons the code makes; how it trims, folds and parses is left to
the values of the instance. A setting of an application may be omitted, null,
empty or blank. These are four things: Miro's default route takes two nulls, the
resolver of GitHub falls back from an empty `githubOrg` and not from a blank one.

`SamlGraphIsWhole` is about all edges: their ends exist and their kinds are
declared. The others hold what the code derived against what the org says:
`RoutesAreProven` against every setting that could contradict a route, and a
route of the catalogue against the settings that it needs (`CatalogProves`);
`AssertionsAreHonest` against the whole profiles of the user and the assignment
in one version each; `RulesResolveAsOkta` against the account that Okta's policy
finds for each assertion. For that, all users with a login need an edge to their
value and one to the account, marked as linked exactly if Okta has linked them
(`AccountsAreThere`); the one exception are links that name no account
(`NamesNoAccount`), of which the code makes no edge (see the observations).

## What the runs check

| run | instance | shows |
|---|---|---|
| `bearer_auth` | 2 threads, 2 requests each, 2 tokens, clock to 4, lifetimes -2 and 4 | types, what fresh means, replaced and dropped tokens, the retry after a 401; every request finishes |
| `bearer_auth_keep` | the same, clock to 5 | a finding, below |
| `throttle` | 3 threads with 1 attempt each, 2 families of 2 slots, 2 permits, limit of 2 requests per window, outages | deadlines never retreat, spent windows block, starts are spaced and wait for pauses; permits are exact, slots and counters but for what the queue lost; nobody waits for ever |
| `request_retry_elapsed` | one request, 3 attempts, 6 units of time | a finding |
| `group_listing` | 5 groups, page sizes from 4 down, 3 attempts, 2 read timeouts | refinement, budget, sizes and counters, termination |
| `telemetry` | 1 worker, 3 samples, 2 intervals, queue of 2, file of 6 units | samples, bounds of the file, honest summaries; the collection returns, a summary arrives |
| `telemetry_loss` | 2 workers, 1 sample, 2 intervals, file of 4 units | a finding |
| `applications` | 4 applications, limit 2, 3 responses, 1 change, 1 repeat | breaker, assignments, publication, tenant ids |
| `factor_claims` | 3 users, 3 groups, 2 factors | claims, counts |
| `pipeline` | 90 histories of two versions, 1 failure | edges between declared kinds, targets, both bounds on the permissions, custom roles, resources |
| `pipeline_scopes` | a group created while the org is collected | a finding |
| `federation` | one history per matter, 1 failure | the SAML graph, routes, assertions, rules |

Deadlock is checked in every run. Where a system may really be at its end
(every request answered, the process or the conversion ended), the modules have
an explicit stuttering step for that state and for no other.

### The bounds

Two threads are enough for the races on the token: each property speaks of one
thread and what any other may have done in between, and there is one lock.
In `throttle` two threads ask one family and the third asks either one (`Asks`),
with two slots each and two permits: one thread queues for a slot while the
responses of the other two are observed in either order, or waits for a permit
with a slot of its own. Other choices are these with other names. Time passes
while somebody sleeps. The limit of two requests per window, of which another
client may take one, lets a window be spent and reset. A delay of zero publishes
nothing, nor do malformed headers, so the latter are left out.

The queue of two records and the file of a few units are the smallest in which
eviction, truncation and the reserve all happen. In `group_listing` the size 4
gives three page sizes and five groups two pages of the largest; to the code's
divisors 1, 2 and 4 the instance adds 8, so that one quotient is zero and must be
clamped. In `applications` the limit of two denials and three responses let the
breaker trip while a listing of a third application is under way. In
`factor_claims` one user comes from three records, one of them has no factors,
and one is in no admin group. The read timeouts are fewer than the attempts, as
in the client.

The orgs of `pipeline` have three users, two groups, two applications of one
type and an integration of it, and one role besides the one that a change may
add. An edge depends on one role, its scope and the tables; two versions give
every pair of tables that disagree, and one failure every table that has lost
rows. Every role type, scope and kind of resource is in some history. The orgs
of `federation` hold one matter each: all combinations of the settings that may
contradict each other, every shape of route of the catalogue, every kind of
claim, synchronization and policy, with changes where two requests may disagree.
The catalogue is that of the code in full.

Each bound is a constant marked BOUND or *bound* and stands in a guard. The
proofs do not depend on them: those constants are arbitrary numbers and sets
there.

### Fairness

`bearer_auth`: each thread runs on, and the token endpoint answers or its
request times out. `throttle`: weak fairness of the steps of every thread
and of the clock. A semaphore wakes some waiter, and weak fairness suffices
because attempts are finitely many. Exceptions are never required to occur.
`group_listing`: the loop goes on, pauses are slept.
`telemetry`: every thread runs while the process does and the collection
ends; the writer's failure, recorder faults and flushes that are due are never
required. `pipeline` and `federation` have no liveness: their steps are a fixed
sequence.

## Findings

- `bearer_auth_keep`: the repository's README says that the collector keeps
  using a valid token if a refresh fails. The code does so for transient
  failures only; a permanent one fails the request with the valid token unused.
- `request_retry_elapsed`: `utils/http.py` describes the time budget as one for
  a request that keeps receiving 429. It is measured from before the first
  wait, so a request that queued for long may be given up on its first 429.
- `telemetry_loss`: the README says that dropped records are explicit. When the
  join of the flusher times out, the interval it holds may reach nobody, and
  the summary claims to be complete.
- `pipeline_scopes`: the description of the help desk edge says that it stays
  within the assigned scope. If none of the groups of a scope was collected,
  `models/role_assignment.py` takes it for no scope, and the edges reach every
  user and group without a role. A group that is created between the listings of
  groups and of roles is enough.

Other observations, which the properties take as they are:

- `.agents/standards/openhound.md` wants every edge declared by the asset that
  makes it. `MANAGE_APP`, `RESET_FACTORS` and `RESET_PASSWORD` of custom roles,
  `READ_PASSWORD_UPDATES`, `USER_SYNC` between users of Okta, `PASSWORD_SYNC` to
  users of Active Directory, the inbound edges from nodes of Entra, `ORG_SWA` to an
  identity provider and `SWA` to a user of another Okta org, and `MEMBERSHIP_SYNC`
  from groups of Entra are not (`Undeclared` in `Pipeline`, `UndeclaredDefs` in
  `Federation`). The proofs found the last three, which no instance had reached.
- `directly_linked_saml_account_ids` (`lookup.py:144`) does not ask whether its
  table exists. In an org with a rule and without linked users it raises in the
  middle of the row, after the edge to the rule, and the service provider has no
  accounts.
- An exception while a thread is in the queue for a slot (`utils/http.py:219-224`,
  outside the `try`) leaves it counted in `_queued`, which is "Requests waiting for
  a concurrency slot", and may take the slot with it (`InterruptedInQueue`).
- A service provider gives a linked user the value edge and leaves the account
  edge to `IDPUser`, which makes none for an identity provider that is not active
  or a link without a value (`models/idp_user.py:115-123`). Such a user has a value
  and no account, while users who are not linked have both.
- Two rows of consumer services of one app may have the same index; their ids
  differ.
- A mapping of a skipped key of the profile yields no value and marks its field
  incomplete.
- A user whose row was lost has an unknown status and stays eligible.

## What is proved

The proofs hold for any number of threads, families, groups, applications and
users, any history of an org, and any limits that the named assumptions allow.
Most follow one argument: an inductive invariant with named parts, one lemma per
action or group of actions, and the theorems from it.

| module | theorems | the invariant, beyond types |
|---|---|---|
| `BearerAuth_proofs` | types, `FreshIsAccepted`, `CooldownNeedsToken`, the three action properties | who holds the mutex is the only one to have captured an entry; a grant is the newest token; Okta accepts a cached token as long as its issue time plus lifetime says; what a request carries was cached |
| `Throttle_proofs` | types, `ResourcesConserved`, `SpentWindowBlocks`, `NoStartDuringOutage`, `StartsAreSpaced`, the two action properties of the deadlines and windows | cardinalities of the sets of holders, with what was lost; windows end before the horizon of the clock; the last start and the interval of its booking end by the deadline; a pause that a thread has seen is not withdrawn, and the clock it starts by is past it (`OutageInv`) |
| `GroupListing_proofs` | of a request: types, `EveryFailureCounts`, `TransientsBounded`, `RetriesAreLimited`; of a listing: types, `BudgetSparesLaterPages`, `RestartsShrink`, `SmallestSizeIsTried`, the refinement of `Listing` | what each counter may be in each status; rows are a prefix, and nothing was yielded before the first page; a first page consumes the budget; the sizes are tried from the largest down |
| `Telemetry_proofs` | types, `SamplesConserved`, `FileKeepsItsBounds`, `FileIsHonest` | an open sample was not recorded before; the size of the file in each stage of its ending; an interval's record is in one hand, in the queue or in the file, once (`OnceInv`); when a complete summary is made, everything recorded is in the summary's total and the flusher is at its end (`SummaryInv`) |
| `Applications_proofs` | types, `OneRowPerAssignment` and all properties of the run | the count of denials is the length of the run that the trail ends with, and nothing is under way before the first grant; every row has its fingerprint and every fingerprint its row; an answer that is missing was not asked for |
| `FactorClaims_proofs` | types, `OnlyPrivilegedCovered` and both properties of the run | one fetcher per claimed user; a generator yields only when it has all pages; the table is what was yielded. `CountIsExact` gives the bijection between active factors and rows |
| `Pipeline_proofs` | all properties of the run | the rows of each table have ids of its kind; the tables of those without a role are exact when the conversion begins; `TellInv`: each row tells of something that held in a version (`SeenInv`), and what was collected without a loss is complete (`CompleteInv`), stage by stage (`StageInv`) |
| `Federation_proofs` | all properties of the run | `Inv`: the users are those of one version, the assignments those of versions behind their applications, with one row for each application; `WholeInv`: also, the ids in the rows are those of the org, each of its kind, an identity provider has one row, and a user is linked to a collected one, once |

Types alone are not inductive for any of these properties: for example
`TripNeedsARun` needs to know, before the breaker trips, that the denials
counted are the latest responses, and `NoDenialsInVain` that no listing which
passed the breaker earlier can still be denied.

`RetriesAreLimited`, `FileKeepsItsBounds`, `FileIsHonest`, `TripsOnTime`,
`FactorRowsAreWhole`, `PublicationsAdvance` and `CacheChangesForCause` are
conjunctions; the theorems on them combine those on their parts.
`CooldownNeedsToken`, `RestartsShrink` and `OnlyPrivilegedCovered` are proved
and in no run: the theorems settle them for all sizes.

### The graphs

One step makes all the edges of `Pipeline` and of `Federation`, so an invariant
can only say what the tables hold when it is taken; the rest of these proofs is
about the generators of edges.

- *Soundness and completeness* (`OnlyGrantsAreFound`, `LastingGrantsAreFound`).
  `SeenInv` turns the rows that a generator reads into facts of `Entitlements`,
  each of some version, and monotony puts the facts of different versions
  together. `CompleteInv` goes the other way: a fact of all versions is in the
  version that a request saw, hence in the table, hence in an edge. Both need
  that a URL or an ORN resolves to what it means (`ResourceNames`), which
  also gives `UrlsAndOrnsAgree`.
- *Kinds* (`GraphsAreWellFormed`, `GraphsAreWhole`). Each generator is shown to
  make edges whose ends are nodes of kinds that fit a definition. That a node is of
  no second kind follows from disjoint ids and from the tags that ids of SAML
  begin with. Lost rows do no harm: an end of SAML comes from the same row as the
  edge, or from one that `WholeInv` says is there.
- *One edge to an account* (`GraphsAreWhole`). Two edges between the same nodes
  come from one linked user, or from one rule and one user, and a rule skips those
  who are linked.
- *Routes* (`RoutesAreProvable`). The lists of endpoints, routes and rows are
  folded one element at a time, by recursive functions. The library's theorems on
  induction take an operator for the statement; these proofs take it as a set
  of numbers instead (`Least`, `Induct`, from the well-foundedness of the order),
  which gives that such a function exists (`RecursionExists`) and what holds of
  its values (`StepsStay`).
- *Evidence* (`EvidenceIsHonest`, `RulesFollowPolicies`). A value that an edge
  tells was computed from a trimmed or unknown profile; it is that of the whole
  profile or none, and in the second case its field is marked.
- *Accounts* (`RulesFollowPolicies`). A user with a login gets the value edge from
  the service provider. The account edge is from there too, or from the row of the
  link, which by `WholeInv` is one of a collected identity provider and of the same
  user.

### What they assume

Each assumption is named in the module of the constants it is about, and TLC
evaluates it in the module's runs.

- `LatencyAssumption` (`BearerAuth`) and `WindowAssumption` (`Throttle`), see
  above.
- `IdsAssumption` in `Pipeline` and in `Federation`: ids of things of different
  kinds never coincide, except that a client has the id of its application. It
  is necessary: the code compares ids of nodes, and a device with the id of a user
  would be a target under his name.
- `RolesAssumption`: a holder's assignments have different ids, and only service
  clients have some; they are finitely many, since edges count them.
- `OrgsAssumption`: an org refers to what it has, and ids are unique within a
  listing. In `Pipeline` some group always has a member, as Okta's group Everyone
  does; otherwise a lookup of members would raise. In `Federation` a user is
  linked to an identity provider once, the users of an application are users of
  the org, and the indexes of endpoints are integers.
- `NamesAssumption`: Okta names the members of a resource set in one of the
  forms of `ResourceNames`.
- `CatalogAssumption`: the fields of a profile of the catalogue are those that
  its templates use.
- `BoundAssumption`: the number of failures is bounded by a number, whichever.

The others only say that the constants are of their types and the limits not
empty, and keep the values that stand for nothing apart from the rest.

### What is only model-checked

Liveness (`RequestsFinish` of both modules, `ListingEnds`, `CollectionReturns`,
`SummaryArrives`), which rests on fairness and ENABLED and is out of this
prover's reach. The four findings are traces of TLC.

## What is not modelled

Inside the modelled components:

- `Throttle`: `EndpointThrottle.wait()`, which nothing calls, and the
  attribution of waits to reasons, which only the telemetry reads.
- `RequestRetry`: a failure of the token endpoint that surfaces as the
  request's own exception; the model takes it for one of the kinds of failure
  that it has.
- `GroupListing`: the branch for a paginator without pages, which dlt's
  paginator does not take.
- `Telemetry`: what the measurements compute, and an unsafe output path, for
  which no thread is started.
- `FactorClaims` and `Applications`: which exceptions the framework's wrapper
  swallows; both outcomes are allowed everywhere.
- `Pipeline`: resources that no role edge reads (grants, tokens, realms, agents,
  mappings of policies), built-in permissions, and the properties of nodes.
- `SamlTrust`: the two templates with the qualifier of a subject, which choose a
  value as the others do.
- `HybridAuth`: the Kerberos edge, which is disabled in the code.
- `Federation`: rows of keys (JWKS), one request each, and properties of nodes
  that nothing compares. Metadata is that of the version of the listing or is
  not there.
- `Lookup`, `FederationEdges`: the caches of the lookups, over tables that no
  longer change.

Not modelled: endpoint routing, a table of nine patterns of which the first
match counts; credentials, which are validation of strings and cryptography; the
conversion of single records to nodes, the registration with
the framework, container files and developer tools. They keep no state, and what
they do does not depend on an order of steps.

## Plan

Built so far: the request path, telemetry and the collections with state of
their own; roles and federation from the org to the edges; and the proofs of all
safety properties that the runs check. What follows, in order:

1. *Abstract specifications*: a shared token that is replaced only by newer
   ones, implemented by `BearerAuth`; a counting semaphore with deadlines,
   implemented by `Throttle`.
2. *Endpoint routing* in `Throttle`: a request has a path, and its family is the
   first pattern that matches.

The project keeps to a dozen runs and some forty properties, so that each can be
read and each has a mutant. What is added replaces something weaker.
