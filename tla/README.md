# FIRM Protocol in TLA+

Specifications of the core of the FIRM Protocol (`src/src/firm`), the TLC
configurations that check them on small instances, and proofs that TLAPS
checks for all instances.  Paths below are relative to `src/src/firm` unless
they start with `src/`.

A FIRM is an organisation of agents.  Each agent has an *authority* in [0, 1]
that rises with success and falls with failure, and a number of credits.
What the agents may do depends on their authority; what they do is entered in
a hash-chained ledger; they change the organisation by voting.

## 1. Inventory

`runtime.Firm` is the one object that owns all the others and calls them in
turn; there are no messages and no queues between components.  Calls come from
a program, from the command line (`cli.py`) or from the HTTP endpoints of
`api/app.py`, which FastAPI runs in a pool of threads over one `Firm` without
a lock.

| component | state | operations | properties that make it correct |
|---|---|---|---|
| agents, authority, Constitutional Agent, human override (`core/agent.py`, `authority.py`, `constitution.py`, `human.py`) | authority, status and credits of each agent, kill switch | join, record an action, decay, suspend, reactivate, bootstrap, overrides | authority is earned; the organisation gets out of a deadlock; a suspension holds; probation is on record |
| governance (`core/governance.py`) | proposals, their review, votes, veto, cooldown | propose, three rounds of review, open, vote, finalize, cooldown, rollback, veto, futarchy | one vote per agent; nothing adopted without review, majority and cooldown; decided stays decided |
| ledger (`core/ledger.py`) | entries, balances | append, verify_chain | one unbroken chain; balances add up |
| market (`core/market.py`) | tasks, bids, settlements, commons pool | post, bid, withdraw, accept, cancel, expire, complete, fail, dispute | one contract and one settlement per task; credits conserved; a settlement finds the credits it takes |
| evolution (`core/evolution.py`) | operating parameters, proposals, last change of each category | propose, vote, finalize, apply, rollback | hard bounds, supermajority, rate limit, faithful rollback |
| prediction (`core/prediction.py`) | markets, positions, calibration | create, predict, close, resolve, cancel | nothing is charged or paid twice; voided stakes come back; good forecasts earn a bonus |
| spawn (`core/spawn.py`) | events; it creates and terminates agents | spawn, merge, split, recommendations | credits and authority are not multiplied |
| meta-constitution (`core/meta.py`) | amendments, the list of invariants | propose, review, vote, finalize, apply | the two founding invariants are never removed |
| roles (`core/roles.py`) | definitions, assignments | define, assign, revoke, transfer, expire | assignments agree with the roles the agents hold; capacity |
| federation, reputation (`core/federation.py`, `reputation.py`) | peers and trust, secondments, attestations | register, suspend, revoke, send, second, recall, attest, import, decay | a revoked peer gets nothing more; imported authority is capped |
| memory (`core/memory.py`) | memories, tag index, conflicts | contribute, reinforce, challenge, decay, resolve | the index leads to what there is and to nothing else |
| events, plugins (`core/events.py`, `plugins.py`) | subscriptions, active plugins | emit, activate, deactivate | a failing handler does not disturb the caller |
| serialization and command line (`core/serialization.py`, `cli.py`) | a file per organisation; a process has one in memory | save, load, the handlers, the repl | what was reported as saved is there after any crash that leaves a file that loads |
| task execution (`llm/agent.py`, `executor.py`, `tools.py`) | the call each thread is in, tokens and cost so far | execute_task, cancel | no call goes past its budget by more than an answer; the kill switch ends them all |
| bug bounty (`bounty/campaign.py`, `dedup.py`, `triage.py`, `vulnerability.py`) | findings in a database, fingerprints seen in this session | add, triage, submit, feedback | no finding is taken in, or stored, twice |
| HTTP API (`api/`), audit (`core/audit.py`), LLM providers | none | adapters, reports, outside calls | |

The behaviours that are hard to test here are the interleaving of calls in the
thread pool (ledger, ballots), state that is read at one time and used at a
later one (eligible voters, credits behind a bounty, old parameter values),
long sequences of legal calls (overrides, bootstraps, futarchy after
rollback, amendments checked against one constitution and applied to another),
methods that write several components and may stop half way, processes that
crash while they write a file, and calls that go on after the kill switch.
`PROJECT.json` lists them under `hazards`, each at its line.

## 2. Modules

| module | models | state and actions |
|---|---|---|
| `Agents` | agents, authority engine, Constitutional Agent, human override of agents | `authority`, `status`, `killSwitch` are the fields of the same name, `logged` the ledger entries of the latest call.  One action per method; `RecordAction` is all of `Firm.record_action`: authority, ledger, probation and the health check with its bootstrap |
| `Decision` | nothing in the code: what governance promises of a proposal | phases of a proposal, a ballot with one choice per voter, a delay |
| `Governance` | `core/governance.py`, the governance methods of `Firm`, `force_approve/reject_proposal` | extends `Agents`: every step of the agents may fall between two steps of a proposal |
| `Ledger` | `core/ledger.py` | `append` of each thread in four steps, cut where another thread can see the difference |
| `Market` | `core/market.py` and the market methods of `Firm` | tasks, bids, settlements, commons pool, the agents' credits and the balances the ledger books; `Outcome` stands for what the rest of the organisation does to an agent, booked or not, and `drift` adds up what it leaves unbooked |
| `Evolution` | `core/evolution.py` and the evolution methods of `Firm` | parameters, proposals, votes, last change per category; `before` and `stale` are auxiliary and only the rollback properties read them |
| `Members` | the agents as the institutions see them (`Firm._agents`) | authority, status, credits, roles; the steps by which others move them |
| `Prediction` | `core/prediction.py`, the prediction methods of `Firm` | markets, positions, calibration, what the ledger books; settlement with its effect on authority is one action |
| `Lifecycle` | `core/spawn.py`, spawn, merge and split of `Firm` | agents come from agents; credits, authority and the counts of actions |
| `Roles` | `core/roles.py`, role methods of `Firm` and of the human override | definitions and the list of assignments against the roles agents hold |
| `Amendments` | `core/meta.py`, amendment methods of `Firm` | the list of invariants with their keywords, amendments and votes |
| `Federation` | `core/federation.py` | peers with their trust, messages, secondments |
| `Reputation` | `core/reputation.py` | own attestations, imports and their decay |
| `Memory` | `core/memory.py` | entries, tag index, conflicts |
| `Institutions` | composes the seven above over one set of agents | `focus` says which of them a behaviour is about |
| `Execution` | `llm/agent.py`, `llm/executor.py`, `ToolKit.execute` | one `execute_task` per thread, cut where it waits for the model, for tools and before it reports |
| `Persistence` | `core/serialization.py`, loading, saving and the repl of `cli.py` | files, and processes that load, work, write and crash |
| `Bounty` | the life of a finding in `bounty/` | rows of the database, fingerprints of the session, findings of the campaign, and which objects were read back from the database |
| `Operations` | composes the three above and `Ledger`, which share no state | `focus` as in `Institutions` |
| `MC*` | | values and symmetry for TLC |
| `SumTheorems` | nothing in the code: sums over finite sets | lemmas that the proofs about credits, balances, weights and imports cite |
| `*Proofs` | | theorems of the module they extend; `GovernanceProofs` has those of `Agents` too, `AccountsProofs` those of the institutions that are about sums, `InstitutionsProofs` the others |

A call that raises, or that `record_action` answers with `blocked`, is no step
unless it has changed something before it raised.  Numbers are scaled to
integers: in the core authority is counted in units of `1/MaxAuthority` and
credits of the market in `1/(2*FeeScale)` of a unit, so that every threshold,
fee and half fee is exact; in the institutions and the programs around them
authority is in hundredths.  Texts, timestamps other than deadlines and
cooldowns, statistics and log messages are left out.

### Abstractions to know of

* `Ledger` takes the hash of an entry to be its identifier: identifiers are
  fresh, the hash covers the identifier (`LedgerEntry.compute_hash`), and no
  operation edits an entry.  The hash does not cover `metadata`.
* `Governance`, `Market` and `Evolution` take each call of `Firm` as one step.
  `Ledger` and `Execution` cut a call at its thread switches.  Votes are not
  cut (hazard `core/governance.py:180`): two calls that both find that an agent
  has not voted break one vote per agent just as two that read one last hash
  break the chain.
* A change list of an evolution is a function on parameters.  A list that
  names a parameter twice has the effect of its last entry.
* The keyword test of a proposal against the invariants is a refusal before
  anything exists; which words it finds is not modelled.
* `AuthorityEngine.set_authority` and `should_terminate` have no caller and
  are not modelled.
* The institutions do not call each other: one reaches another only through the
  authority, status, credits and roles of agents.  What may happen to these
  between two calls is therefore a step of each institution
  (`Members!AuthorityMoves`, `StatusMoves`, `Roles!GrantRole`), wider than what
  any of the others does.  So one behaviour of `Institutions` moves only the
  institution in `focus`, and the state space is a sum, not a product.  In
  `Prediction` and `Lifecycle`, whose properties account for all credits and
  authority, nothing else moves them.
* A settled prediction moves authority too (`runtime.py:726`).  That is part of
  `Prediction!Resolve` and no action of `Agents`: `EarnedAuthority` and
  `HealthyAfterAction` speak of the agents' own actions and overrides.
* `Market!Outcome` takes its triples (change of credits, what is booked of it,
  new authority) from a constant: booked in full (`record_action`, `predict`),
  not at all (`resolve_prediction`, spawn, merge, split, and `set_credits`,
  which books the change to the human), or booked and not charged (`propose`).
* `Bounty` takes any reaction of the platform at any time, to any finding, and
  any finding may be submitted: `submit_finding` and `process_feedback` look at
  no status and compare with nothing.
* Only values that a guard or a property tells apart are kept: trust is none,
  too little to lend an agent, or enough; a memory is faint or not; a text is
  the set of keywords in it; an organisation is the set of its facts.
* Price, calibration and authority in `Prediction` are integers, divided with
  the rounding that the header of the module states.
* A file being written is `Torn`.  Two processes that write one file at once
  leave it torn or as the later one wrote it; bytes of both are not modelled.
* `complete_cooldown`, `rollback`, `veto`, `resolve_futarchy` and the explicit
  `open_voting` are public and tested, but nothing in `Firm` calls them.  They
  are actions here.

## 3. Runs

| run | instance | result |
|---|---|---|
| `agents` | 3 agents, scale 20, bootstrap of the top 2 | passes, 575 thousand states |
| `governance` | 2 agents, 1 proposal, scale 3, cooldown 1, time 0..1 | passes, about 400 thousand states |
| `governance_veto` | the same | `VetoStands` is violated |
| `governance_quorum` | the same | `QuorumOfEligible` is violated |
| `ledger_fork` | 3 threads, 2 agents, 4 entries, deltas -1 and 2 | `ChainAlwaysValid` is violated |
| `market` | 3 agents, 2 tasks, 2 bids, fee 1/2 | passes, 2.8 million states |
| `market_escrow` | the same without outcomes from elsewhere | `Escrowed` is violated |
| `evolution` | 2 agents, 2 proposals, 3 parameters in 2 categories, time 0..1 | passes, 1.8 million states |
| `evolution_rollback` | the same | `RollbackRestores` is violated |
| `institutions` | 4 agents (2 founders), 2 of every identifier, 1 role | passes, about 450 thousand states |
| `institutions_bonus` | the same | `BonusEarned` is violated |
| `operations` | 3 threads, 2 agents and 3 entries; 2 calls; 2 processes and 2 files; 3 findings | passes, 1.4 million states |

**agents.**  `EarnedAuthority`: authority rises by one's own success, by the
human, or by a bootstrap of an organisation whose active agents were all at or
near probation.  `HealthyAfterAction`: the health check that ends an action
leaves some active agent above probation.  `NoSilentReturn`: only the human
makes a suspended or terminated agent active.  `ProbationLedgered`: probation
and its entry go together, also when the bootstrap of the same call lifts it.
Three agents and a bootstrap of two leave a candidate that is not lifted; the
scale of 20 has all thresholds of the code on it.  The rates are larger than
the code's defaults (both are parameters of `Firm`), so that few actions cross
a threshold.

**governance.**  `BallotIntegrity`, `CooldownEarned` and `AdoptionEarned` say
that what is adopted went through the review, a ballot of one vote per agent,
a majority of the weight and a full cooldown, unless the human forces it.
`ImplementsDecision` is the refinement of `Decision`: choices are never
changed or withdrawn, a decided proposal is reopened by the human or a market
only, a carried one has a supporter.  Proposals do not read each other, so one
is enough; two agents of changing authority give unanimity, ties, and votes by
agents that are no longer eligible.  `logged` is no part of the fingerprint
(`VIEW NoLog`): no guard reads it, and only action properties do.

**market.**  `OneContract`, `SettledOnce`, `Conserved`; and `LedgerGap`, which
states the market's own share in the difference between the ledger's balance
of an agent and its credits: all the agent has paid for tasks, since
`settle_task` books what the worker gets and not what the poster pays.  What
the rest of the organisation leaves unbooked is added up in `drift`, so that
the share is exact whatever others book or do not book.  Two tasks let an agent
be poster of one and worker of the other, two bids let them compete, and three
agents are needed for competing bidders.  Of the outcomes one is a booked loss,
one a booked gain and one a gain that is not booked; `OutcomeBound` and
`DriftBound` let each happen once before it has to be made up for.  In
`market_escrow` nothing else happens to the agents and the identifiers run out:
`CHECK_DEADLOCK FALSE`.

**evolution.**  `SafetyRails` (bounds), `Supermajority`, `RateLimited` and
`FreshRollback`: a rollback restores what its evolution replaced, wherever no
other evolution or rollback wrote since the proposal, and elsewhere the value
read at the proposal.  The parameters let two proposals meet in a parameter,
in a category only, or not at all; authority 3 against 1 is exactly the
supermajority.

**institutions.**  What each keeps right, whatever calls are refused, repeated
or fail half way:

* `StakesAccounted`: no sequence of closing, resolving and cancelling charges
  or pays an agent anything twice.  Each stake is charged once, a resolution
  pays once, at the price the positions make, and beyond that no more comes
  back than the stakes of cancelled markets.  The ledger's balance is at least
  what the stakes take from it, and above that by no more than the income.  It
  leaves open whether voided stakes are refunded, and payouts booked; the code
  does neither (section 5).  Two markets let an agent win one and lose the other; the stake of half the
  endowment lets it run out.
* `BonusEarned` (`institutions_bonus`): an agent that always took the right side
  and named the outcome within a tenth has a calibration that earns a bonus.
* `BirthsCreateNothing`: spawn, merge and split of active agents conserve their
  credits and no newcomer has more authority than some agent before it; a
  merge that takes an agent terminated before counts its credits again.  Two
  newcomers allow what is needed for that, a spawn or a merge and then a merge
  of what it left.
* `RolesAssigned`: list of assignments and roles of agents agree where only the
  engine touched them, also after a transfer that revoked and was then refused.
  Of the two role definitions one has room for one holder, the other is
  critical.
* `FoundationsStand`: INV-1 and INV-2 with all their keywords are always in
  force.  `KeywordsStay`: until an invariant as a whole is removed, none loses
  a keyword.  Two amendments are needed so that one is proposed against a
  constitution that the other changes before it is applied.
* `RevokedForGood`: a revoked peer hosts no agent and gets no message although
  the trust in it may grow again.  Two secondments, one of them overdue when
  its peer is revoked.
* `ImportCap`: imports and decays in any order never add up to more than the
  boost.  Two attestations, each of which uses up part of the boost, and two
  steps of decay (the code takes 20) put an import before, between and after
  decays.
* `IndexAgrees`: the tag index agrees with the entries under collection and
  conflicts.  Two entries and two tags let them share none, one or all.

Founders, newcomers and the identifiers are symmetric; no liveness is checked
in this run.  Identifiers run out, so the system may stop:
`CHECK_DEADLOCK FALSE`.

**operations.**

* `Rooted`, `ForkIsSeen`: under every interleaving of `append`, entries are
  built on earlier ones, and `verify_chain` fails exactly on a fork.  As long as
  calls do not overlap (`alone`), the chain verifies (`SerialChain`) and the
  balances are what the entries add up to (`SerialBalances`).  Three entries
  allow a fork with an entry between its branches; `ledger_fork` takes four,
  with symmetry, so that there are entries on either side of it.  Identifiers
  run out, so the ledger stops.
* `BudgetKept`: a call is at most one answer over its budgets, which its
  authority set when it began and which no override changes.  An answer of no
  tokens (a provider that reports no usage) is one of the responses, so that
  the bound of iterations, too, is what ends a loop.  With the rate of the run
  the cost budget always binds before the token budget; the token half of the
  property rests on the theorem, which covers all rates.
* `KillHalts` (liveness): once the kill switch stays on, every call comes to
  its end.  A call does not look at the switch while it runs; it ends because
  of its budgets, and what it reports then is blocked.
* `ReportedStays`: a file that loads has all agents, roles and memories that a
  command reported as saved, as long as two processes did not use it at once.
  Proposals and assignments are lost by every save (section 5).  Two processes
  and two files let a repl save one organisation elsewhere, and crash in the
  middle, while another process reads; the one fact is a suspended agent, which
  a save that kept only active agents would lose.
* `FoundOnce`: campaigns take in no two findings of one weakness in one asset,
  over sessions that forget the fingerprints, writes that the database refuses,
  and submissions and feedback in between, unless more rows match than the
  comparison asks for.  The code asks for 500 (`bounty/dedup.py:50`), the run
  for 1, so that the limit does get in the way.  Of the three findings two are
  the same weakness in one asset, at two places, and the third is another one
  in an asset whose name contains the first's, so that the search answers with
  the third.

No symmetry is used, since liveness is checked.  Sessions may be over too:
`CHECK_DEADLOCK FALSE`.

### Fairness

`ExecutionFairness` is the only fairness assumed: weak fairness of `Proceed(c)`
for every call, which is, a thread that is in `execute_task` goes on.  The code
justifies it: the operating system schedules each thread; a model that does not
answer is given up by the time limit of the HTTP client (`llm/providers.py:783`
and `:872`, and the defaults of the vendors' libraries elsewhere); tools have
limits of their own (`llm/tools.py`, 30 s for a command, 120 s at most, and
15 s for HTTP).  No fairness makes anybody start a task, cancel one, or turn
the switch.

In the core every action waits for a caller, and nothing in the code schedules
one: a proposal may stay in its cooldown for ever because nobody calls
`complete_cooldown`.  There no liveness is stated and no fairness assumed.

### What the violations show

* `governance_veto`: a proposal is carried, vetoed during its cooldown, and
  approved when the cooldown ends.
* `governance_quorum`: the votes of agents that are not active, or no longer
  have the authority, count towards 60% of those that are.
* `ledger_fork`: two threads read the same last hash.
* `market_escrow`: an agent with the credits for one bounty posts two tasks;
  the second settlement makes its credits negative.
* `institutions_bonus`: an agent with the belief of 5% takes the side "no", the
  market resolves to no, and the calibration falls from 10000 to 9997 of 10000:
  it starts at its best and is averaged with scores of at most 1.  The bonus,
  "positive if well-calibrated" (`runtime.py:724`), is the difference; a
  negative one is raised to 0 (`core/authority.py:122`), and within 0.001 of
  perfect calibration authority is not updated at all.
* `evolution_rollback`: two proposals change one parameter; both are applied,
  the later one is rolled back, and the parameter gets the value from before
  the first.

### Faulty variants

Each property of a passing run fails when one definition is replaced by the
variant that stands before it, named after it and a fault.

| definition and fault | property it breaks |
|---|---|
| `Agents!Clamp_NoFloor`: authority may go below 0 | `AgentsTypeOK`, `TypeOK` |
| `Agents!NeedsBootstrap_NoVoters`: bootstrap as soon as nobody can vote | `EarnedAuthority` |
| `Agents!NeedsBootstrap_SomeActive`: no bootstrap without an active agent | `HealthyAfterAction` |
| `Agents!Candidates_WithSuspended`: suspended agents are boosted too | `NoSilentReturn` |
| `Agents!OnProbation_Sweep`: probation of everybody below the threshold | `ProbationLedgered` |
| `Governance!CastVote_Recast`: no test for an earlier vote | `BallotIntegrity` |
| `Governance!OpenVoting_Early`: ballot before the review is over | `CooldownEarned` |
| `Governance!CooldownOver_Started`: cooldown of no length | `AdoptionEarned` |
| `Governance!MajorityApproves_AllAbstain`: abstentions alone carry | `ImplementsDecision` |
| `Ledger!LastHash_Unsealed`: chaining to an entry before it has a hash | `LedgerTypeOK` |
| `Ledger!Push_Insert`: newest entry first | `Rooted` |
| `Ledger!Link_Any`: any earlier entry will do | `ForkIsSeen` |
| `Ledger!LastHash_First`: chaining to the first entry | `SerialChain` |
| `Ledger!WriteBalance_Replace`: the delta replaces the balance | `SerialBalances` |
| `Market!BidRange_Free`: bids of nothing | `MarketTypeOK` |
| `Market!RejectBids_None`: losing bids stay pending | `OneContract` |
| `Market!Closed_Not`: a settled task stays assigned | `SettledOnce` |
| `Market!Transfer_FeeFree`: the fee reaches the commons and nobody pays it | `Conserved` |
| `Market!Booked_Poster`: the ledger credits the poster | `LedgerGap` |
| `Evolution!Write_Replace`: the store is replaced, not updated | `EvolutionTypeOK` |
| `Evolution!WithinBounds_Upper`: no lower bound | `SafetyRails` |
| `Evolution!Supported_Simple`: half instead of three quarters | `Supermajority` |
| `Evolution!CooledDown_Any`: one cooled-down category is enough | `RateLimited` |
| `Evolution!Restored_Newest`: rollback writes the new values | `FreshRollback` |
| `Lifecycle!MergedAuthority_Sum`: authorities are added | `InstitutionsTypeOK` |
| `Prediction!Resolvable_Again`: a resolved market is resolved again | `StakesAccounted` |
| `Lifecycle!Spent_Not`: the parent keeps the credits it gives | `BirthsCreateNothing` |
| `Roles!Unassigned_Everyone`: a revocation clears all holders of the role | `RolesAssigned` |
| `Amendments!ImmutableIds_One`: only INV-1 is protected | `FoundationsStand` |
| `Amendments!ReviewText_Additions`: the review reads only what is added | `KeywordsStay` |
| `Federation!Recalled_RunningOnly`: overdue secondments are not recalled | `RevokedForGood` |
| `Reputation!Effective_Unspent`: earlier imports do not count | `ImportCap` |
| `Memory!Unindexed_First`: only one tag of a removed entry is cleared | `IndexAgrees` |
| `Bounty!Evaluated_Decision`: the decision is stored as the status | `OperationsTypeOK` |
| `Execution!Exceeded_TokensOnly`: the cost budget is not tested | `BudgetKept` |
| `Execution!Advanced_Not`: iterations are not counted | `KillHalts` |
| `Persistence!Extracted_ActiveOnly`: only active agents are saved | `ReportedStays` |
| `Bounty!Duplicate_SeenOnly`: comparison with this session's findings only | `FoundOnce` |

## 4. Proofs

All theorems hold for any finite or infinite sets of proposals, tasks, bids,
threads, markets and parameters that satisfy the named assumption of the
module, and for any values of thresholds and rates within those assumptions.
Two sets are assumed finite: `Agents` in the core, where cardinalities of
agents are taken, and `Founders` in the institutions.  Agents are objects in a
dictionary, so both are; in the institutions no more is needed, since every
other agent, position or import gets there by a call, and what has got there
by calls is finite (`FinitelyHeld`, `Members`, `Imported` below).

### Sums

What an agent has paid, staked, been paid or imported is a sum over a set, and
`SumFunctionOnSet` of the community modules is a recursive function on the
subsets of a set.  Induction theorems take a predicate as a parameter, which
the provers do not instantiate; `SumTheorems` gets by without one.  Strict
inclusion is well founded on the subsets of a finite set, so among the subsets
for which a claim fails, taken as a *set*, there would be a least one
(`LeastSubset`, `SubsetsByElements`).  Thus the recursion has one solution
(`SolutionsAgree`, `SolutionSolves`), the choice of the element that is taken
out first does not matter (`SumRemoveElement`), and from there: the sum of
integers is one, a sum over one more element is greater by that element, a
change in one place changes the sum by as much, and sums are monotone.

### The arguments

* `GovernanceProofs`, first part: `AgentsTypeOK`, `HealthyAfterAction`,
  `NoSilentReturn`, `EarnedAuthority`, `ProbationLedgered` of `Agents`.  Type
  correctness is inductive and enough for the four step properties.
  `HealthyAfterAction` needs that a bootstrap finds a candidate: the agent that
  acted is active or in probation when the check runs, the candidates are
  finite, so the top of them exists and is not empty.
* `GovernanceProofs`, second part: `BallotIntegrity` and `CooldownEarned` are
  not inductive alone.  A ballot needs to know that its proposal went through
  all rounds: `ReviewRecorded` ties the recorded results to the status.  `IInv`
  is their conjunction with the type; `AdoptionEarned` and the refinement
  (`ImplementsDecision`) follow from it.  For the refinement each step maps to
  a step of `Decision` or to a stutter; that a carried proposal has a supporter
  uses that a sum over no votes is 0.
* `LedgerProofs`, of `LedgerSpec`, which is `Operations` with the ledger in
  focus: identifiers name one entry (`IdsOnce`), and while calls do
  not overlap at most one thread is inside `append` and the entry it sealed is
  built on the last one (`SerialCalls`).  With these `Rooted`, `ForkIsSeen`
  and `SerialChain` are inductive together.  `SerialBalances` is inductive with
  `SerialReads`: the balance that a thread has read, and will write back with
  the delta added, is still the agent's.  The property allows for the call
  under way: its entry adds the delta both to the sum and to what is still to
  be written, and the write moves it from there to the balance.
* `MarketProofs`: `BidsKnowTasks`, `OneBidEach` and `TasksKnowBids` say what
  tasks and bids know of each other; with `SettledOnce` they are inductive,
  and `OneContract` and `Conserved` follow.  `LedgerGap` is inductive with
  them: a settlement adds one term to the sum of what its poster paid and none
  to the others', and the credits move by as much because poster and worker
  are two agents, which `BidsKnowTasks` says.  Nothing is assumed of what
  outcomes book: what they leave unbooked is in `drift`.
* `EvolutionProofs`: `SafetyRails` is inductive.  `RateLimited` needs that a
  category remembers a change at least as late as any evolution that touched
  it (`Remembered`); `FreshRollback` that the old values of a proposal nobody
  interfered with are the current parameters until it is applied and `before`
  from then on (`Fresh`); `Supermajority` that the weight cast is that of
  distinct voters (`Weighed`) and survives the verdict (`Carried`).
* `OperationsProofs`: type correctness, `BudgetKept`, `FoundOnce` and
  `ReportedStays`, of `Operations`.  `BudgetKept` is inductive with the fact
  that a call which asks the model is within its budgets (`ExecutionInv`);
  `FoundOnce` with `kept` being stored and the rows being finite (`BountyInv`):
  a finding that is no duplicate has no stored twin unless the search left rows
  out (`NotFound`), and then there are too many for good, since rows only
  become more (`MatchingGrows`).  `ReportedStays` needs that
  two processes that use one file have made it shared (`Alone`) and that a
  process knows what was reported of the file it came from (`Knows`), from
  which a save writes a superset of what the file had.
* `AccountsProofs`, prediction: a payout is a number only if the price it is
  divided by is within 1..99, which is a fact about sums over the holders of
  the market (`PriceBounds`).  So the types are inductive only with
  `FinitelyHeld`: a market has finitely many holders and an agent finitely many
  positions.  `StakesAccounted` follows from an equation that is inductive with
  these (`Accounted`): an agent's credits are its endowment, less its stakes,
  plus what resolutions paid, and the ledger has booked the stakes.  A
  prediction moves one stake from the credits into a position, a resolution
  adds to each holder the one payout that the market records, and the other
  steps change no term of an agent's sum (`SameTerms`).
* `AccountsProofs`, reputation: `ImportCap` is inductive with the type and
  with `Imported` being finite.  An import counts for no more than the earlier
  ones, at the weights they have come to, leave of the boost, rounded down; and
  since a decay lowers terms and raises none, it does not raise the sum.
* `AccountsProofs`, lifecycle: no birth or merger leads out of the types;
  `Members`, the agents there are, is finite (`LifecycleInv`); what a spawn, a
  split, or a merge of active agents takes from one agent's credits it gives
  to another's, so the sum over the active agents stays.
* `InstitutionsProofs`: `RevokedForGood`, from no secondment being left at a
  revoked peer (`FederationInv`); `IndexAgrees`, inductive with the types
  (`MemoryInv`); `RolesAssigned`, from the three parts of `Match` for each
  agent and role: an assignment is held, what is held is assigned, and only
  once (the cardinality in the property follows at the end).
  `FoundationsStand` needs that an amendment still open does not aim to take
  anything from an immutable invariant (`Lawful`): the test at the proposal is
  enough, since the list of immutable identifiers never changes.
  `KeywordsStay` needs that, as long as nothing was removed, an amendment to
  remove keywords names one in force and so cannot get past the review
  (`Vetoable`): constitutions only grow until then.
* `InstitutionsProofs`, all together: `SoundInv` is the conjunction of what
  each institution's types rest on, and `InstitutionsTypeOK` follows from it.
  An institution's variables change only by its own steps, the agents' by
  those of any of them, and each of these keeps the agents' types.  With it,
  `BirthsCreateNothing` follows for every step.

All invariants and action properties that the passing runs check are proved,
and so is the refinement.  Only model-checked: `KillHalts`, because liveness
under fairness, and the ENABLED in it, are out of reach of the provers at hand.
The violations are what TLC finds; that a property fails on an instance needs
no proof.

## 5. Differences between documents and code met on the way

Those with a run are in section 3.  The others:

* `src/docs/spec-v0.1.md:297` and `:303` ask for more than 50% of the weight;
  the code accepts exactly half (`core/governance.py:213`), so a tie passes.
* The specification has the kill switch block all governance actions
  (`src/docs/spec-v0.1.md:250`); only `record_action` and the LLM executor
  look at it.
* Termination is permanent in the specification (`:113`) and automatic at
  0.05 (`:111`); nothing calls `should_terminate`, and `suspend` followed by
  `reactivate` and a bootstrap brings a terminated agent back.
* A bootstrap is documented to raise authority (`core/constitution.py:293`);
  it sets it to 0.65, which lowers an agent in probation that has more.
* The specification checks the invariants again before finalization (`:309`);
  nobody calls `veto`.
* `accept_bid` is documented for the poster only (`runtime.py:1247`) and has
  no caller to check; neither it nor `place_bid` looks at the deadline.
* The balances of the ledger (`core/ledger.py:242`, "the current credit
  balance") are not the agents' credits.  Beside what a poster pays
  (`LedgerGap`; `runtime.py:1279`), the ledger does not have the credits a
  member joins with, the payouts of predictions (`runtime.py:720`), nor what
  spawn, merge and split move (`:508`-`:586`); `set_credits` books to the human
  (`core/human.py:340`); a proposal is booked with -5 that the agent is not
  charged (`runtime.py:338`).
* `resolve_futarchy` ignores the veto as `complete_cooldown` does: a vetoed
  proposal that a market decides is adopted (`core/governance.py:420`).
* `apply_evolution` finalizes first: when the rate limit then raises, the
  proposal stays approved and `Firm` has no method left to apply it.
* The rate limit is documented as one change per category and cooldown; one
  proposal may change several parameters of a category.
* Evolved parameters are stored and reported, and no engine reads them.
* `llm/agent.py:48` describes tiers of tools by authority that are not those of
  the code (`:146`).
* `execute_task` looks at the kill switch once, before it starts, and never at
  the status of the agent; nothing in `Firm` or the API reaches `cancel` for it.
* Merge does not look at the status of the two agents: credits of an agent that
  was merged before are counted again (`core/spawn.py:219`).
* An amendment to remove keywords is vetoed by its own text, which names them
  (`core/meta.py:380`); only after another invariant was removed as a whole can
  there be one that names keywords no longer in force.
* Cancelling a market is documented as "all stakes refunded"
  (`core/prediction.py:489`, and `:64`).  `cancel_market` writes the refund into
  each position (`:503`) and nothing reads it: `Firm.predict` took the stake,
  `Firm` has no method that cancels, and `resolve_prediction` refuses a
  cancelled market.
* `transfer_role` revokes first and is then refused (`core/roles.py:257`): the
  role is with nobody.
* Trust in a revoked peer can grow, and `import_reputation` asks for the trust
  and not for the status.
* A save raises once a prediction market exists: `core/serialization.py:252`
  and `:253` read attributes that markets do not have.
* A save loses proposals and assignments; from the command line a proposal is
  gone when the process that made it ends, and `max_holders` counts from 0
  after a load.
* Commands that only read (listing agents, recalling memories) write the file
  again.  The repl, given a torn file, creates a new organisation and saves it
  over the file; its `load`, when it fails, still changes where it saves.
* `cmd_action` reads a key that a blocked action does not have (`cli.py:128`);
  adding an invariant passes no keywords and is always refused
  (`cli.py:321`); `cmd_evolve_apply` reads an attribute that does not exist.
* The comparison of findings is by "CWE + asset"; it finds rows whose asset
  *contains* the name (`LIKE`), so what counts as a duplicate depends on the
  order of discovery.  It reads at most 500 rows (`bounty/dedup.py:50`), and a
  twin in a later one is not found once the session is over.
* `submit_finding` and `process_feedback` insert whatever finding they are given
  and call it an update (`bounty/campaign.py:124`, `:142`); only `add_finding`
  compares, although campaigns promise "automatic deduplication" (`:4`).  A
  finding that was never added, or was turned away as a duplicate, gets a row
  of its own when it is submitted.  `FoundOnce` therefore speaks of what
  campaigns take in, and not of all rows.
* A finding read back from the database has its severity as a string
  (`bounty/vulnerability.py:292`), which `insert` cannot write (`:364`): its
  submission or feedback raises after the object's status has changed.
* Triage is documented to submit from medium severity and 0.7 confidence; it
  submits low severity with 0.7 as well.

## 6. Not modelled

* **Events and plugins**: synchronous callbacks whose exceptions are caught.
  Handlers and plugins are the user's code; nothing of the FIRM waits for them.
* **Audit**: reads the state and writes reports.
* **Providers and tools**: translation to outside services, and effects outside
  of the FIRM.  Which tools an agent is given by its authority decides nothing
  about the loop that `Execution` models.
* **HTTP API and the handlers of the command line** beyond threads, processes
  and files: parsing and formatting around calls that are modelled.
* **Bounty**: scope matching and CVSS (pure functions of text), phases,
  statistics and rewards.
* **Parts of modelled components**: prediction-accuracy attestations and
  `global_authority` (called by tests only), receipt and hashes of messages,
  the recommendations of `AutoRestructurer`,
  snapshots and diffs, price and bid statistics.

What further work would add: a ballot cut at its thread switches, as `Ledger`
is; larger instances by simulation; what a tally computes from the votes, with
the lemmas of `SumTheorems`; the measure that a running call uses up, which is
the part of `KillHalts` that needs no fairness.
