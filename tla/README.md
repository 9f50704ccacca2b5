# toToggle: a verification project

toToggle is a feature-toggle server (Go, gin, gorm; `server/`) with clients in
Go, Java and Node. This directory holds TLA+ models of the parts of it whose
correctness depends on the order in which things happen, TLC configurations
that check them on small instances, and proofs checked by TLAPS.

## The system

| Component | State | Operations | Correct when |
|---|---|---|---|
| Service keys (`secret_key_usecase.go`) | table `secret_keys`: active, is_current, owner | create (active or pending), rotate, activate, validate, revoke; deleted with their application | one current and at most one previous key per application; a revoked key stays revoked; deleting an application is final |
| Approval workflow (`approval_usecase.go`) | table `approval_requests`; status pending, approved, rejected, expired | request, suggest, approve, reject, withdraw, execute, expire | nothing takes effect without an approval by somebody else; a decision is final; a requested key is useless before its approval |
| Approval middleware (`middleware/approval.go`, `approval_settings_repository.go`) | table `approval_settings`: meant to have one row | classify a request, ask whether approvals are enabled and required, file or let through; change the settings | what needs an approval does not go straight through, whatever root changes meanwhile |
| Toggle tree (`toggle_usecase.go`, `toggle_repository.go`) | table `toggles`: path, parent, enabled, deleted_at, archived_root | create a path level by level, switch one, many or a subtree, delete and restore a subtree | parents and paths agree; nothing deleted is lost; live paths are unique; every evaluator gives the same answer |
| Go client (`totoggle_go`) | two flags, two channels, a mutex, a cache with its ETag | Start, Refresh, the refresh loop, Shutdown, IsActive | the cache never goes back, never outlives Shutdown, catches up with the server; Shutdown returns and leaves no loop behind |
| Sessions and passwords (`auth_usecase.go`, `auth_handler.go`) | table `sessions` (sessions and password change tokens), columns of `users` | first start, login, logout, expiry, forced and voluntary password change | a reset ends every earlier session; a token does not outlive the password it was issued for |
| User management (`user_usecase.go`, `user_management_handler.go`) | tables `users`, `team_users` | create with team and approver flag, change role and teams, deactivate, reset, delete | nobody becomes root; nothing of a deleted account is left |
| Teams (`team_usecase.go`, `team_repository.go`, `team_handler.go`) | tables `teams`, `team_users`, `team_applications` | create, rename, delete, members, applications and their permissions | no row outlives its team or application; the queries agree on who owns what |
| Applications (`application_usecase.go`, `application_handler.go`) | table `applications` | create with roll-back, approved creation, rename, move, delete (the only transaction) | a refused creation leaves nothing; a move leaves one owner |
| Rate limiters, activation rules, Java and Node clients, audit log, favorites, web console | | | not modelled, see below |

How they interact: every HTTP request is a goroutine of its own. A use case calls
repositories one after the other; only the deletion of an application runs in a
transaction, so between two queries of one handler any other handler may run.
What a handler has read it keeps in a Go struct, and most updates are gorm's
`Save` of that struct: all columns, an INSERT when the row has gone, and the
associations the struct was loaded with. A request passes the session middleware
(which puts the user, loaded once, into the context), then the approval
middleware, then its handler. The workflow creates, activates and deletes keys
through the key use case; its executor calls the toggle and application use
cases. Clients poll the catalogue with a service key and an ETag; inside the
client, the application's goroutines and the refresh loop share the cache.

What is hard here: stale structs written back, checks made on a row that has
changed since, settings read in several queries, operations of several statements
that stop half way, a decision racing a withdrawal, an expiry, another decision or
an execution, and in the client the overlap of Start, Refresh, the loop, late
answers and Shutdown. The list of hazards with their lines is in `PROJECT.json`.

## Modules

| Module | Models |
|---|---|
| `SecretKeys` | service keys; `keys`, `owner`, `apps` are the tables, `kf[h]` is what handler `h` has read |
| `Approvals` | the workflow; extends `SecretKeys`, so executing a request takes the very steps of that module |
| `ToggleTree` | the toggles of one application; `tf[h]` is the call stack of handler `h` |
| `GoClient` | life cycle and cache of the Go client; `pc[p]`, `op[p]` say where goroutine `p` is |
| `Accounts` | accounts, passwords, sessions; `users`, `team_users`, `sessions` are the tables, `f[h]` is what handler `h` holds: the actor the middleware loaded (`me`) and the struct it is about to save (`row`) |
| `Ownership` | teams, applications and the two tables that join them; `g[h]` is what a handler holds between two statements |
| `ApprovalPolicy` | abstract: what the middleware promises. Every request is judged once, by the settings in force at that moment |
| `ApprovalGate` | the middleware and the settings with all their queries; instantiates `ApprovalPolicy` with a refinement mapping |
| `MCApprovals`, `MCToggleTree`, `MCGoClient`, `MCAccounts`, `MCOwnership`, `MCApprovalGate` | symmetry, paths and other values of the instances |
| `SecretKeysProofs`, `ApprovalsProofs`, `RequestedKeysProofs` (extends the two), `ToggleTreeProofs`, `GoClientProofs`, `AccountsProofs`, `OwnershipProofs`, `ApprovalGateProofs` | theorems |

An action is one database statement (or, in the client, one stretch of code
between two synchronisations) with the checks the code makes on the way to it.
Definitions have the names of the functions they model, and `map` in
`PROJECT.json` gives the lines. Definitions introduced by a comment starting
with "Mistake" are not part of any specification: each is a plausible bug in the
definition after it, kept to show that the property named in `PROJECT.json`
notices it.

Abstractions, all on data:

* A key is its identifier and the pair (active, is_current); hashes and random
  generation are left out. Identifiers are ULIDs and never reused: `owner` and
  `issued` remember them.
* `issued[r]` holds the columns of a request no code path assigns after its
  creation, `requests[r]` the ones a decision writes. `named` says whether the
  frozen names are in the row.
* A request to revoke a key may name any key that ever existed, whatever its
  application: `POST /approval/requests` takes the two as they come.
* Types of action whose effect is on tables of other modules take effect in one
  step and only leave a mark in `executed`.
* `decisions`, `executed` and `appointed` in `Approvals`, `returned` and `overlap` in
  `GoClient`, `barred` and the `pw` of a session in `Accounts`, `told` in
  `Ownership`, `fresh` and `always` in `ApprovalGate` are history: no guard
  reads them.
* `Fail`, `KFail`, `TFail` stand for every way a handler can stop: a refused
  check, an error of the database, the end of the process. In `Accounts`,
  `Ownership` and `ApprovalGate` they stand for an error of the database, and
  `failures` counts them, because what the code does next depends on the place:
  it stops, rolls back, goes on (`FailIgnored`) or takes the error for a no.
* A query without ORDER BY returns its rows in any order.
* A password is a number, the n-th one issued; a higher number is a later
  password. Hashing and the rules for good passwords are left out.
* A session token is the identifier of its row. Expiry is a choice: whenever a
  session is looked up the clock may have passed its `expires_at`.
* In `Accounts` deleted teams do not occur, in `Ownership` deleted users do not:
  each has its own module. The approver flag is set in `Accounts` and used in
  `Approvals`, where memberships, flags (`teamUsers`) and roles (`admins`) change at
  any time. Only the role root is fixed there; who has it is the subject of
  `Accounts`. `SetTeamApprover` reads the role and sets the flag in one step: a
  demotion between the two queries may as well come after them, since nothing
  else in the workflow reads a role. For the same reason `UpdateUser` is the save of
  the role, and the teams it adds and removes are steps of their own.
* A toggle is inserted enabled: the column has `default:true`, which gorm's Create
  takes in place of a false, although `executeToggleCreateAction` passes one.
* In `ApprovalGate` a route is its method and the fixed segments of its path,
  since `getActionType` only looks for substrings; a body is the fields it
  looks at. That it recognises each for what the API documentation says is
  evaluated by TLC (`RoutesClassified` in `MCApprovalGate`) and proved
  (`RouteDocumented`) over every route and body.
  `rows` is the table of settings, `first` the row gorm's First finds, `drawn`
  the identifiers drawn: two first readers may store theirs in either order.
* A catalogue is its revision, and the ETag the revision or 0 for none. The
  server answers with the catalogue of the moment; revisions grow.
* In `GoClient` an operation refused at once (Start after Shutdown, a second
  Shutdown, Refresh before Start) changes nothing and is no step.

## Runs

| Run | Instance | Shows |
|---|---|---|
| `secret_keys_serial` | 1 handler, 4 keys, 2 applications | Without overlap of handlers, but with failures between any two statements: one current key, at most two active ones, nothing revoked comes back. Four keys allow three rotations in a row plus a pending key. |
| `secret_keys_revoke_race` (violation) | 2 handlers, 2 keys | `ActivateRead`, `RevokeSecretKey`, `ActivateSave`: the revoked key is inserted again, active. |
| `approvals_keys` | 2 handlers, 1 key, 1 request for it, root and another user whose role, membership and approver flag change at any time | Four eyes, every decider root or appointed as an admin, no key before its approval, no decided request reopened, the frozen name kept until a decision, and the workflow implements `SecretKeys` (`KeyDiscipline`: `KSpec` as a property). |
| `approvals_serial` | 1 handler, 2 keys, 1 request: a key to create, a key to revoke or a suggestion; a clock | A rejected key never authenticates when handlers do not overlap, and nothing takes effect on an approval after the deadline. The second key is for rotations beside the request. |
| `approvals_decision_lost` (violation) | 2 handlers, 1 suggestion | A withdrawal reads the pending request, an approval is saved, the withdrawal deletes the approved request. |
| `toggles_serial` | 1 handler, 4 toggles, paths a, a.b, a.b.c | Every sequence of creations, switches, deletions, restorations and failures: parents match paths, everything deleted hangs below an archive root, the evaluators agree. Four toggles for three paths allow a deleted toggle to be created again. |
| `toggles_restore` (violation) | 1 handler | Delete a.b, create a.b, delete a, restore a: two live toggles a.b. |
| `go_client` | 2 callers and the loop, 2 revisions | Shutdown is terminal and, unless it overlaps Start, leaves no loop behind; ETags match, snapshots never go back; under fairness the loop catches up and Shutdown returns. |
| `accounts_serial` | 1 handler, root and two others, 1 team, 2 sessions, 2 new passwords, 1 failure | Nobody but root is root; a reset locks out every session of an earlier password, also after the user has logged in and changed it; a password change token is outstanding only while its password is to be changed; no session or membership of a deleted account. |
| `teams_serial` | 1 handler, 2 teams, 2 applications, 2 names, 1 failure | No association outlives its team or application; the lists, the access check and the counts agree; the highest permission does not depend on the order of rows; a refused creation leaves nothing; a move replaces. |
| `gate` | 3 requests, 2 types of action, 2 rows, 1 failure | The middleware implements `ApprovalPolicy`, and while no query fails no request that needed approval from arrival to answer goes straight through. |
| `gate_fails_open` (violation) | the same | The first query fails: a mutation that needs approval is executed directly. |

The bounds: `MaxTime` stops the clock one tick after the first deadline, which
with `Lifetime = 0` gives an instant before, at and after it; `MaxRevision`
bounds the changes of the catalogue; identifiers bound the number of rows. One
request with two handlers already meets every overlap of decisions, because each
handler may take any number of operations one after the other. In
`accounts_serial` two issued passwords are a reset and the forced change after
it, and two sessions are an old one and the one of that login; `MaxFailures` is
the number of database errors in one behaviour. In `gate` three requests are two
concurrent first readers and root's update, or two mutations and an update, and
two rows are the two defaults they insert; of the two types of action one may be
filed by admins, the other needs root.

`approvals_keys`, `go_client` and `gate` check concurrency; the
runs named serial check that the sequential code is right, with failures, for
properties that overlapping handlers break for lack of a transaction.

Where the code does less than it says, beyond the four violations above; TLC
finds each one on these modules with two handlers, or with the weaker property
named replaced by the full statement:

* Two rotations at a time leave two current keys or three active ones, against
  "até 2 (current + previous)" (`secret_key_usecase.go:132`); the comment of
  `executeSecretKeyCreateAction` that an application has at most one active key
  is out of date since the overlap window exists.
* An activation that loaded the key and its application before the application
  was deleted inserts both again: with two handlers the application is back in
  five steps. One handler at a time this cannot happen, and no property is stated.
* A rejection saved over an approval that is being executed leaves a rejected
  request with a working key.
* Two overlapping decisions overwrite each other: the status of a decided request
  changes from approved to rejected or back.
* "Apenas admin e root podem ser aprovadores" (`approval_usecase.go:576`) is tested
  when the flag is given. `UpdateUser` (`user_management_handler.go:626`) takes the
  role away and leaves `team_users.is_approver`, and `CanAct`
  (`approval_access.go:40`) asks for the flag alone, so an approver who is no longer
  an admin still approves, rejects and executes. `DecidersWereAppointed` states what
  is left: nobody decides who was not an admin when made an approver of that team.
* A decision wipes the frozen names, since `GetByID` does not select them,
  against the comment at `application_repository.go:100`. `UndecidedKeepsName`
  states what is left.
* Delete a.b, delete a, restore a.b: the toggle is active for clients and off for
  the server (`client.go:241`). What `EvaluatorsAgree` says of the client
  is about trees without such orphans.
* Shutdown during the first fetch of Start returns before the loop is launched,
  which then never stops, against `client.go:377`; between the two assignments
  of Start it waits on a nil channel for good. `ShutdownStopsLoop` and
  `ShutdownReturns` leave that window out.
* A change of status that loaded the user before a reset and saves it after
  undoes the reset (sixteen steps). The error of `InvalidateSessions` after a
  reset is ignored: if it fails the old sessions work again once the user has
  changed the password. `CleanResetLocksOut` is about behaviours without
  failures.
* Renaming a team saves the members and applications it was loaded with: with two
  handlers, removed associations and deleted applications come back.
* A move whose binding fails leaves the application with no team at all, and each
  retry of an approved creation inserts another application.
* On an installation without a row of settings, a slow first reader may put the
  defaults back in force after root's first update. `ApprovalPolicy` allows this
  as `Reset`, on such an installation only, and a fault as the one way to pass
  unjudged.

Deadlock is checked in the runs of `SecretKeys`, `Approvals` and `ToggleTree`. In
`go_client` everybody may be idle for good after Shutdown; in `accounts_serial`,
`teams_serial` and the two runs of `gate` every request may have been answered
with no identifier left for another one.

Fairness, only in `GFairSpec`: goroutines that can run do run, which is weak
fairness of their steps; Go's mutex hands over to a waiter that starves, hence
strong fairness of `Lock` and of the steps of Shutdown that wait; a request ends
because of HTTPTimeout; the loop's select ends on a closed channel even when the
timer fires again and again (`LoopStop`, strong). `CatchesUp` also needs that
the requests of the loop do not fail forever: strong fairness of a successful
answer. Callers need not call anything.

## Proofs

All theorems hold for every value of the constants that satisfies the named
assumptions: the "no ..." values are not members of their sets, root is
a user, paths are non-empty sequences closed under prefixes, `MaxRevision` is
positive, the other bounds are natural numbers, action types are those of the
code.

### For any number of overlapping handlers, requests or goroutines

* `ApprovalsProofs`: `FourEyesHolds`, `DecidersAppointed`, `NeverReopenedHolds`,
  `TypeCorrect`.
  `FourEyes` says nothing about rows and frames, so it is not inductive. `AInv`
  adds what they carry: whoever has the flag was appointed as an admin
  (`ApproversAppointed`, true although the role may be gone); an approved row has an approval on record (`RowsOK`); so has a frame that read an approved
  row or is executing one, and a frame about to save a decision has passed the
  checks, under a title that stays on record when the flag, the membership or the
  role is gone by the time of the save (`FrameOK`, `Entitled`). `Recorded` (what was
  asked never changes, decisions and appointments are never dropped) keeps all this true while other handlers step; this is why the
  stale reads do no harm here.
* `RequestedKeysProofs`: `NoKeyBeforeApprovalHolds`, `UndecidedKeepsNameHolds`,
  and `KeyDisciplineHolds`, the refinement: every step of the workflow is a step of
  `SecretKeys` or leaves its tables alone. That a key does not work is not
  inductive, because a handler may hold it in order to make it work. `KInv` adds
  that until the approval nobody does (`Waiting`: not in the list of a rotation,
  not read as active, not being activated), from the moment the identifier is
  drawn (`FreshOK`) over the handler that has created the key and not stored its
  request (`ClaimsOK`) to the stored request (`RequestsOK`); that no two requests
  share a key; and that only an execution activates, the key of its own request
  (`Running`).
* `ApprovalGateProofs`: `GateImplementsPolicy`, `CleanGate`, `GateTypeCorrect`.
  The refinement maps a request that found no row to its verdict at once, whether
  or not the row it inserts can be stored; everything else is judged where it
  reads the settings last. The invariant `GInv` says what a request knows: past
  its first query there is a row (rows are never deleted), a request about to
  insert the defaults is on an installation that started without one, an update
  holds a stored row. With it every action is one step of the policy or a
  stutter (`GateNext`). `CleanGate` adds that a watched request has found a row
  and is told the same by all its queries (`AlwaysOK`), and rests on
  `RouteDocumented`.
* `AccountsProofs`: `RootIsUnique`, `AccountsTypeCorrect`. The invariant extends
  "only root is root" from the table to every struct a handler may hold, however
  stale (`StructOK`), so that no `Save` can break it; and says where a handler is
  bound to a user (`Bound`), which in turn needs that every stored session has
  one (`SessionsOK`). Nothing in it depends on handlers not overlapping.
* `ToggleTreeProofs`: `ForestWellFormed`, `TTypeCorrect`, `EvaluatorsAgreeAlways`.
  No operation moves a stored toggle (`Unmoved`), so what a frame remembers of a
  parent or of a row to save stays true (`FramesOK`), for any number of concurrent
  handlers. In a forest so formed the three readers agree. They are recursive, so
  each is compared with a closed form: `Kin`, the toggles above a toggle, is what
  every set that holds the toggle and is closed under parents contains; `Lit` (all
  of them on, none missing) solves the equation of `IsToggleEnabled` and
  `Shown` (a level, with `Lit`) that of `BuildHierarchy`. That each reader computes
  its closed form is shown by least counterexample, on the length of the path or on
  the level (`Least`). The theorem assumes `BoundedDepth`, that paths have a greatest
  length (the column is a varchar(1000)), because `MaxLevel` is that length.
* `GoClientProofs`: `ShutdownIsTerminal`, `ValidatorIsCoherent`,
  `SnapshotsAdvance`, `GTypeCorrect`, `ShutdownEndsLoop`. The invariant joins mutual
  exclusion (`Mutex`), which itself needs that the loop starts only where it is
  idle (`OneStarter`), and what the holder of the mutex knows of the snapshot
  (`Coherent`). For the last theorem `LoopInv` adds the order in which Start makes
  the two channels and launches the loop (`ChannelsOK`): who waits for
  `refreshDone` waits for a channel only the loop closes, as its last act. It also
  shows that without an overlap no caller waits on a nil channel
  (`CleanShutdown`), the part of `ShutdownReturns` that is not liveness.
* `SecretKeysProofs`: `KTypeCorrect`, with a lemma for each step that
  `ApprovalsProofs` uses as well; `OwnershipProofs`: `OTypeCorrect`, with what a
  handler holds at each place (`Shape`), and `HighestReported`: the fold over the
  rows computes the highest of them (`HighestIsBest`, by least counterexample on
  the number of rows read), whatever their order. It assumes that the teams are
  finitely many, as the number of rows is their number.

### For one handler at a time

The theorems of this part assume `Serial`: any two handlers are the same. This is
the hypothesis of the serial runs (one handler), and it is needed: with two
handlers TLC refutes each of the properties. What they say is that the
sequential code is right for any number of rows and calls, wherever a statement
fails or a handler stops. All the invariants say that what the handler has read
is still what the tables hold.

* `SecretKeysProofs`: `SerialOneCurrent`, `SerialAtMostTwo`, `SerialRevocation`.
  In the middle of a rotation the keys still to be demoted or
  revoked are exactly those the handler has listed (`UpToDate`), so that saving
  the last one leaves one previous key and room for the new one (`SerialInv`).
* `RequestedKeysProofs`: `SerialDecisionIsFinal`, `SerialRejectedKey` from
  `DecisionInv` (the first one also shows that the loss in `approvals_decision_lost`
  takes two handlers): a decision or a withdrawal under way finds its request still
  pending, so every decision on record is the status of its request; a rejected
  one has no approval then, and its key is `Waiting` (`KInv`). `WorkflowKeepsKeys` carries the
  properties of `SecretKeys` over to the whole workflow by `KeyDisciplineHolds`,
  without looking at a single step again.
* `OwnershipProofs`: `SerialNoGhosts`, `SerialViewsAgree`, `SerialRefused`,
  `SerialMove`. `SInv` adds to `NoGhosts` what a creation, a roll-back, a move and
  the deletion of a team have done so far; that the three queries agree follows in
  any state without ghosts (`NoGhostsViews`).
* `AccountsProofs`: `SerialResetLocksOut`, `SerialTokens`,
  `SerialNothingDangling`. Both statements about sessions are about moments when
  nobody is at work; in between, a reset or a forced change has written the
  password and not yet dropped the sessions. `SAInv` therefore lets a session be
  out of date while its user is being dealt with (`Dropping`) and otherwise asks
  that it was opened after the last reset, an ordinary session by a user who need
  not change the password and a token for the password to be changed
  (`SessionFits`); `AccountsFit` orders resets, passwords and issued passwords;
  `Relies` says for each place what the handler holds.

* `ToggleTreeProofs`: `SerialRecoverable`. A restoration takes the mark of an
  archive root away, so `RInv` must say that nothing below it is deleted by then:
  on the stack of the recursion, the children of a toggle are all still to be
  visited, being visited, or free of deleted toggles (`Entry`, `Clean`); a deletion
  works below the root it has marked (`Archived`). What is above a stored toggle
  stays the same while the table changes (`KinKept`), and `Lineage` is `Kin`. Two
  handlers break it: a switch saved from a row that was read before the deletion
  marked it takes the mark away.

`KInv`, `LoopInv`, `SInv`, `SAInv` and `RInv` were checked by TLC on the instances of the
corresponding runs before they were proved.

### Only model-checked

The liveness properties `CatchesUp` and `ShutdownReturns`: fairness is out of the
prover's reach. Every other property of a passing run is stated by a theorem.

## Not modelled

Rate limiters, the listeners and the back-off of the Go client and activation
rules are planned. Audit log and favorites are rows nobody else depends on. The
web console keeps no state. The Java and Node clients are separate
implementations. Not in any module: cookies and headers, validation and formatting
of inputs, SQL and migrations, the description and data a filed request carries,
lists and their toggle counts. `UserCanAccessApplication` and
`UserCanModifyApplication` are modelled as queries although no handler calls
them yet; `UserCanAdminApplication` and the routes of `user_handler.go`, which
the router does not register, are not. The deletion of an application is not in
`ToggleTree`: it removes all its rows in one transaction.

## Plan

1. Done: `SecretKeys`, `Approvals` (extends it), `ToggleTree`, `GoClient`,
   `Accounts`, `Ownership`, `ApprovalGate` with its policy, their runs and the
   proofs above.
2. Proofs that are left: none of the safety properties above; each module of the
   next items with its own.
3. `Catalogue`: revision and ETag on the server, refined by the view `GoClient`
   has of it; an abstract cache specification that `GoClient` implements.
4. `Listeners` (re-entrancy and lock order in the client), `RateLimiter`,
   `Backoff` and `Rules` as operators against reference definitions.
