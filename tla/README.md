# Flashaccess in TLA+

Flashaccess gives temporary access to a MySQL server. An administrator starts a
*session* on a web form; the session has a key, an address block and an expiry.
While it is live its owner gets a MySQL account `tmp_<id>`, an `ufw` rule that
opens the database port to the block, and, after showing the key at the *gate*,
a web dashboard. When the session ends, all of that has to go away again.

The modules here model the Go code under `src/`. This file says what the code
consists of, what is modelled and how, what the runs and the proofs show, and
what is left.

## Inventory

| Component (source) | State | Operations | Works with |
|---|---|---|---|
| Session manager (`internal/session/manager.go`, `session.go`, `active.go`) | `m.sessions` (status, expiry, failed attempts, playground name) under one `sync.RWMutex` | `New`, `End`, `VerifyAccess`, `SetPlaygroundDB`, `reap`, `persist`, `NewManager`, `ActiveSession`, `Get`, `List` | hooks, store; called by handlers, CLI and reaper |
| Provisioning hooks (`internal/access/activator.go`, `internal/mysql/mysql.go`, `internal/firewall/firewall.go`) | MySQL accounts, ufw rules (outside the process) | `Provision`, `Revoke`; `CreateUser`, `DropUser`, `Allow`, `Deny` | MySQL server, `ufw` |
| Session store (`internal/session/encrypted_persister.go`) | one sealed file, one temporary file | `SaveAll`, `LoadAll` | manager, config store |
| Session keys (`internal/session/key.go`) | none | `GenerateKey`, `HashKey`, `VerifyKey` | manager |
| Gate and web tokens (`internal/web/auth.go`, `handlers.go` 22-260) | token map under its own `RWMutex` | `IssueToken`, `Validate`, `RevokeSession`, `requireAuth`, gate and setup handlers | manager |
| Playground databases (`internal/mysql/playground.go`, `handlers.go`) | databases `_fa_playground_*`, `Session.PlaygroundDB` | create, clone, import, drop | manager, MySQL |
| Permanent grants (`internal/web/permanent_store.go`, `internal/mysql/admin.go`, `handlers.go` 1042-1107) | grant list and its file; accounts, rules | create, revoke, list | MySQL, `ufw`: the same rules as sessions |
| SQL scripts and previews (`internal/mysql/query.go`) | none: pure functions and one retry | `SplitStatements`, `skipStatement`, `RunScript`, `RunUserQuery`, `classifySQL`, preview rewrites | MySQL |
| Table browsing (`query.go`, `handlers.go` 308-370) | none | page links, row edit and delete | MySQL |
| Address policy (`normalizeCIDR`, `IPAllowed`, `CIDRToHost`, `ufwHost`) | none | conversions | session, MySQL host, ufw rule |
| Command line (`cmd/flashaccess/main.go`) | a manager of its own in every process | `serve`, `connect`, `mode`, `session new`, `end`, `activate`, `list` | the store file, shared |
| Configuration store (`internal/config/config.go`) | sealed config, master key file | `Load`, `Save`, first-run key | all |
| Statistics (`internal/stats/stats.go`) | last counters | `Collect` | `/proc` |
| Routing, templates, assets, installer, website | none | | |

### What is hard

*Concurrency.* Every HTTP request is a goroutine, the reaper is one more. All of
them share the manager's mutex, and the slow work (MySQL, ufw, the save) is done
outside it. `persist` (manager.go:257-270) copies the list under a read lock and
saves the copy after giving the lock back. It takes the read lock twice and
gives it back once. `SaveAll` (encrypted_persister.go:21-35) truncates, writes and
renames one temporary file with no lock: several goroutines may be inside it.

*Failure.* MySQL and ufw calls and saves fail one by one. `New` rolls back, `End`
returns the error with the session marked but not saved, `reap` ignores it.

*Crash and restart.* `NewManager` brings back what the last save wrote.
Accounts and rules live in MySQL and ufw, and outlive the process.

*Sharing.* A ufw rule is identified by address block and port. Two sessions,
or a session and a permanent grant, with the same block have one rule.

*Time.* A session may lapse between a look-up and a use, and between the
reaper's clock reading and its critical section. The gate's lockout is a window.

### What makes each component correct

* Manager: what a restart brings back is some earlier state of memory and never
  older than what was acknowledged or ended; accounts and rules exist exactly for
  what is active or being worked on; every session ends; every call returns.
* Store: a load sees one complete save. Savers that overlap break that; nothing
  else does.
* Gate: at most five key checks in a lockout window; a token only after a
  verified key; no handler runs for a session other than the one verified;
  tokens die with their session.
* Playground: every playground database is on record with its session, and goes
  with it.
* Permanent grants: the list names every account and rule that exists, and a
  revoked grant leaves nothing behind.
* SQL: a script is cut at the semicolons outside quotes and comments; every
  statement is accounted for, and none runs twice; a preview never changes data.
* Address policy: ufw, MySQL and the gate admit the same clients.
* Command line: a command changes its own session and no other.
* Statistics: no difference of counters wraps.

The hazards of each, with their lines, are in `PROJECT.json`.

## Modules

| Module | About | Kind | Run | Proved |
|---|---|---|---|---|
| `SessionLifecycle` | what the manager promises of statuses and their durability | abstract specification | `lifecycle_safety` | implemented by 2 |
| `SessionManager` (`MC`; `SessionManagerProofs`, `SessionResourceProofs`) | manager, hooks, lock, store, restart | state machine | `lifecycle_safety`, `lock_contention` | every safety property, refinement |
| `WebGate` (`MC`, `Proofs`) | lockout, tokens, `requireAuth`, second look-ups | state machine | `gate` | every property |
| `SharedStore` (`MC`, `Proofs`) | daemon and commands over one data directory; key, configuration, store, file call by file call | composes several processes | `deployment` | every property |
| `PermanentGrants` (`Proofs`) | grants, their accounts, rules and file; the page of users; sessions on the same rules | state machine | `server_objects` | every property |
| `Playground` (`ServerObjectsProofs`) | make, fill, record, drop; the end of the session | state machine | `server_objects` | every property |
| `AddressPolicy` (`ServerObjectsProofs`) | one address, three that enforce it | operators and a short state machine | `server_objects` | every property |
| `SqlScript` (`Proofs`) | `SplitStatements` against a description without a loop, `RunScript` | state machine | `dashboard_pages` | every property |
| `UserQuery` (`DashboardProofs`) | preview and `RunUserQuery` with its second attempt | state machine | `dashboard_pages` | every property |
| `TableBrowsing` (`DashboardProofs`) | links, rows, edits by key | state machine | `dashboard_pages` | every property |
| `ServerStats` (`DashboardProofs`) | wrapping counters | state machine | `dashboard_pages` | every property |

`MCServerObjects` and `MCDashboardPages` put several components into one run.
These share no variable, so every behaviour of all of them interleaves a
behaviour of each, and an invariant of one is violated if and only if that one
can violate it alone. A variable `focus` therefore picks the component that moves;
the others rest in one initial state. What the components do share in the
program is modelled in each of them: `Playground` has the manager's mutex with
its leak, `PermanentGrants` the rules that sessions open and close, `SharedStore`
the point after which the leaked lock lets a process make no more changes.

### What is proved, and what is not

Of the properties that hold, only the three liveness properties of
`lock_contention` are merely model-checked: liveness under fairness is out of
the prover's reach. Every other property a run checks is a theorem for all values of the constants,
and the bounds of the runs (sets of ids and goroutines, failures, restarts,
ticks, sizes) are constants there. The assumptions are those the modules
declare, and nothing else: TLC evaluates them in every run. Most say that null
values are no values and that bounds are naturals. Three say more:

* `ServerStats`: `MaxTicks < Word`, that no counter comes round to where it was
  between two readings. The counters have 64 bits and the readings are 200 ms
  apart. Without it no difference of counters means anything.
* `UserQuery` and `TableBrowsing`: tables are finite, and EXPLAIN answers naturals.
* `SharedStore`: an absent, an empty and a torn file are told apart from each
  other and from any sealed content; `SessionManager`: a damaged and an absent file
  from each other and from any list.

The inductive invariants were checked by TLC before they were proved, most of
them in the runs: `GateInv` is among the properties, for it is about the code;
`ResourceInv` stands beside the model, and its parts that say something of the code
are properties of `lifecycle_safety`; `PlayInv`, `StoreInv` and the invariants of
`DashboardProofs` and `PermanentGrantsProofs` are stated beside the proofs.

## The session manager

`SessionManager.tla` is one `serve` process: HTTP handlers (`Workers`), the
`Reaper`, the mutex, the map, the store, MySQL's accounts and ufw's rules.

| Variable | Code |
|---|---|
| `mem`, `disk` | `Status` of each session in `m.sessions` and in the file; `"none"` when it is not in it. The file may also hold no whole list (`Damaged`) |
| `tmp`, `fd` | what the temporary file of the store holds, and where the file each goroutine has open is by now: a rename moves it along |
| `used`, `cidr` | ids `newID` has drawn, and each one's `AllowedCIDR` (the id is random: two draws never agree) |
| `lapsed` | ids with `ExpiresAt` in the past |
| `acked` | ids whose `New` has returned without error |
| `users`, `rules` | accounts `tmp_<id>`; blocks with an `ufw allow` |
| `writer` | the goroutine in `m.mu.Lock`, from the moment it has announced itself. From then on `RLock` blocks |
| `readers` | read locks not released; the writer goes on when this is 0 |
| `pc`, `op`, `cur`, `work`, `err`, `snap` | per goroutine: the next step, the call it is in, the session at hand, the sessions still to be torn down, the collected error, the copied list |
| `disturbed`, `overlapped` | history: ids a failure or a crash has interrupted; two saves of this process have been under way at once |
| `faults`, `restarts` | bounds |

A step is what runs without blocking, failing or letting go of the lock:

| Action | Code |
|---|---|
| `SetupPost` | `handleSetupPost` up to the call of `New`, and `New` up to `OnProvision`. Rejected forms change nothing and are left out |
| `CreateUser`, `Allow`, `Rollback`, `...Fails` | `Activator.Provision`. A failed call may or may not have taken effect |
| `Lock`, then `NewSection`, `EndSection`, `VerifySection`, `SetPlaygroundDB`, `ReapSection` | the critical sections of the five callers of `m.mu.Lock` |
| `FirstRLock`, `Snapshot` | `persist` up to the save |
| `OpenTmp`, `WriteTmp`, `RenameTmp(Fails)`, `SaveAllFails` | `SaveAll`: open and truncate, write to the file that was opened, rename; a failed write may leave part of a list, and a rename fails when another goroutine's has taken the file |
| `DropUser(Fails)`, `Deny(Fails)` | `Activator.Revoke`; then what follows it in `New`, `End` and `reap` |
| `SessionEndPost`, `GatePost`, `PlaygroundCreate` | the look-up of the live session in the handler. With several live ones `ActiveSession` may return any |
| `Tick` | the ticker; `reap` reads the clock here, before it waits for the lock |
| `Lapse`, `Restart` | the clock; a crash and `NewManager`, which fails on a store that does not open: then the daemon stays down (`Up` is false) |

### Runs that pass

| Run | Question | Instance |
|---|---|---|
| `lifecycle_safety` | eight invariants, below; is every step one of `SessionLifecycle` (`LifecycleSpec`); does a stored end stay (`EndedOnDiskStaysEnded`) | 2 sessions, 2 blocks, 2 handlers and the reaper, so that three saves may overlap; 1 failing call and 1 restart; symmetry. The specification `Bounded` leaves out expiries nothing reads, and `VerifyAccess`, which is in the next run |
| `lock_contention` | `ReapedUnlessWedged`, `CallReturnsUnlessWedged`, `EndedIsTornDown` | 1 session, 2 handlers and the reaper contending. Two sessions that expire together are in `lifecycle_safety`: `GrantIsTracked` says none of them is forgotten |

The invariants of `lifecycle_safety`:

* `SnapshotIsCurrent`: the list a save writes equals memory when it is written,
  although it was copied before and the lock was given back. It holds for a
  surprising reason: the read lock `persist` leaks (below) freezes memory.
  With the second `RLock` removed, as a repair would do, it fails: two saves may
  reach the file in the wrong order (mutant `SnapshotUnlocksBoth`). Whoever
  repairs the lock has to save under it.
* `AcknowledgedIsDurable`: a store that opens has every session whose key was
  shown; and it opens, unless two saves of the process have overlapped. That
  overlap is real (below).
* `DamageIsMomentary`: with no failing call, the store of a running daemon does not
  open only while a save is about to fill it. However many saves overlap, the last
  of them leaves a whole list: all of them write the same one.
* `GrantIsTracked`, `RuleIsTracked`: no account and no rule without an active
  session or a call that is dealing with it, except after a failure or a crash.
* `LiveSessionHasAccount`, `ExclusiveRuleStaysOpen`: an active session has its
  account, and its rule if no other session was given the same block.

`EndedOnDiskStaysEnded` reads the store where it opens, and memory while it does
not, for that is what the save under way will write (`Kept`); it ends where a
start fails on the store. In `SessionLifecycle` a store may become unreadable
(`Spoil`), a save makes it readable again, and a crash meanwhile is for good
(`CrashForGood`).

`disturbed` is the exception these properties make. It is set for the session at
hand by a failing call, for the session a `New` gives back when its save has failed,
and at a crash for every session in flight and every one the store has otherwise
than memory had. One case was found by TLC: if
`New`'s own save fails, the session may nevertheless be in the store, because
another goroutine's save ran between its registration and the failure. `New`
then drops the account, and the session comes back at the next start without
one. `SaveAllFails` and `RenameTmpFails` therefore disturb it (`GivenUp`).

### Runs that are violated

Each checks what the documentation or a comment says.

| Run | Statement | What happens |
|---|---|---|
| `expiry_lost` | sessions end on expiry (website/docs/index.html:979) | `persist` leaks a read lock, so from the first save on the reaper waits for ever, and by waiting blocks every reader |
| `shared_rule` | the port is open until the session ends (docs 525) | the teardown of a lapsed session deletes the rule it shares with the live one |

The same model shows more, for which no run is kept.

* "Persister abstracts session storage so the daemon can survive restarts"
  (manager.go:28), and it may not: two setup forms register before the first save,
  and both are then in `SaveAll`. One truncates the temporary file the other has
  written, which renames it over the store; killed at that point, the daemon does
  not come up again. TLC finds this in seconds when asked for `Up` as an invariant.
* `SetPlaygroundDB` never returns: `persist` reads the lock its caller holds for
  writing (manager.go:213). What follows from it for playgrounds is below.
* A restart keeps the live sessions, although docs 898-899 say that they are
  terminated: `NewManager` loads them as they were.
* When `DROP USER` fails once in `reap`, the account stays: the error is ignored
  and only active sessions are looked at (manager.go:249).
* A `New` whose save failed waits for ever for the lock its own `persist` has
  kept, so the session stays active in memory without an account (manager.go:117).
  No call has to fail for that: of two overlapping saves the second rename may
  find no file.
* A key from the setup form cannot be used in the same process: `VerifyAccess`
  wants the write lock.

### Bounds, and why they are enough

Two sessions are needed for a shared rule, for two expiries at once and for an
acknowledged session beside a failing one; a third would play one of these
parts. Three savers at once are every pair on the temporary file and one more.
Two handlers and the reaper give every pair of calls that can meet, and
three goroutines on the lock. A restart lets a loaded state be saved
again, beside what the crash left. One failure is every single failure; the safety
proofs cover any number of failures and of restarts. Runs without fairness use the symmetry of sessions, blocks and
handlers; the liveness runs use none.

`CHECK_DEADLOCK FALSE` everywhere: the system may stop, because ids and
restarts are bounded and because the real program gets stuck (`Wedged`).

### Fairness

`WF` of `Tick`: the ticker goroutine runs when it is idle. `WF` of each
goroutine's steps that do not wait: MySQL, ufw and the file answer or fail. `SF`
of each goroutine's `Lock`, `FirstRLock` and `Snapshot`: `sync.RWMutex` hands
the lock on in order, so whoever waits gets it if it is free again and again.
There is no fairness on requests, on `Lapse` or on `Restart`, and none that
makes a call succeed rather than fail.

### Proofs

`SessionManagerProofs.tla` and `SessionResourceProofs.tla` prove, for any sets of
ids, blocks and handlers and any bounds, under the four assumptions
`SessionManager` declares on its constants (null values are outside the sets, no
list is a damaged or absent file, the reaper is not a handler, the bounds are
naturals):

| Theorem | Says |
|---|---|
| `Invariance` | `Spec => []IndInv` |
| `TypeCorrectness` | `Spec => []TypeOK` |
| `SavesAreCurrent` | `Spec => []SnapshotIsCurrent` |
| `AcknowledgedSurvives` | `Spec => []AcknowledgedIsDurable` |
| `DamagePasses` | `Spec => []DamageIsMomentary` |
| `StoredEndIsFinal` | `Spec => EndedOnDiskStaysEnded` |
| `ImplementsLifecycle` | `Spec => LifecycleSpec` |
| `ResourceInvariance` | `Spec => []ResourceInv` |
| `NoAccountLeftBehind` | `Spec => []GrantIsTracked` |
| `ActiveHasAccount` | `Spec => []LiveSessionHasAccount` |
| `NoRuleLeftBehind` | `Spec => []RuleIsTracked` |
| `ExclusiveRuleOpen` | `Spec => []ExclusiveRuleStaysOpen` |

`SnapshotIsCurrent` is not inductive: nothing in it says that memory stands
still while a goroutine is inside `SaveAll`. `LockInv` does: a goroutine that has
passed the first `RLock` means `readers > 0`, and then no critical section is
entered. A `New` that takes its session back after a failed save would change
memory too; it has passed `FirstRLock` itself, so the lock excludes it as well.
`CallInv` and `FreshInv` tell which call a goroutine is in and that a session
still being provisioned is nobody else's, so that `NewSection` is a `Begin` of
the abstract specification. `FileInv` is about the files: while anybody has the
temporary file made it holds memory, or nothing whole, or has been renamed away;
alone with it, a goroutine renames what it wrote; with company, a file that holds
nothing whole has somebody who is still to write it, unless a write failed. With
current saves, `DiskNotAhead` holds (a store that opens knows no session and no end
that memory does not), `UpInv` says that a running daemon knows every session that
was acknowledged, and `AcknowledgedIsDurable`, `DamageIsMomentary`,
`EndedOnDiskStaysEnded` and the refinement follow step by step. There is one
lemma for each action, and `NextInd` puts them together.

The accounts and rules need another invariant. `GrantIsTracked` excuses any
session a call has in flight, and that is too weak to be kept: `End` has its
session in hand from the moment it is called, and a `New` whose rollback is done
has it still. `Deals(g, id)` says when a call really answers for what is on the
server: a `New` while it provisions, any other call while it is at `"revoke"` or
`"deny"`. `AccountInv` says that an account belongs to an active session or to
somebody who deals with it, that it is there from `"allow"` on and gone at
`"deny"`; `RuleInv` says the same of rules, where the rule of a block may be owed
to another session with it. `WorkInv` ties the sessions a goroutine has yet to
tear down to what it does: their statuses are final, unless it is a `New` that
takes its own session back, which is disturbed then. A step that ends a session
hands it to whoever deals with it in the same critical section, so that no
account is without one or the other. One lemma for each action again;
`NextResources` puts them together.

Only model-checked: the three liveness properties.

### Left out of this module

Attempt counters and tokens (`WebGate`), the playground name and its
database (`Playground`), permanent grants and their rules, the master key and other
processes on the same store (`SharedStore`), which have modules of their own.
A write is one step: the lists several goroutines write are of one length, memory
being frozen, so no rest of an older one stays behind. Two blocks are the same or different;
`AddressPolicy` has what is in them.

## The gate

`WebGate.tla` is the way into the dashboard in one `serve` process, from its
start: the store may already hold live sessions (two, if `flashaccess session
start` was run twice), or the setup form starts one.

| Variable | Code |
|---|---|
| `now`, `expires` | the clock and `ExpiresAt`, in ticks |
| `status`, `failed`, `lastAttempt` | the fields of the session |
| `tokens`, `cookie` | `authStore.tokens` and what each browser presents. A token is its holder, session and time of issue |
| `pc`, `sid`, `via` | per goroutine: its next step, the session of its last look-up, the session `requireAuth` checked the token for |
| `tick` | the time `reap` has read |
| `lock` | what is left of the manager's lock: `"free"`, `"leaked"` after a `persist`, `"stalled"` once a writer waits |
| `verified`, `failures` | history: gates passed; the times of the wrong attempts since the right key was last shown |

The handlers are cut where they give up a lock: `RequireAuth`, `Validate`, and
then `BuildDashBase`, `ListDatabases` or `SessionEndPost`, `RevokeSession`,
`End`, `OnRevoke`, `Persist`. `VerifyAccess` is one critical section (a
stored hash that does not parse is an error that counts nothing), and
`IssueToken` a step of its own after it. An address is abstracted to whether a
session permits it (`Permitted`). A `New` whose save failed stays in `"undo"`:
its lock never comes (see above). Pages that only redirect change
nothing and are left out, except that `Validate` drops an aged token (`GateGet`).

| Run | Question | Instance |
|---|---|---|
| `gate`, world `"lockout"` | `LockoutBound`: never more wrong attempts in a window than the limit, although the count is not reset when a lockout ends. `LockoutHasCause`: nobody is locked out sooner | 1 session, 2 browsers, limit 2, window of 2 ticks, 4 ticks: two whole lockouts and the boundary between them |
| `gate`, world `"tokens"` | `ServedIsVerified`: a request is served only under a session whose gate its browser has passed. `GateInv`: the invariant of the proofs | 2 sessions, 1 browser, tokens valid for 1 of 2 ticks, so that one of them outlives its session, and ages |
| `dashboard_panics` | violated: no session, "redirect /setup" (auth.go:129) | the session lapses between the two look-ups, `buildDashBase` dereferences nil |

`MCGateWorlds` puts the two instances into one run; every property is checked in
both. Only `handleSessionEnd` revokes tokens: those of a session the reaper has
ended stay in the map, although auth.go:22-23 and docs 984 say that all tokens
are revoked. `TokenInv` shows what they are good for, which is nothing but to be
refused.

With two live sessions `handleSessionEnd` may end the one its browser is not
in: it looks up a live session again and does not compare it with the one
`requireAuth` checked (`SessionEndPost` keeps `via` and `sid` apart).

The limits are parameters (5 attempts, 5 minutes and 12 hours in the code); the
comparisons are what matters, and they are met at both sides within the bounds.
The safety of several browsers in one session is in the first world; the second
has one browser, for a browser's tokens and cookie are touched by others only
through `RevokeSession` and the sessions' ends, which the reaper and the
browser itself bring about there. The theorems cover any number of them.

`WebGateProofs.tla` proves every property of the run for any constants that
satisfy the assumptions: `ServedOnlyVerified` (`ServedIsVerified`), `GateTypes`,
`GateInvariance`, `LockoutHolds` (`LockoutBound`) and `LockoutDeserved`
(`LockoutHasCause`).

`TokenInv` is for the first: every token, every cookie still in the store and
every token about to be issued belongs to a browser that the gate has accepted
for that session. Most steps add none of these (`QuietStep`, `StillStep`);
`VerifyAccess`, `IssueToken` and `Validate` have a lemma each.

`AttemptsInv` is for the lockout: what `VerifyAccess` keeps is the number of wrong
attempts and the time of the last, and those are the length and the last element
of `failures`. `LockoutBound` says that the attempt `MaxAttempts` places further on
comes a window later at least. It is kept because the counter is not reset when
the lockout ends: a new attempt past the limit is only let through to the check
when the last one is a window old, and the one `MaxAttempts` before it is no
younger than that.

## SQL scripts

`SqlScript.tla` follows one script from the query page or an uploaded file:
`SplitStatements`, one iteration of its loop per step, then `RunScript`. A
character is one of the nine kinds the splitter tells apart (any blank is a
newline), and a statement is the sequence of the positions of its characters, so
that losing, doubling or moving one shows.

| Variable | Code |
|---|---|
| `i`, `cur`, `stmts` | the loop variable, the builder, the result |
| `mode` | `inSingle`, `inDouble`, `inLine`, `inBlock`: at most one is set |
| `upload`, `phase` | which handler called, and how far it is |
| `next`, `executed`, `skipped`, `failed` | the loop of `RunScript` and its result |

In the run `dashboard_pages`, `SqlScript` takes every script of up to four characters and every script
of five that is all about quotes or all about comments: a quote with an escaped
quote and a semicolon in it, a block comment with a semicolon in it, and text
after each need no more. `SplitsAsDescribed` compares the result with
`Pieces`, which says without a loop what the comment on the function describes.
Tokens are comments, quoted texts and single characters; where they begin is the
least set of positions with the first one and, with a beginning, the position
behind that token's end (`TokenStarts`). A semicolon that is a token cuts,
comments go, and a piece is what no cut parts, from its first position that is no
blank to its last. `AllAccounted`: whatever
fails, executed, skipped and failed statements are all of them.

`SqlScriptProofs.tla` proves, for scripts of any length, `StaysInsideScript`
(`Spec => []TypeOK`: where the loop takes two characters there are two) and
`EveryStatementCounts` (`Spec => []AllAccounted`). `CountInv` adds to `TypeOK`
that the counters add up to what is behind, and that a single statement is run
in another way only when it was not uploaded. That a trimmed statement is one
again needs that `Min` and `Max` of a set of positions are in it (`MinInSet`,
`MaxInSet`).

`SplitsRight` (`Spec => []SplitsAsDescribed`) says that the splitter is right for
every script of any length. Its invariant `SplitInv` has two parts:

* `LexInv` ties `mode` to the tokens. In mode "plain" a token begins at `i`; in
  the other modes `i` is inside a comment or a text that began at a token's
  beginning and has not ended yet (`InLineComment`, `InBlockComment`, `InText`,
  the last with the parity of the backslashes before `i`). That tokens neither
  overlap nor leave gaps (`NoStartInside`, `OneToken`) follows from `TokenStarts`
  being the least such set. A quote doubled in a string is two tokens to the
  description and one step to the code: the text ends, and the next begins.
* `Behind`: with `d` the last cut before `i`, `cur` is what is kept between `d`
  and `i`, in order, and `stmts` are the pieces before `d`. Each step but a cut
  takes what is kept and leaves out what is not (`Passes`); at a cut and at the
  end, trimming makes a piece of `cur` (`TrimPiece`), which goes behind the others
  (`FlushDone`).

The reference describes the function, not MySQL. MySQL also has names in
backticks and comments that begin with `#`, which the code does not know; a
comment between two words is dropped without leaving a blank. `skipStatement` is
a choice, for the words of a statement are abstracted.

`UserQuery.tla` has the single statement. A statement is what the code looks at:
its verb, how its WHERE is written, whether the word occurs before in a text or a
subquery, whether a letter before it has another length in upper case, whether table
and words are plain; and the rows it is about.
`PreviewQuery` says what `classifySQL` and `dmlToCountSQL` make of it, `SendQuery`
and `SendExec` are the two attempts of `RunUserQuery` on one connection, each of
which may answer, fail after nothing or half of its effect, or lose the
connection after anything. `NeverTwiceWhole`: no second whole effect, and no
answer without one. It holds because both use the one connection; with a
connection each (mutant `SendExecElsewhere`) a lost answer runs the statement
twice. Half an effect and then the whole is possible, on tables without
transactions.

A preview stays on the page while others change the table (`TableChanges`; `seen` is
the table it counted). `PreviewIsCautious`: for a plain UPDATE or DELETE it falls
short of what would be changed by no more than the rows that have come since, and
it warns when there is no WHERE. The exception is `Miscut`: the code looks for
" WHERE " in the text in upper case and cuts the text itself at that place, so the
word in a quoted text, or a letter before it whose upper case has another length,
makes it count by another condition, or panic. "Returns "" if it
can't be converted safely" (query.go:401) is not so: of such an UPDATE the preview may
say fewer rows than it changes. The estimate of a SELECT is
EXPLAIN's sum over its tables and may be any number (`Guesses`).

The driver answers UPDATE and DELETE through `Query`, so the second
attempt is not reached for them and `Affected` stays 0.

`DashboardProofs.tla` proves `SentOnceWhole`, `QueryTypes` and, for tables of any
finite size and any changes to them, `PreviewCounts`: `CountInv` says what the
preview counted of `seen`, and rows picked now are picked then or have come since
(`CountsEnough`). `SentInv` is the link between the attempts: at `"exec"` the
first one has either failed with an answer, and then not taken whole effect, or
lost the connection, and then the second is not sent.

## Tables and figures

`TableBrowsing.tla` shows a page of rows by place, then edits them by the value
of the key column, while somebody else edits too. `kind` says whether the table
has a primary key of one column. `LinksLeadEverywhere`: the links lead to every
row as long as twenty-one links are enough (`MaxLinks`). `EditsHitShownRow`: with
such a key an update and a delete change the row that was shown or none, however
old the page, unless the key shown for that row has changed hands since, by an
insert or by an update that gave it another key (`moved`, as it was before the edit).
Without one it changes every row with
that value; that is in the model, and outside the property.

`ServerStats.tla` subtracts counters that wrap at `Word`. `PercentagesInRange`:
every figure is between nothing and everything, across a wrap too, because the
difference is taken before the conversion; only a kernel that takes back more
`iowait` than idle has gained between the readings breaks it, which the property
excepts.

`DashboardProofs.tla` proves all of it, for tables and pages of any size and
counters of any width.

* `EditsHit`. A page shows rows as they were when it was read, and a row is found
  again by its key. `ShownInv` says that what the page shows of a row leads to that
  row or to none, as long as the key shown has not changed hands; `KeysInv`
  that no two rows of the table have one key, which MySQL sees to. Row changes,
  edits of the key column and rows that come and go have a lemma each.
* `LinksReach`. The links are one for each page that begins within the table, up to
  `MaxLinks`: there is a first page that does not, and those before it are
  exactly the links (`LinkPages`). A row's own page is the first that ends behind
  it (`LinkOfRow`).
* `FiguresInRange`. `GainInv` says that the sums of the counters are those of the
  first reading and what the counters have gained since, modulo `Word`. The
  differences `cpuPercent` takes are these gains (`SampleInRange`), for they are
  less than a turn.

The bounds in `dashboard_pages`: three rows and pages of up to two give full,
partial and empty last pages; two edits are one by somebody else and one by the
page; counters of eight values start anywhere, so that three ticks take them
round the end.

## Permanent grants

`PermanentGrants.tla`: the clerks are the handlers of grants and of MySQL users.
`origin` tells who made each account, `open` the rules, `grants` and `file` the
list. `excused` are the names and blocks on which two callers met, a call
failed or a crash came in between; `TmpNames` look like a session's, so that they
can be granted but `DropAdminUser` refuses to drop them.

* `AccountMatchesList`: once nobody is at work on a name, a grant made its account
  if and only if it is listed.
* `RuleMatchesList`: the same for a block and its rule, with the sessions' rules.

The run `server_objects` has two clerks, two names, one block, a failing call and
a restart, and three requests in all (`MaxCalls`): a grant, its revocation and a
third that meets either. `PermanentGrantsProofs.tla` proves both properties and
the types for any number of each. The invariant is per name (`NameInv`) and per
block (`BlockInv`): whoever is neither excused nor refused has one handler at
work and one listed grant at most, and account and list, or rule and list, part
only between the two steps of that handler. `IdInv` says that an id that is drawn
is not in the list, so that a rule opened for one grant is not told by another.
A step leaves every other name and block as it was (`StepName`, `StepBlock`), so
each action has to be looked at for one name and one block.

`grant_lost` is violated: "these persist indefinitely"
(templates/permanent.html:21).
`CreateAdminUser` cleans up after any failure with DROP USER IF EXISTS, also when
CREATE USER failed because the account exists: granting a listed name again drops
the first grant's account, and the list goes on to show it.

## Playgrounds

`Playground.tla` has the databases on the server with what they hold (a playground
has two halves, so that one can be half filled), the record of each session in
memory and store, and the mutex in the three states that matter: free, leaked by a
`persist`, held for ever by a writer. `spoiled` are the playgrounds two callers met
on, a call failed for, a crash interrupted or the database pages touched.
`unrecorded` are those the code leaves without a record though nothing of that
happened: a clone whose form names no source is refused only after its database was
made (handlers.go:735), and a second playground waits for ever for the lock that
would record it (manager.go:213). `bare` are clones of a source with no tables.

* `RecordedIsComplete`: what is on record is there and whole, if there was anything
  to clone; no half-filled playground is announced.
* `NoStrayPlayground`: once nobody works on it, a playground is there only if its
  session has it on record and lives: rollback, replacement and end leave nothing.
  It excepts what is `spoiled` and what is `unrecorded`, and nothing else.

In `server_objects` two handlers and the ticker work on one session's playground, with
one failing call and one restart. Its `VIEW` leaves out what nothing in the run reads
any more, such as the history of a playground that is spoiled.

`playground_stays` is violated: "automatically dropped when your session ends"
(templates/playground.html:114). The record never reaches the store, because
`SetPlaygroundDB` never gets out of `persist`; after a restart `Revoke` finds none
and leaves the database. No failure is needed, only a restart. One owner is enough:
a playground's name has its session's id in it, and two sessions touch different
ones.

The same sentence is not true of a clone without a source either: with no failure,
no restart and one handler, the session ends and its database stays (`unrecorded`
for good, for nothing drops it).

`ServerObjectsProofs.tla` proves `PlayTypes`, `RecordsComplete`
(`RecordedIsComplete`) and `NoneLeftBehind` (`NoStrayPlayground`) for any sets of
sessions and handlers, any failures and restarts, with and without the database
pages. `PlayInv` has two parts. `BaseInv`: a database that is not there holds
nothing, and a record is made only by the goroutine that holds the lock for ever,
so that `saved.record = {}` always: this is why `playground_stays` needs no
failure. `SessionInv`, for each session neither spoiled nor unrecorded: one goroutine at
most is at work on it, and that one knows how much is there (`StageOK`); if
nobody is, what is there is whole, on record, and its session lives. A step of a
goroutine leaves every other session as it was (`Elsewhere`), moves its own
from one stage to the next (`Own`) or takes up one that nobody works on (`TakenUp`).

## Addresses

`AddressPolicy.tla` takes the text of a form to `AllowedCIDR`, MySQL's host pattern
and the ufw rule, and then lets any client knock. An address is a number; IPv4
addresses have `Bits4` bits behind a prefix, as in `net.IP`. With two and three bits
the run has every address, every prefix length, both ways to write an IPv4 address,
and a client for each.

* `SameAddressesThroughout`: who reaches MySQL would pass the gate, and the other
  way round for an address that is not an IPv4 one written as IPv6.
* `BareMeansOne`: a bare address admits itself and nobody else.

The exception is real: `::ffff:a.b.c.d` becomes a "/32" of IPv6, and admits nobody;
as a block it becomes a pattern MySQL takes for a host name. `session new` without
an address, as the usage line shows it (main.go:378), always fails in `CIDRToHost`.

`ServerObjectsProofs.tla` proves `SameAddresses` and `OneAddress` for addresses of
any width. Powers of two are the recursive function `Size`; that it has the values
its definition says is proved by the least number at which no such table
exists (`SizesExist`, `SizeTable`), and that a larger block is made of smaller ones
by the least that is not (`Blocks`). The argument is then that a network within the
IPv4 addresses stays there (`MaskFine`), and that a network larger than they are
never counts as one, its number being an even multiple of theirs (`MaskCoarse`).
This is where a block like `::/64` and the IPv4 addresses inside of it could have
parted ways: `Contains`, ufw and the pattern `%` with the rule agree on it.

## One data directory, several processes

`SharedStore.tla` is the directory: `file` and `tmp` by name, what each goroutine has
open (`fd`, which follows a rename or a removal as a file descriptor does), and the
processes: `serve`, `session new`, `session end`, `mode`, `connect`. A member of
`Procs` is a goroutine; `host` says whose process it belongs to. A process starts
with one; when its list has been copied for a save, others that have changed the
list come to their own saves of it (`SaveToo`), so that two goroutines of one process
may be in `SaveAll` just as two processes may. Every process may be killed at any
step and takes its goroutines along (`Crew`). `masterKey` is read, or created and
then filled; `Save` and `SaveAll` open, write and rename; every call may fail;
`connect` may remove everything first.

* `SealedFilesOpen`: a sealed file that is there is whole and opens with the key
  that is there, whatever is killed and when.
* `LastSaveStands`: every field has the value its last save meant, except where a
  process that had loaded the file before wrote the old value back (`lost`).

Both except files on which two savers met (`mixed`: two goroutines, of one process or
of two, between the open and the rename of the same temporary file; two first runs;
a wipe under a running process or cut short): there the files do get torn, and
nothing in the code prevents it. `SessionManager` has the same within one process. What
holds there all the same is `SessionManager`'s `DamageIsMomentary`. `deployment` runs
two goroutines at a time, of one process or of two, and three processes in all: one
that writes, one that was late, and one that reads what they left. Calls fail freely.
Two sessions and two keys are the one at hand and another. `VIEW` leaves out what
nothing can read any more, and a behaviour ends once both files are `mixed`, for then
nothing is claimed of them.

`SharedStoreProofs.tla` proves `StoreTypes`, `FilesOpen` (`SealedFilesOpen`) and
`SavesStand` (`LastSaveStands`) for any number of goroutines, processes, sessions,
keys, runs and failures. `StoreInv` says of each file that is not `mixed`: no two
goroutines are in each other's way on it now; who has the key has the one that is
there, and who makes it finds none or an empty one (`KeyOK`); what is about to be
written is sealed with that key and is what the process has in memory (`SaveOK`);
and memory is what the last saves meant, but for the fields the process has
changed, those others have saved since it loaded (`late`) and those lost before
(`MemOK`). A rename then gives the file what was meant, or loses the fields that
were late. Most steps leave key, file and `meant` alone (`Frame`); making the
key, removing files and the rename have lemmas of their own.

`end_undone` is violated: "To end early: flashaccess session end" (docs 980-983). A
process that loaded the list before the command wrote it saves the ended session as
active again, with no failure and no crash.

More of what the model shows: the daemon never sees what a command has changed; a
crash between the creation of the key file and its filling leaves an empty key with
which no command can save, and `connect` does not offer to wipe it; a wipe cut short
leaves sessions that no key opens; a daemon that could not be stopped writes its old
sessions again after a wipe.

## Not modelled

*Session keys*: Argon2, and the random numbers of ids, keys and tokens, which never
collide here. AES-GCM is that a box opens with the key that sealed it.
*Routing, templates, assets, installer, website*: no state and no control of their
own. The pages that only read (structure, schemas, server information, key reveal),
`FilePersister`, which `main` does not use, the choice of a header in `RealIP`, the
assistant's prompt (what it sends is `UserQuery`'s), and the forms' checks that
refuse without changing anything.
