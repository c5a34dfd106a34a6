# NanoIDP in TLA+

NanoIDP is a small OAuth 2 / OpenID Connect / SAML identity provider for
development and test environments (Python, Flask). This directory holds TLA+
modules of it, TLC configurations that check them on small instances, and
proofs that TLAPS checks for every value of their constants.

Paths such as `routes/oauth.py` are below `src/nanoidp/` of the repository.

    tlc -workers 2 -config MCAuthCodeStore.cfg MCAuthCodeStore
    tlapm AuthCodeStoreProofs.tla

`PROJECT.json` lists the runs, the lines each definition models (`map`), the
hazards and which property covers each, and, per property, a mutation of a
modelled definition that makes the property fail.

## 1. The system

### How it is put together

Flask serves every request on a thread of its own. Request handlers (`routes/`)
read one in-memory configuration (`config.py`), call stores and services
(`services/`) that are process-wide singletons, and answer. Three kinds of state
exist:

- **Runtime stores** (authorization codes, device codes, revocations, audit
  log): in memory only, each with a lock of its own, lost on a restart by design
  (`book/src/project/architecture.md`).
- **Declared configuration**: `settings.yaml` and `users.yaml`, written with a
  revision check under a thread lock and a file lock, and loaded into the
  runtime. The web UI and the MCP server may be two processes on one directory.
- **Keys**: PEM files and `keys.json` under the keys directory, and their copy
  in memory.

To these comes what the *browser* keeps: a signed session cookie, read when a
request arrives and replaced by its answer.

### Inventory

| Component | State | Operations | Hard about it | Correct when |
|---|---|---|---|---|
| Authorization code store `services/auth_code.py` | dict of codes with expiry and `used` | create (sweeps), consume, restart | concurrent redemptions, replay, expiry between check and use | a code is answered once, to whom it was issued, and nobody else can burn it |
| Authorization endpoint `routes/oauth.py` `/authorize` | session cookie, login page per tab | GET, POST, auto-login, "change username" link | tabs share one session; configuration changes between page and submission | the code issued is for the page submitted, and allowed at that moment |
| Authorization code grant `routes/oauth_grants.py` | – | redeem, then check user, scope, resource | configuration changes between issue, redemption and checks | a token never exceeds the code or the client's policy |
| Refresh grant `routes/oauth_grants.py` | request in flight | authenticate, validate, claim, resolve resource, sign | two refreshes of one token, `/revoke` and `/logout` meanwhile, reload, expiry in flight | a consumed token is not used again, reuse kills the family, grants only narrow |
| Revocation store `services/revocation.py` | revoked tokens and families with expiries | revoke, is_revoked, check_and_claim, sweep | the sweep must not forget what still matters | a revocation outlives its token |
| Device code store `services/device_code.py` | dict, user-code index, cap | create, poll, verify, prune | poll against verify against a second verify, collisions, the cap | a device gets its approver's identity once; index and dict agree |
| Other grants and device endpoints `routes/oauth_grants.py`, `oauth.py` | request in flight | client authentication, password, client_credentials, device_code, `/device_authorization`, `/device` | approved under one configuration, polled under another, which changes once more before the checks | every token obeys rules in force while its request was answered |
| Token use `/userinfo`, `/introspect` | – | read | read without lock or sweep; own revocation against the family's | the endpoints agree about one token |
| Scope and resource rules `services/scope.py`, `resource.py` | – | resolve_scope, resolve_resources | defaults and enforcement interact | what is granted is what was asked and allowed |
| Keys `services/crypto.py`, `token.py` | key files, kid, previous keys | load, rotate, sign, verify | rotation is many steps without a lock; crash between file writes | a signed token can be verified; JWKS has the key |
| Configuration writer `config_writer.py` | revisions, locks | compare_and_replace(_many) | two processes, lock timeout, crash between two files | no lost update, true answers |
| Configuration manager `config.py` | settings, users, revisions | load, save, reload | unlocked read, piecewise commit, failing hooks | the runtime is what the files say; an error says what was written |
| Hooks and plugins `hooks.py` | registry per source, snapshot of the declaration | drop, register, roll back, run | overlapping loads; a plugin that fails in the middle | the registry is the one of the settings in force |
| UI and JSON management routes `routes/ui.py`, `api.py` | forms with a hidden revision | show, submit, delete, reload, rotate, clear | forms drawn from memory and stamped from disk; other writers before they come back | no edit is lost in silence |
| MCP server `mcp_server/` | edits in memory | edit, save_config, reload_config | two files and one given revision; edits in memory against loads | a guarded save replaces only what it loaded |
| Management gates `routes/_auth.py`, `mcp_server/__init__.py` | marker and user in the session | login, unlock, secret, readonly | a session older than the secret in force | nothing is written before every gate of the moment is passed |
| Audit log `services/audit.py` | ring buffer, counters | log, clear, query | limit reached, clear between events | entries are the latest, counters count all |
| SAML IdP `routes/saml.py` | request and login in the session | SSO in both bindings, attribute query | one session for all tabs; a GET continued by POSTs; strict bindings | an assertion answers a verified request and says how its subject logged in |
| Redirect URI matching `services/redirect_uri.py` | – | match | loopback ports | only registered URIs match |
| Documents, serialization, schema, models | – | parse, validate, apply | unknown keys survive a rewrite | reading back gives what was written |
| Start-up, CLI, wizard; discovery, issuer, branding | – | – | pure I/O or pure functions | – |

Interactions: `/authorize` creates codes in the code store; `/token` consumes
codes and device codes, consults the revocation store and the configuration
(several times per request), and signs with the keys; `/revoke`, `/logout` write
the revocation store; the UI, the JSON API and MCP write files through the
configuration writer and reload the manager, under requests in flight; loads
run the hooks and rebuild their registry; every handler tells the audit log.

## 2. The modules

| Module | Models | Uses |
|---|---|---|
| `OneTimeGrant` | abstract: a grant is opened once, redeemed at most once, then closed for good | – |
| `AuthCodeStore` | the code store, its clock, sweeps, restarts | refines `OneTimeGrant` |
| `DeviceCodeStore` | the device code store with its index, cap and the users a reload changes | refines `OneTimeGrant` |
| `GrantRules` | scope and resource rules as operators over sets | – |
| `LoginRules` | what a form with username and password decides, in one step or two | – |
| `DeviceFlow` | client authentication, the password, client_credentials and device_code grants, `/device_authorization`, `/device` | extends `DeviceCodeStore`, instances `GrantRules`, `LoginRules` |
| `RevocationStore` | the revocation dicts and their critical sections | – |
| `RefreshGrant` | refresh requests in steps, `/revoke`, `/logout`, other issuances, reload, clock, restart | extends `RevocationStore`, instances `GrantRules` |
| `TokenUse` | `/introspect` and `/userinfo` as operators over those states | extends `RefreshGrant` |
| `AuthorizationFlow` | tabs and session of a browser, `/authorize`, redirect matching, the code, its exchange at `/token`, reload | instances `GrantRules` |
| `Keys` | key files, their copy in memory, rotation, restart, change of keys_dir, who signs and what JWKS publishes | – |
| `VersionedFiles` | abstract: files changed only by batches that see what they expect and are alone until they are through | – |
| `ConfigWriter` | the configuration writer: two kinds of locks, three passes, requests of several processes | refines `VersionedFiles` |
| `ConfigManager` | the runtime of the web server and of the MCP server on one directory: loads step by step, hooks, forms, tools, saves | the writer as one critical section |
| `AuditLog` | the log's ring buffer and counters as operators | – |
| `BrowserSessions` | one browser's session: logins, gates, SAML, and the audit log told of it | extends `AuditLog`, instances `LoginRules` |
| `*Proofs` | theorems about the module they are named after (`DeviceFlowProofs` about the store as well, `RefreshGrantProofs` about `TokenUse` as well) | |
| `MC*` | constants, constraints and symmetry for TLC | |

### State and code

**Atomicity.** An action is a critical section of the code: the stores hold
their lock for a whole method (`consume_code`, `create`, `poll`, `verify`,
`check_and_claim_refresh`), so each is one action, with every early return a
disjunct. Where a thread can be pre-empted between two reads of shared state the
handler is split: a refresh request goes through `Authenticate`, `Validate`,
`Claim` or `DetectReuse`, `Mint` or `RefuseTarget`; an `/authorize` request is
its arrival (`Get`, `Submit`, `ChangeUsername`: the session and the query string
are read) and its answer (`Reject`, `ShowPage`, `IssueCode`); a code exchange is
`Redeem` and then `Mint` or `Refuse`; a request to the other grants
authenticates, and its handler reads the client again; a login of `/login` and
`/saml/sso` is the handler's look at the login mode (`HandleLogin`, `HandleSso`),
the check, which looks at it again (`LoginSucceeds`, `LoginFails`), and for
`/saml/sso` the assertion (`SsoResponds`). Within one such step the configuration
is read as if at once, which is coarser than the code: in particular `/authorize`
and `/device` look at the login mode twice too, for their form and for the
check, and here once; they record no method.
`ConfigManager` is where the configuration itself changes assignment by
assignment.

**AuthCodeStore.** `codes[c]` is the dict `_codes` and the `used` flag,
`grant[c]` the `AuthorizationCode`, `receipt[q]` a history variable: what
request `q` was answered. Codes are never drawn twice (256 random bits). Client,
redirect URI, challenge, method and verifier decide; nonce, state and claims ride
along and are left out. SHA-256 is a free constructor.

**DeviceCodeStore, DeviceFlow.** `codes` and `byUserCode` are the two dicts;
device codes are never drawn twice, user codes may be (eight letters, not
compared with the index). `users` is part of the state because `poll` looks the
user up under the store's lock while an operator may have deleted the user. The
polling interval is stored by the code and enforced nowhere. `DeviceFlow` adds
the scope and resource a code is bound to, the requests at `/token` and
`/device_authorization`, and the configuration. Its history `inForce` collects,
per request, the configurations that were loaded while it was answered: a token
obeys one of them.

**RevocationStore, RefreshGrant, TokenUse.** The expiry of a revocation has the
three states of `_effective_expiry`: a claim from a verified `exp`, an unknown
one (kept forever) and an implausible one (a grace period). `tokens` are the
tokens signed so far, `req` the requests in flight with what each has read.
Signing keys survive a restart and revocations do not, so `Restart` keeps
`tokens`. `kept`, `spent` and `burnt` are history variables; a restart empties
them, as the code promises nothing across it. A fourth, `forked`, holds the
families of which a token was refreshed and not spent for good: rotation was
off, or the token had expired when it was claimed, or a restart forgot what was
spent. `OneHeir` speaks of the others. `/introspect` and `/userinfo`
change nothing but the audit log, so they are no actions: `Active` and `Informs`
say what they would answer in a state.

**AuthorizationFlow.** `session` is the `oauth_` part of the cookie, `tab[t]`
what a tab shows or waits for. A query string is a function of the seven fields
that decide, each present or `Absent`. `_read_authorize_params` is `Resolve`,
every `_validate_authorize_*` an operator, in `Accepted`. The code store appears
as the one-time grant it is shown to implement. `RedirectMatches` compares a
requested URI with the registered ones: equal, or both on loopback and equal
without the port.

**Keys.** A key pair and the kid drawn with it are one value of `Key`; which of
the three files, or of the three attributes of a service, holds which value is
the state. `rotate_keys` takes no lock, so each write of it is an action
(`ArchivePublic` to `SaveList`), and `Restart` may come between any two: that is
the crash. `service` holds the CryptoService objects somebody still refers to
(the global variable, the TokenService, a rotation under way). Three history
variables carry the properties: `token` is the last token signed at a quiet
moment, `retired` the keys rotated out in order, and `flaw[d]` what interrupted
or overlapping rotations left in a directory, as far as the next rotation does
not repair it (`pair` and `certificate` are repaired, `list` is not). The
properties say what holds where `flaw` says nothing went wrong, and `flaw` says
it as narrowly as the code allows: a pair is torn only by an end of the process
between the first and the last write of the pair's files, a certificate also by
one until the certificate is written.

**ConfigWriter.** A request is one call of `compare_and_replace_many`; `at[r]`
and `next[r]` say which pass and which item it has reached, so that a step of any
other request, the end of its process (`Crash`) or a process that hangs (`Hang`)
may come between any two. `threadLock` is `_write_lock`, one per process;
`fileLock[d]` the holders of the lock file of a directory. The lock file is only
trusted to keep out *other* processes, which is all that the module's docstring
claims of `flock` and `msvcrt.locking`; that makes the thread lock necessary,
and removing it is the mutation that breaks `NoLostUpdate`. The content of a
file is the sequence of requests whose mutation it carries and is also its
revision (a hash of the bytes). Two contents with equal bytes and different
histories have one revision in the code and two here; whoever expects the first
and finds the second finds the bytes it has seen. `expected[r]` is what the
caller looked at earlier, file by file and without a lock. A write and the read
of the new revision after it are one step, and that read is taken to succeed.

Editors that write a file without the writer (a text editor, a mirror that a
hook pulls) take no lock: what they change between check and write is lost, and
neither code nor model promises otherwise.

**ConfigManager.** `disk` are the two files, `memory[p]`, `revision[p]`,
`registry[p]` and `applied[p]` the runtime of the web server and of the MCP
server: settings and users, the revisions they were loaded from, the hooks
registered from `settings.yaml` and the snapshot by which a load knows an
unchanged declaration. A file is a set of entries (users; clients and the page of
settings), a hooks declaration, and perhaps a key the loader refuses. A load
(`request[a]` in one of the `LoadPhase`s) reads one file after the other without
the writer's lock and promotes what it read by one assignment a step, so that
saves, hand edits and other loads of the process come between any two. The
writer is one critical section here: `AtomicWrite` for one file, `SaveConfig`
and `SaveSettings` for the two writes of a save, with `lock` held in between.
Hooks run where the code runs them — `Pull` before a reload, `PushUsers` and
`PushSettings` after a write — and succeed, fail (which a strict policy raises)
or edit the files. A form is drawn from the runtime and only then stamped with
the revision the file has on disk; `carries` are the values whose content its
submission repeats. What a call is answered is `Answer`: `LoadedAnswer` when its
load went through, `RaisedAnswer` when it raised. Who may raise what decides
here: a plugin that fails to load raises the same `HookError` as a mirror that
fails, so the settings page answers both with "saved, only the hook failed";
the other handlers of the UI call both a failure. Three histories: `unsaved` (files that MCP tools changed in
memory only), `current` (processes that loaded the files alone and have not been
overtaken), `met` (processes two loads of which have overlapped). `alone` and
`fresh` of a request say that nobody wrote since its own write, and that its form
was drawn by a current runtime and then stamped.

**AuditLog, BrowserSessions.** `cookie` is the session, `request[t]` works on
the copy it arrived with, and its answer replaces the whole cookie: when the
handler changed it and, after a login, always, because Flask renews a permanent
session with every response. Between arrival and answer stand the other tab's
requests and `LoadConfiguration`. A message is an AuthnRequest with its
RelayState: its signature verifies under a configuration or does not
(`certified`), its encoding is that of one binding (`Compressed`), it names an
address or none. A login takes steps of its own, since `LoadConfiguration` may
come between the two looks it takes at the login mode: `mode` is what the handler
saw, and is what it records; `crossed` (history) that the mode has changed since,
and `crossings` the logins this happened to, as they were recorded. `signed` says
that signatures were required when the request's was checked. `verb` is the verb a login page carries in its form and
`entered` (history) the one the flow came in with. `logins`, `verified`, `proved`
and `events` are histories of what earlier requests did, which the properties
compare the outcome of a request with. `log()` and `clear()` of the audit log
run under its lock and are part of the step that calls them.

## 3. What is checked

| Run | Module | States | Shows |
|---|---|---|---|
| `auth_code_store` | MCAuthCodeStore | 170 044 | one redemption per code, as issued; nobody but its owner burns a code; refinement of `OneTimeGrant` |
| `refresh_rotation` | MCRefreshGrant | 1 641 618 | rotation, reuse detection, one heir per family, late descendants, sweep, restart; `/introspect` and the grant agree on every token |
| `refresh_narrowing` | MCRefreshGrant | 1 215 972 | scope, resource and client of successive refreshes under a changing policy |
| `refresh_rejected` | MCRefreshGrant | – | *violation*: a rejected request has consumed its token |
| `device_flow` | MCDeviceFlow | 828 900 | approver's identity, once; index and dict agree; live entries stay; refinement; every token of the direct and device grants obeys rules in force while it was asked for |
| `authorization_flow` | MCAuthorizationFlow | 997 548 | codes and tokens obey the policy of their moment, pages issue for themselves, public clients prove possession |
| `keys` | MCKeys | 914 692 | key, public key, kid and certificate stay together through rotations, restarts and a change of directory; JWKS keeps the keys tokens need and no more than its limit; the files say all there is to say |
| `keys_dir` | MCKeys | – | *violation*: tokens are signed with the key of the directory left |
| `config_writer` | MCConfigWriter | 240 387 | no lost update; callers are told the truth; no circle of waiting; every call ends; refinement of `VersionedFiles` |
| `config_manager` | MCConfigManager | 1 336 674 | the runtime and its hooks are what the files say; saves with a revision and forms of a current page lose nothing; answers are true |
| `browser_sessions` | MCBrowserSessions | 1 305 294 | assertions name a login that happened and a request that was verified; nothing is written past the gates; the logs tell what happened |
| `login_mode` | MCBrowserSessions | – | *violation*: a login without a password is asserted as one with a password |

### Bounds, and why they are enough

- `auth_code_store`: two codes and two redeeming requests allow a double
  redemption, overlapping lives and one code swept by the issue of the other;
  two clients, redirect URIs and verifiers allow every mismatch; a lifetime of
  one tick in three lets codes expire before, at and after a redemption.
- `device_flow`: two device codes draw one user code, a cap of two fills, three
  requests create, poll and create again after an expiry. The three
  configurations free the client, make it public and enforce its scopes, or
  remove it. There is one user: whose verdict it was is told by *whether* there
  was one, and the theorems are for any number. `Resource` is empty here:
  resources take the way of scopes through the code, and `refresh_narrowing` has
  them. The action constraint `DirectGrantsAlone` lets a password or
  client_credentials request run only from a state with an empty store and
  nobody else at work: these grants read and write nothing of it.
- `refresh_rotation`: two tokens are a parent and its descendant, two families
  tell the right one from a wrong one, two requests race. `Life = 1` in four
  ticks with `MaxDelay = 1` lets a request be overtaken by its token's expiry;
  `Retention = 3` is `Life + 2 * MaxDelay`, the smallest the theorems allow
  (8 days against 7 in the code); the marker of a family burnt at 0 runs out at
  3, the last tick, so a smaller retention is seen to fail. `LongLife = 5` stands for a token of
  `/api/users/<u>/token`, whose lifetime the caller picks. The operator turns
  rotation on and off and makes the client public.
- `refresh_narrowing`: time stands still, scope and resource vary over two each
  and the operator restricts, removes and restores the client.
- `authorization_flow`: two tabs and three query strings — a complete one of a
  public client that listens on another port than it registered, a bare one that
  takes everything it can from the session, and one with a plain challenge and no
  method — under the dev profile and oauth21. One code is enough: the properties
  speak of one code and two tabs.
- `keys`: three keys are three generations of one directory, or two of one and
  one of the other; two rotating threads overlap, and one alone is cut short at
  every write. One previous key is the smallest limit at which a key is both
  kept and rotated out. Three services: the current one, the one the
  TokenService keeps and the one a rotation still holds.
- `config_writer`: two threads of one process and one of another are the fewest
  that need both locks. One batch lies in one directory, the other two list the
  same two files of two directories in opposite orders; today's callers all stay
  in one directory, and the second is there for the order in which the writer
  takes them. Each request runs once.
- `config_manager`: one browser session, one caller of the reload endpoint and
  the MCP server, two calls and one edit by hand or by a hook. One session is
  also a script that posts without a form; two calls are a writer and a load it
  overtakes, and the edit is the third party. The policy is strict: a lenient
  hook that fails is one that succeeds. Two action constraints thin out
  interleavings. `EditorWaits`: the text editor saves while every request is idle
  or about to run a hook — within the reads of a load it is the other writers and
  the hooks that change files. `McpAdopts`: the steps of the MCP server that
  touch only its own runtime come at once, for nobody else sees it. The theorems
  are about the unconstrained specification.
- `browser_sessions`: two tabs, three requests and one load of another
  configuration: a login, a page entered from it and the answer to its form, with
  the other tab's request and the operator in between. One message for each
  binding, two secrets to change between, a user whom the second configuration no
  longer has, two log entries so that a third event pushes one out.
- `login_mode` is a smaller instance of the same: one tab, a login and a page
  entered from it, and one load.

Deadlock is checked in every run but three: `device_flow`, `browser_sessions` and
`login_mode` say `CHECK_DEADLOCK FALSE`, because they stop when their bounded requests are
used up. Symmetry is used over model values that no constant distinguishes.
Bounds (`MaxTime`, `MaxCalls`, `MaxHandEdits`, `MaxRequests`, `MaxLoads`) are
guards of the actions they bound, named in the modules. Safety properties
assume no fairness: each store operation ends in one step, and a client that
stops calling is not at fault.

`config_writer` assumes weak fairness of each request's own steps (`Proceed`):
the operating system schedules the threads of a process that does not hang.
Nothing forces a call to begin, a step to fail, a process to die or to hang, and
a hung process takes no step. `CallsEnd` then says that a call ends unless its
own process hangs. The poll of a lock file is fair as a whole: it gets the lock
or, while somebody else has it, the deadline passes. Weak fairness is enough for
the thread lock because each request runs once; `threading.Lock` is not fair, so
in an endless stream of calls one thread could in principle wait forever.

### Disagreements with what the repository says of itself

1. `refresh_rejected`: `routes/oauth_grants.py:367-371` says a rejected request
   never consumes the token; the resource check forty lines on (405) can reject,
   after the claim. A client that asks for one resource too many loses its
   refresh token, and its retry burns the family.
2. `keys_dir`: `services/crypto.py:503-506` says a reload that changes `keys_dir`
   does not go on "silently signing" from the old directory. The TokenService
   keeps the service it was made with (`services/token.py:106`) and does: from
   then on JWKS and `verify_jwt` know one key and every new token has another.
3. `login_mode`: `routes/saml.py:517-520` and `routes/ui.py:167-169` say persona
   logins must not claim PasswordProtectedTransport. The handlers read the login
   mode (`ui.py:96`, `saml.py:451`) and record that reading, while
   `interactive_authenticate` reads it again (`config.py:472`): a load of another
   thread that switches to personas in between lets a user in without a password
   and has the session claim one. `AssertionsTellHow` says of such a login only
   what was recorded of it.

Seen while modelling, without a run of their own; the models include them, and
the properties say where they leave off:

- A request that verified its refresh token before `exp` and claims it after
  finds the earlier claim swept, so two requests can rotate one token in the
  window of one request's duration around its expiry (`services/revocation.py:
  10-12` excludes it). `SpentOnce` allows for exactly this window, and a family
  refreshed in it has `forked`.
- The "change username" link leaves empty parameters out, and its target takes
  them from the session, where another tab may have put some
  (`routes/oauth.py:736-748`).
- Two loads of one process that overlap can leave the hooks of the earlier one,
  or each registered twice: the registry is dropped and refilled without a lock
  (`hooks.py:322-335`, `config.py:331-350`). `HooksFollowSettings` excepts
  processes that have `met`.
- A form is drawn from memory and stamped with the revision on disk
  (`routes/ui.py:349-357`, `435-439`): if the two differ, its submission passes
  the check and replaces what it never showed. `CurrentFormsLoseNothing` asks
  that the runtime was current; and for a password or secret left blank, which
  the handler takes from memory at submission, that it still is.
- `/introspect` reports a refresh token of a burnt family as active, as it looks
  only for the token's own revocation; the grant refuses it. `EndpointsAgree`
  states this as the one difference.
- A client that vanishes between its authentication and its handler's look at it
  is not checked for scopes (`oauth_grants.py:312`).
- A SAML login form sent while another tab has logged in is answered for the
  user of that tab: the session wins over the form.
- `get_crypto_service` makes its service without `max_previous_keys`, so after a
  change of directory the default of 2 replaces the configured limit until the
  next start.
- The settings page catches every `HookError` and says "Settings saved locally;
  mirror hook failed", because (`routes/ui.py:834-836`) "the write and the reload
  already happened" and "the form's values are in effect". A plugin that cannot be
  loaded under strict raises a `HookError` too (`hooks.py:397`), out of that reload
  (`services/yaml_writer.py:155`): the file is written, the load rolled back, and
  the form's values are not in effect. An editor who declares such a plugin in
  `settings.yaml` before a form is posted is enough. `RaisedAnswer` says so, and
  `AnswersAreTrue` asks nothing of the runtime in this case.
- `docs/SECURITY.md:393` says tokens of previous keys remain valid until those are
  rotated out. Through JWKS they do (`TokenStaysPublished`); NanoIDP's own
  endpoints verify with the active key only (`services/crypto.py:373`), and refuse
  them from the first rotation on. Read from the code: `Keys` has no verification.
- A save whose hook and whose reload both fail is answered with the hook's error
  alone, by intent (`config.py:571-580`), although the same place says that with a
  hook's error "the runtime reflects" the files. `AnswersAreTrue` asks nothing of
  the runtime here either.
- The audit log's `log()` takes its timestamp before its lock, so neighbouring
  entries may carry timestamps in the opposite order.

## 4. What is proved

All proofs are of the specifications TLC checks, for every value of the
constants that satisfies the named assumptions of the module, and without the
action constraints and bounds of the runs.

| Theorem | Says |
|---|---|
| `AuthCodeStoreProofs!OneRedeemerAtMost` | the abstract grant has at most one redeemer |
| `AuthCodeStoreProofs!TypeCorrect, CodesAreOneTime, CodesGoWhereIssued, OwnersKeepTheirCodes` | the store's invariants, and who can burn a code |
| `AuthCodeStoreProofs!StoreIsOneTimeGrant` | every step of the store is a step of `OneTimeGrant` or a stutter |
| `DeviceFlowProofs!TypeCorrect, DictsAgree, StoreIsCapped, DevicesGetTheirApprover, LiveEntriesAreKept, StoreIsOneTimeGrant` | the device code store |
| `DeviceFlowProofs!FlowIsStore` | the flow's steps are steps of the store, so the above hold of it |
| `DeviceFlowProofs!TokensAreAllowed` | what the direct and device grants may mint |
| `RefreshGrantProofs!TypeCorrect, RevocationsLast, TokensAreSpentOnce, FamiliesAreLines, BurntFamiliesStayDead, FamiliesBurnOnReuse, RefreshesNarrow` | revocation, rotation (a rotated family is a line), narrowing |
| `RefreshGrantProofs!IntrospectionIsTrue, RevokedIsUselessEverywhere` | the endpoints that are shown a token |
| `AuthorizationFlowProofs!TypeCorrect, PublicClientsAreBound, CodesAreAllowed, PagesIssueForThemselves, MintsAreAllowed` | the flow's invariant and its three action properties |
| `KeysProofs!TypeCorrect, PairsStayTogether, CertificatesFit` | what holds of key files and service between rotations |
| `KeysProofs!ListsHold, RestartLosesNothing, JwksStaysBounded, TokensStayPublished` | the lists of previous keys: in memory and on disk, within their limit, and never short of a key a token needs |
| `ConfigWriterProofs!TypeHolds, UpdatesAreKept, CallersAreToldTheTruth, NobodyWaitsInACircle, WriterIsVersioned` | types and locks; no lost update; answers; no circle of waiting, of any length; refinement of `VersionedFiles` |
| `ConfigManagerProofs!TypeCorrect, RuntimesAreCurrent, HooksAreThoseLoaded, OnlyEditsDiffer` | the runtimes against the files |
| `ConfigManagerProofs!GuardedSavesAreSafe, CallersHearTheTruth, FormsAreSafe` | what saves, answers and forms promise |
| `BrowserSessionsProofs!TypeCorrect, SubjectsLoggedIn, AnsweredWereSigned, EntriesAreAnswered, WritersHaveTheSecret, LogsTell` | sessions, gates and logs |

The arguments:

- **AuthCodeStore.** A receipt only exists for a code that is `used` or
  `deleted`, and `Redeem` needs `fresh`: so receipts of one code are one
  (`OneTimeUse`). TLC checks this as part of the refinement, which implies it
  with `OneRedeemerAtMost`.
- **DeviceCodeStore, DeviceFlow.** Index and dict agree (an index entry leads to
  an entry with that user code), an `authorized` entry has exactly its user among
  its verdicts, and an answered code is out of the dict for good. For the tokens,
  the invariant of a request is that the configuration of now is in its
  `inForce`, that an authenticated request has authenticated under one of them,
  and that what is minted obeyed one of them and does not change any more.
- **RefreshGrant.** The invariant ties a revoked token's entry to the token's
  `exp` (an entry survives the sweep while the token lives), a spent token's
  entry likewise, a request in flight to what it validated no longer than
  `MaxDelay` ago, and a burnt family's marker to the expiry of every token of it
  that exists or can still be signed by a request that claimed before. This is
  where `Retention >= Life + 2 * MaxDelay` is needed: one delay for the claim
  that was under way, one for the signing. That a rotated family is a line
  (`LineInv`) is stronger than `OneHeir` and inductive: of the tokens of the
  family that were not spent and the requests that have claimed one and not yet
  signed there is one at most. A claim puts the request in the token's place,
  signing the new token in the request's, and the root of a family starts the
  line because families are not drawn twice; a spent token is not usable,
  because its entry survives while it lives. The narrowing theorem needs, besides
  types, only what a request in flight has read of its token. That `/introspect`
  agrees with the grant needs that no revocation of a live token is ever due for
  a sweep, since it does not sweep.
- **AuthorizationFlow.** Public codes carry an S256 challenge from the moment
  they are issued (nothing ties the token request to the browser otherwise), a
  waiting tab's parameters agree with its URL, and what an exchange holds fits
  its code. The action properties then follow from `Accepted` being evaluated
  on the answering step, in the configuration of that step. The types rest on
  two facts of `Resolve`: what comes from a query has the type of the query, and
  what comes from the session was put there by one.
- **Keys.** A rotation that is alone in its directory has got exactly so far:
  `Progress` says which files and attributes hold the new key at each stage, and
  `Settled` what holds when nobody rotates. Two more facts make this inductive:
  a rotation marked alone shares its directory with no other and its service is
  the current one if that is of the same directory (`AloneIsAlone`), and a
  directory that ever had a service has all its files (`HasFiles`). Rotations
  that met have marked the directory, so nothing is claimed of it. Every step of
  a rotation goes through one lemma, `RotationStep`, which settles what the step
  leaves alone.

  The lists rest on one more invariant, `ListInv`, of the directories in which
  no list was ever cut short. `retired`, the keys rotated out in order, is what
  all lists are compared with: the service's, that of a rotation under way and
  the one in `keys.json` are each a beginning of it, long enough for the smaller
  of the two limits (`Covers`) and with every key's archived file there
  (`Archived`). While no rotation is past "retire" (`Ahead`) files and service
  have the same list (`Whole`, `Agrees`); after that the rotation has the longer
  one (`RotationList`), until it saves it. The key of every token was active in
  its directory and still is, or is among the retired (`Known`). A start reads
  the list back by the loop of `_load_previous_keys`, a recursive function;
  that the loop keeps every entry that has its file follows by a smallest
  counterexample (`SmallestOf`, `PreviousOfAll`), which needs no induction
  theorem with an operator for a parameter. Then `RestartKeepsKeys` is `Agrees`
  after the start, `JwksBounded` the limits and `TokenStaysPublished` the fact
  that a key among the first of `retired` is in a list that covers them.
- **ConfigWriter.** The tie between locks and phases is part of the type
  invariant; with it a lock file has one holder (`Exclusive`: a holder in the
  same process would be the one the thread lock names), and a request in one of
  the passes holds every lock file it needs (`HasLocks`). So two requests in
  their passes share no file (`Alone`), and what a pass has established of an
  item stays true: it is as expected (`Checked`), and the document in memory is
  the mutation of what is on the disk (`Mutated`). A write therefore appends one
  request to a content that was expected. The batch commits, in the abstract
  specification, when its last document is loaded. What callers are told follows
  from `NoStrayChange`, `NoMissingChange` and `OnceEach`, which tie a file's
  content to how far each request has come. A request that polls has every lock
  file before the one it waits for and none behind it (`InOrder`), and whoever is
  waited for by another process holds the write lock of its own (`OwnThread`), so
  it does not wait for one: in a group in which everyone waits for somebody of
  the group there is somebody who polls, and everyone it leads to polls for a
  later directory. A finite group has a largest awaited directory
  (`LargestValue`), and who polls for it waits for nobody of the group.
- **ConfigManager.** `ManagerInv` says how far each load has come. What it has
  read is staged and fit to run (`StagedOK`); if nothing disturbed it, the files
  still say so, and of that its runtime has what its phase says it has adopted
  (`AloneInv`, `CurrentInv`). While a process has only one load at a time, its
  registry is empty exactly between dropping and registering, with the old hooks
  in the load's own snapshot, and otherwise the registry of what the process
  knows to be applied (`HooksInv`): so a rollback restores the right one. What
  a request has written is on disk until somebody else writes (`WrittenInv`), and
  between the two writes of a guarded save the second file is still the one
  loaded (`SecondInv`); `AnswersAreTrue` and `GuardedSavesLoseNothing` follow: what it says
  of the runtime it says of loads that went through (`CurrentInv`). A
  fresh form shows what its revision says (`PageInv`), and its submission carries
  what its expected revision says (`CarriesInv`); the writer compares the
  revision with the disk.
- **BrowserSessions.** A session travels from cookie to request to page and back
  without losing what it is worth: `Earned` says of every copy of it, wherever it
  is, that its user has logged in by its method or is among the `crossings`, its
  marker was proved and its remembered message was verified. `Underway` carries a
  login from one look at the mode to the next: what it saw is the mode in force,
  unless it is marked `crossed`; and where signatures were required, its message
  is a verified one. The histories only grow, so copies stay earned
  while others are handed out. `PageOK` and `FormOK` carry the verb of the entry
  through any number of pages. For the log, taking the latest entries of the
  latest entries is taking the latest (`LatestOfLong`).

Out of the prover's reach and only model-checked: liveness (`CallsEnd`). The
modules with theorems have no recursive operators; where the code loops over a
list the model has a recursive function, and the proofs argue about it by
smallest counterexample. Every other property that a passing run checks is
stated by a theorem.

## 5. What is not modelled

- XML and JSON syntax, PEM and JWT encodings, HTML, logging, metrics: data
  conversions and I/O. A SAML signature verifies or does not; a document is
  accepted or refused. RFC 3986 syntax of redirect URIs and resource indicators
  is taken as given. SAML metadata, discovery, issuer and branding are pure
  functions of the settings.
- `nonce`, `state`, `claims`, `login_hint` texts: carried along unchanged.
- Serialization and the layout of documents (that unknown keys survive a
  rewrite), validation of form fields, the wizard, the CLI, templates.
- Of the hooks: the bootstrap source and the precedence of policies, the once
  rule of a retired hook, time-outs and the subprocess itself.
- Of the configuration manager: `users.yaml` or `settings.yaml` missing, presets,
  and the start of the process, where a strict failure ends it.
- External PEM keys (loaded once, never rotated), a second process on one keys
  directory, the end of a process inside the first generation of a pair, and a
  single file half written.
- Of a tool call that fails, whether it failed or raised (the log's "failed" and
  "error"); of the log's counters, those of token and SAML requests: total and
  logins are modelled. Fields of a SAML login form that its page did not put
  there (another verb, another request): where signatures are required, such a
  form needs a request that is signed itself or the one the session remembers.
- Flask-WTF's CSRF tokens, the listening address, and the signature of the
  session cookie, which is taken to be unforgeable.
- A caller that holds a store's internals: only the public operations act.

## 6. Plan

What is left, most important first:

1. Compose `ConfigManager` with `ConfigWriter` in place of its one critical
   section, with `VersionedFiles` as the specification both share; a run with a
   start of the process and missing files.
2. The bootstrap source of the hook registry beside the one of `settings.yaml`,
   with the once rule: a retired hook must not run again after a rollback.
3. Two processes on one keys directory (web and MCP server), and tokens verified
   by one and signed by the other.
4. `auth_code.py:161-162` announces that a replay revokes the tokens issued with
   the code ("Revoke all tokens issued with this code"); the code only deletes
   the entry, and tokens are not tied to codes anywhere. A run for it needs the
   tokens of `RefreshGrant` beside `AuthCodeStore`.
