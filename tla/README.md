# One Life in TLA+

One Life runs DayZ servers on which a character who counts and dies is banned for a day. The
repository reads the servers' ADM logs, projects them into lives, and acts on the projection:
bans, unban tokens, obituaries, notifications. This directory holds TLA+ models of the parts
where order, renames, crashes and races decide whether the result is right, the TLC
configurations that check them, and proofs.

Contents: [the system](#the-system), [modules](#modules), [runs](#runs), [fairness](#fairness),
[findings](#findings), [what the properties excuse](#what-the-properties-excuse),
[observations](#observations), [proofs](#proofs), [left out](#left-out), [plan](#plan).

## The system

```
 Nitrado logs -> ingest-worker -> events -> projector -> players, lives, sessions, kills, hits, ...
                                    |                          |
                                    v                          +-> enforcer <-> Nitrado ban list
                                 verifier -> gamertag links    |      ^ bans table
                                                 |             |      |
                              API: claims -------+             |    tokens (redeem, transfer, store) <- granter
                              API: avatars, blocks, sharing    +-> newsdesk -> articles -> crier
                                  ^                            +-> notifier -> inbox, push
                                  |                            +-> read models -> pages
                              web client (pages, map, dialogs, inbox, push)
```

All parts share one Postgres database (READ COMMITTED). Each worker is a single process that
ticks forever and reads its work afresh each tick; the API serves requests concurrently; a
browser keeps what it was told until it asks again.

| Part | State | Operations | What is hard | What makes it correct |
|---|---|---|---|---|
| ADM ingest (`apps/ingest-worker`, `packages/adm-parser`) | `adm_files` (line cursor, complete flag), `raw_lines` | sweep the servers, tick over a file list, process a file | files oldest-first within a budget, failed downloads, crash between lines and cursor, half-written last line, midnight, a map change under a running sweep | each line becomes its events once, in log order |
| Event log (`packages/event-log`) | `events`, `consumer_cursors` | append (idempotent), read batch, move cursor | ids are taken before they commit; a second writer | no event skipped or repeated |
| Projection fold (`packages/projections`, `apps/projector/src/pg-store.ts`) | `players`, `player_gamertags`, `lives`, `sessions`, `kills`, insert-only event tables | one handler per event | lines carry names and names are recycled; missed disconnects; two lines per death; late lines | rows agree with each other and with what the log says |
| Projector loop (`apps/projector`), deploy script | its cursor | batch transaction, rebuild, backfill, deploy | truncate and cursor reset are two statements; cursor read outside the transaction | a rebuild gives what a first pass gives |
| Read models (`packages/read-models`, `packages/client-logic`, `packages/domain`) | none | profile, boards, life page, dossier, trail, timeline, verdict | each page has queries of its own for the same thing | the pages agree; what is shown is what happened |
| Enforcer (`apps/enforcer`, `packages/nitrado`) | `bans`, Nitrado's list | detect, apply, expire, lift | remote call and row update are two steps; lost answers; restarts; dry runs | list and table agree in the end |
| Tokens (`packages/tokens`, `apps/granter`, store routes) | `token_transactions`, `referrals` | grant, transfer, redeem, sweeps, purchase | check-then-insert under READ COMMITTED; racing the enforcer, racing Stripe | nothing spent twice; what is paid for happens |
| Gamertag links (`apps/api`, `apps/verifier`) | `gamertag_links`, `verification_challenges` | claim, cancel, match emotes, verify, expire | state read before the transaction that uses it | one owner per name; a verified link stays |
| Newsdesk, crier | `articles`, `syndications` | generate, publish, post | send and record are two steps; articles keyed by a name | once per death, or given up for cause |
| Notifier | `notifications`, `push_subscriptions`, `device_push_tokens` | generate, insert, push | windows instead of a cursor; endpoints that die | told once, to whom it is due |
| Moderation, blocks, sharing (`apps/api`, `packages/location-sharing`) | `avatars`, `avatar_reports`, `blocked_avatar_hashes`, `user_blocks`, `location_shares` | upload, report, restore, block, share, revoke | report against restore; share against block and reconnect | a human decision stands; a block severs |
| Accounts (`packages/auth`) | `user` and all that cascades | delete an account | deletion under any open request | nothing of the account is left |
| Web client (`apps/web`) | query caches, drafts, dialogs, a push subscription | polls, calls, timers, Escape | answers late, lost or out of order; a dialog reopened while its call runs | what is shown is what is so |

`PROJECT.json` lists every component with its status, every hazard at its line with the properties
about it, and for every definition the lines it models.

## Modules

The `MC...` modules only instantiate for TLC. Several runs explore two or more machines that share
no state: a variable of the MC module (`about`, `page`, `facing`, `due`, `where`, `part`, `enabled`)
chooses one at the start and the others rest. Such a run is the sum of its instances, not their product.

### From the log to the tables

**`LifeFold`** - the fold and the store it writes to. State: the four tables as the fold sees them.
Rows are records, a row's index is its id, SQL null is `None`. Each handler of `fold.ts` is one action
(`Connected`, `Disconnected`, `Died`, `Position`, `Rebooted`) and makes every store call of the
handler, because the projector folds a batch in one transaction, one event after the other. The queries
are operators named after what they find (`ByHash`, `ByTag`, `OpenLife`, `JustEnded`, ...). Next to the
tables the model keeps the game: who stands on which server (`on`), under which name (`tagOf`), and a
clock. Only somebody who is there can cause a line. A character can vanish without a line (`Leave`),
which is the missed disconnect. A name changes hands while its holder is away (`Rename`), though not
in the second its last holder was seen: "most recently seen wins" cannot tell two holders of one second
apart. `MaxLag` lets a line be folded with a stamp up to that many seconds old: late and swapped lines.
`logbook`, `heard` and `by` are history: what the lines said of the account that wrote them.
Left out: hits, builds, knockouts and position rows (insert-only), weapon and distance, `unknown`
causes, letter case, payload validation (whose failure skips the event).

**`AdmIngest`** - the ingest worker around one change of map. Files and lines are numbers, oldest first.
One worker record walks through the stages of a sweep (server, file, line, event, commit): listing,
download, `raw_lines`, events and the cursor are separate steps, a crash may come between any two, a
download may fail, and a live file may end in half a line. The fleet cutover, with the operator's
stopping and switching around it, and the rebooter's restarts act in between.
**`LogPipeline`** extends it with the projector (`Fetch` reads cursor and batch, `CommitBatch` folds), the deploy
script's stop, rebuild (truncate and reset apart) and start, and the unconscious backfill, a second
writer whose id may be overtaken. Folding itself is `LifeFold`'s matter; here a table is the ids folded.
**`LineLog`** is the abstract log: events are published once, the tables fold published events, each at
most once, those of one file in order, and may start again. `LogPipeline` implements it
(`Promise == INSTANCE LineLog WITH published <- PublishedEvents, folded <- FoldedEvents`).
**`AdmClock`** - timestamps with midnight rollover and the clock offset, pure functions; its assumption
`ClockIsRight` is evaluated over every bounded input when run `log_pipeline` starts.

### From the tables to what is shown

**`ReadModels`** - qualification in its three forms, playtime, retirement and the first queries, as
operators over `LifeFold`'s tables. **`PlayerPages`** adds the pages: dossier with cards and totals,
aggregate, leaderboards, life page, priors, sitemap, who is online, last map. A page is a function of the
tables, of the fleet (active, paused, retired since when) and of the bans in force, and the properties
quantify over those two.
**`LifeStory`** - what the record makes of one life: wounds, knockouts, positions, shots, logins and the
death are lines with minutes; `ClassifyDeath` is the verdict with its ladder of evidence, `Dossier` and
`EncountersForLife` collapse wounds into run-ins, `SegmentBySession` and `Markers` draw the way,
`BuildTimeline` the rows of the life page with their one clock of time played (queries return ids and
minutes, so that an order is a comparison), and
`BuildObituaryFacts`/`BuildObituaryPrompt` what the obituary freezes and its author is told.

### What follows from a death

**`BanEnforcement`** - the enforcer, Nitrado's list and redemptions. State: the `bans` table and the list
of one server (both are per server), the process (phase, the rows its query returned, whether a call was
answered, the tick's fixed `now`), each user's open redemption, balances, the `redeem:<ban>` keys. A tick
is `StartTick`, `InsertBan` per plan, then the phases apply, expire and lift, each `EndPhase` running the
next query. Within a phase each row is `Answered` (the call took effect) and then `Mark` (update by id,
whatever the status), or `CallFails` (no effect, or effect and a lost answer). `Restart` may come between
any two steps and change the dry-run setting. A redemption is `BeginRedeem`, what the transaction reads,
and `CommitRedeem`, what it writes. Gamertags are renamed but not recycled here (recycling is `LifeFold`'s
subject); which lives qualify is a pure function, so a death enters as a row detection finds, with a time
that may be past. Nobody but the enforcer writes the list: its read-modify-write is one step.
**`TokenLedger`** - the ledger: the granter's sweeps (read, then one grant after the other), referrals,
transfers and redemptions (read, then write), purchases granted token by token by webhook and
confirmation at once, account deletion; over the links of `GamertagLinks`.
**`Announcements`** - six generators and their windows, drafts into inboxes by natural key, ticks and generators that fail.
**`Obituaries`** - newsdesk and crier: targets, attempts, publish, post, record, with lost answers and renames.
**`Notices`** - the push loop: batches, endpoints of two kinds that fail or die, registrations taken over.
**`Delivery`** composes the last two, each explored without the other.

### Between people

**`GamertagLinks`** - claims and cancellations (read, then write), the verifier's batch, expiry, deletion.
**`LocationSharing`** - sharing for one game session and blocks both ways, each a read and then a write; what the map shows (`SeesDot`, `Chip`).
**`AvatarModeration`** - avatars, the copy of a provider's picture behind a sign-in, reports with their
transaction, restore and confirm. **`SocialLayer`** composes the three over the same accounts and one
budget of open requests.

### In the browser

| Module | Machine | Its own twist |
|---|---|---|
| `PushControl` | the push toggle, sign-out and account deletion on shared browsers | toggle tasks outlive their page; sign-out tears down first |
| `Inbox` | bell and inbox page over one cache of pages | reports and refetches cross |
| `MapCanvas` | Leaflet's import against terrain changes, polls and unmounting | one layer redrawn, one fit |
| `MapPage` | share, stop and poll on the map page | one slot for the pending player |
| `Dialogs` | menu, report, block, claim over one modal hook | Escape closes while a call runs |
| `ModerationDesk` | the moderator's queue and the blocked list | act, then fetch, in no order |
| `AvatarPanel` | the photo dialog: crop, save, reopen | a save that lands in a later dialog |
| `AccountHome` | claim, tokens, ban ticket, checkout on the account page | three caches and four calls |
| `TagField` | the gamertag field and its suggestions | a search that outlives its text |

Each talks to a small model of its own of the routes it calls (what they change and refuse), because the
routes' own interleavings are the subject of the modules above. The query library is modelled from its use.

## Runs

| Run | Instance and distinct states | Shows |
|---|---|---|
| `life_names` (`MCPlayerPages`) | 1 server, 2 accounts, 3 names, 3 sessions, causes pvp, 1 second; 345,514 | identities, rows, kills and time stay with the account that wrote the line; the boards that count by name agree with the pages wherever a name has one holder |
| `life_lag` (`MCLives`) | 2 servers, 1 account, lines up to a second late, two causes; and one life with up to 3 facts in 2 minutes; 572,391 | open rows agree, lives are numbered, playtime is that of sessions, death is final; and the story told of one life: verdict, obituary, encounters, trail, timeline |
| `life_pages` (`MCPlayerSite`) | 2 servers, 2 accounts, 2 names, 2 sessions, causes pvp and suicide, 96,830; push: 2 people, 2 endpoints, 1 mishap, 214,773; canvas: 3 terrains, 2 polls, 3 mounts, 5,877; map page: 2 others, 2 requests, 1 outage, 74,511; dialogs: 3 openings, 1 trouble, 42,533 with the desk's 2 items and 2 changes; 471,060 in all | every page says the same of a life; and push, map, dialogs and desk tell the truth |
| `life_inflate` (`MCLifeFold`) | 2 servers, lines in order | expected violation, see findings |
| `ban_redeem` (`MCPlayerFacing`) | 2 accounts, 2 deaths, a token, a fault, both modes; and the notifier with 2 readers, 1 name, 3 hours, a window of 2, 1 item of news, 1 fault, an account deleted or a server retired; 2,240,450 | nobody is let in early, who serves a ban is listed, every lift is paid for and none of a dry run (against a comment, see findings); everyone is told of what is theirs, once |
| `ban_faults` (`MCDeadlines`) | 1 account, 2 deaths, a rename, 2 faults, nobody redeems, 62,368; and an inbox of 2 items, a page of one, 99,878 | nobody stays banned and every death is served; what was seen gets read and the badge agrees, under fairness |
| `ban_orphan` (`MCBanEnforcement`) | 1 account, a token, a fault | expected violation, see findings |
| `ban_rename` (`MCBanEnforcement`) | 1 account, a rename, no fault | expected violation, see findings |
| `log_pipeline` (`MCLogPipeline`) | 3 files of 1 line, 1 fault or deploy, batches of 2, budget 1; 672,786 | order, cursors, the abstract log, catching up |
| `token_ledger` (`MCTokenLedger`) | 2 users, 1 ban, 1 purchase of 2, 3 requests, 1 fault, 2 months, 527,583; and a home page with 1 outage and 5 steps of others, of which a press of the player takes two, 237,026 | overdrafts need an overlap, a referral pays once, who paid is served; the home page is honest |
| `social_layer` (`MCSocialLayer`) | 3 users, 2 names, 1 server, 1 image, 3 requests, and 3 emotes or game sessions; the photo dialog with one 2x1 picture, 4 drafts, 2 saves, 1 mishap; the field with 4 texts, 4 keys, 3 searches; 1,350,660 in all | names, shares and blocks, verdicts; the photo dialog and the field |
| `delivery` (`MCDelivery`) | 2 deaths, batches of 1, 2 attempts, a rename, a fault; 2 notifications, 3 endpoints, 2 registrations, 1 fault; 162,024 | once, for cause, and in the end |

Why the bounds are enough. Two accounts and three names are what a recycled name needs: one to give up,
one to take, one to move to; three sessions let each account connect and one of them return. Two servers are
needed because numbering, open rows and retirement are per server. Two causes tell the two death lines
apart; a lag of one second gives every pair of swapped lines. Two minutes with windows of one minute put
each fact before, inside and after a window; three facts make a run, a break and a knockout, or a login,
another and a shot between them. Two deaths of one account share an entry of the ban list, two of two
accounts do not; hours and one-hour bans make bans due at once, in time and never touched. Two faults are
a lost answer and then a stop. Three files let the one in the middle fail or belong to the other map; a
second line in a file adds no new place to crash (the cursor moves per file, the id per line, and files of
different maps already interleave their lines). Three open requests are two that race and a third that
comes in between; one purchase of two tokens is granted in part. One image held by two users is what a ban by hash
is about. In the browser one mishap at every point, and a second opening, save, search or request while the
first is out, is what the code's flags guard against; a third opening shows what the second leaves behind.

Symmetry is used where only invariants and action properties are checked and no property names the
element. `CHECK_DEADLOCK FALSE` stands where the bounds of the world (lives, requests, openings) end a
behaviour.

Each property of a passing run has a mutant: a definition of the code changed the way a bug would
change it (the "Faulty variant" definitions), under which TLC finds the property violated. Some
properties are conjunctions over the machines of their run (`PagesAgree`, `ActsAreAsShown`,
`MapTellsTheTruth`, `HistoryStands`, `PeopleAreAsShown`, `BalancesAreHonest`, `NamesAreKept`, `VerdictsHold`, `EverythingIsTold`,
`StoryIsWhole`); each conjunct is a named definition with a comment of its own.

## Fairness

Fairness is assumed only where a run checks liveness.

- `ban_faults`: weak fairness of the enforcer's own steps, because its loop in `main.ts` catches every error and
  sleeps a fixed interval, and of the passing of time. Stops and failed calls are bounded: the claim is about
  what happens once Nitrado answers again. In the inbox, of the refetch timer and of calls coming to an end.
- `log_pipeline`: of the ingest loop, the projector loop, a deploy once begun, and the return of a statement
  already sent (the backfill's commit). Nothing is assumed of the game server, of operators or of faults.
- `token_ledger`: Stripe delivers an event again until it is acknowledged, and the webhook's grants run.
  Neither the buyer's browser nor the granter is assumed to do anything.
- `delivery`: of the loops of newsdesk, crier and notifier and of the ageing of notifications.
- No fairness anywhere else.

## Findings

- `life_inflate`. A missed disconnect is closed at `players.last_seen_at`, capped so that the gap
  does not count ("crash freezes, never inflates", `fold.ts:13`). That heartbeat is one per account,
  over all servers: playing on a second server moves it, and the stale session of the first is
  credited with time nobody played there.
- `ban_orphan`. `redeem.ts:84` sets a pending ban straight to `lifted` because "'pending' was never
  on Nitrado". The enforcer's call and its row update are two steps, so a ban is pending while its
  entries are listed whenever the process stopped or the answer was lost in between. Redeemed
  then, no query revisits the row and the entries stay, account hash included. Without redemptions
  the same faults heal (`ban_faults`).
- `ban_rename`. Insertion is meant to be "idempotent on the durable death key" (enforcer
  `pg-store.ts:62`), but that key holds the player's current name. After a rename every qualified
  death of the player is banned again: long past ones are applied and expired in one tick, one
  bought off with a token is served after all.
- `ban_redeem`, which passes. The repository contradicts itself on what `LiftsArePaid` says of dry runs. The comment at
  `apps/notifier/src/generators/bans.ts:20` has `redeem.ts` select "with no dry_run predicate of its own. A redeem against
  a dry-run row really does burn a token, on a ban that does not exist". `redeem.ts:47` has the predicate, its comment (`:31`)
  says such a row "is excluded from the candidate set entirely", and `redeem.test.ts:52` tests it. The model follows
  the code: no token is spent on a dry run (`LiftsPaidFor` proves it). The redeem of that comment is the
  faulty variant `BeginRedeemDry`, which violates the property. The comment is stale; the filter it stands over is still right.

## What the properties excuse

A property that excuses a case names it, so that nothing else passes under it.

- `NothingSkipped`, `TablesCatchUp`: lines read half written; ids the backfill was overtaken on; tables a
  deploy left half built. `FilesInOrder`: a sweep that straddles the cutover.
- `NamesAreKept`: a claim or cancellation that had read the link before it was verified.
- `SeenAsAgreed`: a share that had passed the block check when the block was written (`raced`).
  `VerdictsHold`: a copy of the provider's picture that had looked before a removal; a report and a restore in one moment.
- `OverdraftIsAnOverlap`: two spends of one user that both saw the last token.
- `OnePostPerDeath`: an answer that was lost about that death. `NewsIsTold`: an outage of the notifier longer than its window.
- `HistoryStands`: a life that counts by a kill may count earlier once a heartbeat tells of time played before it,
  which is all that the promise "more history never moves it" (`qualified.ts:41`) can mean. `PagesAgree` and `RecordsAgree`
  name three things: an open life with a kill fired after the last heartbeat, which counts on some pages and boards and not
  on others (`FiredUnheard`); kills of the dead, which some counts leave out (`FiredDead`); a retirement dated in the past.
- `StoryIsWhole`: wounds that led up to a retirement of the server go untold; a shot after a session that was
  capped by a reboot lies in no session of the life.
- Browser: `escaped` dialogs and lost answers, `stale` and `crossed` rows of the desk, a `tangled` or `behind` map page,
  `slipped` and `unsure` push, `slipped` (left behind by a dialog, a draft or a later upload) and `behind` photos, `swapped` and `unseen` tickets and links, a `strayed` field. The
  observations say how each comes about.

## Observations

Met while modelling, each visible in the models. Comments and docs that claim otherwise are quoted; none has a run of its own.

Records: `encounterKey` matches class names only whereas hit lines carry display names, so such a fight is an
"environment" encounter although the verdict may say "wolf"; on a retired server encounters are suppressed
although no row of a death tells of them; ties for the least health before a knockout are decided by row order;
kills of a boundary second count in two lives; an open life whose kill came after its last heartbeat is on the all-time board before
its page counts it; a grenade may kill when its thrower is dead, and `leaderboards.ts:14` ("a kill implies the killer's life is qualified") then
does not hold: the boards and the aggregate count such a kill, the killer's page leaves it out with the card of a server nobody
of theirs lives on; a retirement dated in the past takes back time that only another server's heartbeat credited, and with it the page of a
life that counted by it; leaderboards match kills by the name of the time; a paused server
shows stored playtime; the sitemap lists lives whose page is missing because they never qualified; the clamp of
the obituary feed's page has no upper bound; recycled names are picked without an order in some queries.

Workers: the notifier's natural keys embed `lives.id`, which a rebuild renumbers (`schema.ts:534` says so);
verifying the same name again reuses the row, so the second verification is not announced; a purchase of tokens is
not announced; the ban list is a whole-field read-modify-write, so an operator's edit in between would be lost;
two lives that start in one second make the banned card ambiguous; of several links that complete in one batch the
first wins whose account still exists. `deploy/README.md:656` says of the deletion of an account that "There is **no code
path** for this"; `packages/auth/src/delete-account.ts`, which the models of deletion follow, is one.

Browser: a sign-out that races a toggle being turned on leaves the push row live; bell and inbox may both report
a row and count it down twice until the next refetch, and a failed report is never sent again by the same
component although `use-notifications.ts:43` expects the refetch to bring it back; an arrival between two page
fetches shows a row twice; Stop-all is not disabled while a share is in flight, so a share may land after a stop; an
empty map is fitted to the world on every redraw (`map-canvas.tsx:270` says a poll never snaps the view), and after a
failed import a change of terrain leaves it blank; Escape closes every open overlay at once, and a dialog reopened
during its call shows the earlier answer; "Nothing was changed" is false after a lost answer; a confirm on a stale
row of the desk removes bytes another moderator restored; Save stays enabled while a file is being cropped, and crops may end in another order than they began; a dialog reopened
during a save is closed by that save; two broken files in a row are announced once; clearing the gamertag field below two
characters leaves a search under way, and picking the text that is already typed makes the next keystroke's
search be skipped; `TicketSpend` only refreshes the route, which refetches neither the player page nor the balance
(the comment at `ticket-spend.tsx:41` says it serves both); a refused or failed send is shown nowhere and a retry after
a lost answer sends a second token; a failed first fetch of the links is shown as "unlinked".

## Proofs

TLC checks small instances; TLAPS proves for every value of the constants. Eight modules hold theorems. Each
follows one plan: an inductive invariant, one lemma per action (or family of actions) that shows it preserved, and
the properties as consequences. `LifeFold_proofs`, `PlayerSite_proofs`, `BanEnforcement_proofs`, `TokenLedger_proofs` and `SocialLayer_proofs` extend the MC module of their run, so
that their theorems name the very properties TLC checks (of the run's specification, or of the one component they are about). Each inductive invariant was checked with TLC on the run's instance before
it was proved.

| Module | Theorem | States |
|---|---|---|
| `LifeFold_proofs` | `TypeCorrect`, `IdentitiesUnique`, `OpenRowsCorrect`, `NumberingCorrect` | the four invariants of the tables, for any lag of the lines |
| | `DeathsAreFinal` | no step changes the end, the number or the playtime of a life that ended |
| | `RowsStayHome` | lines in order, any number of servers: open rows and kills are those of the account that wrote the lines, and the lives of a player follow each other |
| | `LivesToldRight` | lines in order, one server: `LivesAreTheAccounts`, the invariant of `life_names` |
| | `PlaytimeAddsUp` | `PlaytimeIsSessionTime`: a life's playtime is the sum of its closed sessions, for any lag |
| | `PastIsPast` | lines in order: `HistoryStands`, what counted goes on counting, since the same instant |
| | `RecordsTrue` | lines in order: `RecordsAgree`, the boards that count by name against the pages that count by identity |
| | `PagesTrue` | lines in order: `PagesAgree`, every page says the same of a life, whatever the fleet |
| `PlayerSite_proofs` | `PushHonest` | `PushIsAsSaid`: toggle, endpoints, sign-out |
| | `MapTold` | `MapTellsTheTruth`: the canvas against the data, the chip against the server |
| | `DeskHolds`, `DialogsHold`, `ActsShown` | `ActsAreAsShown`: the moderator's desk and the dialogs |
| | `DeathTold` | `DeathToldRight`: the verdict on a death rests on the wounds that are recorded; obituary, prompt and site agree on it |
| | `LifeTold` | `LifeToldWhole`: encounters, trail and timeline tell a life whole, each thing once, by one clock |
| `BanEnforcement_proofs` | `BanTypeCorrect`, `LiftsPaidFor`, `BannedStayListed` | the three invariants of `ban_redeem`, in either mode; the second settles the comment named under findings |
| | `ReleasesAreDue` | no step takes an entry off the list but for a ban that ran out or was bought off |
| | `NobodyLeftBanned` | `NobodyStaysBanned`, the invariant of `ban_faults`: where nobody redeems and no process is a dry run |
| | `NewsTold` | `NewsIsTold`, the notifier's part of `ban_redeem`: nothing missed, nothing told twice or to the wrong reader |
| `LogPipeline_proofs` | `PipelineTypeCorrect`, `LogInOrder`, `NothingIsSkipped` | the three invariants of `log_pipeline` |
| | `PromiseKept` | `LogPipeline` implements `LineLog` |
| `TokenLedger_proofs` | `TokenTypeCorrect`, `ReferralsPaidOnce` | types and keys of the ledger; one payee per referee, ever |
| | `OverdraftsAreOverlaps` | no balance below zero but for two spends of one user that overlapped |
| | `HomeTold` | `BalancesAreHonest`: that, and the account's home page |
| `SocialLayer_proofs` | `SocialTypeCorrect`, `NamesKept`, `VerdictsStand` | the type and both step properties of `social_layer` |
| | `SharesAgreed` | who sees a dot is named in the owner's chip, and no block lies between |
| | `PeopleShown` | `PeopleAreAsShown`: that, the photo dialog and the gamertag field (`PeopleAreSocial`: the composed run is one of `SocialLayer`) |
| `Delivery_proofs` | `DeliveryTypeCorrect`, `PostedOnce`, `PushTruthful` | the three invariants of `delivery` |

`GamertagLinks_proofs` holds lemmas only: `GamertagLinks` is a part of `TokenLedger` and `SocialLayer`,
and both take what its actions preserve from there.

**`LifeFold_proofs`.** `IInv` is the four invariants with `RowsExist` (the row a reference names exists). A
session is closed through the player and the life it refers to: without `RowsExist` a closed row may have no
type, and without `OpenRowsAgree` two sessions might credit one life. The table operations (`Closed`,
`Credited`, an appended life or session) have lemmas of their own that the handlers share. Numbering rests on a
lemma about cardinality: appending a life whose number is the first above 1..n gives 1..n+1.
`DeathsAreFinal` is a property of steps: a close credits the life of an open session, which by `OpenRowsAgree`
is alive, so no step credits a life that ended.
`LivesToldRight` relates the tables to what really happened, and needs `OrderInv`: a line leads to its account's row although names
are recycled, because a row that still carries another account's name was last seen before that account took the
name and so before it played under it (`NamesInv`); what the log has of an account is open and nothing else (`LogInv`); a kill
names a row that exists (`KillsInv`); and what a life was played so far lies between its begin and its open
session (`TimesInv`, which needs no sum). With one server, `HeardInv`: the account's heartbeat was heard by its open session.
Its hypotheses are the two the run has: with a lag a line may lead to whoever has taken the name since (`life_lag` leaves the property
out), and with two servers TLC finds it violated (`life_inflate`).

*Sums.* The prover has no induction over a set being summed, and needs none: a sum of times is the number of the seconds it is made of
(`Seconds(w, S)`, pairs of an element and a second). The recursive function under `MapThenSumSet` is unique (`OneTime`, by
its least counterexample), the cardinalities satisfy its equation (`SecondsTime`), so it is them, and sums are then compared as
finite sets are. `LeastNat`, every nonempty set of naturals has a least element, takes the place of induction wherever one is needed.
`PlaytimeAddsUp` is `PlayInv` (`Counts`): a close moves the seconds of one open session into those of its life.

*History.* `PastIsPast` rests on `HistoryInv`, which is `OrderInv` with `PlayInv` and `SessionsInv` (the sessions of a life follow each other and
what was played has passed), and on `RowsGoOn`, what every line leaves as it is. Playtime runs over the bound
once and for good, in one session, so the instant it did stays; a life that counts by a kill keeps the kill, and the instant can only
move back to one a later heartbeat tells of. With a lag neither holds: a line may open a life in the past.

*Records and pages.* `RecordsInv` adds `NamesCarried` (who fired a kill has carried the name it was fired under), and `PagesInv` adds `SpansInv` (a session
lies in its life and in the time its player was seen, and lasted what it says; a life that goes on has no cause). The
three forms of qualification meet in one fact: some session in an order of them carries the running total over the bound if and only if
their sum reaches it (`CrossesIffReached`). A retirement caps rows at an instant, and an open life of a retired server at its heartbeat if that was earlier;
the lemmas show for any such fleet what a capped row still says. The aggregate sums over servers and the site over players,
so the proof counts the parts of a disjoint union (`PartsCount`). Pages of past lives are by rank: the number of lives ahead of one (`Ahead`) is
different for different lives (`AheadApart`) and below their number, so each life is on one page (`PageOfRank`).
Both properties were first too strong as models of the code, which the proofs brought to light and TLC
confirmed on the larger instance (two causes of death): what they now excuse is named above.

**`PlayerSite_proofs`.** Each machine of the browser has an invariant of its own. `PushInv`: `ToggleTold` (a toggle that shows on or off has no task of its own under way, one that works has one) and
`TornDown` (past its teardown a sign-out left no row that reaches, but for a task that had read the session before). `DeskInv`: while nothing crosses there is
one fetch (`OneFetch`), and what it brings and the page shows are the server's rows, but for those whose act is done and unanswered (`ListsTell`). `DialogsInv`: `BusyWithACall` (a form is busy while its call is out, and shows nothing yet), `OfThisTime` (a call, and what came of it, is of this opening or was left
behind), `TrueWhenGiven` (so is the answer that is still on its way) and `OneLockEach`
(one scroll lock for each overlay that is up). `CanvasInv`: an import that was not called off is the last canvas's own, whose map is
not there yet (`ImportsInv`), and a fitted map does not show the world (`FitInv`). `ControlsInv`: a button
that waits alone has the only request (`LoneWaits`), what the page is being told is so while nothing is done and unsettled (`ToldSo`), and of a
player about whom one thing is asked at a time what was asked last is under way or done (`WordsKept`).

*The story of a life.* `StoryInv` says, where the story is told, that `wounds`, `fixes` and `stints` are in the order of their times
(`RowsInOrder`, `StintsInOrder`), that each fix lies in a session (`SeenLoggedIn`), that the death ends the last session and a
retirement everything (`EndsAreEnds`), and that an obituary older than the minute of the death holds the verdict and
the dossier of the rows as they are now (`ArticleHolds`: no later wound reaches back into its window). TLC checked it on the
instance of `life_lag` first. `DeathTold` goes rung by rung through the ladder of evidence
(`GuiltyBlamed`), and shows that a wound after the last knockout is not among those that decide who is blamed (`ChewedOn`).
`LifeTold` has three parts. The runs of a set of wounds partition it and follow each other (`RunsPartition`, `RunsFollow`), so at most the last
of an attacker leads up to the death (`OneLeadsUp`). Every fix lies before the end of the trail, and the last point is
kept by the thinning whatever the cap (`TrailTrue`). And the time played by `t` is the number of
minutes of `t`'s past that lie in a session (`Lived`), whichever of the four sums the page takes it by: the
labels grow with `t`, rest outside of sessions and reach the grace period where `GraceOverAt` says
(`PlayedIsLived`, `LivedRuns`, `GraceReached`); the rows of logins partition them (`LoginsPartition`). The lemmas on sums are those of
`LifeFold_proofs`, which the module extends.

**`BanEnforcement_proofs`.** `IInv` adds to the type and the two safety invariants what makes them inductive.
`Refs`: the rows the enforcer and the redemptions hold on to exist. `Phased`: what a phase's query found
stays true while its rows are worked off, although redemptions change rows in between (queued rows of the
expire phase are due; those of the lift phase are still `lift_pending`, for only a redemption could
change that and it finds the ban redeemed), and after an answered call of the apply phase the
account in hand is listed. `Requested`: an open redemption is covered by the balance it read and is
for a real ban. A call therefore removes only what belongs to a ban that is due or redeemed
(`CallIsRight`), which gives both the invariant of the list and the property of its steps.
`NobodyLeftBanned` is about `FairSpec`, whose steps leave redemptions out, and needs more: `Ending` (whatever is listed is so for a
row that is still to be closed, and a row is only closed once its names are off the list) and `OwnNames` (a gamertag that was
banned, or is about to be, leads to one account). Its hypothesis `Modes = {FALSE}` is the instance of the run: a
process restarted as a dry run closes rows whose entries are on the list (a hazard without a property).

*News.* `NewsIsTold` says that a window of the last hours does what a cursor would. `NewsInv` is the type with `WorldInv` (a gamertag
leads to one account; a life counts by lines at most `LineLag` late; a tick lasts no hour), `ToldTrue` (what an inbox or a draft
says has happened, and to its reader, and no key is there twice), `TickInv` (a tick without a broken generator has drafted, or
somebody has been told of, all news of its window whose generator has had its turn) and `Caught` (all news the tables
told of before the last whole tick has been told). A tick drafts at the hour it began: what is written
meanwhile is known from that hour on and is left to the next tick. Without an outage the whole tick before was no longer ago than the
window less `LineLag`, so what became known since happened inside the window. News of one generator and what that
generator drafts are compared generator by generator.

**`LogPipeline_proofs`.** `PipelineInv` follows the data. `FilesInv` and `MapsInv` say what may be in
the files and how far an operator's steps have brought the fleet's rows; `LinesUnderTheirMap` that a logged line was read
under a row of its map. `SweepInv` is the sweep's knowledge: what it read of a file that keeps growing is
still a prefix of it. `LinesBehind` and `CursorBehindTheLog` place a file's cursor behind what is logged, `LogInv` keeps one
id per key, `OrderInv` is `FilesInOrder` made inductive (what stands before a line in its file stands before it
in the log, or its download failed), and `ProjectorInv` does the same for the cursor: below it
everything visible is folded or was overtaken, and a batch in hand is the next of the log. `PromiseKept` maps
`published` and `folded` to the events of the log and of the tables; every step of the pipeline is then a
publication, a fold, a fresh start of `LineLog`, or a stutter. The order within a file is where the invariant is needed.

**`TokenLedger_proofs`.** `TokenInv` is `LinksInv` and the type with `SpendsNumbered` (open spends have references of their own,
which no ledger row has yet), `FulfilmentsPaid` (what is being fulfilled was paid), `RowsOwned` (a row is of a user who
exists, a referral's row of the referrer in its key) and `OnePayee` (who is, or is about to be,
paid for referring u is one user). The last is what the unique key alone does not give: a sweep read referrals
that a deletion may have removed since. `OverdraftsAreOverlaps` needs `SpendsCovered`: the balance of who has never had two spends open at
once covers the one that is open, so a spend that commits finds its token; balances are sums over ledger rows, and
a row more or less changes one sum by its amount. `HomeInv` is about the page:
a ban is paid for once and while it is lifting (`BansInv`), a ticket is of the ban the page shows unless another took its place
(`TicketInv`), a balance read is the player's unless something has changed it that the page will hear of (`Current`), what the checkout was told is granted
(`CheckoutInv`), and the announcer has seen what the page shows (`LinkInv`).

**`SocialLayer_proofs`.** `SocialInv` is `LinksInv` (types; `RefsHold`: a claim saw nobody verified of its name;
`BatchStands`: what the verifier read of an emote is still so when it writes; `NamesAreEarned`), `SharingInv` (with
`SharesRaced`: an open share is only of pairs that were clear, or raced, when it looked) and `AvatarsInv` (with `WorkUnderWay`:
a report under way had not seen a verdict, a copy under way had seen no picture).
`PeopleInv` adds two machines of the browser. `PhotoInv`: the crop window lies in the picture at every zoom (which is arithmetic of half
pixels, and why `MaxZoom` must be positive), saves are numbered by dialog and draft, a mutation follows its last one unless that slipped (`LastIsFollowed`), and while nothing was left behind one that ended has been told and one under way has not
(`EndsAreNews`), and a stored row is that of the last save that landed. `FieldInv`: searches are numbered, only the latest may be shown,
and once none is out the list is what the text finds (`SearchesOfTheText`).

**`Delivery_proofs`.** `DeliveryInv` has two halves. `ObituariesInv`: `OneObituary` (an attempt is at a row under a name its player
had, what is out carries its row's slug, and a life has one obituary), `DeskInv` and `CrierInv` (the batch in hand is without repetition and
its members are still wanted; what is recorded as posted is out; what a channel shows is recorded unless an answer was
lost). That a target is still unsettled when its turn comes is what needs both loops' batches in the invariant: nothing but the desk itself settles a
life. `NoticesInv`: `RowsKept` (ids are given once; a subscription that is gone went for a cause), `HoldsOn` (what
the push loop and open pages hold is a row that was theirs), `TickInv` (the batch, its ages and what was sent of the row in
hand) and `StampedForCause`.

The assumptions are those the modules state about their constants, and TLC evaluates each on the runs: `BoundsAssumption`,
`NoneAssumption`, `CausesAssumption` (`LifeFold`), `BanBoundsAssumption`, `ModesAssumption`, `NamesAssumption`
(`BanEnforcement`), `IngestAssumption`, `BatchAssumption`, `LinksAssumption`, `SharingAssumption`, `AvatarsAssumption`,
`LedgerAssumption`, `ObituariesAssumption`, `NoticesAssumption`, `AnnouncementsAssumption`, `QualifyAssumption`, `PagesAssumption`,
`StoryAssumption`, `PushControlAssumption`, `MapCanvasAssumption`, `MapPageAssumption`, `DialogsAssumption`, `DeskAssumption`, `AccountHomeAssumption`, `AvatarPanelAssumption`,
`TagFieldAssumption`. They say that bounds are naturals, that `None` is none of the
things it stands beside, and that sets which the code lists in an order or counts are finite; the bound of qualification, a page's size, a zoom and a frame
are positive. "Lines in order" is the hypothesis `MaxLag = 0`, which `life_pages` and `life_names` have and `life_lag` has not.

Model-checked only:

- Liveness (`EveryDeathIsServed`, `TablesCatchUp`, `PaidIsFulfilled`, `EverythingIsTold`, `InboxIsHonest`) and
  whatever needs ENABLED: the prover has no rules for fairness.

Every other property of the passing runs, invariants and step properties alike, is a theorem.

## Left out

Builds, wounds on the map and the rest of the insert-only tables that no modelled page reads; text: log wording, regular expressions, prose, titles, bodies,
links; retries inside one Nitrado call; the renaming of rows by a cutover; the two death backfills (they rewrite payloads in place and change no
order, key or cursor); dry runs of newsdesk, crier and notifier; mail; migrations; deployment beyond the rebuild; test support.

Abstracted where they are modelled: the daily cap on reports is only an outcome; map labels and a floor of the zoom; a
crop is in whole multiples; the provider's own state in `AvatarPanel`; the text of the send field in `AccountHome`; a gamertag stands for its player, and
positions are always fresh, in `LocationSharing`; `LifeStory` counts minutes, takes one life at a time and in its run follows the
wounds or the way; `Announcements` counts hours; the two queries of the obituary feed's page are one; who is signed in does not change in `Inbox` and `MapPage`; the
report's transaction is one step in `Dialogs` (it is two in `AvatarModeration`); the query library is modelled from its use and external.

Three hazards have no property: the dry run that closes listed rows (an operating rule of `deploy/README.md`), the
dating of lines (`ClockIsRight`, evaluated as an assumption over bounded inputs), and the renumbering of
`lives.id` by a rebuild under the notifier's keys.

## Plan

1. A numbering of lives in `LogPipeline`, for the keys of the notifier across a rebuild.
2. An abstract `Sentence` (a death, its ban, its end) that `BanEnforcement` implements between `ban_orphan` and `ban_rename`.
