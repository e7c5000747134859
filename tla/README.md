# Verification of the Klovy chat backend

TLA+ models of the backend in `src/` (Rust: actix-web, one process, MongoDB, object
storage), the TLC configurations that check them on small instances, and proofs checked
by TLAPS. Paths below are relative to `src/src/`; `PROJECT.json` maps every definition to
the lines it stands for.

1. [The system](#1-the-system) 2. [Plan](#2-plan) 3. [Modules](#3-modules)
4. [Runs](#4-runs) 5. [Fairness](#5-fairness) 6. [Proofs](#6-proofs)
7. [Where the code differs](#7-where-the-code-differs-from-what-is-said-of-it)
8. [Abstractions](#8-abstractions) 9. [Not modelled](#9-not-modelled)

To repeat a run: `tlc -config MCChats.cfg MCChats.tla`; a proof: `tlapm VoiceProofs.tla`.

## 1. The system

One server process serves an HTTP API (`controllers/`, `routes/`, `middlewares/`) and a
WebSocket (`ws/`). Durable state is in MongoDB (`model/`); what concerns who is connected,
in a call, in voice or typing, how often something was done, and what is cached of a
relation, is in process memory, in maps behind mutexes. Every connection has a task; every
frame it sends becomes a job of one of its user's queues, so jobs of one queue of one user
run one after the other and everything else interleaves. Each mutex operation is atomic,
and so is each database operation on one document; what lies between two of them is where
other tasks come in. Nothing is transactional across two documents.

| part | state | operations | interacts with | hard part | must hold | modelled in |
|---|---|---|---|---|---|---|
| Socket lifecycle (`ws/mod.rs`, `ws/state.rs`) | connections per user; phase of each task | handshake, attach, detach, is it the last?, cleanup after 400 ms, session recheck | everything in memory hangs off it | two last connections; reconnection during the delay; jobs of a closed connection | what a gone user left is cleaned up, what a present user has is not | `Connections`, `Sessions` |
| Connection limits (`ws/state.rs`) | counts per address, per user, in total | look, take, give back | socket lifecycle | look and take are apart; a refusal half way | counts exact, limits hold | `SocketAdmission` |
| Direct calls (`utils/voice/calls.rs`, `ws/handlers.rs`) | `SESSIONS` by pair | invite, accept, reject, cancel, end, timeout, sweep, cleanups, severance | friends, blocks, account deletion, presence | seven kinds of task take sessions out of one map | each call ends once, with a fitting outcome, and does end | `CallSessions`, `CallPromise` |
| Voice roster (`utils/voice/channels.rs`) | `CHANNEL_VOICE`, `VOICE_OWNER` | join, leave, kick/ban/delete, cleanups | channels, moderation | two maps, a join on a stale check | the maps agree; no ghosts; members only | `VoiceRoster` |
| Presence (`ws/handlers.rs`) | `isOnline`, `lastSeen` in Mongo, online cache | greet, goodbye, set-online, set-offline | calls, voice | late greet against late goodbye | shown online iff connected, in the end | `Presence` |
| User queues (`ws/state.rs`) | chat, ack, call FIFO slots; typing queue | enqueue, worker, garbage collection | every frame | a slot collected while it has a backlog; merging typing frames | one worker per queue, in order, nothing accepted is lost | `UserFifo`, `TypingQueue` |
| Direct conversations: tip and unread (`utils/tips.rs`, `utils/unread/`) | the tip document, generations in memory | upsert, increment, sync, refresh, clear | sends, reads, deletions, wipes, call logs | increment against absolute number; tasks in any order | the number equals what is unread, in the end; the tip is there and not behind | `DmTip` |
| Channel unread and read state (`utils/unread/`, `model/read_state.rs`) | counters, last read times, generations | increment, mark read, sync | messages, channels | increment racing mark-read | as for direct conversations | `ChannelUnread` |
| Messages (`controllers/messages.rs`, `ws/handlers.rs`, `model/messages.rs`) | messages, nonces, reactions, pins, mentions | send, edit, delete, react, pin | unread, uploads, moderation, slow mode | a repeated send; an edit or a reaction on a message read earlier | one message per nonce; what is deleted stays so; no reaction or mention lost | `Messages` |
| Channels, moderation, invites (`controllers/channels.rs`, `invites.rs`, `utils/channel/`) | members, bans, mutes, invite uses, read states | create, join, leave, kick, ban, mute, delete | voice, unread | accept of an invite racing a ban or the last use | a banned user is not a member; every use is a member | `ChannelMembers` |
| Friends, requests, blocks (`controllers/friends.rs`, `contacts.rs`, `utils/friends/`) | friend requests, lists of blocked and muted | send, accept, reject, cancel, remove, toggle | calls, typing, messages | crossing requests; lists written back whole | no friend unasked; who was removed stays so | `Friendship`, `OwnLists` |
| Relation caches (`ws/typing.rs`, `utils/access/`, `utils/friends/cache.rs`) | caches with lifetimes | fill, invalidate, expire | friends, channels | a fill overtaken by an invalidation | a cache does not outlive a relation for long | `Access`, `Friendship` |
| Sessions and tokens (`utils/auth/`, `model/refresh_tokens.rs`, `ws/registry.rs`) | refresh tokens by family, token version, sockets by family | login, rotate, reuse detection, revoke, password change, recheck | registry | two rotations of one token; a revocation between handshake and registration | what was ended stays ended and has no socket | `Sessions` |
| Two-factor settings (`controllers/auth.rs`, `utils/auth/step_up.rs`) | secret, pending secret, backup codes | set up, confirm, disable, use a code | sessions | documents read and written back whole | the secret was shown to its owner; a spent code is gone | `TwoFactor` |
| Pictures of users and channels (`controllers/auth.rs`, `channels.rs`) | a key in a document, objects in the store | upload, replace, remove | storage | two editors; an error half way | what is shown is stored, what is not is not | `Pictures` |
| Account deletion (`utils/admin/`) | everything of a user | request, withdraw, purge | all of the above | failure half way, writes under way | a later run completes it; nothing is left | `AccountDeletion` |
| Uploads, scan (`utils/scan/`, `utils/storage/`, `model/uploads.rs`, `utils/messages/access.rs`) | objects in quarantine or public, documents, verdicts, the scanner's queue | upload, scan, publish, claim, erase, clean | messages | crash between store and database; four tasks that remove objects | what is infected is never public; what waits is scanned; what is shown is there | `Attachments` |
| Quota (`model/storage_usage.rs`) | one counter per user | ask, charge, lower, rebuild | uploads, messages | asked early, charged late, rebuilt from old reads | the counter follows what is stored | `Quota` |
| Rate limits, slow mode, frame limits (`utils/ratelimit/`, `ws/state.rs`) | counters in windows | ask, count, evict | every request | ask and count apart | no more than the limit and those who ask at once; nobody refused wrongly | `RateLimits` |
| Registration (`controllers/auth.rs`, `utils/registration/`) | slots of the hour and the day, accounts | sign up | sessions | two slots and an account in three writes | one account per name; every slot accounted for | `Signups` |
| Frame keys (`ws/keys.rs`, `ws/encrypt.rs`) | one-time keys with TTL and cap | issue, take | handshake | - | a key is used once, before its TTL | - |
| Announcements, warnings, reports, audit | documents | publish, dismiss | users | - | - | - |
| Proxies and pure helpers (gifs, stickers, emojis, link preview, images, validators, crypto, config, CORS, R2 client, migrations, `bin/`) | none of their own | I/O, conversion | - | - | - | - |

## 2. Plan

What is in memory and concurrent came first, then the durable protocols.

1. Done: `Connections`, `CallSessions` with the abstract `CallPromise`, `VoiceRoster`,
   `Presence`, `UserFifo`, `TypingQueue`, `SocketAdmission`, `DmTip`; proofs for the calls,
   the roster, presence and the queues.
2. Done: the durable protocols: `Sessions`, `TwoFactor`, `Pictures`, `AccountDeletion`;
   `ChannelMembers`, `ChannelUnread`, `Messages`; `Friendship`, `OwnLists`, `Access`;
   `Attachments`, `Quota`; `RateLimits`, `Signups`; proofs for messages, files and sessions.
3. Done: the rest of the calls (`OneCallAtATime`, `NoOrphanCall`, and that `CallSessions`
   implements `CallPromise`), and every safety property of the runs `relations`, `accounts`, `chats`
   and `socket_state`, for the parts of each as they stand side by side. With that every
   invariant and every action property that a passing run checks has a theorem.
4. Left to model: the tip of a channel, whose writes have the shape of `DmTip`'s but which no
   counter reads; the block of an address and the timer that lifts it; the emission of events
   and the generation a client orders them by.

Parts that share no state are checked side by side in one instance (`MCSocketState`,
`MCVoiceCalls`, `MCAccounts`, `MCChats`, `MCRelations`): a behaviour moves one of them, so that
the states add up instead of multiplying, and the number of runs stays small.

## 3. Modules

`Connections` is extended by three modules, each with its own copy of the connections'
phases; `CallSessions` instantiates `CallPromise`. An `MC...` module gives the constants of a
module their values, or puts several modules side by side, and names the conjunctions that its
run checks; a `...Proofs` module holds proofs. Definitions called a mutant in their comment
stand beside the definition they vary; they show which mistake in the code each property
would notice.

### In memory

**`Connections`** is the task of a socket: `conn[c]` is its phase. `Attach` and `Detach` are
`register_connection` and `unregister_connection`; `Decide` the computation of
`last_connection` after the unregistration; `Wake` the end of the 400 ms sleep. The phases
after it belong to `on_user_disconnected` and are left by the module that extends this one.
`CleanupAhead(u)` says that some task has the user-level cleanup still to do.

**`CallSessions`** is the `SESSIONS` map. `sessions[{u, v}]` is a `CallSession` without its
times: `stale` says that the limit of its phase is over, and `Expire` makes it so at any
moment. An invite or accept is two steps (`InviteCheck`/`InviteCreate`,
`AcceptCheck`/`Accept`) because the database is asked in between; `job[u]` is what the
user's call queue is in the middle of. The other frames are one step each. `Sweep` is the
sweeper of `main.rs`; `CleanConnection`, `TakeAll`, `FinalizeTaken` and `RestoreTaken` are
the cleanups; `Sever`/`TakePair`, `WipeConversation` and `PurgeUser` the HTTP handlers.
`verdicts` records each time a call is finished, with what its log says; a session that is
removed and finished by nobody gets "lost" or "dropped", so that forgetting is visible.
**`CallPromise`** is the life of a call as its parties see it.

**`VoiceRoster`** is `CHANNEL_VOICE` and `VOICE_OWNER`, one operator per function of
`utils/voice/channels.rs`, and the frames, the moderation handlers (database first,
`OustFromVoice` or `ClearDeleted` later) and the cleanups that call them.

**`Presence`** is `isOnline` and the tasks that write it: `Greet` is `on_user_connected`, the
`Bye...` steps are `on_user_disconnected` with its two looks at the count, the `Frame...`
steps the set-online and set-offline frames, `HttpStatus` a change of status over HTTP.
Every write may fail, and then its task gives up as the code does. `excuse` says why the
field may be off once everything is over.

**`UserFifo`** is `fifo_enqueue`, `gc_fifo_map` and the worker, for one of the three
kinds of queue (their code is the same). `Send` and `Spawn` begin with the collection of idle
slots. A channel is named after its first job, since the map may replace it while its
worker goes on. `Panic` is a job that panics: the receiver is dropped with its backlog, and
the next enqueue finds the channel closed.
**`TypingQueue`** is `spawn_user_ordered_eventually`: a frame replaces older ones about the
same chat; a runner is started when none runs. What `retain` takes out is one entry, since a chat
waits in one place at most (`OnePlace`).
**`SocketAdmission`** is the way of a socket through `can_accept_ip_connection`,
`register_ip_connection` and `register_connection` and back.

**`Access`** is what is cached of who may write where, in a channel or to a friend: the
relations the answer rests on, and above them the answer itself (`ws/typing.rs`). `Change`
writes the database and then drops the caches one by one (`DropNext`), while a reader
(`Ask`, `Answer`) fills them. Time passes in ticks of 15 seconds, and entries age.

**`RateLimits`** is a counter of `utils/ratelimit/mod.rs`, asked and moved in one of five ways
(`limit_all`, `try_ip_then_total`, `limit_failures`, slow mode, `check_rate_limit`), with the
requests that are past the question and not yet counted. `ages` is history: how long ago the
last, the last but one, ... was counted.

### In the database

A handler is a record with a program counter and what it has read; a step is one operation of
the database or of the store. Errors, restarts and requests are bounded. History variables
record what was promised (who was told what, what was ended, what was sentenced) and the races
that the code does lose, by name.

**`DmTip`** is one direction of a direct conversation: the tip document, the messages, the
generation of the reader's unread number (`entry` and the watermark `mark`), and up to
`Task` tasks in progress. The ways a task can go are those of `handle_send_message`
(peek, create, upsert, look, increment, look again, or sync), of a nonce replay, an edit,
`heal_dm_unread_after_mark` with the tasks it spawns, `refresh_dm_tip_after_delete`, and
`delete_conversation`. `holds` and `lapses` are history: which messages the tip's number
stands for, and why it may be off.
**`ChannelUnread`** is the same for one reader of a channel: the counter, `lastReadAt` and the
generation, with sends, replays, marks, deletions and the rounds of a synchronisation.
**`Messages`** is one message from its sends (with one nonce) through edits, reactions, pins,
mentions and deletions, over the socket and over HTTP, each a read and a write.

**`ChannelMembers`** is a channel's members, bans, mutes, read states and one invite. Accepting
the invite is `AcceptLook`, `TakeUse`, `LookAgain`, `Seed`, `Join`, and `Release` where one of
them fails; a ban is `BanUpsert`, `BanPull` and, if that fails, `UndoBan`; a mute, its end, a
kick, a departure and the deletion of the channel have their steps as well.
`joins`, `sentenced`, `lifted` are history.
**`Friendship`** is the documents of two people in `friendrequests` and the cached list of each.
**`OwnLists`** is one list in the user's document (blocked or muted), toggled by reading it,
turning one entry and writing it back.

**`Sessions`** is the refresh tokens of an account by family, the access tokens and the sockets
opened with them: login, rotation (two writes), reuse detection, logout, revocation, password
change, administrative denial, the registration of a socket after its handshake, and the
recheck. **`TwoFactor`** is the secret, the pending secret and the backup codes. **`Pictures`**
is one picture of a profile or a channel. **`AccountDeletion`** is the request, the withdrawal
and the purge, a row of deletions that may stop anywhere and starts anew.

**`Attachments`** is one file: the object in the store, its `pending_uploads` document, the
messages that carry it, the scanner's queue with its retries and restarts, and the three tasks
that remove objects. **`Quota`** is the counter of what a user has stored against the uploads
and messages it stands for. **`Signups`** is signing up: the name, the two slots, the account.

## 4. Runs

| run | instance | what it shows |
|---|---|---|
| `call_two` | two users, one with two connections; two calls; one end of the relation | no call ends twice or is forgotten (`EndsOnce`, `NeverForgotten`); none is left to users who are gone or no longer related (`NoOrphanCall`); every call follows `CallPromise` (`KeepsPromise`) |
| `call_three` | a third user who is called; two calls; no end of a relation | `OneCallAtATime`: being busy is decided under the lock; only `restore_sessions` can give a user a second call |
| `call_timeout` | as `call_three` | refutes `TimeoutIsHangup` (7.1) |
| `voice_calls` | voice: one user, three connections, two channels, two ends of a membership; calls: two users, three connections, one call; under fairness | voice: the two maps agree, no ghost stays, nobody stays in the voice of a channel they left, the end of a connection spares what another one joined, and whoever is gone leaves; calls: `EveryCallEnds`, with no help from any user |
| `voice_kick` | voice, one kick | refutes `KickDropsVoice` (7.2) |
| `accounts` | presence: two connections, two frames, an error; sessions: three tokens, two requests, two sockets; two-factor: four secrets, two requests; deletion: a write under way, two stops; pictures: three uploads, two editors; under fairness | presence: `OnlineMatches`, `GoneGoesOffline`; sessions: what was ended has no live token and no socket (`SessionsEnd`), an account that is denied loses its sockets (`DeniedAccountEnds`); two-factor: the secret in force was shown to its owner, a spent backup code is gone; deletion: nothing is left, a withdrawal in time leaves the account whole, what is due is done; pictures: what is shown is stored, nothing else is |
| `socket_state` | queues: two users, a queue of two, three jobs each, one panic, under fairness; admission: five sockets, two addresses, limits of three, two and one; typing: three chats, a queue of two, five frames | queues: order, accounting, every accepted job runs; admission: exact counts, limits; typing: no old word after a newer one, one place for a chat, no frame left without a runner |
| `fifo_worker` | the queues | refutes `OneWorker` (7.3) |
| `chats` | tip: two tasks, two messages, two requests, an error; message: two handlers, two users who react, five requests, an error; members: two people, an invite of one use, two requests at once, three in all, an error; channel: two workers, two messages, two requests, an error | tip and channel: when all is done the unread number is right and the tip is not behind, but for the lapses named in the models (`ConversationsSettle`); members: a ban keeps out and stands, every use is a member, every member has a read state (`MembershipHolds`); message: one send, one deletion, no reaction or mention lost (`MessageKept`), nothing comes back (`DeletedStays`) |
| `relations` | file: two messages that carry it, three scans, one failure or restart; friendship: three documents, two handlers, six requests; list: two toggles at once, four in all; caches: a reader; quota: three files, one of them within the quota, two of which may wait, two uploads at once, an error; limits: two requests at once, two keys, a window of two ticks; signing up: two requests at once, three names, two hours, an error | friends only by both's will, no caches older than they may be, lists say what the client was told, nothing infected is public, what waits is scanned and what is clean is there, the quota's counter follows, limits hold and refuse nobody wrongly, a name is given once |
| `tip_delete` | the tip, one task at a time, no error | refutes `TipIsLastMessage` (7.4) |
| `dm_fence` | the tip, two tasks, no error | refutes `FenceHolds` (7.5) |

*Why these bounds.* The races are between a task and one other that comes in between two of
its steps. Two connections of a user give the two tasks that may both be the last, or one
that ends while the other returns; a third lets a user of voice come back while two
cleanups are under way. Two calls give a new session of a pair while an old one is in
somebody's hands. Two users give the one who collects the other's slot. A queue of two
with three jobs is full, drained and refilled; a typing queue of two with three chats
overflows. Two messages and two tasks give an increment beside a sync, an older message
inserted after a newer one, and a deletion beside either. Three tokens are a session, its
rotation and another session; two requests are a rotation or a login beside what revokes.
Two handlers of a message with five requests are a send, its repetition, and an edit beside a
deletion; three acts on a channel are an invitation beside a ban and what lifts it. Three
documents of a pair are one from each and one after a removal. Three attempts at a scan with
one failure reach a retry, and a restart finds jobs, documents and messages in every
combination. A window of two ticks is entered in its middle; limits of one and two are met
by two callers. The bounds on what is started (calls, relations, jobs, panics, frames,
requests, errors, documents) only stop a behaviour from going on. Where a property has a
theorem, the bounds do not matter for it.

*Symmetry and views.* `call_two` and `call_three` identify the two connections of one user,
`chats` the handlers, which are the tasks and the workers too, and `relations` the messages that
carry the file; no run with a liveness property uses symmetry, and `Quota` numbers its files
in the order they come instead. `call_three` identifies states that differ only in
`verdicts` and `answered`, which no step of the system and not `OneCallAtATime` reads.
`chats` identifies generations that show the same to every step: whether a task's is still
the current one, and how far the entry is behind the watermark (the watermark is never
behind the entry, so it is what `Peek` returns). In voice and presence one user suffices
because users meet only in `clear_channel_voice`; the theorems are about any number.

*Deadlock.* The systems may come to rest (all connections gone, all requests made), so no
run asks for absence of deadlock. That nothing waits for ever is stated by the liveness
properties, by `PendingIsScanned` and by `NoLostWakeup`.

## 5. Fairness

No user is ever obliged to connect, send or leave. What is fair is what the runtime runs:

- `CallSessions`: the sweeper (`main.rs` starts it as an endless loop), time (a session does
  get older), and the three steps of a connection's task in `on_user_disconnected`.
- `VoiceRoster`, `Presence`: every spawned task is polled until it ends; the sleep of
  400 ms ends. Weak fairness is enough, since nothing can disable the step of a task
  but that task.
- `UserFifo`: workers are scheduled and jobs end, by returning or by a panic; the database
  they wait for answers or is given up (`server_selection_timeout` in `utils/db/mod.rs`).
- `Sessions`: disconnect tasks run, a socket registers after its handshake, and ticks come. Of
  an account's sockets one gets the slot of the recheck in each interval, and nothing says
  which: the recheck of a denied socket is fair only while no open socket is good. A denied
  socket beside a good one may stay for ever.
- `AccountDeletion`: the days of grace end, the hourly job of `main.rs` comes to an account
  that is due, and its steps go on.

`EveryCallEnds` thus holds though all frames may stop; `GhostsLeave` and `GoneGoesOffline`
although both users may stay away; `EveryJobRuns` though nobody sends any more;
`DueMeansDeleted` although each run may be stopped anywhere, as often as the bound says.

## 6. Proofs

All theorems are about the module's specification and any values of the constants that meet
the assumptions: `ConnAssumption` (every connection has an owner; the limit is positive),
`CallAssumption`, `VoiceAssumption`, `FifoAssumption`, `AttAssumption`
(bounds are natural numbers, a queue holds at least one job, the "nothing" values are not
values). `StateAssumption` adds that a socket comes from an address and is a user's, and that a
typing queue has room for a chat; there may be infinitely many sockets. `ChatsAssumption` asks
for finitely many handlers at once, since they are counted; `Messages` alone assumes nothing
but, for its types, that its bounds are natural numbers;
`Sessions` assumes that there may be a token (`SessionAssumption`), and the other parts of
`MCAccounts` what `Connections` does and that their bounds are natural numbers
(`AccountsAssumption`). `MCRelations` names what its parts need: `PersonAssumption` (the
friendship is that of two people), `RateBounds` and `SignupBounds` (finitely many callers and
guests; a limit, a window and a day are not empty; the counter of everybody is nobody's own;
there is a name to ask for), `StoreBounds` (somebody may upload), and that bounds are natural
numbers. In the code the limits are constants of
`ws/state.rs` and `utils/ratelimit/mod.rs`, or settings of which `utils/registration/mod.rs`
takes only positive ones.

**Calls** (`CallProofs`): `TypeOK`, `LedgerInv`, `EndsOnce`, `NeverForgotten`. `EndsOnce` alone is
not inductive: a finished call might still be in the map or in a cleanup's hands. The
invariant says that the books balance: every id below `nextId` has exactly one holder (the
map, or one cleanup between its two steps) or exactly one verdict; sessions are filed under
their parties; only a cleanup between its steps holds sessions. It is restated as `Books`,
place by place, and there are a few ways to touch the books, each with its lemma: to remove
sessions and finish them (`RemoveKeepsBooks`), to create one, to rewrite one in place, to take
some in hand, to return them. Every action is one of these; `InviteCreate`, which
may replace an expired session by a new one, has the longest proof.

`OneCallAtATime` and `NoOrphanCall` are inductive together with the types and the books. They
rest on one account of what any step can make of a session in the map (`StepsOfSessions`): it is
what it was, but for turning stale; or it is handed back by `RestoreTaken`, whose name it then
bears; or it was created for two who are in no fresh call (`Created`), or answered (`Answered`), by
somebody who is connected or whom the session names as late. `StepsOfConnections` and
`StepsOfRelations` add that nobody goes and no relation ends but through the step that takes the
user's or the pair's sessions out. That `CallSessions` implements `CallPromise` is proved step by
step: every step of the detailed model ends calls that are held, in a way that fits how far they have come,
answers one, or places one (`NextProceeds`); with the books, which say that what is held has no
verdict yet, each call then moves on as the promise allows, or stays (`StatusMoves`).

**Voice** (`VoiceProofs`): the maps agree (`RosterInv`: agreement with types), by one lemma for
each of the six operations; then, on top of it, `NoGhost` and `VoiceForMembersOnly`, where
each step is looked at for what it does to the watches of a user (connected, a cleanup
ahead, a handler still to come), and `EndSparesLiveVoice` as an action property.

**Sockets** (`SocketStateProofs`): the invariants of the run `socket_state`. Its three parts
share nothing, so that `StateInv` is the conjunction of an invariant for each.

- *Queues*. `InOrder`, through `FifoInv`: the numbers in a channel ascend, what its worker
  has in hand is older, and, unless the user was exposed to the collector between two jobs, only
  the channel in the map has work and all of it comes after what has begun. On top of it
  `Accounted`, user by user: what has not begun is in one channel only (`AccInv`), and a step
  moves jobs between a channel, those that have begun and those that died with it, or leaves
  every channel what it had.
- *Admission* (`AdmissionInv`). That the counts are exact is inductive as soon as the sockets that
  hold a place are finitely many. A socket that goes from one phase to another changes three
  sets by one element at most, and every step changes the counts with them (`SocketMoves`); a
  count grows only where the same step has found it below its limit.
- *Typing* (`TypingInv`). `LastWordWins` speaks of chats of which nothing waits. The invariant
  says what waits: one entry for a chat, the last word on it; and what the runner has in hand
  is the last word unless a later one waits or was dropped. A frame is one of three cases of
  one lemma (`WordTakesPlace`): it takes the place of the chat's own word, and at most the
  word on one other chat falls out.

**Files** (`AttachmentsProofs`): `InfectedStaysIn`, for any set of messages and any number of
attempts and failures. What a send or a scan has in hand may say "clean" of an infected file
only if it could act on it later; the invariant `Contained` says of each place where a verdict
is carried (the cached verdict, the scan, the document, a send between its steps) that it does
not say so. `PendingIsScanned` follows from `Watched`, which adds the messages whose send has not
queued its job yet. `CleanIsThere` follows from `PlacedInv`: a clean verdict of a sound file comes
after the move of the object (`Early`, `SoundPasses`, `Settled`), and who removes the object
leaves one of the two names of a lost race.

**Conversations** (`ChatsProofs`): the four invariants and the action property of the run `chats`.
`ChatsInv` is the conjunction of the invariants of its parts; the part that moves keeps its own,
the others rest (`PartsMove`).

- *Messages* (`MessageInv`; also as theorems about `Messages` alone). `SentAndDeletedOnce`
  counts creations against the state of the message (`Counted`); `ReactionsKept`
  needs that an entry is there while anybody has reacted (`Reacted`); `MentionsTold`, that an edit
  which compared its mentions with an older text either mentions nobody new or still has its
  telling ahead (`Mentioned`).
- *The tip* (`TipInv`). `ConversationsSettle` speaks of quiet states, the invariant of all. The
  tip is not older than a live message unless a task is under way that will show one as new
  (`Newest`). The number is that of the messages it stands for (`NumberStands`); an unread
  message that is not among them is still to be added or counted (`NoneMissing`), and one
  among them that is not unread is still to be found out (`NoneTooMany`), by a task whose place
  and kind say that it will (`TasksFit`). At rest there is no such task.
- *Members* (`MemberInv`). The uses of the invite are the members it brought, those it lost, and
  those that requests carry between `TakeUse` and `Join` (`UsesStand`, by counting them). Who is
  about to add a banned user or to mute one who has gone looked before that (`WhoIsLate`); of a
  channel that is gone nobody is kept out (`NobodyLeft`); who is about to join has a read
  state by then, or a late request deleted it (`JoinersRead`).
- *The channel's unread number* (`UnreadInv`). Unless a task will write it, the number is what is
  unread but for the increments to come, of which a synchronisation that is about to announce
  itself may have counted some already (`NumberHolds`); a message that a mark has covered
  before it was inserted has that mark's synchronisation still ahead, whose announcement will make
  the message's own task look again (`CoveredEarly`).

The proof changed the model in two places. `TipSettles` was false for more messages than the run
has: a wipe clears the tip, the task of an older message creates it anew at that message, and the
newest message, which is deleted meanwhile, finds in `refresh_dm_tip_after_delete` that the tip is
not about it and leaves it there, although messages in between are live; `ReadTip` now names
that lapse. And `SyncDone` now says what the tip's number stands for after a synchronisation that
found it right, which the invariant needs.

**What users may do** (`RelationsProofs`, which builds on `AttachmentsProofs`): the six
invariants of the run `relations`. Each part has an inductive invariant of its own; the part that
moves keeps its invariant, the others rest, and `RelationsInv` is their conjunction
(`RelationsKeep`). Two theorems about the files, proved in `AttachmentsProofs` of a file alone,
hold here of the file beside the others.

- *Friendship* (`FriendInv`). That friends have both agreed needs to know what a handler
  between its read and its write may still do: it writes by an id it has read (`Claimed`), a
  pending request is wanted by its sender and whoever is about to accept it is the other
  (`WantedByBoth`), there is one document unless requests crossed (`OneDocument`), and a list
  read but not yet put in the cache is true or known to be late (`ReadRight`).
- *Lists* (`OInv`). An entry that no two toggles cross has one toggle at most in progress, and
  its copy agrees with the list until it writes and after (`Followed`).
- *Caches* (`AInv`). An entry that is wrong was read before a change and is no older than it
  (`Outdated`), and an answer is wrong only by a relation that changed within what that relation
  and the answer may live (`Carried`, for a reader between its questions). Where no reader met a
  change, what is wrong is still to be dropped (`Dropped`), and readers carry what is so.
- *Quota* (`QInv`). The files the counter stands for at every step, and not only when all is
  quiet (`Stored`, `Balanced`); by how much uploads let through may pass the limit
  (`Crowded`); what a rebuild has read that met nothing (`Summed`). Sets that a step changes in
  one file differ in number by one (`OneMoves`).
- *Limits* (`LInv`). A counter that lives has counted nothing that is older than the time it has
  had (`Dated`), and who is between question and count came by a way that has such a place
  (`Routed`).
- *Sign-ups* (`SInv`). Accounts and requests about to create one are together no more than what
  the day's counter says (`SlotsTaken`).

The proof changed the models in three places. `QuotaBounds` was false for larger bounds than
those of the run: a file whose message is erased still counts until its object goes, and an
erasure that overlaps the orphan cleanup of the same file lowers the counter twice; `Kept` now
says what is in the store, `Discharge` names that race, and the run has room for two uploads
that wait, where the race happens. The history of `RateLimits` is now how long ago each of the last
requests was counted, instead of a number for each age, and says the same as its sum did;
`SlotsAccounted` counts the day's accounts instead of adding up its hours.

**Sessions** (`SessionsProofs`): `EndedStaysEnded`, `OldPasswordOpensNothing` and
`SocketsEndWithSessions`. A rotation holds a token across three awaits, so the invariant follows it:
the token is of the family the request names, and when the family was ended in the meantime the
request is marked (`Sound`). A new session gets a family beyond all there are, and only families
there are have been ended. For passwords, `FreshInv` says the same of what is live or about to be
while no change is between its writes; it takes one clause more for changes that cross, where the
last to revoke has the last word (`Outdone`). A socket whose session was ended has somebody who
will cut it off (`CutAhead`): the disconnect that was spawned, or the request that detected a
reuse and is about to spawn it; or it was in the gap before its registration, or its session was
revoked without being named (`Cut`). That a disconnect names what was ended needs to know what
each request holds to name it by (`Numbered`). `SessionInv` is the conjunction.

**Accounts** (`AccountsProofs`, which builds on `SessionsProofs`): the six invariants of the run
`accounts`. As for the relations, each part has an invariant of its own, `AccountsInv` is
their conjunction, and the parts that do not move rest (`PartsMove`).

- *Presence* (`Amended`). `OnlineMatches` speaks of quiet states only and is not inductive.
  `Amended` says of every state that a field which is off has a task about to set it right;
  it is proved user by user, since no step writes the field of two.
- *Two-factor* (`CodesInv`). A request nobody wrote behind has read what the document holds, so a
  backup code it takes leaves the list; what a stale one puts back is noted as revived
  (`Asked`). New codes are of a set that was never handed out.
- *Deletion* (`DeletionInv`). Whatever the run is past is gone, or was written behind its back, or
  failed without stopping it; a run that starts anew is past nothing. So when the user goes,
  last of all, nothing else is left.
- *Pictures* (`PictureInv`). An upload that is not shown yet has a key no other request knows
  (`PicturesApart`), so that nobody else deletes its object; whoever is about to delete
  an object does not delete the one shown, but for a removal, which deletes a channel's picture
  before it clears the field (`Held`); and every object in the store is shown, or some request
  will see to it, or it failed or met another (`Accounted`).

**Only model-checked**: the liveness properties (`EveryCallEnds`, `GhostsLeave`, `GoneGoesOffline`,
`DeniedAccountEnds`, `DueMeansDeleted`, `EveryJobRuns`), which the prover cannot reach.

## 7. Where the code differs from what is said of it

1. *A timeout that nobody hears* (`call_timeout`). `create_ringing_session` removes an expired
   session of the pair and then finds one of the users busy; the session it removed is dropped
   with the error, and no party is told and no log written. `utils/voice/calls.rs:6` says a
   timeout is a hang-up.
2. *A kick overtaken by a join* (`voice_kick`). The join has read the channel before the kick and
   enters the roster after the kick has cleared it. `utils/voice/channels.rs:6` says a kick
   drops the voice.
3. *Two workers* (`fifo_worker`). Between two jobs `busy` is clear; a user who has been gone
   for a minute can lose the slot while the worker has a backlog, and gets a second worker
   on return. `ws/state.rs:4` says there is one.
4. *The tip stays at a deleted message* (`tip_delete`). `refresh_dm_tip_after_delete` finds the
   message that is now the last and passes it to `upsert_dm_tip`, whose filter never moves
   the tip to an older message. The contact list keeps showing the deleted text until the next
   message. `recompute_channel_tip` has the same shape.
5. *The fence that moves late* (`dm_fence`). A sync writes its number first and moves the
   generation when it announces it; an increment that looks in between counts its message
   twice. The number is off until the next sync.

Other behaviour that the models show and the properties make room for, by name where a history
variable has one:

- Sessions: a rotation that holds a token when its family is ended puts a live one there
  (`late`); a socket between handshake and registration is not found by the disconnect of its
  session (`excused`), nor is one whose session was revoked with the others but opened after
  they were listed (`unlisted`); the recheck is what is left for both.
- Unread numbers: a mark's repeated sync which finds the number that was announced already stays
  silent, and an increment in between is not undone.
- Tips: the deletion of the newest message leaves the tip at an older one than the last that is
  live, where a wipe had cleared it and a late task created it anew (`untipped`).
- Channels: a mute that looked while its user was a member lifts the ban that came since
  (`controllers/channels.rs:1603`); when a repeated ban fails half way, its compensation takes the
  earlier ban away (1423 to 1444).
- Friends: requests that cross give the pair two documents, since the index of
  `model/friend_requests.rs` is on the ordered pair (`controllers/friends.rs` treats any as the
  one); a block cannot be lifted once the friendship has ended, because the toggle asks for it
  first; crossing toggles lose one of the two.
- Messages: a pin still writes on a message deleted since it was read; a repeated send with a
  file whose document was claimed is answered `INVALID_FILE`
  (`utils/messages/access.rs:455`).
- Files: the cleanup of orphans may remove the object of a message whose document is not yet
  claimed; `reconcile_attachments` takes a read that failed for an empty one
  (`utils/storage/reconcile.rs:66`); a job without the expected hash lets an altered file pass.
- Quota: an erasure beside the orphan cleanup of the same file lowers the counter twice
  (`utils/messages/access.rs:276`); two first uploads may each insert a usage document
  (`model/storage_usage.rs:33`); a
  rebuild counts an unclaimed upload twice; a blocked file keeps its share until the rebuild.
- Limits: at its limit the registration of a sign-up answers "unavailable", since the update
  inserts what is there already, and the slot of the hour stays taken
  (`utils/registration/mod.rs:116`); a reconnection clears the frame counters
  (`ws/state.rs:463`).

## 8. Abstractions

- *Events* (what is emitted to clients) are not modelled, nor the online cache, the chosen
  status and `lastSeen`. What a call log says is the verdict of the call.
- *Calls*: the friendship check of an invite is one step, as is `purge_user_data`'s taking of a
  user's sessions; `stale` does not change while a cleanup holds a session.
- *Queues*: whether a user is connected is one Boolean; `FifoSlot.alive` is left out because no
  slot in the map can show it false; `MinutePasses` assumes that a ready worker is not
  starved for a minute; panics are only in `UserFifo`. The queue of a kind is independent
  of the other two.
- *Tip and unread*: timestamps differ; a database operation that is followed by a look at memory,
  or by the next database operation on something nobody else reads, is one step with it; the
  extra count before the sync of a deletion, and the repeated counts of a wipe that found
  nothing left, are left out, having no effect; announcing and invalidating differ only in the
  event; a wipe's sync of the other direction is not followed. Eviction from the floor and the
  watermark (above 50 000 entries) is not modelled, nor a restart in the middle of a task.
- *Messages*: one message; its text is the number of its edits, and of mentions it matters
  whether the reader is among them.
- *Channels*: one channel and one invite; roles other than the admin, who is never a target,
  are left out; what a ban or mute does to voice is in `VoiceRoster`.
- *Friends and lists*: one pair, one list; the other effects of a removal are in `CallSessions`
  (calls) and `DmTip` (conversation). *Caches*: time in ticks of 15 seconds, a reader takes
  less than one.
- *Sessions*: a token is its family, whether it is live and whether it was opened with the
  present password; expiry, fingerprints and codes are choices. *Two-factor*: requests without
  a right code change nothing and are not there. *Pictures*: the key and whether it has an
  object. *Deletion*: the kinds of records instead of records; the purge's steps in their order.
- *Files*: one file; a thumbnail goes with its image; whether the upload was altered before the
  scan is chosen at first. *Quota*: every file has the size one; the drift of image and
  thumbnail sizes is left out. *Limits*: whole ticks; *signing up*: the hours of one day, a slot
  is one update.
- *Crashes*: maps in memory start empty after a restart, which is `Init`; what a restart leaves
  in the database is modelled for scans (`Restart`) and for the purge of an account
  (its stops), and not for an `isOnline` that is set or a tip task that never ran.

## 9. Not modelled

- *Frame keys* (`ws/keys.rs`, `ws/encrypt.rs`): one map under one lock; issue, expiry, cap and use are one
  operation each, with which no other task interleaves.
- *The emission of events* (`ws/registry.rs`): each emit is a task of its own and is given up
  where a socket is slow or not registered yet; clients order what they get by the generation,
  and clients are not in this repository.
- *The tip of a channel*: its writes have the shape of those in `DmTip`, and no counter reads it.
- *IP blocks* (`middlewares/ip_block.rs`): the counter that sets one is like those of `RateLimits`;
  two requests at its limit may each start a timer that lifts it, and the first to end does.
- *Announcements, warnings, reports, audit*: documents that are written once and read.
- *Proxies, conversions, validation, configuration, the R2 and clamd clients, the captcha and breach
  services*: no state that tasks share. Ciphers, hashes, fingerprints, one-time codes and
  search tokens are pure functions and appear nowhere.
