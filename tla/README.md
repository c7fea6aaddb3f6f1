# zMmoServer: specifications, model checking and proofs

This directory holds TLA+ specifications of the parts of zMmoServer in which
several goroutines or several processes have to agree, the TLC configurations
that check them on small instances, and TLAPS proofs of what can be proved for
instances of every size.

    tlc -config MapLink.cfg MCMapLink            # one run
    tlapm MapLinkProofs.tla                      # the proofs of one module

A configuration `<Run>.cfg` belongs to the module `MC...` that
`PROJECT.json` names for it; `MC` modules hold nothing but the values of the
constants (and, for migration and the lanes, the refinement mapping).

## 1. The system

A *realm* is one GameServer with its Gateway and its MapServers. The Gateway
ends the client's TCP connection and forwards packets over one connection to
the GameServer. The GameServer has an actor (one goroutine and a mailbox) for
every player who is online and holds his persistent state; a MapServer has an
actor for every map and decides what happens on it. GlobalServer keeps accounts
and the server list and decides which MapServer hosts a cross-server activity.
Processes talk through `zCommon/crossserver`: request envelopes with an id, an
*outbox* on the sending side that is sent again until it gives up, and an
*inbox* on the receiving side that drops ids it has seen.

### Components

| Component | State | Operations | Talks to | Hard behaviour | What makes it correct |
|---|---|---|---|---|---|
| Map entry, GameServer side (`game/maps/map_service.go`, `cross_service.go`) | outbox, local map objects, `crossBindings`, request sequence | enter, leave, attach to an activity, leave it, retry loop | MapServers by one connection per realm and one per foreign server | send and retry of one request overlap; binding, outbox and instance are three states; logout does not run on the actor | one enter per request, nobody on a server he did not ask for, both sides agree at rest |
| Map entry, MapServer side (`tcp_service.go`, `map_manager.go`) | inbox, `playerMap`, the maps' players | handle enter, handle leave, clean up the inbox | GameServers | deduplication by a bare id, leaves not deduplicated | no request taken for a repetition of another |
| Migration (`zCommon/crossserver/migration_manager.go`) | migration table, `playerIndex`, inbox | `ExecuteMigration`, six message handlers, time-out loop, `Cleanup` | other managers, a callback that lands, commits and rolls back | four message rounds under time-outs, concurrent handlers, expiry of a landed record | the source drops a player only after the target has landed him; one home at rest |
| Login, logout, player assets (`game/player/login_service.go`, `player_persist.go`, `player_assets_dirty.go`) | `PlayerManager.players`, the actor's memory, dirty flag, rows in the database | `EnterGame`, `LeaveGame`, asset messages, `PersistDirtyAssets` | database, sessions | loop, lanes and actor interleave between any two statements; no transaction | what is not marked is saved; what is saved at logout is what he has |
| Client lanes (`GameServer/net/service/client_lane.go`) | a queue per client, idle times | dispatch, run, reap | message router | reaper against dispatch | one message of a client at a time, in order |
| Sessions (`session_manager.go`, Gateway `client/connection`) | session, account and player tables | bind, kick, close, forward LEAVE_GAME | Gateway and GameServer | a new login overtakes the old connection's leave | the session in game is the newest one |
| Attacks (`map_service.go` 626-780, `tcp_service.go`) | pending channels by request id and by player:target, outbox, both inboxes | send, wait 1.5s, answer | MapServer | time-out against late answer and outbox retry; an answer may be given to a later attack | run once; what is reported is true and reported once |
| Grants (`map_pickup.go`, `aoi_push.go`, `map_service.go` 778-811) | inbox of answers and grants | item and attribute grant | actor | sent once, accepted before delivered, numbered by another process than the answers | a reward is paid once, and never dropped as a repetition |
| Gold, mail, trade (`player_service.go`, `trade_manager.go`) | attributes, online cache, mails, trade sessions | add, reduce, sync, claim, confirm, swap | actors, database | logout between copy and removal; two-sided confirmation | gold neither made nor lost |
| Cross activities (`cross_service.go`, GlobalServer `crossmatch`) | allocation cache, connections, allocations | allocate, connect, ensure instance, reap | GlobalServer, foreign MapServers | cached and sticky choices grow stale | one activity on one server; no connection in use is reaped |
| Instances and layers (`layer_manager.go`, `instance_manager.go`, `seamless.go`) | pool with players and reservations, link table | acquire, release, reap, hand-off | map actors | reservation against reaping, two maps during a hand-off | caps hold, nobody enters a reaped map, one map per player |
| Map actor and world (`map_actor.go`, `combat_handler.go`, `spawn_manager.go`) | map objects, spawn points and their counts | commands, ticks, spawn loop, timers of deaths | AOI push to GameServers | objects are registered by one goroutine, added by a second, removed by requests, made again by timers | spawn points count what is theirs; one thing is one thing |
| Gateway proxy | pending queue of 100 | send, flush on reconnect | GameServer | flush beside new sends | order of one client's messages |
| GlobalServer HTTP, lockout, server list; discovery, config, db, codec, lifecycle, protocol; test client | caches, tables | | | reads and writes of single tables | left to tests |

Where TLAPS proves the types of a module for every instance (`Migration`,
`MapLink`, `MapCombat`), no run checks them again.

`PROJECT.json` lists the components with their status and the hazards line by
line; a hazard no property covers has a note that says why.

## 2. Modules

| Module | Models | Proved in | Checked with |
|---|---|---|---|
| `Migration` | the two-phase migration of a player | `MigrationProofs` | `MCMigration` |
| `Ownership` | what a migration promises: a copy is never dropped unless there is another | | refined by `Migration` |
| `MapLink` | entering and leaving maps and activity instances across two processes | `MapLinkProofs` | `MCMapLink` |
| `CrossActivity` | how players of several realms get into one instance: allocator, cache, connections, instance, reapers | `CrossActivityProofs` | `MCCrossActivity` |
| `MapWorld` | a map's objects, its spawn loop and its timers | `MapCombatProofs` | through `MapCombat` |
| `MapCombat` | attacks, pick-ups, their answers and the rewards, between a GameServer and such a map | `MapCombatProofs` | `MCMapCombat` |
| `PlayerAssets` | loading, changing and saving a player's assets | `PlayerAssetsProofs` | `MCPlayerAssets` |
| `LaneOwners` | the lanes as handlers see them: constants of the next three | | |
| `PlayerGold` | gold between row, online cache and actor; mails | `PlayerGoldProofs` | `MCPlayerGold` |
| `TradeSessions` | the trade manager and the handler that swaps | `TradeProofs` | through `TradeGold` |
| `TradeGold` | both composed | `TradeProofs` | `MCTradeGold` |
| `ClientQueue` | what a client is promised: one queue | | refined by `ClientLanes` |
| `ClientLanes` | lanes, their dispatch and their reaper | `ClientPathProofs` | through `ClientPath` |
| `ClientPath` | Gateway sessions, proxy, connection, lanes, GameServer sessions and presence | `ClientPathProofs` | `MCClientPath` |

The pieces meet as the processes do. `ClientPath` extends `ClientLanes` with what
feeds the lanes and what their handlers do to sessions and presence.
`PlayerGold` and `TradeSessions` share the lanes (`LaneOwners`) and are composed in
`TradeGold`. `MapCombat` extends `MapWorld` with the requests that act on the map.
`CrossActivity` opens up what is one atomic answer in `MapLink`.

### Migration

`calls` are the goroutines inside `ExecuteMigration`, with the point each is at;
`table`, `state` and `playerIndex` are `mm.migrations`, `record.State` and
`mm.playerIndex` of every server; `inbox` the accepted ids; `landings` the
`handleMigrationData` calls between `TryAccept` and `Ack`; `net` the messages.
The driver's actions are the stretches of `ExecuteMigration` between two points
at which another goroutine can matter (`Admit` checks the index, `Start` stores
the record and sends the request, and so on to `Finish`); the others are the
inbound handlers, the time-out loop (`Expire`) and `Cleanup`. `holds` and
`landed` are what the callback does to players. Messages may be reordered, and
lost or delivered twice as far as the constants allow. A time-out is a failure
that may happen at any moment; the constant `Timely` adds the one relation of
the real time-outs that matters (a call of 10s ends before a record is 30s old).

### MapLink

One actor per player, the lane of his client, the goroutine of a pending
cross-enter, the retry loop, and a FIFO link for every connection to a
MapServer. `Submit` is `sendMapMessage` up to `outbox.Add`, `Sent` and
`SendFails` what follows the send; between them the retry loop may take the
same entry (`Tick`, `Resend`, `ResendFails`, `GiveUp`). `HandleEnter` and
`HandleLeave` are the MapServer's handlers. Layers are taken as plain maps, the
resolution of an activity as one atomic answer, moves and attacks are left out.
The code raises `Attempts` twice for a failed send, the model once; only
"below or at the limit" is ever asked of it, and `MaxRetry` is small. The inbox
forgets ids only when no message with the id can arrive any more: five minutes
against a retry every second, at most `maxOutboxRetry` times.

Constants name restrictions on the environment, and a run says which it takes:

* `Polite`: a client names the map he is in when he leaves, enters a map of the realm
  from none and an instance from no other. From a map of the realm he may go to an
  instance directly; `CurrentMapID` is overwritten, and both servers keep him in the
  realm's map as well.
* `Racing`: a cross-enter may be answered while the lane runs `LeaveGame`.
* `Faulty`, `Lossy`: the connections on which sends may fail; whether a
  connection may break with packets in it.
* `MaxRestart`: a restarted GameServer counts requests from 1 again, and a
  MapServer that still knows the ids drops its enters: `EnterNotSwallowed` holds
  only without restarts, which is an assumption of its theorem. `MaxAgain` bounds
  what the restarted one does.

Clients wait for nothing: a request may be made while an earlier one is still to be
repeated. What the code does not promise is kept in the history `astray`: a player
and a MapServer are in it when one of his requests to it was overtaken by his next one
(`Overtakes`: the earlier is still in the outbox or in the loop's snapshot, or on its
way over the other connection to that server; a leave that is repeated then removes
a player who has entered again), was lost with a connection (what `Send` accepted is
marked sent), was the enter of an attachment that failed (`Refused`), or when his
GameServer crashed. `HomeAgrees` and `InstanceAgrees` speak of the others, for each
MapServer by itself. An activity may run on the MapServer of the player's own realm, as
`cross_service.go:117` says: there are two connections to it then, one by map id and one
by server.

### CrossActivity

One activity, as several share nothing but connections. `allocation` is the
allocator's entry; `Discover` is the call of discovery *before* the lock and
`Allocate` what happens under it, so that two requests may have seen different
servers; `CacheAnswer` is when the answer reaches the GameServer. `job[p]` is the
goroutine of `runCrossEnter` for player p, with at most two attempts
(`Retries`), `Connect` finds a connection or makes one, `EnsureAnswered` and
`EnsureTimesOut` are the request for the instance (which may be handled although
its answer is late), and `Attach` is what the actor does. On the MapServer,
`bound`, `alive` and `inside` are `crossActivities`, the pool and `playerMap`;
`Judge` and `Reap` are `ReapEmpty`. The pool is external: that an instance may be
entered between the two is more than it may do. `Expire` is the 30 seconds of a
cache entry; `CollectInUse`, `ListIdle` and `CloseIdle` are
`reapIdleCrossConnections`, `Age` the five minutes of grace. Discovery loses and
finds a MapServer (`Unlist`, `List`), a MapServer starts again, `Cleanup` releases
the allocation.

`Candidates` is the server the activity has, if discovery reports it, else any:
the numbers of players the code compares are what each server last reported, so
they restrict nothing. Addresses are left out; that has one consequence worth
knowing: `ConnectToCrossRealmMapServer` compares server ids only, so a MapServer
that comes back under another address is reached under the old one until the
connection goes, although the allocator follows the address. Delays and
repetitions of the enter are in `MapLink`; here a request is handled or lost. A
request GlobalServer goes on with after its caller has given up is taken to have
been handled before that.

### MapWorld, MapCombat

`MapWorld` is one map: `monsters`, `items` and `here` are `m.objects`, `dead` the
players without health. Everything on the map's actor is one action (`Do`). The
spawn loop is two: `Create` registers and counts an object under the lock of the
spawn manager, `Add` hands it to the actor. `MonsterDies` is the whole of
`handleMonsterDeath`, with the drops, the timer of the next monster and
`RemoveObject` of the spawn manager (`Uncount`); `Respawn` and `Revive` are the
timers. Health is "deadly or not", positions are "in reach or not", and both are
free choices. A monster's own attacks change nothing in the code and are left
out.

`MapCombat` puts a GameServer in front of it. `Submit` is `sendMapMessage` up to
the outbox, `Send` and `SendFails` what follows, `Resend` and `GiveUp` the retry
loop, which may send a request while its first send is on; `MapLink` has the
loop's snapshot in detail, here a request is in the outbox or it is not. `job[p]`
is the goroutine in `sendMapAttackRequest` with its buffered channel; `Waits` is
`HandleMapAttackResponse` looking for the request id and then for player and
target. Each handler of the MapServer is one action, as `handleGameServerMessage`
runs on the goroutine of the connection, and likewise what GameServer does with
answers and grants (`HandleAnswer`, `HandleGrant`, the latter with what the actor
does: a bag may be full, a player gone). `gameInbox` is the one inbox that knows
both; an answer has the id of its request (`GameID`), a grant one of the
MapServer's own (`MapID`). The configurations shipped for a single realm give both
processes the ServerID 101, and so do the runs: a grant is then dropped when GameServer
has made a request of the same number and taken its answer (`repeated`, `answered`).
`Break` loses both directions of the connection.

A player has one attack at a time, as his lane waits for the result; that a
reconnected client may have a second lane is left out. The tables by which a
MapServer finds the GameServer of a player are taken to know whoever is on the
map. `ran`, `hits`, `told`, `earned`, `lost`, `received`, `answered` and `repeated` are
histories.

### PlayerAssets

`rows` is the database, `memory` the actors' bag and warehouse, `dirty` the
flag, `job` what each lane and the loop are at: reading a table, adding the
actor, listing a table, deleting its rows, inserting one row, removing the
actor. `work` holds what the message an actor is handling has still to do, so
that a store into the warehouse is two changes. Bag and warehouse stand for the
five tables, which are saved in the same way; an item is a kind with a count,
slots are left out, and reading one table of memory is one step. With `MayFail`
any statement may fail, any number of times. Nothing says "crash": a property of
the rows in a state is a property of what a crash in that state leaves.

A save is not protected against other saves, so no property of the rows can
hold unconditionally. The module names eight *disturbances* (`raced`,
`unmarked`, `late`, `overlap`, `stale`, `evicted`, `twin`, `failed`), each with the
situation in the code it stands for, and the properties hold for a player who
has met none of those that matter. `ledger` is the history variable that keeps
what he owns and which disturbances he has met; a lasting one closes it, a
passing one (`raced`, `unmarked`) is made good by the loop's next save of an actor
at rest. `Excused` is the set of disturbances that count: leaving one out shows
it to be a real way to lose or double an item and not a precaution of the model
(section 3).

### PlayerGold, TradeSessions, TradeGold

Gold is kept in the row, in the entry of `onlinePlayers` and in the actor. A
login copies row to actor and entry, a logout actor to entry to row, and a tick
of `saveLoop` all actors to their entries (from a list and values read before)
and then the entries to their rows. `job[l]` is what lane l is about to do: a login
finds the player offline (`LoginBegin`), reads the row, looks whether there is an actor
(`LoginAdd`), stores one (`LoginStore`) and lists him, so that two lanes may each find
none and each store an actor; a
player may have two lanes, as a reconnected client has a new one. `Pay` changes
the current actor's gold and the ledger of what he owns; what happens to a player
in a situation that loses gold in the code (a payment after the logout has read
his attributes, two lanes in a login or logout, an older copy in the loop's hand,
a failed statement) closes his ledger, as in `PlayerAssets`. `quiet` counts the
ticks since his gold changed. A mail is claimed by a conditional `UPDATE`
(`ClaimMark`), then read, then paid by a message to the actor, or rolled back.

`TradeSessions` has one action for each operation of the manager, which holds its
mutex, and the handler of the second confirmation as a sequence of steps on its
lane: the look-up of both actors, `Finish`, and up to four movements of gold, with
the roll back. Steps that take gold succeed or fail as they like there;
`TradeGold` says which, moves the gold of the actors that were looked up, whether
they are still current or not, and joins the hook that cancels a trade to the
logout.

### ClientQueue, ClientLanes, ClientPath

`ClientLanes` is `client_lane.go`: the goroutine of the connection finds or makes a
lane (`FindLane`) and then queues the message (`Enqueue`); a lane's goroutine runs
jobs; the reaper takes an idle lane from the table and its goroutine goes on.
Lanes are numbered as they are made, so two lanes of one client can be told
apart. The code judges idleness by a time stamp set at the dispatch, with a
grace of minutes. The constant `Patient` says that no lane with something held
for it, queued or running is that old; without it order is lost, which is the
hazard at `client_lane.go:85`. `ClientQueue` is the abstract promise, one queue per
client, and the mapping takes the queue of the lane the table names.

`ClientPath` puts around it the connections of one account: the Gateway's
sessions with takeover (`SetAccountInfo` with its kick, `RemoveSession` with its
comparison and deletion as two steps), the authentication guard, the proxy with
its pending queue and flush, a connection to GameServer that breaks and comes
again, and GameServer's handlers for login, enter, leave and the end of a client,
down to whether the player is online. `crossed` and `lost` are histories: two
logins, or a login and the end of an older session, met between two steps that
the code does not protect; a message was dropped or overtook another.

## 3. Runs

| Run | Checks | Instance |
|---|---|---|
| `MigrationOneWay` | `CommitOnlyIfLanded`, `LandsOnce`, `PlayerOnTargetAtCommit`, `OneHomeAtRest`, `DuplicateHealed` and refinement of `Ownership` | two servers, one of which migrates, two migrations, one duplicated delivery, every message but `Complete` may be lost, messages in order, `Timely` |
| `MigrationTwoSources` | `CommitOnlyIfLanded` **violated** | two sources that migrate to one target |
| `MapLink` | `StaysOnTarget`, `HomeAgrees`, `InstanceAgrees`, `EventuallySettled` | one realm, one activity on a foreign MapServer and one on its own, three requests, sends that fail on every connection, breaking connections, one restart |
| `MapLinkRealms` | `EnterNotSwallowed`, `AppearsByNewRequest` | two realms with the same map ids and sequences |
| `MapLinkGhost` | `NoGhost` **violated** | sends to the foreign server fail |
| `CrossActivity` | `TypeOK`, `Together`, `KeptConnected`, `Converges` | two realms with a player each, two MapServers, two enters, one change of the environment, one pass of the connection reaper |
| `MapCombat` | `AppliedOnce`, `ToldTrue`, `RewardedOnce`, `RewardsAccounted`, `PointsCounted` | two players, two spawn points of one monster each, one item lying about, two requests, two grants, one broken connection; ServerID 101 for both processes |
| `MapCombatOneID` | `RewardsKept` **violated** | the same |
| `PlayerAssets` | `TypeOK`, `CleanMeansSaved`, `OfflineMeansSaved`, `MarkTaken` | one lane, the loop, two logins, two messages, any statement may fail |
| `PlayerGold` | `GoldTypeOK`, `GoldKept`, `LossBounded`, `MailSettled` | two lanes of one player, the loop, two logins, one mail, one payment, one failing statement |
| `TradeGold` | `TypeOK`, `GoldConserved`, `SwapAsAgreed`, `SwappedOnce` | two players with a lane each, three logins, one trade with offers of 0 or 1, one payment, the loop left out |
| `ClientPath` | `TypeOK`, `NewestMapped`, `SingleLogin`, `NobodyLeftBehind`, `OneAtATime` and refinement of `ClientQueue` | two connections of one account, three lanes, every queue one long, one break, `Patient` |

What the runs that hold show:

* Migration: with one source the target has really landed the player whenever
  the source is told so and drops him, whatever is lost, reordered, repeated or
  timed out; he is never without a server, and on one server at rest, provided
  the last message (`Complete`) arrives in time.
* MapLink: a request that is retried while it is being sent does no harm; two
  realms cannot be mistaken for one another; every request is sent or given up; and
  where no request went astray, both servers agree at rest.
* CrossActivity: however realms ask, and whatever is reaped meanwhile, those who
  are in the activity on one MapServer are in one instance, and while discovery
  keeps the chosen server and nobody releases the allocation there is one
  MapServer; a connection outlives the player it was dialled for; after a change
  the caches of all realms agree with the allocator again.
* MapCombat: a request that is sent twice, or after its player was told that it
  failed, is run once; although an answer may be given to a later attack on the
  same target, every report is of a hit, and of one hit; a kill and an item are
  paid once, and a reward that does not arrive was on a connection that broke,
  met a full bag or a player who had gone, or has the id of a request GameServer has
  made and had answered; spawn points count their monsters.
* PlayerAssets: clearing the flag before the save, and reading the tables after,
  is enough for changes between two messages; a logout alone is enough to
  repair what the loop missed.
* PlayerGold: what was paid is in the row after a logout; a crash costs what two
  intervals of the loop brought, not one (an entry saved or made just before a
  tick is skipped by it); a mail never pays twice.
* TradeGold: a swap takes the amounts the manager held when each party's last
  confirmation was handled (what a client was showing is not known to it), once, and
  gold is conserved over the swap, its roll back, logins and logouts.
* ClientPath: the newest session of an account is the one it is mapped to and the
  only one connected; when all connections are gone and everything was handled
  the player is not online; each client has one queue although lanes come and go.

What the violations show (`PROJECT.json`, "findings", quotes the lines):

* `MigrationTwoSources`: migration ids count from 1 in every process and the
  target deduplicates by the bare id, so the second source's player is
  acknowledged, never landed, and dropped.
* `MapLinkGhost`: the attachment unbinds a player whose enter could not be sent,
  but the enter stays in the outbox and is sent later.
* `MapCombatOneID`: one ServerID for both processes, which is how the
  configurations for a single realm are shipped (`GameServer/config.ini:17`,
  `MapServer/config_single.ini:12`), gives grants and answers equal ids; the grant of an
  item is dropped because an answer with its number came before. `docs/协议契约.md:116`
  asks for ids that are unique in the whole cluster, and `envelope.go:43` says that they
  are.

More was seen with TLC and has no run of its own; each is what an instance of
the modules here shows when the named restriction is lifted:

* a lost `MIGRATION_COMPLETE` lets the target's record expire and roll back a
  player the source has dropped (`Lossy` with "Complete" in it; hence
  `AllButComplete`), and two callers of `ExecuteMigration` for one player both pass
  the `playerIndex` check (`CommitOnlyIfLanded` and `LandsOnce` hold nevertheless);
* a killed monster of a spawn point is made again twice: its point makes another,
  as the count is lowered, and the timer of its death makes one that belongs to no
  point (`combat_handler.go:137`), so that a map grows beyond the `MaxCount` of
  `spawn_point.go:18` with every kill. `PointsCounted` is about what the points
  count, and is not hurt;
* `StaysOnTarget` under `Racing`: `LeaveGame` runs on the client's lane, and an
  attachment the actor performs meanwhile leaves a binding nobody removes
  (`login_service.go:128`);
* `PlayerAssets` without "overlap" in `Excused`: the loop's `INSERT` of an older
  list after the logout's `DELETE` brings an item back; without "raced": the actor
  marks itself before the change, the loop takes the mark and reads the table in
  between, and the change is not marked;
* a session of a trade that is finished takes away whatever session its parties
  are in by then (`trade_manager.go:126`, three players);
* a connection to a foreign MapServer that a player did not dial but found may be
  closed under him: the grace protects young connections only, and between
  `Connect` and the binding an old one is in nobody's set (`connection_manager.go:203`
  says the grace is there for this window). `KeptConnected` therefore speaks of the
  player a connection was dialled for.

### Bounds

* Two migrations are needed for a second one to meet leftovers of the first
  (ids in the inbox, records not cleaned up, `playerIndex`); one duplicate is
  enough for two deliveries of one id, which is all `inbox` distinguishes.
* `MaxSeq = 2` has two requests in flight at once: an enter and the leave or
  second enter that it may overtake; 3 in `MapLink` are an enter, a leave and the enter
  after it, with sends that fail and connections that break between any two; after a
  crash the new process makes one (`MaxAgain`), with an id of the old one. `MaxRetry` 2
  or 3 makes "below" and "at the limit" both occur, 3 also a retry that fails and is
  not the last. With `MaxSeq = 4` and with two activities on one MapServer the same
  properties were checked without liveness, as far as TLC got (eleven million states
  of the former). `MapLinkRealms` tells states apart by all but `astray`
  (`ButAstray`), a history no step and neither of its properties reads. Two map ids suffice for a collision of ids and a
  difference of maps. `MaxRestart = 1` lets requests of the old process arrive
  after the new one has started.
* PlayerAssets: two logins are needed for an actor of an earlier session to be
  saved, removed or read over a later one; two messages for a change after the
  loop has taken the mark of another; one lane suffices for these, as the loop is
  the second writer, and two lanes of one player are in `PlayerGold`. One item
  kind, with one in the bag to begin with and more by grants: a save of one row
  already has the three kinds of states (before the delete, empty, after the
  insert).
* PlayerGold: two logins as above; one payment and one mail are two sources of
  gold that may fall between any two copies; one failure reaches every error path.
* TradeGold: three logins let one party leave and come back during a trade;
  offers of 0 and 1 with one piece of gold in the world make every take succeed
  and fail; one trade, as what a second would meet is the hazard named above.
  Without the loop, which only copies what an actor has (`PlayerGold`).
* ClientPath: two connections are the old and the new one; three lanes, so that
  one of them may be reaped and made again; queues, pending queue and link of one
  make "full" and "empty" both occur with two messages. `TroubledAlone` (a
  constraint) explores the loss of a message and a broken connection with one of
  the two clients only: each trouble is seen, not all at once. The two clients are interchangeable (`Alike`). `Enqueue` and the start
  of a job follow at once (`Next` of the module says why that loses nothing).
* MapCombat: two players want one monster and one item; two requests are an attack
  and its successor, or an attack and a leave, and each may be sent twice; with two
  grants a second one has a number of its own; a break may fall between any two
  steps. `MaxTimers` and `MaxObject` let a player die twice and a monster come back.
  With three requests an instance has more than fifteen million states; the
  theorems have no bounds.
* CrossActivity: two enters are two realms, or one player twice; one change of
  the environment puts the caches at odds with the allocator, and one pass of the
  reaper is all a connection can meet between dial and leave. With one change and
  one pass it may be fixed on which MapServer and in which realm they happen
  (`Moving`, `Reaping`): the realms and the MapServers are interchangeable. Two
  instances per MapServer are one and its successor. `MaxMove = 2` without the
  reaper, and the same without liveness, were checked as well; the theorems have
  no bounds but the number of instances, which is any.

Where TLC is told not to look for deadlock the instance ends because a bound is
used up or because clients need not do anything.

### Fairness

* Migration: a call returns by its time-out, a handler that has begun ends, and
  the ticker of `checkTimeouts` keeps firing. Messages need not arrive.
* MapLink: a send returns, with an error or without; the one-second ticker of
  `outboxRetryLoop` fires and the loop goes through its snapshot. Clients need
  not act, and each send may fail, every time.
* PlayerAssets: a statement returns; the ticker of `StartAssetPersistLoop` fires
  and the loop goes through its list. Lanes and actors need not move.
* CrossActivity: a resolution goes on, as each of its calls returns or times out,
  and a cache entry expires. Nobody need enter, and the reapers need not run.
* MapCombat, PlayerGold, TradeGold and ClientPath state safety only.

## 4. Proofs

| Theorem | Says | Assumes |
|---|---|---|
| `MigrationTypeCorrect` | `Spec => []TypeOK` | `MigrationAssumption` |
| `MigrationCommitLanded` | `Spec => []CommitOnlyIfLanded`, for any number of players, callers, migrations, losses and repetitions | one initiator (`OneInitiator`), the condition `MigrationTwoSources` shows to be necessary |
| `MigrationLandsOnce` | `Spec => []LandsOnce`, likewise | `OneInitiator` |
| `MigrationPlayerOnTarget` | `[]PlayerOnTargetAtCommit`, for any players, migrations, losses, repetitions and failures | one initiator, messages about a player handled in order, `Timely` (`Disciplined`); no two calls for one player at once (`[]Solo`) |
| `MigrationOneHome`, `MigrationImplementsOwnership` | `[]OneHomeAtRest`; the protocol implements `Ownership` | the same, and `"Complete" \notin Lossy` |
| `MigrationOneCaller` | `Spec => []Solo` | one initiator with one caller |
| `MapLinkTypeCorrect` | `Spec => []TypeOK` | `MapLinkAssumption` |
| `MapLinkEnterNotSwallowed` | `Spec => []EnterNotSwallowed`, for any realms, maps, players, retries and breaks | no restart (`NoRestart`) |
| `MapLinkAppearsByNewRequest` | `Spec => AppearsByNewRequest`, likewise | `NoRestart` |
| `MapLinkStaysOnTarget` | `Spec => []StaysOnTarget`, for any realms, maps, players, retries, breaks and restarts | `Polite` and not `Racing` (`Ordinary`) |
| `MapLinkHomeAgrees` | `Spec => []HomeAgrees`, for any realms, maps, players, activities and retries, whichever sends fail and connections break | `Steady` (`Ordinary`, no restart), `Sited` (maps exist where they are looked for, instances are numbered apart from configured maps) |
| `MapLinkInstanceAgrees` | `Spec => []InstanceAgrees`, likewise, with any number of instances on a MapServer, that of the own realm included | the same |
| `CrossTyped`, `AlwaysTogether`, `AlwaysConnected` | `TypeOK`, `Together`, `KeptConnected`, for any realms, players and MapServers | `CrossAssumption` |
| `CombatTyped`, `CombatImplementsWorld` | types; requests and connections take only steps of `MapWorld` | `WorldAssumption`, `CombatAssumption` |
| `WorldCounts`, `CombatPointsCounted` | `PointsCounted` of the map, and hence with players on it | |
| `CombatAppliedOnce`, `CombatRewardedOnce`, `CombatToldTrue` | `AppliedOnce`, `RewardedOnce`, `ToldTrue`, for any players, requests, objects and breaks | |
| `CombatRewardsAccounted` | `Spec => []RewardsAccounted`, whatever the ServerIDs | |
| `LanesOneAtATime`, `LanesImplementQueue` | a client's messages run one at a time; the lanes implement `ClientQueue` | `Patient` |
| `PathTypeOK` | `Spec => []TypeOK` of the whole path | `ClientPathAssumption` |
| `PathImplementsLanes` | the path takes only steps of the lanes, as far as they are concerned | |
| `PathOneAtATime`, `PathImplementsQueue` | hence both properties of the lanes hold of it | `Patient` |
| `PathNewestMapped`, `PathSingleLogin` | `NewestMapped`, `SingleLogin`, for any number of connections | |
| `PathNobodyLeftBehind` | `Spec => []NobodyLeftBehind`, for any number of connections, takeovers, breaks and sizes of the queues | `Patient` |
| `GoldImplementsTrades` | `TradeGold` takes only steps of `TradeSessions`, as far as they are concerned | |
| `TradeSwapAsAgreed`, `TradeSwappedOnce` | `SwapAsAgreed`, `SwappedOnce`, for any players, lanes, offers and sessions | |
| `GoldTyped`, `GoldSurvives`, `MailPaysOnce` | `GoldTypeOK`, `GoldKept`, `MailSettled`, for any players, lanes, mails, logins and failures | `LaneAssumption`, `PlayerGoldAssumption` (finitely many players: a flush counts those whose save fails) |
| `LossIsBounded` | `GoldSpec => []LossBounded`, for any number of ticks | likewise |
| `TradeGoldTyped`, `GoldSurvivesTrades`, `MailPaysOnceBesideTrades` | `TypeOK`, `GoldKept`, `MailSettled` of the composition | |
| `TradesConserveGold` | `Spec => []GoldConserved` of the composition, for any players, amounts, trades, mails, logins and failures | `TradeGoldAssumption` (finitely many lanes and mails: a sum ranges over them) |
| `AssetsTyped` | `Spec => []TypeOK`, whatever fails and whoever logs in or out in between | `AssetsAssumption` |
| `CleanIsSaved`, `OfflineIsSaved` | `CleanMeansSaved`, `OfflineMeansSaved`, for any players, lanes, logins and items | `Excused = Disturbances` |

`MigrationTypeCorrect` needs one thing beyond types: a call past `Admit` has an
id (`CallIds`). `MigrationCommitLanded` uses the invariant `LInv`: messages,
landings and records of a migration carry the direction and id of a call that
was started (`Directed`, `Allocated`), an id of the one source means one target
(`SameTarget`: the reason a bare id suffices), and a record at a target, which is
what a repeated delivery is answered from, belongs to a landed player
(`RecordsLanded`). Every conjunct is needed to preserve the next.

`MigrationLandsOnce` strengthens that to `OInv`: a delivery at work holds its id in
the inbox, so two of one id are never at work together (`OneLanding`); a call
reports the end of its migration once (`Once`); and where the inbox no longer
holds the id of a record, or the id is landed again, the source's `Rollback` has
been handled: the record is not live and no call or message is left that would
revive it (`Revoked`). Neither theorem needs `Ordered` or `Timely`: messages in any order,
time-outs of any length and any number of callers are covered here and not by a
run.

`MigrationPlayerOnTarget` adds `AInv`. An id stands for one player (`Numbered`) and a
call is the last migration of his (`Latest`); nothing about an earlier one is still on
its way to a target that lands or has landed this one (`InOrder`, where `Ordered` is
used: an old message could otherwise take away what a newer one has brought); who has a
record has passed the inbox and is not being landed (`Filed`), and `Tagged` ties a player
on a server to the migration that brought him. So a record of a running migration
means that the player is there, by that migration and with nobody landing him over it
(`Kept`), until the call ends: a time-out of the record is what `Timely` excludes. That a
record exists when the call is acknowledged, and stays, is `Acked`. `Homes` says
where everybody is: at home, where he was born (`Here`), or moved to one target by one
migration whose record is `Completed` or has its Complete on the way (`Moved`); on any other
server he is `Visiting`, by a landing or a record that will still be ended. At rest
nobody is visiting. `Homes` is also why a drop is never that of the last copy, which is
what the steps of `Ownership` ask; a rollback on a target takes away at most one player,
as a bare id names one.

Each condition is needed: TLC refutes `OneHomeAtRest` on the instance of `MigrationOneWay`
when any one of `Ordered`, `Timely`, the single caller or the Complete that arrives is
given up, and `PlayerOnTargetAtCommit` when one of the first three is. `Solo` is not
what the code ensures: the check of `playerIndex` (195) and its store (220) are two steps, and
`Cleanup` (794) deletes the index entry of the player of an old record although a new
migration of his may be running. It is up to the callers, of which the repository has none
yet.

`MapLinkEnterNotSwallowed` uses `IDInv`: every message that may still be sent or
received and every id in an inbox has been allocated by its realm's process
(`Allocated`), two such messages with one id are the same message
(`OneMessagePerID`), and an enter whose id an inbox knows was applied there as it
stands (`Applied`). A new id is larger than every allocated one; a restart, which
begins again at 1, is what breaks the argument.

`MapLinkAppearsByNewRequest` adds `Recorded`: as long as a copy of an applied enter may
still be sent or received, the inbox it was accepted from knows its id. The
clean-up of an inbox keeps the ids of `Outstanding`, which is why the lemma
`LiveOutstanding` is needed; with ids that begin again TLC finds an enter of the
new process applied under the id of an old one.

`MapLinkStaysOnTarget` needs no order and no ids. `Called`: an enter that is live
names a server and a map its player was to enter; `Addressed`: a packet is on a
connection of the server it names, first send or retry. That the enter of a realm map is
never composed for a foreign server, although a binding decides where it goes, is
`Bound`: whoever is bound is in a map, or being attached, or on his way out with a leave
that is being sent; hence a player in no map with nothing under way is unbound
(`FreeUnbound`). TLC refutes `StaysOnTarget` when either hypothesis is given up: under
`Racing` a binding outlives its logout, and a client that is not `Polite` enters a map
of the realm from inside the instance, and is sent to the map of that id on the instance's
server.

`MapLinkHomeAgrees` and `MapLinkInstanceAgrees` share `AgreeInv`. It argues by the
numbers of a player's requests to one MapServer, without replaying what is on a
connection. All of it speaks of players and servers that are not in `astray`:

* `Posted`: a request goes to one server over one connection, first send or retry.
* `InOrder`: numbers grow along a connection, what may still be sent is the player's
  latest to that server, and what is under way to it is on one connection
  (`NotOvertaken`). Hence what a MapServer takes next is the lowest it still gets of him
  (`HeadFirst`), or a repetition of it.
* `Repeated` and `Delivered`: a repetition finds the player where the request has put
  him, and what has left the outbox is on its connection or done.
* `LeavesOwnMap` and `KnowsMap`, with `Before`: when everything before a leave has been
  handled the player is in the map it names, so no leave removes him from another one
  or misses him.
* `HomeComes` and `InstanceComes`, with `Comes`: the last request about a map, or where
  none is left its players, says what the GameServer says. At rest nothing is left,
  and that is the property.

`astray` only grows, so that a step which adds to it has nothing to show for that pair, and
`BreakAgrees` is the step that loses packets. `Sited` uses what the code does: the pool of
`NewMapManager` numbers instances from 100000 (`map_manager.go:69-71`), so that an
instance on the realm's own MapServer never has the number of a configured map.

The hypotheses that remain, and the exceptions of `astray`, are needed: TLC finds one of
the two properties violated when `Polite` or `Racing` is set the other way, and when
`Overtakes`, `Refused` or the loss in `Break` is left out of `astray`. The first is a
matter of clients: one that enters a map of the realm from inside an instance, or leaves
a map he is not in, makes the two servers disagree. The second is the hazard at
`login_service.go:128`. That no GameServer restarts is assumed by the proofs, as the
invariant about ids needs it; the properties except the players of one that did.

`CrossActivityProofs` has three invariants. The types need that a job which has
been answered has a server (`HostKnown`). `AlwaysTogether` rests on two facts: the
only instance alive on a MapServer is the one the activity is bound to
(`OneInstance`: a new one is made only when that is gone), and while the
allocation stands no cache, job or player is anywhere else (`OneServer`).
`AlwaysConnected` follows a connection through the pass: a job that has dialled
holds a young one (`Dialled`), the pass closes old ones only (`ClosingOld`), and
the connection under a player is young, or in the set the pass has collected, or
not among those it closes (`OwnKept`).

`MapCombatProofs` first shows that a combat takes steps of `MapWorld` only, so that
the world's invariants need be proved for the seven things that happen to a map:
`PointsCounted`, by following the set registered with a point through each, and
`OneForm`, no object is two things. `Owed` then says that what is owed has left the
map for good, that no two grants on the wire have one object or one id, and that
what is on the wire, lost or handed out is owed and only one of these; it implies
`RewardedOnce`. `Fresh` adds that the inbox knows no grant still to come except by an
answer that had its id; so a grant is dropped for no other reason, whether the two
processes have one ServerID or two. `True` carries a hit from the map to the report: whoever waits for the id
of a request or answer waits for its target (`Asked`, `Answered`), and an answer
that was taken is in the inbox and with one player or in one report (`Taken`).
`AppliedOnce` needs only that what was run is in the map's inbox.

`LanesInv` says which lanes may have work: only the one the table names for its
owner (`WorkIsNamed`), and the dispatcher holds a lane that is still named
(`HeldIsNamed`), which is where `Patient` enters. The refinement maps `Enqueue`,
`Begin` and `Return` to the steps of the queue and all else to stutters.
`ClientPathProofs` proves types in two halves that meet in the link, the Gateway
with its proxy and GameServer with its lanes; composes, step by step, to
`ClientLanes`; and has an invariant of its own for the sessions (`SessionInv`), in
which a session that is about to kick knows the one it has replaced. The
condition of `SingleLogin` was corrected by the attempt to prove it.

`PathNobodyLeftBehind` rests on `PresenceInv`. As long as nothing was lost or
overtaken, the farewell of a client is the last of his messages wherever it is
(`GoneLast`: nothing of him is left in any place before it, and his lane has
nothing behind it); so either GameServer will still be told that he has gone
(`Coming`), or nothing of him is under way but a farewell being handled (`Quiet`).
Every step before the handlers keeps that (`Keeps`). A handler that enters therefore works
for a client who will be reported gone (`EntersComing`), and an online player is always
about to be bound or removed, or bound to such a client (`Expected`). That a lane
has no rival for its client comes from `LanesInv`, hence `Patient`: with a reaper that
takes busy lanes TLC finds the player left behind.

`TradeProofs` rests on `completing`: it is set by the one confirmation that goes on
to swap, is never taken back, and freezes offers and confirmations; a lane that
swaps is therefore the only one for its session. It is proved for `TradeSessions`
and carried over by `GoldImplementsTrades`.

`PlayerGoldProofs` has one invariant, `GoldInv`. While the ledger of a player is
open, `KeptInv` says that one lane at most logs him in or out, and that each of its
steps finds what the step before has left: the row when `add` uses what it read,
the actor's gold through the whole logout, an empty cache when he is removed.
Beside that run the copies `saveLoop` makes; whatever it still has to copy for him is
his current gold (`OwnCopies`), which is what all parts of the invariant share.
`BoundedInv` follows the last change of his gold through the two ticks: copied into
the cache in the first, or still to be copied; dirty in the cache between them; in the row
after the second. `MailInv` says that a claim under way is the only one of its mail,
which is marked and has not paid.

`ComposedInv` puts `GoldInv` beside the invariant of the trades. A swap changes the gold
of two actors it has looked up before: it has to be known that these are still actors
of players (`PairsOwned`; an actor never changes its owner), although their players may
be gone, when the swap disturbs them.

`TradesConserveGold` does its sums with the ledger: while nobody is disturbed, what the
players own and what swaps have taken and not yet given is what there was to begin with
and was paid since (`Conserved`), and by `KeptInv` what a player owns is what he has.
Each step changes the ledger of one player and the handler of one lane
(`LedgerChange`, `TakenChange`), by amounts that cancel. A sum over a set is a recursive
function of its subsets; that it exists, is a number and changes by what one term
changes (`SumsExist`, `TotalType`, `TotalChange`) is proved from a smallest
counterexample (`LeastNatural`), as the library's induction schemes are out of the
provers' reach.

`PlayerAssetsProofs` has two layers. `SoundInv` holds whatever happens: a goroutine
works for the player its actor was made for, an actor being loaded is nobody
else's (`JobSound`), and what a message has still to do is possible when it is
done (`Feasible`: what is taken is there), so that counts never leave the naturals.
`OpenInv` says of a player whose ledger is open that a save of his is alone with him;
what it has read so far is in the rows or on its way to them (`Written`: row by
row, deleted and not yet inserted); what a login has loaded is what the rows hold
(`Loaded`); his rows, or his memory when online, are what he owns; and an unmarked
player has nothing pending that was marked, so his rows are his memory. Meeting one of
the six lasting disturbances closes the ledger, after which nothing is claimed of him.
Both theorems excuse all eight, as the run does.

The proofs have one step per action; lemmas `...Typed`, `...Keeps` and `...Changes`
gather what several actions share.

Only model-checked: liveness (`DuplicateHealed`, `EventuallySettled`, `MarkTaken`,
`Converges`), which the provers here cannot do. Every invariant and every other
action property of a passing run is also a theorem.

## 5. Not modelled, and assumptions

* What sections 2 and 3 name as disturbances, exceptions and restrictions of the
  environment is excepted and not shown to be harmless. `PROJECT.json` says of each hazard
  whether a property catches it or only excepts it.
* The Gateway. Its requests are deduplicated by GameServer (`gatewayInbox`,
  `tcp_service.go:328`), which cannot drop anything while one Gateway process counts the
  ids; a restarted Gateway counts from 1 again (`envelope.go:41`), and its enters and leaves
  may be dropped. A restart of the Gateway is not modelled. `OnClose` comes after the
  client's running handler, as it does with `UseWorkerPool = false`, which is what the
  shipped configurations set (`GatewayServer/config.ini:59`; the default of the code, at
  `config.go:105`, is true). A session verifies tokens of one account only: with a token of
  a second one the mapping of the first would stay. As the session is removed after
  everything else, `SetAccountInfo` finds it (`manager.go:77`). Two flushes of the pending
  queue never overlap (`Reconnect`); clients who met that would be overtaken, and those
  are excepted.
* The managers of migration are not wired into a server yet
  (docs/realm架构-详细设计.md); the module takes the callback at its contract.
* Outbox and inbox are the in-memory ones of zEngine, modelled as their users
  rely on them; the SQL variant behind `ZMMO_PERSIST_CONSISTENCY=1` is not.
  `ListPending(50)` is taken without its limit.
* `zActor` mailboxes, `zNet` sessions and the database are external: a mailbox
  is handled one message at a time, a connection delivers in order or breaks.
* `PersistAllOnline` and `FlushAllOnline` at shutdown, skills, buffs and quests,
  levels, experience and diamonds (which travel with the gold).
* The layers of a map (reservations, caps) and the hand-off between neighbouring
  maps: each decides within one lock or one goroutine.
* Moves, skills and buffs, the areas of interest and what is broadcast to those
  around: rules of one map's actor. NPCs and map events likewise.
* The components `PROJECT.json` lists as not modelled, with the reason there. Most of the
  repository by lines is generated protocol code, wrappers of libraries and
  sequential game rules within one actor, for which unit tests are the right tool.

## 6. Plan

1. `MapLayers`: reservations and reaping over a contract of the pool.
2. A run for the reused connection (`BoundConnected`), once runs are free.
3. Moves, and the dungeon's own monsters, beside the attacks of `MapCombat`.

Theorems to prove next: `HomeAgrees` with restarts, as the runs check it, for ids that are not
used twice; `StaysOnTarget` for a `LeaveGame` that runs on the actor.
