------------------------------ MODULE PlayerGold ------------------------------
(***************************************************************************)
(* The gold of a player between the database, the online cache and his     *)
(* actor (GameServer/services/player_service.go, game/player/              *)
(* login_service.go), and the mails that pay him gold                      *)
(* (handler/message/mail_handler.go).                                      *)
(*                                                                         *)
(* Gold is kept three times: in the row of table players, in the cache     *)
(* entry PlayerService.onlinePlayers[p], and in the attributes of the      *)
(* actor, which alone are right while he is online.  A login copies row to *)
(* actor and cache, a logout actor to cache to row, and saveLoop, on every *)
(* tick, all actors to their entries and then the entries to their rows.   *)
(* Lanes, actors and the loop interleave between any two of these copies.  *)
(* The other attributes (level, experience, diamonds) travel with it.      *)
(***************************************************************************)
EXTENDS LaneOwners, Integers, FiniteSets

CONSTANTS
  Mails,        \* mails with gold in them, sent before the behaviour begins
  Addressee,    \* Addressee[m]: whom mail m is for
  Wealth,       \* Wealth[p]: the gold p has to begin with
  SaveLoop,     \* FALSE leaves the ticks of saveLoop out
  MaxLogin,     \* bound: actors ever made
  MaxEarn,      \* bound: rewards ever paid
  MaxFail       \* bound: statements that fail

ASSUME PlayerGoldAssumption ==
  /\ IsFiniteSet(Players)
  /\ Addressee \in [Mails -> Players]
  /\ Wealth \in [Players -> Nat]
  /\ Nobody \notin Mails \union Nat
  /\ SaveLoop \in BOOLEAN
  /\ MaxLogin \in Nat /\ MaxEarn \in Nat /\ MaxFail \in Nat

\* the actors, numbered as they are made; 0 is no actor
Actors == 1 .. MaxLogin

\* What a lane is about to do.  Login: "load", "add", "store", "enlist"; logout:
\* "sync", "hooks", "save", "remove"; claim of a mail: "read", "pay", "unclaim".
Points == {"idle", "load", "add", "store", "enlist", "sync", "hooks", "save", "remove",
           "read", "pay", "unclaim"}

Departing == {"sync", "hooks", "save", "remove"}

Entering == {"load", "add", "store", "enlist"}

Job == [at: Points, actor: 0 .. MaxLogin, seen: Nat, mail: Mails \union {Nobody}]

Free == [at |-> "idle", actor |-> 0, seen |-> 0, mail |-> Nobody]

\* age: how many ticks have begun since LastSaveTime was set; 2 is two or more
Entry == [gold: Nat, age: 0 .. 2]

ASSUME NoEntry == Nobody \notin Entry

VARIABLES
  row,          \* row[p]: column gold of table players
  current,      \* current[p]: the actor of p in PlayerManager.players
  owner,        \* owner[a]: the player actor a was made for
  gold,         \* gold[a]: the attribute of actor a
  cache,        \* cache[p]: onlinePlayers[p]
  job,          \* job[l]: the handler lane l is in
  todo,         \* actors syncAllOnline has still to copy
  reading,      \* the actor it has read and the gold it read
  ticking,      \* a tick of saveLoop is under way
  mail,         \* mail[m]: column is_claimed
  paid,         \* history: how often a mail's gold was added to an actor
  earned,
  failures,
  quiet,        \* history: begun and ended ticks since the gold of p last changed
                \* or a save of his failed (odd: begun); 4 is two whole ticks
  ledger        \* history: what p owns, Nobody once he was disturbed

goldVars == <<row, current, owner, gold, cache, job, todo, reading, ticking, mail,
              paid, earned, failures, quiet, ledger>>

GoldTypeOK ==
  /\ row \in [Players -> Nat]
  /\ current \in [Players -> 0 .. MaxLogin]
  /\ owner \in [Actors -> Players \union {Nobody}]
  /\ gold \in [Actors -> Nat]
  /\ cache \in [Players -> Entry \union {Nobody}]
  /\ job \in [Lanes -> Job]
  /\ todo \subseteq Actors
  /\ reading \in [actor: 0 .. MaxLogin, gold: Nat]
  /\ ticking \in BOOLEAN
  /\ mail \in [Mails -> {"open", "claimed"}]
  /\ paid \in [Mails -> Nat]
  /\ earned \in 0 .. MaxEarn
  /\ failures \in 0 .. MaxFail
  /\ quiet \in [Players -> 0 .. 4]
  /\ ledger \in [Players -> Nat \union {Nobody}]

GoldInit ==
  /\ row = Wealth
  /\ current = [p \in Players |-> 0]
  /\ owner = [a \in Actors |-> Nobody]
  /\ gold = [a \in Actors |-> 0]
  /\ cache = [p \in Players |-> Nobody]
  /\ job = [l \in Lanes |-> Free]
  /\ todo = {} /\ reading = [actor |-> 0, gold |-> 0] /\ ticking = FALSE
  /\ mail = [m \in Mails |-> "open"]
  /\ paid = [m \in Mails |-> 0]
  /\ earned = 0 /\ failures = 0
  /\ quiet = [p \in Players |-> 0]
  /\ ledger = Wealth

-----------------------------------------------------------------------------
(* Actors, entries and what disturbs them *)

Online(p) == current[p] # 0

Goto(l, at) == job' = [job EXCEPT ![l].at = at]

Return(l) == job' = [job EXCEPT ![l] = Free]

\* handlers of p, other than that of lane l, that log him in or out
Rivals(l) ==
  {k \in Lanes \ {l} : Owner[k] = Owner[l] /\ job[k].at \in Entering \union Departing}

\* actor a has been removed, or a logout has read its attributes
Gone(a) ==
  \/ current[owner[a]] # a
  \/ \E l \in Lanes : job[l].at \in Departing /\ job[l].actor = a

\* Every change of gold goes through this: AddGold and AddGoldSafe are one atomic
\* addition.  What a logout no longer sees is lost, or kept by both sides.
Pay(a, amount) ==
  LET p == owner[a] IN
  /\ gold' = [gold EXCEPT ![a] = @ + amount]
  /\ ledger' = [ledger EXCEPT ![p] = IF @ = Nobody \/ Gone(a) THEN Nobody ELSE @ + amount]
  /\ quiet' = [quiet EXCEPT ![p] = 0]

Disturb(p) == ledger' = [ledger EXCEPT ![p] = Nobody]

-----------------------------------------------------------------------------
(* Login: LoginService.EnterGame *)

\* HasPlayer: a player who is online is only bound anew.
LoginBegin(l) ==
  /\ job[l].at = "idle"
  /\ ~ Online(Owner[l])
  /\ \E a \in Actors : owner[a] = Nobody
  /\ Goto(l, "load")
  /\ IF Rivals(l) # {} THEN Disturb(Owner[l]) ELSE UNCHANGED ledger
  /\ UNCHANGED <<row, current, owner, gold, cache, todo, reading, ticking, mail, paid,
                 earned, failures, quiet>>

\* GetPlayerByID
LoginRead(l) ==
  /\ job[l].at = "load"
  /\ job' = [job EXCEPT ![l] = [Free EXCEPT !.at = "add", !.seen = row[Owner[l]]]]
  /\ UNCHANGED <<row, current, owner, gold, cache, todo, reading, ticking, mail, paid,
                 earned, failures, quiet, ledger>>

\* Mutant of Loaded: the actor begins with no gold, as it once did.
LoadedNothing(l) == 0

\* the attributes EnterGame loads into the new actor
Loaded(l) == job[l].seen

\* AddPlayer looks whether another lane has been faster ...
LoginAdd(l) ==
  /\ job[l].at = "add"
  /\ \/ Online(Owner[l]) /\ Return(l)
     \/ ~ Online(Owner[l]) /\ Goto(l, "store")
  /\ UNCHANGED <<row, current, owner, gold, cache, todo, reading, ticking, mail, paid,
                 earned, failures, quiet, ledger>>

\* ... and stores the new actor, over that of a lane that has looked at the same time.
LoginStore(l) ==
  /\ job[l].at = "store"
  /\ \E a \in Actors :
       /\ owner[a] = Nobody
       /\ \A b \in 1 .. a - 1 : owner[b] # Nobody
       /\ owner' = [owner EXCEPT ![a] = Owner[l]]
       /\ gold' = [gold EXCEPT ![a] = Loaded(l)]
       /\ current' = [current EXCEPT ![Owner[l]] = a]
       /\ job' = [job EXCEPT ![l].at = "enlist", ![l].actor = a]
  /\ quiet' = [quiet EXCEPT ![Owner[l]] = 0]
  /\ UNCHANGED <<row, cache, todo, reading, ticking, mail, paid, earned, failures, ledger>>

\* AddToOnline, with the information read before AddPlayer
LoginEnlist(l) ==
  /\ job[l].at = "enlist"
  /\ cache' = [cache EXCEPT ![Owner[l]] = [gold |-> job[l].seen, age |-> 0]]
  /\ quiet' = [quiet EXCEPT ![Owner[l]] = 0]
  /\ Return(l)
  /\ UNCHANGED <<row, current, owner, gold, todo, reading, ticking, mail, paid, earned,
                 failures, ledger>>

-----------------------------------------------------------------------------
(* Logout: LoginService.LeaveGame *)

\* The loop has read an actor of p and not yet written its copy, or one who is no
\* longer current is still in its list.
Copying(p) ==
  \/ reading.actor # 0 /\ owner[reading.actor] = p
  \/ \E a \in todo \ {current[p]} : owner[a] = p

\* The attributes are read.  A copy the loop has taken before, of this actor or of one
\* before him, may still overwrite this one.
LogoutRead(l) ==
  LET a == current[Owner[l]] IN
  /\ job[l].at = "idle"
  /\ a # 0
  /\ job' = [job EXCEPT ![l] = [Free EXCEPT !.at = "sync", !.actor = a, !.seen = gold[a]]]
  /\ IF Rivals(l) # {} \/ Copying(Owner[l]) THEN Disturb(Owner[l]) ELSE UNCHANGED ledger
  /\ UNCHANGED <<row, current, owner, gold, cache, todo, reading, ticking, mail, paid,
                 earned, failures, quiet>>

\* SyncOnlinePlayerData does nothing for a player without an entry
SyncEntry(p, amount) ==
  cache' = [cache EXCEPT ![p] = IF @ = Nobody THEN @ ELSE [@ EXCEPT !.gold = amount]]

LogoutSync(l) ==
  /\ job[l].at = "sync"
  /\ SyncEntry(Owner[l], job[l].seen)
  /\ Goto(l, "hooks")
  /\ UNCHANGED <<row, current, owner, gold, todo, reading, ticking, mail, paid, earned,
                 failures, quiet, ledger>>

\* savePlayerAssets and RunOfflineHooks; TradeGold adds the hook of the trades
LogoutHooks(l) ==
  /\ job[l].at = "hooks"
  /\ Goto(l, "save")
  /\ UNCHANGED <<row, current, owner, gold, cache, todo, reading, ticking, mail, paid,
                 earned, failures, quiet, ledger>>

\* PlayerLogout: save the entry, if there is one, and drop it whether or not the
\* statement succeeded
LogoutSave(l) ==
  LET p == Owner[l] IN
  /\ job[l].at = "save"
  /\ Goto(l, "remove")
  /\ cache' = [cache EXCEPT ![p] = Nobody]
  /\ \/ /\ cache[p] # Nobody
        /\ row' = [row EXCEPT ![p] = cache[p].gold]
        /\ UNCHANGED <<failures, ledger>>
     \/ /\ cache[p] # Nobody
        /\ failures < MaxFail
        /\ failures' = failures + 1
        /\ Disturb(p)
        /\ UNCHANGED row
     \/ /\ cache[p] = Nobody
        /\ Disturb(p)
        /\ UNCHANGED <<row, failures>>
  /\ UNCHANGED <<current, owner, gold, todo, reading, ticking, mail, paid, earned, quiet>>

\* RemovePlayer removes whoever is the actor of the player now
LogoutRemove(l) ==
  /\ job[l].at = "remove"
  /\ current' = [current EXCEPT ![Owner[l]] = 0]
  /\ Return(l)
  /\ UNCHANGED <<row, owner, gold, cache, todo, reading, ticking, mail, paid, earned,
                 failures, quiet, ledger>>

-----------------------------------------------------------------------------
(* The claim of a mail, and rewards *)

\* Mutant of Unclaimed: the UPDATE without its condition.
UnclaimedOrNot(m) == TRUE

\* WHERE ... is_claimed = 0
Unclaimed(m) == mail[m] = "open"

\* UPDATE ... SET is_claimed = 1 WHERE ...
ClaimMark(l, m) ==
  /\ job[l].at = "idle"
  /\ Addressee[m] = Owner[l]
  /\ Unclaimed(m)
  /\ mail' = [mail EXCEPT ![m] = "claimed"]
  /\ job' = [job EXCEPT ![l] = [Free EXCEPT !.at = "read", !.mail = m]]
  /\ UNCHANGED <<row, current, owner, gold, cache, todo, reading, ticking, paid, earned,
                 failures, quiet, ledger>>

\* SELECT attachments; when it fails the handler answers with an error and that is all
ClaimRead(l) ==
  /\ job[l].at = "read"
  /\ \/ Goto(l, "pay") /\ UNCHANGED failures
     \/ /\ failures < MaxFail
        /\ failures' = failures + 1
        /\ Return(l)
  /\ UNCHANGED <<row, current, owner, gold, cache, todo, reading, ticking, mail, paid,
                 earned, quiet, ledger>>

\* AddGold on the actor, if there is one; a mail holds one piece of gold
ClaimPay(l) ==
  LET a == current[Owner[l]] IN
  /\ job[l].at = "pay"
  /\ \/ /\ a # 0
        /\ Pay(a, 1)
        /\ paid' = [paid EXCEPT ![job[l].mail] = @ + 1]
        /\ Return(l)
     \/ /\ a = 0
        /\ Goto(l, "unclaim")
        /\ UNCHANGED <<gold, ledger, quiet, paid>>
  /\ UNCHANGED <<row, current, owner, cache, todo, reading, ticking, mail, earned, failures>>

\* UPDATE ... SET is_claimed = 0; its error is not looked at
Unclaim(l) ==
  /\ job[l].at = "unclaim"
  /\ \/ /\ mail' = [mail EXCEPT ![job[l].mail] = "open"]
        /\ UNCHANGED failures
     \/ /\ failures < MaxFail
        /\ failures' = failures + 1
        /\ UNCHANGED mail
  /\ Return(l)
  /\ UNCHANGED <<row, current, owner, gold, cache, todo, reading, ticking, paid, earned,
                 quiet, ledger>>

\* handleAddGold, handleAttrGrant: the actor pays itself
Earn(p) ==
  /\ Online(p)
  /\ earned < MaxEarn
  /\ earned' = earned + 1
  /\ Pay(current[p], 1)
  /\ UNCHANGED <<row, current, owner, cache, job, todo, reading, ticking, mail, paid,
                 failures>>

-----------------------------------------------------------------------------
(* PlayerService.saveLoop *)

\* Mutant of AllPlayers: the list has a place for players without an actor, too.
AllPlayersOrNil == {current[p] : p \in Players}

\* PlayerManager.GetAllPlayers
AllPlayers == {current[p] : p \in {x \in Players : Online(x)}}

\* A tick: syncAllOnline takes the list of all actors.
Tick ==
  /\ SaveLoop
  /\ ~ ticking
  /\ ticking' = TRUE
  /\ todo' = AllPlayers
  /\ cache' = [p \in Players |->
       IF cache[p] = Nobody THEN Nobody
       ELSE [cache[p] EXCEPT !.age = IF @ < 2 THEN @ + 1 ELSE 2]]
  /\ quiet' = [p \in Players |-> IF quiet[p] \in {0, 2} THEN quiet[p] + 1 ELSE quiet[p]]
  /\ UNCHANGED <<row, current, owner, gold, job, reading, mail, paid, earned, failures,
                 ledger>>

\* syncPlayerDataToService reads the attributes of the next actor ...
TickRead(a) ==
  /\ a \in todo
  /\ reading.actor = 0
  /\ reading' = [actor |-> a, gold |-> gold[a]]
  /\ todo' = todo \ {a}
  /\ UNCHANGED <<row, current, owner, gold, cache, job, ticking, mail, paid, earned,
                 failures, quiet, ledger>>

\* Mutant of TickSync: saveLoop without its syncProvider saves what the login read.
TickSyncNothing ==
  /\ reading.actor # 0
  /\ reading' = [actor |-> 0, gold |-> 0]
  /\ UNCHANGED <<row, current, owner, gold, cache, job, todo, ticking, mail, paid, earned,
                 failures, quiet, ledger>>

\* ... and writes them to the entry of its player, whichever actor he has by now
TickSync ==
  /\ reading.actor # 0
  /\ SyncEntry(owner[reading.actor], reading.gold)
  /\ reading' = [actor |-> 0, gold |-> 0]
  /\ UNCHANGED <<row, current, owner, gold, job, todo, ticking, mail, paid, earned,
                 failures, quiet, ledger>>

\* Entries due: saved at least an interval ago.  One saved since the last tick began
\* is due or not, as the ticks and the saves fall; no tick takes a whole interval.
Due(p) == cache[p] # Nobody /\ cache[p].age = 2

Young(p) == cache[p] # Nobody /\ cache[p].age = 1

\* The entries are saved under onlineMu, which keeps AddToOnline and PlayerLogout out.
TickSave ==
  /\ ticking /\ todo = {} /\ reading.actor = 0
  /\ \E chosen \in SUBSET {p \in Players : Young(p)}, broken \in SUBSET Players :
       LET tried == chosen \union {p \in Players : Due(p)}
           saved == tried \ broken
       IN /\ broken \subseteq tried
          /\ failures' = failures + Cardinality(broken)
          /\ failures' <= MaxFail
          /\ row' = [p \in Players |-> IF p \in saved THEN cache[p].gold ELSE row[p]]
          /\ cache' = [p \in Players |->
               IF p \in saved THEN [cache[p] EXCEPT !.age = 0] ELSE cache[p]]
          /\ quiet' = [p \in Players |->
               CASE p \in broken -> 0
                 [] p \notin broken /\ quiet[p] \in {1, 3} -> quiet[p] + 1
                 [] OTHER -> quiet[p]]
  /\ ticking' = FALSE
  /\ UNCHANGED <<current, owner, gold, job, todo, reading, mail, paid, earned, ledger>>

-----------------------------------------------------------------------------
(* Specification *)

LaneStep(l) ==
  \/ LoginBegin(l) \/ LoginRead(l) \/ LoginAdd(l) \/ LoginStore(l) \/ LoginEnlist(l)
  \/ LogoutRead(l) \/ LogoutSync(l) \/ LogoutHooks(l) \/ LogoutSave(l) \/ LogoutRemove(l)
  \/ \E m \in Mails : ClaimMark(l, m)
  \/ ClaimRead(l) \/ ClaimPay(l) \/ Unclaim(l)

LoopStep == Tick \/ (\E a \in Actors : TickRead(a)) \/ TickSync \/ TickSave

GoldNext ==
  \/ \E l \in Lanes : LaneStep(l)
  \/ \E p \in Players : Earn(p)
  \/ LoopStep

GoldSpec == GoldInit /\ [][GoldNext]_goldVars

-----------------------------------------------------------------------------
(* Properties *)

AtRest(p) == \A l \in Lanes : Owner[l] = p => job[l].at = "idle"

\* What a player owns survives his logout, and his next login finds it: unless a
\* payment came after the logout had read his attributes, two lanes logged him in or
\* out at once, the loop held an older copy, or the statement failed, his row (or his
\* actor, while he is online) holds exactly what he was paid.  (EnterGame,
\* LeaveGame, PlayerLogout, saveLoop)
GoldKept ==
  \A p \in Players : ledger[p] # Nobody =>
    /\ Online(p) => gold[current[p]] = ledger[p]
    /\ ~ Online(p) /\ AtRest(p) => row[p] = ledger[p]

\* A crash costs a player at most what he gained in the last two intervals: once two
\* ticks have begun and ended since his gold changed, and none of his saves failed,
\* his row is up to date, except while a logout of his is on its way.  One tick is
\* not enough, as an entry saved or made since the last tick began may be skipped.
\* (saveLoop)
LossBounded ==
  \A p \in Players :
    /\ quiet[p] = 4 /\ Online(p) /\ cache[p] # Nobody
    /\ \A l \in Lanes : Owner[l] = p => job[l].at \notin Departing
    => row[p] = gold[current[p]]

\* A mail pays once: its gold is added at most once however many lanes claim it and
\* however a claim is rolled back, and a mail marked claimed with no claim under way
\* has paid, unless a statement failed.  (ClaimMail, UnclaimMail, MAIL_CLAIM)
MailSettled ==
  \A m \in Mails :
    /\ paid[m] <= 1
    /\ paid[m] = 1 => mail[m] = "claimed"
    /\ mail[m] = "claimed" /\ failures = 0 /\ (\A l \in Lanes : job[l].mail # m) => paid[m] = 1
=============================================================================
