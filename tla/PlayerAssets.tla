----------------------------- MODULE PlayerAssets -----------------------------
(***************************************************************************)
(* How the assets of a player get from the database into his actor and     *)
(* back (GameServer/game/player/login_service.go, player_persist.go,       *)
(* player_assets_dirty.go, services/player_service.go).                    *)
(*                                                                         *)
(* EnterGame loads the tables into a new actor, the actor changes its      *)
(* memory message by message, LeaveGame writes everything back and removes *)
(* the actor, and a background loop writes back the actors whose flag says *)
(* dirty.  A table is written by DELETE and one INSERT per row, without a  *)
(* transaction and without a lock: the lanes of the clients, the loop and  *)
(* the actor interleave between any two of these steps.                    *)
(*                                                                         *)
(* There is no action for a crash: the rows are what a crash leaves, so    *)
(* what an invariant says of them it says of a crash at that moment.       *)
(***************************************************************************)
EXTENDS Integers, Sequences, FiniteSets

CONSTANTS
  Players,
  Lanes,        \* the lanes a player's client may use: a reconnected client has
                \* a new one while the old one still works
  Items,        \* item configurations; two of one kind are stacked
  Nobody,
  MaxLogin,     \* bound: actors ever made
  MaxChange,    \* bound: asset messages ever handled
  MayFail,      \* TRUE: a statement may fail, any number of times
  Excused       \* the disturbances the properties make an exception for

\* What may come between a player and a right save.  The first two are made good
\* by the next round of the loop that finds the actor marked and at rest.
Disturbances ==
  {"raced",     \* the loop took the mark of a message that had still work to do
   "unmarked",  \* a message changed the assets without a mark
   "late",      \* a change after the logout has read the table, or later
   "overlap",   \* a load or save during a save of the same player
   "stale",     \* the loop saves an actor who has been removed meanwhile
   "evicted",   \* a logout removes an actor it has not saved
   "twin",      \* two actors of one player are started
   "failed"}    \* a statement fails

Passing == {"raced", "unmarked"}

ASSUME PlayerAssetsAssumption ==
  /\ Nobody \notin Players
  /\ "loop" \notin Lanes
  /\ MaxLogin \in Nat /\ MaxChange \in Nat /\ MayFail \in BOOLEAN
  /\ Excused \subseteq Disturbances

Tables == {"bag", "warehouse"}

\* how many of each item there are in each table
Stock == [Tables -> [Items -> Nat]]

None == [i \in Items |-> 0]

Nothing == [t \in Tables |-> None]

\* the actors, numbered as they are made; 0 is no actor
Actors == 1 .. MaxLogin

Workers == Lanes \union {"loop"}

Op == [act: {"put", "take"}, table: Tables, item: Items, marked: BOOLEAN]

Job == [kind: {"load", "leave", "sweep"}, actor: Actors, player: Players,
        table: Tables, left: [Items -> Nat],
        step: {"read", "add", "store", "list", "delete", "insert", "remove"}]

Idle == [kind |-> "idle"]

Account == [owned: [Tables -> [Items -> Int]], met: SUBSET Passing]

Closed == [owned |-> Nothing, met |-> Disturbances]

VARIABLES
  rows,         \* rows[p]: what the database holds
  online,       \* online[p]: the actor of p in PlayerManager.players
  owner,        \* owner[a]: the player actor a was made for
  memory,       \* memory[a]: inventory and warehouse of actor a
  dirty,        \* dirty[a]: assetsDirty
  work,         \* work[a]: what the message a is handling has still to do
  job,          \* job[w]: the load or save goroutine w is busy with
  round,        \* the actors PersistDirtyAssets has still to look at
  logins,
  changes,
  ledger        \* history: what each player was given less what he used up, and
                \* the passing disturbances he met; closed by a lasting one

vars == <<rows, online, owner, memory, dirty, work, job, round, logins, changes, ledger>>

TypeOK ==
  /\ rows \in [Players -> Stock]
  /\ online \in [Players -> 0 .. MaxLogin]
  /\ owner \in [Actors -> Players \union {Nobody}]
  /\ memory \in [Actors -> Stock]
  /\ dirty \in [Actors -> BOOLEAN]
  /\ work \in [Actors -> Seq(Op)]
  /\ job \in [Workers -> Job \union {Idle}]
  /\ round \subseteq Actors
  /\ logins \in 0 .. MaxLogin
  /\ changes \in 0 .. MaxChange
  /\ ledger \in [Players -> Account \union {Closed}]

\* One of each item is in the bag from an earlier session.
Init ==
  /\ rows = [p \in Players |-> [Nothing EXCEPT !["bag"] = [i \in Items |-> 1]]]
  /\ online = [p \in Players |-> 0]
  /\ owner = [a \in Actors |-> Nobody]
  /\ memory = [a \in Actors |-> Nothing]
  /\ dirty = [a \in Actors |-> FALSE]
  /\ work = [a \in Actors |-> <<>>]
  /\ job = [w \in Workers |-> Idle]
  /\ round = {}
  /\ logins = 0 /\ changes = 0
  /\ ledger = [p \in Players |-> [owned |-> rows[p], met |-> {}]]

-----------------------------------------------------------------------------
(* Goroutines and what disturbs them *)

Busy(w) == job[w] # Idle

\* the loads and saves of p that are under way
JobsOf(p) == {w \in Workers : Busy(w) /\ job[w].player = p}

SavesOf(p) == {w \in JobsOf(p) : job[w].kind # "load"}

Goto(w, step) == job' = [job EXCEPT ![w].step = step]

Return(w) == job' = [job EXCEPT ![w] = Idle]

When(condition, disturbance) == IF condition THEN {disturbance} ELSE {}

\* what ledger entry b becomes when the player owns s and meets disturbances d
Book(b, s, d) ==
  IF b = Closed \/ ~ (d \intersect Excused \subseteq Passing) THEN Closed
  ELSE [owned |-> s, met |-> b.met \union (d \intersect Excused)]

Disturb(p, d) == ledger' = [ledger EXCEPT ![p] = Book(@, @.owned, d)]

\* a statement on p's rows fails
Fails(p) ==
  /\ MayFail
  /\ Disturb(p, {"failed"})

\* the first table, and what follows each
FirstTable == "bag"

NewJob(kind, a, p, step) ==
  [kind |-> kind, actor |-> a, player |-> p, table |-> FirstTable,
   left |-> None, step |-> step]

-----------------------------------------------------------------------------
(* LoginService.EnterGame *)

\* HasPlayer says no: a new actor, not yet started.  (If it says yes the session
\* is bound to the actor there is, which concerns no asset.)
EnterGame(l, p) ==
  /\ ~ Busy(l) /\ online[p] = 0
  /\ logins < MaxLogin
  /\ logins' = logins + 1
  /\ owner' = [owner EXCEPT ![logins + 1] = p]
  /\ job' = [job EXCEPT ![l] = NewJob("load", logins + 1, p, "read")]
  /\ Disturb(p, When(SavesOf(p) # {}, "overlap"))
  /\ UNCHANGED <<rows, online, memory, dirty, work, round, changes>>

\* loadPlayerAssets, one table; a query that fails is logged and leaves the
\* table of the actor empty.
LoadTable(l) ==
  LET j == job[l]
  IN  /\ Busy(l) /\ j.step = "read"
      /\ \/ /\ memory' = [memory EXCEPT ![j.actor][j.table] = rows[j.player][j.table]]
            /\ UNCHANGED ledger
         \/ /\ Fails(j.player)
            /\ UNCHANGED memory
      /\ job' = IF j.table = "bag" THEN [job EXCEPT ![l].table = "warehouse"]
                ELSE [job EXCEPT ![l].step = "add"]
      /\ UNCHANGED <<rows, online, owner, dirty, work, round, logins, changes>>

\* AddPlayer: ErrPlayerAlreadyExists, or on to Start and Store.
AddPlayer(l) ==
  LET j == job[l]
  IN  /\ Busy(l) /\ j.step = "add"
      /\ IF online[j.player] # 0 THEN Return(l) ELSE Goto(l, "store")
      /\ UNCHANGED <<rows, online, owner, memory, dirty, work, round, logins,
                     changes, ledger>>

\* players.Store, whoever else has stored one since the check
StorePlayer(l) ==
  LET j == job[l]
  IN  /\ Busy(l) /\ j.step = "store"
      /\ online' = [online EXCEPT ![j.player] = j.actor]
      /\ Disturb(j.player, When(online[j.player] # 0, "twin"))
      /\ Return(l)
      /\ UNCHANGED <<rows, owner, memory, dirty, work, round, logins, changes>>

-----------------------------------------------------------------------------
(* The actor *)

Put(t, i, marked) == [act |-> "put", table |-> t, item |-> i, marked |-> marked]
Pick(t, i)        == [act |-> "take", table |-> t, item |-> i, marked |-> TRUE]

\* Mutant of MarkedMessage: whether the item is there is not asked.
MarkedMessageUnchecked(s) == {<<Pick("bag", i)>> : i \in Items}

\* handleNetWarehouseStore, handleNetWarehouseRetrieve: out of one table and into the
\* other, or back when that one is full
Moved(s, from) ==
  UNION {{<<Pick(from, i), Put(to, i, TRUE)>> : i \in {k \in Items : s[from][k] > 0}} :
         to \in Tables}

\* handleNetItemUse takes from the bag.
MarkedMessage(s) ==
  {<<Pick("bag", i)>> : i \in {k \in Items : s["bag"][k] > 0}} \union
  UNION {Moved(s, from) : from \in Tables}

\* handleItemGrant, whose message type assetMutatingMessages does not list
Grant == {<<Put("bag", i, FALSE)>> : i \in Items}

\* handleMessage: the actor of a player takes a message and marks itself dirty
\* before it does anything else.
HandleMessage(a) ==
  /\ owner[a] \in Players /\ online[owner[a]] = a
  /\ work[a] = <<>> /\ changes < MaxChange
  /\ changes' = changes + 1
  /\ \/ /\ \E m \in MarkedMessage(memory[a]) : work' = [work EXCEPT ![a] = m]
        /\ dirty' = [dirty EXCEPT ![a] = TRUE]
     \/ /\ \E m \in Grant : work' = [work EXCEPT ![a] = m]
        /\ UNCHANGED dirty
  /\ UNCHANGED <<rows, online, owner, memory, job, round, logins, ledger>>

Apply(op, s) ==
  [s EXCEPT ![op.table][op.item] = IF op.act = "put" THEN @ + 1 ELSE @ - 1]

\* save j has read table t of its actor
Passed(j, t) ==
  \/ j.step = "remove"
  \/ j.table = "warehouse" /\ t = "bag"
  \/ j.table = t /\ j.step \in {"delete", "insert"}

\* a logout has read table t of actor a, or removed the actor
Late(a, t) ==
  \/ online[owner[a]] # a
  \/ \E l \in Lanes : /\ Busy(l) /\ job[l].kind = "leave"
                      /\ job[l].actor = a /\ Passed(job[l], t)

\* One change of inventory or warehouse.
Change(a) ==
  LET op == Head(work[a])
      p  == owner[a]
  IN  /\ work[a] # <<>>
      /\ work' = [work EXCEPT ![a] = Tail(@)]
      /\ memory' = [memory EXCEPT ![a] = Apply(op, @)]
      /\ ledger' = [ledger EXCEPT ![p] =
           Book(@, Apply(op, @.owned), When(~ op.marked, "unmarked")
                                         \union When(Late(a, op.table), "late"))]
      /\ UNCHANGED <<rows, online, owner, dirty, job, round, logins, changes>>

-----------------------------------------------------------------------------
(* savePlayerAssets, run by a logout or by the loop *)

\* GetAllItems of one table
List(w) ==
  LET j == job[w]
  IN  /\ Busy(w) /\ j.step = "list"
      /\ job' = [job EXCEPT ![w].left = memory[j.actor][j.table], ![w].step = "delete"]
      /\ UNCHANGED <<rows, online, owner, memory, dirty, work, round, logins,
                     changes, ledger>>

\* The save of a table is over: the next table, or the rest of LeaveGame.
TableDone(j) ==
  IF j.table = "bag" THEN [j EXCEPT !.table = "warehouse", !.step = "list", !.left = None]
  ELSE IF j.kind = "leave" THEN [j EXCEPT !.step = "remove", !.left = None]
  ELSE Idle

\* Mutant of Delete: rows are only added.
DeleteNothing(w) ==
  LET j == job[w]
  IN  /\ Busy(w) /\ j.step = "delete"
      /\ job' = [job EXCEPT ![w] = IF j.left = None THEN TableDone(j)
                                   ELSE [j EXCEPT !.step = "insert"]]
      /\ UNCHANGED <<rows, online, owner, memory, dirty, work, round, logins,
                     changes, ledger>>

\* DELETE of all rows of the player
Delete(w) ==
  LET j == job[w]
  IN  /\ Busy(w) /\ j.step = "delete"
      /\ rows' = [rows EXCEPT ![j.player][j.table] = None]
      /\ job' = [job EXCEPT ![w] = IF j.left = None THEN TableDone(j)
                                   ELSE [j EXCEPT !.step = "insert"]]
      /\ UNCHANGED <<online, owner, memory, dirty, work, round, logins, changes, ledger>>

\* Mutant of Insert: the mark is cleared by the save, not before it.
InsertThenClear(w, i) ==
  LET j    == job[w]
      left == [j.left EXCEPT ![i] = 0]
  IN  /\ Busy(w) /\ j.step = "insert" /\ j.left[i] > 0
      /\ rows' = [rows EXCEPT ![j.player][j.table][i] = @ + j.left[i]]
      /\ dirty' = [dirty EXCEPT ![j.actor] = FALSE]
      /\ job' = [job EXCEPT ![w] = IF left = None THEN TableDone(j)
                                   ELSE [j EXCEPT !.left = left]]
      /\ UNCHANGED <<online, owner, memory, work, round, logins, changes, ledger>>

\* INSERT of one row
Insert(w, i) ==
  LET j    == job[w]
      left == [j.left EXCEPT ![i] = 0]
  IN  /\ Busy(w) /\ j.step = "insert" /\ j.left[i] > 0
      /\ rows' = [rows EXCEPT ![j.player][j.table][i] = @ + j.left[i]]
      /\ job' = [job EXCEPT ![w] = IF left = None THEN TableDone(j)
                                   ELSE [j EXCEPT !.left = left]]
      /\ UNCHANGED <<online, owner, memory, dirty, work, round, logins, changes, ledger>>

\* A statement fails: logged, the rest of the table is left out.
StatementFails(w) ==
  LET j == job[w]
  IN  /\ Busy(w) /\ j.step \in {"delete", "insert"}
      /\ job' = [job EXCEPT ![w] = TableDone(j)]
      /\ Fails(j.player)
      /\ UNCHANGED <<rows, online, owner, memory, dirty, work, round, logins, changes>>

-----------------------------------------------------------------------------
(* LoginService.LeaveGame *)

\* GetPlayer, then savePlayerAssets of that actor
LeaveGame(l, p) ==
  /\ ~ Busy(l) /\ online[p] # 0
  /\ job' = [job EXCEPT ![l] = NewJob("leave", online[p], p, "list")]
  /\ Disturb(p, When(JobsOf(p) # {}, "overlap"))
  /\ UNCHANGED <<rows, online, owner, memory, dirty, work, round, logins, changes>>

\* RemovePlayer stops and forgets the actor the player has by now, if any.
RemovePlayer(l) ==
  LET j == job[l]
  IN  /\ Busy(l) /\ j.step = "remove"
      /\ online' = [online EXCEPT ![j.player] = 0]
      /\ Disturb(j.player, When(online[j.player] \notin {0, j.actor}, "evicted"))
      /\ Return(l)
      /\ UNCHANGED <<rows, owner, memory, dirty, work, round, logins, changes>>

-----------------------------------------------------------------------------
(* LoginService.PersistDirtyAssets *)

\* The ticker fires: GetAllPlayers.
Tick ==
  /\ ~ Busy("loop") /\ round = {}
  /\ round' = {online[p] : p \in Players} \ {0}
  /\ UNCHANGED <<rows, online, owner, memory, dirty, work, job, logins, changes, ledger>>

\* Mutant of Take: the flag is read and not cleared.
TakeAndKeep(a) ==
  /\ ~ Busy("loop") /\ a \in round
  /\ round' = round \ {a}
  /\ IF dirty[a]
       THEN job' = [job EXCEPT !["loop"] = NewJob("sweep", a, owner[a], "list")]
       ELSE UNCHANGED job
  /\ UNCHANGED <<rows, online, owner, memory, dirty, work, logins, changes, ledger>>

\* The save that begins now finds all that a at rest has met before.
MadeGood(b, a) == IF work[a] = <<>> /\ b # Closed THEN [b EXCEPT !.met = {}] ELSE b

\* TakeAssetsDirty, test and clear, before the save: what the actor changes from
\* now on marks it again.
Take(a) ==
  LET p == owner[a]
  IN  /\ ~ Busy("loop") /\ a \in round
      /\ round' = round \ {a}
      /\ dirty' = [dirty EXCEPT ![a] = FALSE]
      /\ IF dirty[a]
           THEN /\ job' = [job EXCEPT !["loop"] = NewJob("sweep", a, p, "list")]
                /\ ledger' = [ledger EXCEPT ![p] =
                     Book(MadeGood(@, a), @.owned,
                          UNION {When(JobsOf(p) # {}, "overlap"),
                                 When(online[p] # a, "stale"),
                                 When(work[a] # <<>>, "raced")})]
           ELSE UNCHANGED <<job, ledger>>
      /\ UNCHANGED <<rows, online, owner, memory, work, logins, changes>>

-----------------------------------------------------------------------------
LaneStep(l) == LoadTable(l) \/ AddPlayer(l) \/ StorePlayer(l) \/ RemovePlayer(l)

SaveStep(w) ==
  \/ List(w) \/ Delete(w) \/ StatementFails(w)
  \/ \E i \in Items : Insert(w, i)

Sweep == Tick \/ \E a \in round : Take(a)

Next ==
  \/ \E l \in Lanes, p \in Players : EnterGame(l, p) \/ LeaveGame(l, p)
  \/ \E l \in Lanes : LaneStep(l)
  \/ \E w \in Workers : SaveStep(w)
  \/ \E a \in Actors : HandleMessage(a) \/ Change(a)
  \/ Sweep

Spec == Init /\ [][Next]_vars

\* Statements return, whether with an error or not, and the ticker of the loop
\* keeps firing; clients need not do anything.
Fairness ==
  /\ WF_vars(SaveStep("loop"))
  /\ WF_vars(Sweep)

FairSpec == Spec /\ Fairness

-----------------------------------------------------------------------------
(* Properties *)

\* Nobody is at work on p's assets.
AtRest(p) ==
  /\ JobsOf(p) = {}
  /\ \A a \in Actors : owner[a] = p => work[a] = <<>>

\* player_assets_dirty.go:49-52: a change during a save marks the player again
\* and is saved in the next round, so a player who is not marked is in the
\* database as he is, and a crash would cost him nothing.
CleanMeansSaved ==
  \A p \in Players :
    LET a == online[p]
    IN  (a # 0 /\ AtRest(p) /\ ~ dirty[a] /\ ledger[p].met = {})
          => rows[p] = memory[a] /\ memory[a] = ledger[p].owned

\* A player who has left finds everything he owned when he comes back, and
\* nothing twice: neither the loop nor another lane, an earlier login nor what
\* the loop missed keeps the logout from writing what he has.
OfflineMeansSaved ==
  \A p \in Players :
    (online[p] = 0 /\ AtRest(p) /\ ledger[p].met \subseteq Passing)
      => rows[p] = ledger[p].owned

\* No mark is forgotten: the loop takes it, or the player leaves.
MarkTaken ==
  \A a \in Actors :
    (dirty[a] /\ online[owner[a]] = a) ~> (~ dirty[a] \/ online[owner[a]] # a)
=============================================================================
