------------------------------ MODULE Migration ------------------------------
(***************************************************************************)
(* The two-phase migration of a player between two server processes        *)
(* (zCommon/crossserver/migration_manager.go over transport.go).           *)
(*                                                                         *)
(* Every server runs one MigrationManager.  A goroutine of the source      *)
(* blocks in ExecuteMigration while it asks the target (Request), ships    *)
(* the player (Data), commits locally and reports the end (Complete); the  *)
(* target answers from its inbound handlers, which run concurrently with   *)
(* one another; a background loop of each server expires and forgets       *)
(* records.  The managers share nothing but messages, which the network    *)
(* may reorder, and lose or deliver twice as far as the constants allow.   *)
(***************************************************************************)
EXTENDS Naturals, FiniteSets

CONSTANTS
  Servers,      \* the server processes
  Initiators,   \* the servers on which somebody calls ExecuteMigration
  Callers,      \* the goroutines of one server that may call it
  Players,
  Birth,        \* Birth[p] is the server that holds player p at first
  MaxID,        \* bound: migrations one server starts
  MaxDup,       \* bound: Data messages the network delivers twice
  Lossy,        \* the message types a send error or a broken link may lose
  Ordered,      \* TRUE: a server handles the messages about one player one at a
                \* time in the order sent (one session, one goroutine)
  Timely        \* TRUE: a call and the local commit end, and a sent Complete
                \* arrives, within the record timeout (10s against 30s)

Ids == 1 .. MaxID

MsgTypes == {"Request", "PrepareAck", "Data", "CommitAck", "Rollback", "Complete"}

ASSUME MigrationAssumption ==
  /\ Initiators \subseteq Servers
  /\ Birth \in [Players -> Servers]
  /\ MaxID \in Nat /\ MaxDup \in Nat
  /\ Lossy \subseteq MsgTypes
  /\ Ordered \in BOOLEAN /\ Timely \in BOOLEAN

MigrationState ==
  {"None", "Requested", "Transferring", "Transferred", "Committing",
   "Committed", "Completed", "RolledBack", "Failed", "TimedOut"}

IsTerminal(st) == st \in {"Completed", "RolledBack", "Failed", "TimedOut"}

VARIABLES
  nextID,       \* nextID[s]: the last migration id server s allocated
  calls,        \* the ExecuteMigration calls in progress
  table,        \* table[s]: mm.migrations, at most one entry for each id
  state,        \* state[s, f, i]: State of the record at s of migration i of f
  playerIndex,  \* playerIndex[s][p]: the migration of p known to s, 0 if none
  inbox,        \* inbox[s]: the migration ids accepted by the inbox of s
  landings,     \* the handleMigrationData calls between TryAccept and Ack
  holds,        \* holds[s][p]: {} or the migration that brought p to s
  landed,       \* history: the migrations ever deserialised, by server
  net,          \* the messages in flight
  dups          \* duplicate deliveries so far

vars == <<nextID, calls, table, state, playerIndex, inbox, landings, holds,
          landed, net, dups>>

Phases == {"admitted", "awaitPrepare", "accepted", "awaitCommit",
           "transferred", "committing", "completing"}

Call == [from: Servers, caller: Callers, player: Players, target: Servers,
         id: 0 .. MaxID, pc: Phases]

Entry == [id: Ids, from: Servers, player: Players]

Landing == [at: Servers, from: Servers, id: Ids, player: Players,
            step: {"validate", "store"}]

Message == [type: MsgTypes, from: Servers, to: Servers, id: Ids,
            player: Players, ok: BOOLEAN]

TypeOK ==
  /\ nextID \in [Servers -> 0 .. MaxID]
  /\ calls \subseteq Call
  /\ table \in [Servers -> SUBSET Entry]
  /\ state \in [Servers \X Servers \X Ids -> MigrationState]
  /\ playerIndex \in [Servers -> [Players -> 0 .. MaxID]]
  /\ inbox \in [Servers -> SUBSET Ids]
  /\ landings \subseteq Landing
  /\ holds \in [Servers -> [Players -> SUBSET (Servers \X (0 .. MaxID))]]
  /\ landed \subseteq (Servers \X Servers \X Ids)
  /\ net \subseteq Message
  /\ dups \in 0 .. MaxDup

Init ==
  /\ nextID = [s \in Servers |-> 0]
  /\ calls = {}
  /\ table = [s \in Servers |-> {}]
  /\ state = [k \in Servers \X Servers \X Ids |-> "None"]
  /\ playerIndex = [s \in Servers |-> [p \in Players |-> 0]]
  /\ inbox = [s \in Servers |-> {}]
  /\ landings = {}
  /\ holds = [s \in Servers |->
                [p \in Players |-> IF Birth[p] = s THEN {<<s, 0>>} ELSE {}]]
  /\ landed = {}
  /\ net = {}
  /\ dups = 0

-----------------------------------------------------------------------------
(* Records, messages and callbacks *)

\* mm.migrations.Load(id): no entry or one
Load(s, i) == {e \in table[s] : e.id = i}

Store(s, e) == [table EXCEPT ![s] = (@ \ Load(s, e.id)) \union {e}]

\* setState on the record a goroutine of s holds a pointer to
SetState(s, f, i, st) == state' = [state EXCEPT ![<<s, f, i>>] = st]

\* setState on the record that s finds under id i, whoever stored it there
SetStateOf(s, i, st) ==
  state' = [k \in DOMAIN state |->
              IF k \in {<<s, e.from, i>> : e \in Load(s, i)} THEN st ELSE state[k]]

\* playerIndex.Delete(record.PlayerID) for that record
Unindex(s, i) ==
  playerIndex' = [playerIndex EXCEPT ![s] =
     [p \in Players |-> IF p \in {e.player : e \in Load(s, i)} THEN 0 ELSE @[p]]]

\* failMigration, and the ends of a rollback and of a completion
Settle(s, i, st) == SetStateOf(s, i, st) /\ Unindex(s, i)

\* callback.OnMigrationRollback: what that migration landed on s is undone; on
\* the source it landed nothing and the player stays
OnMigrationRollback(s, i) ==
  holds' = [holds EXCEPT ![s] =
     [p \in Players |-> @[p] \ {<<e.from, e.id>> : e \in Load(s, i)}]]

Msg(type, m, ok) ==
  [type |-> type, from |-> m.from, to |-> m.to, id |-> m.id,
   player |-> m.player, ok |-> ok]

\* what a call sends to its target
Out(type, c) ==
  [type |-> type, from |-> c.from, to |-> c.target, id |-> c.id,
   player |-> c.player, ok |-> TRUE]

Goto(c, pc) == calls' = (calls \ {c}) \union {[c EXCEPT !.pc = pc]}

Return(c) == calls' = calls \ {c}

\* the CommitAck or PrepareAck the pending call of c is waiting for
AckFor(type, c, m) ==
  m \in net /\ m.type = type /\ m.from = c.from /\ m.id = c.id

-----------------------------------------------------------------------------
(* Source: one ExecuteMigration call *)

\* The playerIndex check: the caller owns the player, and nothing is
\* stored yet.  (Bound: no more calls than there are ids left.)
Admit(s, g, p, t) ==
  /\ s \in Initiators /\ t # s
  /\ holds[s][p] # {}
  /\ ~ \E c \in calls : c.from = s /\ c.caller = g
  /\ playerIndex[s][p] = 0
  /\ nextID[s] + Cardinality({c \in calls : c.from = s /\ c.pc = "admitted"}) < MaxID
  /\ calls' = calls \union {[from |-> s, caller |-> g, player |-> p,
                             target |-> t, id |-> 0, pc |-> "admitted"]}
  /\ UNCHANGED <<nextID, table, state, playerIndex, inbox, landings, holds,
                 landed, net, dups>>

\* nextID.Add(1), the record stored and indexed, MIGRATION_REQUEST sent.
\* (Bound: Admit has left an id for it.)
Start(c) ==
  /\ c.pc = "admitted" /\ nextID[c.from] < MaxID
  /\ LET i == nextID[c.from] + 1
         d == [c EXCEPT !.id = i, !.pc = "awaitPrepare"]
     IN  /\ nextID' = [nextID EXCEPT ![c.from] = i]
         /\ table' = Store(c.from, [id |-> i, from |-> c.from, player |-> c.player])
         /\ SetState(c.from, c.from, i, "Requested")
         /\ playerIndex' = [playerIndex EXCEPT ![c.from][c.player] = i]
         /\ calls' = (calls \ {c}) \union {d}
         /\ net' = net \union {Out("Request", d)}
  /\ UNCHANGED <<inbox, landings, holds, landed, dups>>

\* requestAcceptance returns on the target's PrepareAck.
PrepareAnswered(c) ==
  /\ c.pc = "awaitPrepare"
  /\ \E m \in net :
       /\ AckFor("PrepareAck", c, m)
       /\ net' = net \ {m}
       /\ \/ /\ m.ok
             /\ Goto(c, "accepted")
             /\ UNCHANGED <<state, playerIndex>>
          \/ /\ ~m.ok
             /\ Settle(c.from, c.id, "Failed")
             /\ Return(c)
  /\ UNCHANGED <<nextID, table, inbox, landings, holds, landed, dups>>

\* MIGRATION_REQUEST could not be sent or was not answered in time.
PrepareCallFails(c) ==
  /\ c.pc = "awaitPrepare"
  /\ Settle(c.from, c.id, "Failed")
  /\ Return(c)
  /\ UNCHANGED <<nextID, table, inbox, landings, holds, landed, net, dups>>

\* Mutant of Transfer: the source drops the player as soon as the data is sent.
TransferAndDrop(c) ==
  /\ c.pc = "accepted"
  /\ SetState(c.from, c.from, c.id, "Transferring")
  /\ net' = net \union {Out("Data", c)}
  /\ Goto(c, "awaitCommit")
  /\ holds' = [holds EXCEPT ![c.from][c.player] = {}]
  /\ UNCHANGED <<nextID, table, playerIndex, inbox, landings, landed, dups>>

\* transferData up to the call: SerializePlayer, then MIGRATION_DATA sent; a
\* player that is no longer here cannot be serialised.
Transfer(c) ==
  /\ c.pc = "accepted"
  /\ \/ /\ holds[c.from][c.player] # {}
        /\ SetState(c.from, c.from, c.id, "Transferring")
        /\ net' = net \union {Out("Data", c)}
        /\ Goto(c, "awaitCommit")
        /\ UNCHANGED playerIndex
     \/ /\ holds[c.from][c.player] = {}
        /\ Settle(c.from, c.id, "Failed")
        /\ Return(c)
        /\ UNCHANGED net
  /\ UNCHANGED <<nextID, table, inbox, landings, holds, landed, dups>>

\* Mutant of CommitAnswered: ack.Success is not looked at.
CommitAnsweredAnyhow(c) ==
  /\ c.pc = "awaitCommit"
  /\ \E m \in net : AckFor("CommitAck", c, m) /\ net' = net \ {m}
  /\ SetState(c.from, c.from, c.id, "Transferred")
  /\ Goto(c, "transferred")
  /\ UNCHANGED <<nextID, table, playerIndex, inbox, landings, holds, landed, dups>>

\* The target's CommitAck: Transferred, or notifyRollback and failMigration.
CommitAnswered(c) ==
  /\ c.pc = "awaitCommit"
  /\ \E m \in net :
       /\ AckFor("CommitAck", c, m)
       /\ \/ /\ m.ok
             /\ SetState(c.from, c.from, c.id, "Transferred")
             /\ Goto(c, "transferred")
             /\ net' = net \ {m}
             /\ UNCHANGED playerIndex
          \/ /\ ~m.ok
             /\ net' = (net \ {m}) \union {Out("Rollback", c)}
             /\ Settle(c.from, c.id, "Failed")
             /\ Return(c)
  /\ UNCHANGED <<nextID, table, inbox, landings, holds, landed, dups>>

\* MIGRATION_DATA could not be sent or was not answered in time: the target is
\* told to undo, whether or not it has received anything.
DataCallFails(c) ==
  /\ c.pc = "awaitCommit"
  /\ net' = net \union {Out("Rollback", c)}
  /\ Settle(c.from, c.id, "Failed")
  /\ Return(c)
  /\ UNCHANGED <<nextID, table, inbox, landings, holds, landed, dups>>

\* commitLocal: only a record still Transferred may commit; otherwise the call
\* returns an error and leaves everything as it is.
BeginCommit(c) ==
  /\ c.pc = "transferred"
  /\ \/ /\ state[<<c.from, c.from, c.id>>] = "Transferred"
        /\ SetState(c.from, c.from, c.id, "Committing")
        /\ Goto(c, "committing")
     \/ /\ state[<<c.from, c.from, c.id>>] # "Transferred"
        /\ Return(c)
        /\ UNCHANGED state
  /\ UNCHANGED <<nextID, table, playerIndex, inbox, landings, holds, landed,
                 net, dups>>

\* Mutant of Commit: the source keeps its copy.
CommitWithoutDrop(c) ==
  /\ c.pc = "committing"
  /\ SetState(c.from, c.from, c.id, "Committed")
  /\ net' = net \union {Out("Complete", c)}
  /\ Goto(c, "completing")
  /\ UNCHANGED <<nextID, table, playerIndex, inbox, landings, holds, landed, dups>>

\* OnMigrationCommit succeeds: the source lets the player go and sends
\* MIGRATION_COMPLETE, whose failure it only logs.
Commit(c) ==
  /\ c.pc = "committing"
  /\ holds' = [holds EXCEPT ![c.from][c.player] = {}]
  /\ SetState(c.from, c.from, c.id, "Committed")
  /\ net' = net \union {Out("Complete", c)}
  /\ Goto(c, "completing")
  /\ UNCHANGED <<nextID, table, playerIndex, inbox, landings, landed, dups>>

\* The transaction or OnMigrationCommit fails: RollbackMigration.
CommitFails(c) ==
  /\ c.pc = "committing"
  /\ OnMigrationRollback(c.from, c.id)
  /\ Settle(c.from, c.id, "RolledBack")
  /\ net' = net \union {Out("Rollback", c)}
  /\ Return(c)
  /\ UNCHANGED <<nextID, table, inbox, landings, landed, dups>>

\* Completing, Completed, and the player is free to migrate again.
Finish(c) ==
  /\ c.pc = "completing"
  /\ SetState(c.from, c.from, c.id, "Completed")
  /\ playerIndex' = [playerIndex EXCEPT ![c.from][c.player] = 0]
  /\ Return(c)
  /\ UNCHANGED <<nextID, table, inbox, landings, holds, landed, net, dups>>

DriverStep(c) ==
  \/ Start(c) \/ PrepareAnswered(c) \/ PrepareCallFails(c)
  \/ Transfer(c) \/ CommitAnswered(c) \/ DataCallFails(c)
  \/ BeginCommit(c) \/ Commit(c) \/ CommitFails(c) \/ Finish(c)

-----------------------------------------------------------------------------
(* Target: inbound handlers *)

\* the order in which one migration sends its messages to the target
Rank(type) ==
  CASE type = "Request" -> 1 [] type = "Data" -> 2 [] OTHER -> 3

ToTarget == {"Request", "Data", "Rollback", "Complete"}

\* Under Ordered no earlier message about the player is on the way to the same
\* server or at work there.
InTurn(m) ==
  Ordered =>
    /\ ~ \E k \in net : /\ k.type \in ToTarget
                        /\ k.from = m.from /\ k.to = m.to /\ k.player = m.player
                        /\ \/ k.id < m.id
                           \/ k.id = m.id /\ Rank(k.type) < Rank(m.type)
    /\ ~ \E l \in landings : l.at = m.to /\ l.from = m.from /\ l.player = m.player

\* handleMigrationRequest: OnMigrationPrepare decides.
HandleRequest(m) ==
  /\ m.type = "Request"
  /\ \E ok \in BOOLEAN : net' = (net \ {m}) \union {Msg("PrepareAck", m, ok)}
  /\ UNCHANGED <<nextID, calls, table, state, playerIndex, inbox, landings,
                 holds, landed, dups>>

\* Mutant of HandleData: no inbox.
HandleDataUnchecked(m) ==
  /\ m.type = "Data"
  /\ \E again \in BOOLEAN :
       /\ again => dups < MaxDup
       /\ dups' = IF again THEN dups + 1 ELSE dups
       /\ net' = IF again THEN net ELSE net \ {m}
  /\ landings' = landings \union
       {[at |-> m.to, from |-> m.from, id |-> m.id,
         player |-> m.player, step |-> "validate"]}
  /\ UNCHANGED <<nextID, calls, table, state, playerIndex, inbox, holds, landed>>

\* handleMigrationData up to TryAccept on the bare migration id: a new id is
\* being landed; a known one is answered "landed" iff a record of it exists.
\* The message may stay in flight for a second delivery.
HandleData(m) ==
  /\ m.type = "Data"
  /\ \E again \in BOOLEAN :
       /\ again => dups < MaxDup
       /\ dups' = IF again THEN dups + 1 ELSE dups
       /\ LET rest == IF again THEN net ELSE net \ {m}
          IN  \/ /\ m.id \notin inbox[m.to]
                 /\ inbox' = [inbox EXCEPT ![m.to] = @ \union {m.id}]
                 /\ landings' = landings \union
                      {[at |-> m.to, from |-> m.from, id |-> m.id,
                        player |-> m.player, step |-> "validate"]}
                 /\ net' = rest
              \/ /\ m.id \in inbox[m.to]
                 /\ net' = rest \union {Msg("CommitAck", m, Load(m.to, m.id) # {})}
                 /\ UNCHANGED <<inbox, landings>>
  /\ UNCHANGED <<nextID, calls, table, state, playerIndex, holds, landed>>

Answer(l, ok) ==
  net' = net \union {[type |-> "CommitAck", from |-> l.from, to |-> l.at,
                      id |-> l.id, player |-> l.player, ok |-> ok]}

\* Mutant of LandingFails: the failure is answered like a success.
LandingFailsAcked(l) ==
  /\ l.step = "validate"
  /\ inbox' = [inbox EXCEPT ![l.at] = @ \ {l.id}]
  /\ landings' = landings \ {l}
  /\ Answer(l, TRUE)
  /\ UNCHANGED <<nextID, calls, table, state, playerIndex, holds, landed, dups>>

\* Checksum, OnMigrationDataReceived or DeserializePlayer fails: ackFail
\* releases the inbox.
LandingFails(l) ==
  /\ l.step = "validate"
  /\ inbox' = [inbox EXCEPT ![l.at] = @ \ {l.id}]
  /\ landings' = landings \ {l}
  /\ Answer(l, FALSE)
  /\ UNCHANGED <<nextID, calls, table, state, playerIndex, holds, landed, dups>>

\* OnMigrationDataReceived and DeserializePlayer: the player is here.
LandPlayer(l) ==
  /\ l.step = "validate"
  /\ holds' = [holds EXCEPT ![l.at][l.player] = {<<l.from, l.id>>}]
  /\ landed' = landed \union {<<l.at, l.from, l.id>>}
  /\ landings' = (landings \ {l}) \union {[l EXCEPT !.step = "store"]}
  /\ UNCHANGED <<nextID, calls, table, state, playerIndex, inbox, net, dups>>

\* migrations.Store, inbox.Ack and the successful CommitAck.
StoreLanded(l) ==
  /\ l.step = "store"
  /\ table' = Store(l.at, [id |-> l.id, from |-> l.from, player |-> l.player])
  /\ SetState(l.at, l.from, l.id, "Transferred")
  /\ landings' = landings \ {l}
  /\ Answer(l, TRUE)
  /\ UNCHANGED <<nextID, calls, playerIndex, inbox, holds, landed, dups>>

LandingStep(l) == LandingFails(l) \/ LandPlayer(l) \/ StoreLanded(l)

\* handleMigrationRollback: without a record there is nothing to undo.
HandleRollback(m) ==
  /\ m.type = "Rollback"
  /\ net' = net \ {m}
  /\ OnMigrationRollback(m.to, m.id)
  /\ Settle(m.to, m.id, "RolledBack")
  /\ inbox' = [inbox EXCEPT ![m.to] = @ \ {e.id : e \in Load(m.to, m.id)}]
  /\ UNCHANGED <<nextID, calls, table, landings, landed, dups>>

\* handleMigrationComplete: ErrMigrationNotFound changes nothing.
HandleComplete(m) ==
  /\ m.type = "Complete"
  /\ net' = net \ {m}
  /\ Settle(m.to, m.id, "Completed")
  /\ UNCHANGED <<nextID, calls, table, inbox, landings, holds, landed, dups>>

Deliver(m) ==
  /\ InTurn(m)
  /\ HandleRequest(m) \/ HandleData(m) \/ HandleRollback(m) \/ HandleComplete(m)

\* A send error, a broken connection, or an answer nobody waits for any more.
Lose(m) ==
  /\ m.type \in Lossy
  /\ net' = net \ {m}
  /\ UNCHANGED <<nextID, calls, table, state, playerIndex, inbox, landings,
                 holds, landed, dups>>

-----------------------------------------------------------------------------
(* Background loop of every server *)

\* Under Timely a record is as old as its timeout only when no call works on
\* it any more and its Complete is not on the way.
Old(e) ==
  Timely => /\ ~ \E c \in calls : c.from = e.from /\ c.id = e.id
            /\ ~ \E m \in net : m.type = "Complete" /\ m.from = e.from /\ m.id = e.id

\* Mutant of Expire: a timed out record is only marked.
ExpireMarkOnly(s, e) ==
  /\ e \in table[s] /\ Old(e)
  /\ ~IsTerminal(state[<<s, e.from, e.id>>])
  /\ Settle(s, e.id, "TimedOut")
  /\ UNCHANGED <<nextID, calls, table, inbox, landings, holds, landed, net, dups>>

\* checkTimeouts: any record that is not terminal, a landed one included, is
\* marked and rolled back locally; nobody is told.
Expire(s, e) ==
  /\ e \in table[s] /\ Old(e)
  /\ ~IsTerminal(state[<<s, e.from, e.id>>])
  /\ Settle(s, e.id, "TimedOut")
  /\ OnMigrationRollback(s, e.id)
  /\ UNCHANGED <<nextID, calls, table, inbox, landings, landed, net, dups>>

\* Cleanup forgets terminal records, and whatever the player is indexed under.
Cleanup(s, e) ==
  /\ e \in table[s] /\ Old(e)
  /\ IsTerminal(state[<<s, e.from, e.id>>])
  /\ Unindex(s, e.id)
  /\ table' = [table EXCEPT ![s] = @ \ {e}]
  /\ UNCHANGED <<nextID, calls, state, inbox, landings, holds, landed, net, dups>>

-----------------------------------------------------------------------------
Next ==
  \/ \E s \in Servers, g \in Callers, p \in Players, t \in Servers :
       Admit(s, g, p, t)
  \/ \E c \in calls : DriverStep(c)
  \/ \E m \in net : Deliver(m) \/ Lose(m)
  \/ \E l \in landings : LandingStep(l)
  \/ \E s \in Servers : \E e \in table[s] : Expire(s, e) \/ Cleanup(s, e)

Spec == Init /\ [][Next]_vars

\* A call returns by its timeout, a handler that has started ends, and the
\* cleanup loop keeps ticking; messages need not arrive and records need not
\* be forgotten.
Fairness ==
  /\ WF_vars(\E c \in calls : DriverStep(c))
  /\ WF_vars(\E l \in landings : LandingStep(l))
  /\ WF_vars(\E s \in Servers : \E e \in table[s] : Expire(s, e))

FairSpec == Spec /\ Fairness

-----------------------------------------------------------------------------
(* Properties *)

Holders(p) == {s \in Servers : holds[s][p] # {}}

\* INF-2 (migration_manager.go:539-540): a successful CommitAck, and with it a
\* source that may delete the player, exists only if the target has
\* deserialised that very migration.
CommitOnlyIfLanded ==
  /\ \A m \in net : m.type = "CommitAck" /\ m.ok => <<m.to, m.from, m.id>> \in landed
  /\ \A c \in calls : c.pc \in {"transferred", "committing", "completing"}
                         => <<c.target, c.from, c.id>> \in landed

\* migration_manager.go:101: "the source must not delete the player before the
\* target has landed it": while the source is about to commit, the player is
\* on the target.
PlayerOnTargetAtCommit ==
  \A c \in calls : c.pc \in {"transferred", "committing"} => holds[c.target][c.player] # {}

\* migration_manager.go:101: redelivery does not land a player twice.  A
\* delivery that passed the inbox is the only one at work on its id, and the
\* target has no live record of that migration.
LandsOnce ==
  \A l \in landings :
    /\ \A k \in landings : k.at = l.at /\ k.id = l.id => k = l
    /\ \A e \in Load(l.at, l.id) :
         e.from = l.from => state[<<l.at, l.from, l.id>>] \notin {"Transferred", "Completed"}

\* Nothing is in progress: no call, no handler, no message, no record a
\* timeout would still act on.
Quiescent ==
  /\ calls = {} /\ landings = {} /\ net = {}
  /\ \A s \in Servers : \A e \in table[s] : IsTerminal(state[<<s, e.from, e.id>>])

\* When everything has come to rest a player is on exactly one server, however
\* calls failed, answers came late and rollbacks were lost.
OneHomeAtRest ==
  Quiescent => \A p \in Players : Cardinality(Holders(p)) = 1

\* A player that is on two servers, as during every migration, is back on one
\* in the end: the timeout of the landed record undoes what no rollback
\* reached.
DuplicateHealed ==
  \A p \in Players : Cardinality(Holders(p)) > 1 ~> Cardinality(Holders(p)) < 2

Own == INSTANCE Ownership WITH owners <- [x \in Players |-> Holders(x)]

\* The protocol implements Ownership: each of its steps lands one copy of one
\* player, drops one that is not the last, or changes nothing an observer of
\* the players can see (ExecuteMigration, migration_manager.go:85-101).
ImplementsOwnership == Own!Spec
=============================================================================
