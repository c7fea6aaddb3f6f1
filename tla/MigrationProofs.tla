--------------------------- MODULE MigrationProofs ---------------------------
(***************************************************************************)
(* Migration for any number of servers, players, callers and ids: type     *)
(* correctness; INF-2 (a source may commit only what its target has        *)
(* landed) and that no migration lands twice, provided only one server     *)
(* initiates migrations; that a player is on the target when the source    *)
(* commits and on one server at rest, and that the protocol implements     *)
(* Ownership, provided besides that the deployment is Disciplined and no   *)
(* player is migrated by two calls at once.  Two initiators allocate the   *)
(* same ids, and run MigrationTwoSources shows what then happens.          *)
(***************************************************************************)
EXTENDS Migration, FiniteSetTheorems, TLAPS

OneInitiator == \A s, u \in Initiators : s = u

-----------------------------------------------------------------------------
(* The inductive invariants *)

\* A call has an id from the moment it has a record.
CallIds == \A c \in calls : c.pc # "admitted" => c.id \in Ids

TInv == TypeOK /\ CallIds

\* Messages, landings and calls go from an initiator to a server that is none.
Directed ==
  /\ \A c \in calls : c.from \in Initiators /\ c.target \notin Initiators
  /\ \A m \in net : m.from \in Initiators /\ m.to \notin Initiators
  /\ \A l \in landings : l.from \in Initiators /\ l.at \notin Initiators

\* Nothing is known of an id before it is allocated.
Allocated ==
  /\ \A c \in calls : c.id <= nextID[c.from]
  /\ \A m \in net : m.id <= nextID[m.from]
  /\ \A l \in landings : l.id <= nextID[l.from]

\* Whatever carries the id of a call concerns the target of that call.
SameTarget ==
  \A c \in calls :
    /\ \A d \in calls : d.from = c.from /\ d.id = c.id /\ c.id # 0 => d.target = c.target
    /\ \A m \in net : m.from = c.from /\ m.id = c.id => m.to = c.target
    /\ \A l \in landings : l.from = c.from /\ l.id = c.id => l.at = c.target

\* A record on a server that initiates nothing is the record of a landing.
RecordsLanded ==
  /\ \A s \in Servers \ Initiators : \A e \in table[s] :
       e.from \in Initiators /\ <<s, e.from, e.id>> \in landed
  /\ \A l \in landings : l.step = "store" => <<l.at, l.from, l.id>> \in landed

LInv ==
  /\ TInv /\ Directed /\ Allocated /\ SameTarget /\ RecordsLanded
  /\ CommitOnlyIfLanded

-----------------------------------------------------------------------------
(* What the helpers of Migration preserve *)

\* A call that moves to another phase remains a call and keeps its id.
LEMMA GotoTyped ==
  ASSUME TypeOK, CallIds, NEW c \in calls, c.pc # "admitted", NEW pc \in Phases,
         Goto(c, pc)
  PROVE  calls' \subseteq Call /\ CallIds'
<1> DEFINE d == [c EXCEPT !.pc = pc]
<1>1. d \in Call /\ d.id = c.id
  BY DEF TypeOK, Call
<1>2. calls' = (calls \ {c}) \union {d}
  BY DEF Goto
<1> HIDE DEF d
<1> QED BY <1>1, <1>2 DEF TypeOK, CallIds

LEMMA ReturnTyped ==
  ASSUME TypeOK, CallIds, NEW c \in calls, Return(c)
  PROVE  calls' \subseteq Call /\ CallIds'
BY DEF Return, TypeOK, CallIds

\* setState keeps the state table well typed.
LEMMA SetStateTyped ==
  ASSUME TypeOK, NEW s, NEW f, NEW i, NEW st \in MigrationState,
         SetState(s, f, i, st)
  PROVE  state' \in [Servers \X Servers \X Ids -> MigrationState]
BY DEF TypeOK, SetState

\* Unindexing a player leaves an index of ids.
LEMMA UnindexTyped ==
  ASSUME TypeOK, NEW s, NEW i, Unindex(s, i)
  PROVE  playerIndex' \in [Servers -> [Players -> 0 .. MaxID]]
<1>1. 0 \in 0 .. MaxID
  BY MigrationAssumption DEF MigrationAssumption
<1> DEFINE cleared == [p \in Players |-> IF p \in {e.player : e \in Load(s, i)}
                                           THEN 0 ELSE playerIndex[s][p]]
<1>2. s \in Servers => cleared \in [Players -> 0 .. MaxID]
  BY <1>1 DEF TypeOK
<1>3. playerIndex' = [playerIndex EXCEPT ![s] = cleared]
  BY DEF Unindex
<1> HIDE DEF cleared
<1> QED BY <1>2, <1>3 DEF TypeOK

\* So does ending the record found under an id.
LEMMA SettleTyped ==
  ASSUME TypeOK, NEW s, NEW i, NEW st \in MigrationState, Settle(s, i, st)
  PROVE  /\ state' \in [Servers \X Servers \X Ids -> MigrationState]
         /\ playerIndex' \in [Servers -> [Players -> 0 .. MaxID]]
BY UnindexTyped DEF TypeOK, Settle, SetStateOf

\* A rollback callback only takes away what a server holds.
LEMMA RollbackTyped ==
  ASSUME TypeOK, NEW s, NEW i, OnMigrationRollback(s, i)
  PROVE  holds' \in [Servers -> [Players -> SUBSET (Servers \X (0 .. MaxID))]]
BY ZenonT(30) DEF TypeOK, OnMigrationRollback

\* A message of a call that has its id, and any answer to a message, is one.
LEMMA OutTyped ==
  ASSUME NEW c \in Call, c.id \in Ids, NEW type \in MsgTypes
  PROVE  Out(type, c) \in Message
BY DEF Out, Call, Message

LEMMA MsgTyped ==
  ASSUME NEW m \in Message, NEW ok \in BOOLEAN, NEW type \in MsgTypes
  PROVE  Msg(type, m, ok) \in Message
BY DEF Msg, Message

LEMMA AnswerTyped ==
  ASSUME net \subseteq Message, NEW l \in Landing, NEW ok \in BOOLEAN, Answer(l, ok)
  PROVE  net' \subseteq Message
BY DEF Answer, Message, Landing, MsgTypes

-----------------------------------------------------------------------------
(* Type correctness *)

LEMMA TInit == Init => TInv
<1> SUFFICES ASSUME Init PROVE TInv
  OBVIOUS
<1> USE MigrationAssumption DEF MigrationAssumption
<1>1. 0 \in 0 .. MaxID /\ dups \in 0 .. MaxDup
  BY DEF Init
<1>2. /\ nextID \in [Servers -> 0 .. MaxID]
      /\ playerIndex \in [Servers -> [Players -> 0 .. MaxID]]
      /\ holds \in [Servers -> [Players -> SUBSET (Servers \X (0 .. MaxID))]]
  BY <1>1 DEF Init
<1>3. /\ table \in [Servers -> SUBSET Entry]
      /\ inbox \in [Servers -> SUBSET Ids]
      /\ state \in [Servers \X Servers \X Ids -> MigrationState]
  BY DEF Init, MigrationState
<1>4. /\ calls \subseteq Call /\ net \subseteq Message
      /\ landings \subseteq Landing
      /\ landed \subseteq Servers \X Servers \X Ids
      /\ CallIds
  BY DEF Init, CallIds
<1> QED BY <1>1, <1>2, <1>3, <1>4 DEF TInv, TypeOK

\* Every step keeps the state well typed and every recorded call with an id.
LEMMA TStep == TInv /\ [Next]_vars => TInv'
<1> SUFFICES ASSUME TInv, [Next]_vars PROVE TInv'
  OBVIOUS
<1>a. TypeOK /\ CallIds
  BY DEF TInv
<1>t. /\ \A type \in MsgTypes, c \in calls : c.pc # "admitted" => Out(type, c) \in Message
      /\ \A type \in MsgTypes, m \in net, ok \in BOOLEAN : Msg(type, m, ok) \in Message
  BY <1>a, OutTyped, MsgTyped DEF TypeOK, CallIds
<1>1. CASE UNCHANGED vars
  BY <1>1, <1>a DEF vars, TInv, TypeOK, CallIds
<1>2. ASSUME NEW s \in Servers, NEW g \in Callers, NEW p \in Players,
             NEW t \in Servers, Admit(s, g, p, t)
      PROVE  TInv'
  <2>1. [from |-> s, caller |-> g, player |-> p, target |-> t, id |-> 0,
         pc |-> "admitted"] \in Call
    BY MigrationAssumption DEF MigrationAssumption, Call, Phases
  <2>2. calls' \subseteq Call /\ CallIds'
    BY <1>a, <1>2, <2>1 DEF Admit, TypeOK, CallIds
  <2> QED BY <1>a, <1>2, <2>2 DEF Admit, TInv, TypeOK
<1>3. ASSUME NEW c \in calls, Start(c) PROVE TInv'
  <2> DEFINE i == nextID[c.from] + 1
             d == [c EXCEPT !.id = i, !.pc = "awaitPrepare"]
  <2>1. c \in Call /\ c.from \in Servers /\ c.player \in Players /\ i \in Ids
    BY <1>a, <1>3, MigrationAssumption DEF Start, TypeOK, Call, MigrationAssumption, Ids
  <2>2. i \in 0 .. MaxID
    BY <2>1, MigrationAssumption DEF Ids, MigrationAssumption
  <2>3. d \in Call /\ d.id = i /\ d.pc = "awaitPrepare"
    BY <2>1, <2>2 DEF Call, Phases
  <2> HIDE DEF d
  <2>4. calls' \subseteq Call /\ CallIds'
    <3>1. calls' = (calls \ {c}) \union {d}
      BY <1>3 DEF Start, d
    <3> QED BY <3>1, <1>a, <2>1, <2>3 DEF TypeOK, CallIds
  <2>5. net' \subseteq Message
    <3>1. net' = net \union {Out("Request", d)}
      BY <1>3 DEF Start, d
    <3>2. Out("Request", d) \in Message
      BY <2>1, <2>3, OutTyped DEF MsgTypes
    <3> QED BY <3>1, <3>2, <1>a DEF TypeOK
  <2>6. table' \in [Servers -> SUBSET Entry]
    <3>1. [id |-> i, from |-> c.from, player |-> c.player] \in Entry
      BY <2>1 DEF Entry
    <3>2. table' = Store(c.from, [id |-> i, from |-> c.from, player |-> c.player])
      BY <1>3 DEF Start
    <3> QED BY <3>1, <3>2, <1>a, <2>1 DEF TypeOK, Store
  <2>7. state' \in [Servers \X Servers \X Ids -> MigrationState]
    <3>1. SetState(c.from, c.from, i, "Requested")
      BY <1>3 DEF Start
    <3> QED BY <3>1, <1>a, SetStateTyped DEF MigrationState
  <2>8. /\ nextID' \in [Servers -> 0 .. MaxID]
        /\ playerIndex' \in [Servers -> [Players -> 0 .. MaxID]]
    BY <1>3, <1>a, <2>1, <2>2 DEF Start, TypeOK
  <2> QED BY <1>a, <1>3, <2>4, <2>5, <2>6, <2>7, <2>8 DEF Start, TInv, TypeOK
<1>4. ASSUME NEW c \in calls, PrepareAnswered(c) PROVE TInv'
  <2> USE <1>a
  <2>1. PICK m \in net : /\ net' = net \ {m}
                         /\ \/ Goto(c, "accepted") /\ UNCHANGED <<state, playerIndex>>
                            \/ Settle(c.from, c.id, "Failed") /\ Return(c)
    BY <1>4 DEF PrepareAnswered
  <2>2. calls' \subseteq Call /\ CallIds'
    BY <2>1, <1>4, GotoTyped, ReturnTyped DEF PrepareAnswered, Phases
  <2>3. /\ state' \in [Servers \X Servers \X Ids -> MigrationState]
        /\ playerIndex' \in [Servers -> [Players -> 0 .. MaxID]]
    BY <2>1, SettleTyped DEF TypeOK, MigrationState
  <2> QED BY <1>4, <2>1, <2>2, <2>3 DEF PrepareAnswered, TInv, TypeOK
<1>5. ASSUME NEW c \in calls, PrepareCallFails(c) PROVE TInv'
  <2>1. /\ state' \in [Servers \X Servers \X Ids -> MigrationState]
        /\ playerIndex' \in [Servers -> [Players -> 0 .. MaxID]]
    BY <1>5, <1>a, SettleTyped DEF PrepareCallFails, MigrationState
  <2> QED BY <1>5, <1>a, <2>1 DEF PrepareCallFails, Return, TInv, TypeOK, CallIds
<1>6. ASSUME NEW c \in calls, Transfer(c) PROVE TInv'
  <2> USE <1>a
  <2>0. c.pc # "admitted"
    BY <1>6 DEF Transfer
  <2>1. net' \subseteq Message
    BY <1>6, <1>t, <2>0 DEF Transfer, TypeOK, MsgTypes
  <2>2. calls' \subseteq Call /\ CallIds'
    BY <1>6, GotoTyped, ReturnTyped, <2>0 DEF Transfer, Phases
  <2>3. /\ state' \in [Servers \X Servers \X Ids -> MigrationState]
        /\ playerIndex' \in [Servers -> [Players -> 0 .. MaxID]]
    BY <1>6, SetStateTyped, SettleTyped DEF Transfer, TypeOK, MigrationState
  <2> QED BY <1>6, <2>1, <2>2, <2>3 DEF Transfer, TInv, TypeOK
<1>7. ASSUME NEW c \in calls, CommitAnswered(c) PROVE TInv'
  <2> USE <1>a
  <2>0. c.pc # "admitted"
    BY <1>7 DEF CommitAnswered
  <2>1. net' \subseteq Message
    BY <1>7, <1>t, <2>0 DEF CommitAnswered, TypeOK, MsgTypes
  <2>2. calls' \subseteq Call /\ CallIds'
    BY <1>7, GotoTyped, ReturnTyped, <2>0 DEF CommitAnswered, Phases
  <2>3. /\ state' \in [Servers \X Servers \X Ids -> MigrationState]
        /\ playerIndex' \in [Servers -> [Players -> 0 .. MaxID]]
    BY <1>7, SetStateTyped, SettleTyped DEF CommitAnswered, TypeOK, MigrationState
  <2> QED BY <1>7, <2>1, <2>2, <2>3 DEF CommitAnswered, TInv, TypeOK
<1>8. ASSUME NEW c \in calls, DataCallFails(c) PROVE TInv'
  <2>0. c.pc # "admitted"
    BY <1>8 DEF DataCallFails
  <2>1. net' \subseteq Message
    BY <1>8, <1>a, <1>t, <2>0 DEF DataCallFails, TypeOK, MsgTypes
  <2>2. /\ state' \in [Servers \X Servers \X Ids -> MigrationState]
        /\ playerIndex' \in [Servers -> [Players -> 0 .. MaxID]]
    BY <1>8, <1>a, SettleTyped DEF DataCallFails, MigrationState
  <2> QED BY <1>8, <1>a, <2>1, <2>2 DEF DataCallFails, Return, TInv, TypeOK, CallIds
<1>9. ASSUME NEW c \in calls, BeginCommit(c) PROVE TInv'
  <2> USE <1>a
  <2>0. c.pc # "admitted"
    BY <1>9 DEF BeginCommit
  <2>1. calls' \subseteq Call /\ CallIds'
    BY <1>9, GotoTyped, ReturnTyped, <2>0 DEF BeginCommit, Phases
  <2>2. state' \in [Servers \X Servers \X Ids -> MigrationState]
    BY <1>9, SetStateTyped DEF BeginCommit, TypeOK, MigrationState
  <2> QED BY <1>9, <2>1, <2>2 DEF BeginCommit, TInv, TypeOK
<1>10. ASSUME NEW c \in calls, Commit(c) PROVE TInv'
  <2> USE <1>a
  <2>0. c.pc # "admitted"
    BY <1>10 DEF Commit
  <2>1. net' \subseteq Message
    BY <1>10, <1>t, <2>0 DEF Commit, TypeOK, MsgTypes
  <2>2. calls' \subseteq Call /\ CallIds'
    BY <1>10, GotoTyped, ReturnTyped, <2>0 DEF Commit, Phases
  <2>3. state' \in [Servers \X Servers \X Ids -> MigrationState]
    BY <1>10, SetStateTyped DEF Commit, TypeOK, MigrationState
  <2>4. holds' \in [Servers -> [Players -> SUBSET (Servers \X (0 .. MaxID))]]
    BY <1>10 DEF Commit, TypeOK
  <2> QED BY <1>10, <2>1, <2>2, <2>3, <2>4 DEF Commit, TInv, TypeOK
<1>11. ASSUME NEW c \in calls, CommitFails(c) PROVE TInv'
  <2>0. c.pc # "admitted"
    BY <1>11 DEF CommitFails
  <2>1. net' \subseteq Message
    BY <1>11, <1>a, <1>t, <2>0 DEF CommitFails, TypeOK, MsgTypes
  <2>2. /\ state' \in [Servers \X Servers \X Ids -> MigrationState]
        /\ playerIndex' \in [Servers -> [Players -> 0 .. MaxID]]
        /\ holds' \in [Servers -> [Players -> SUBSET (Servers \X (0 .. MaxID))]]
    BY <1>11, <1>a, SettleTyped, RollbackTyped DEF CommitFails, MigrationState
  <2> QED BY <1>11, <1>a, <2>1, <2>2 DEF CommitFails, Return, TInv, TypeOK, CallIds
<1>12. ASSUME NEW c \in calls, Finish(c) PROVE TInv'
  <2>1. state' \in [Servers \X Servers \X Ids -> MigrationState]
    BY <1>12, <1>a, SetStateTyped DEF Finish, MigrationState
  <2>2. playerIndex' \in [Servers -> [Players -> 0 .. MaxID]]
    <3>1. 0 \in 0 .. MaxID
      BY MigrationAssumption DEF MigrationAssumption
    <3> QED BY <1>12, <1>a, <3>1 DEF Finish, TypeOK
  <2> QED BY <1>12, <1>a, <2>1, <2>2 DEF Finish, Return, TInv, TypeOK, CallIds
<1>13. ASSUME NEW m \in net, HandleRequest(m) PROVE TInv'
  BY <1>13, <1>a, <1>t DEF HandleRequest, TInv, TypeOK, CallIds, MsgTypes
<1>14. ASSUME NEW m \in net, HandleData(m) PROVE TInv'
  <2>0. m \in Message /\ m.id \in Ids /\ m.to \in Servers
    BY <1>a DEF TypeOK, Message
  <2>1. net' \subseteq Message
    BY <1>14, <1>a, <1>t DEF HandleData, TypeOK, MsgTypes
  <2>2. dups' \in 0 .. MaxDup
    BY <1>14, <1>a, MigrationAssumption DEF HandleData, TypeOK, MigrationAssumption
  <2>3. landings' \subseteq Landing
    BY <1>14, <1>a, <2>0 DEF HandleData, TypeOK, Landing, Message
  <2>4. inbox' \in [Servers -> SUBSET Ids]
    BY <1>14, <1>a, <2>0 DEF HandleData, TypeOK
  <2> QED BY <1>14, <1>a, <2>1, <2>2, <2>3, <2>4 DEF HandleData, TInv, TypeOK, CallIds
<1>15. ASSUME NEW l \in landings, LandingFails(l) PROVE TInv'
  <2>1. net' \subseteq Message
    BY <1>15, <1>a, AnswerTyped DEF LandingFails, TypeOK
  <2>2. inbox' \in [Servers -> SUBSET Ids]
    BY <1>15, <1>a DEF LandingFails, TypeOK
  <2> QED BY <1>15, <1>a, <2>1, <2>2 DEF LandingFails, TInv, TypeOK, CallIds
<1>16. ASSUME NEW l \in landings, LandPlayer(l) PROVE TInv'
  <2>0. l \in Landing /\ l.id \in 0 .. MaxID /\ l.from \in Servers
        /\ <<l.at, l.from, l.id>> \in Servers \X Servers \X Ids
    BY <1>a, MigrationAssumption DEF TypeOK, Landing, Ids, MigrationAssumption
  <2> DEFINE k == [l EXCEPT !.step = "store"]
  <2>1. k \in Landing
    BY <2>0 DEF Landing
  <2>2. landings' = (landings \ {l}) \union {k}
    BY <1>16 DEF LandPlayer
  <2> HIDE DEF k
  <2>3. landings' \subseteq Landing
    BY <1>a, <2>1, <2>2 DEF TypeOK
  <2>4. holds' \in [Servers -> [Players -> SUBSET (Servers \X (0 .. MaxID))]]
    <3>1. {<<l.from, l.id>>} \in SUBSET (Servers \X (0 .. MaxID))
      BY <2>0
    <3>2. holds' = [holds EXCEPT ![l.at][l.player] = {<<l.from, l.id>>}]
      BY <1>16 DEF LandPlayer
    <3> QED BY <3>1, <3>2, <1>a DEF TypeOK
  <2>5. landed' \subseteq Servers \X Servers \X Ids
    BY <1>16, <1>a, <2>0 DEF LandPlayer, TypeOK
  <2> QED BY <1>16, <1>a, <2>3, <2>4, <2>5 DEF LandPlayer, TInv, TypeOK, CallIds
<1>17. ASSUME NEW l \in landings, StoreLanded(l) PROVE TInv'
  <2>0. [id |-> l.id, from |-> l.from, player |-> l.player] \in Entry
    BY <1>a DEF TypeOK, Landing, Entry
  <2>1. net' \subseteq Message
    BY <1>17, <1>a, AnswerTyped DEF StoreLanded, TypeOK
  <2>2. table' \in [Servers -> SUBSET Entry]
    <3>1. table' = Store(l.at, [id |-> l.id, from |-> l.from, player |-> l.player])
      BY <1>17 DEF StoreLanded
    <3> QED BY <3>1, <1>a, <2>0 DEF TypeOK, Store
  <2>3. state' \in [Servers \X Servers \X Ids -> MigrationState]
    BY <1>17, <1>a, SetStateTyped DEF StoreLanded, MigrationState
  <2> QED BY <1>17, <1>a, <2>1, <2>2, <2>3 DEF StoreLanded, TInv, TypeOK, CallIds
<1>18. ASSUME NEW m \in net, HandleRollback(m) PROVE TInv'
  <2>1. /\ state' \in [Servers \X Servers \X Ids -> MigrationState]
        /\ playerIndex' \in [Servers -> [Players -> 0 .. MaxID]]
        /\ holds' \in [Servers -> [Players -> SUBSET (Servers \X (0 .. MaxID))]]
    BY <1>18, <1>a, SettleTyped, RollbackTyped DEF HandleRollback, MigrationState
  <2>2. inbox' \in [Servers -> SUBSET Ids]
    BY <1>18, <1>a DEF HandleRollback, TypeOK
  <2> QED BY <1>18, <1>a, <2>1, <2>2 DEF HandleRollback, TInv, TypeOK, CallIds
<1>19. ASSUME NEW m \in net, HandleComplete(m) PROVE TInv'
  <2>1. /\ state' \in [Servers \X Servers \X Ids -> MigrationState]
        /\ playerIndex' \in [Servers -> [Players -> 0 .. MaxID]]
    BY <1>19, <1>a, SettleTyped DEF HandleComplete, MigrationState
  <2> QED BY <1>19, <1>a, <2>1 DEF HandleComplete, TInv, TypeOK, CallIds
<1>20. ASSUME NEW m \in net, Lose(m) PROVE TInv'
  BY <1>20, <1>a DEF Lose, TInv, TypeOK, CallIds
<1>21. ASSUME NEW s \in Servers, NEW e \in table[s], Expire(s, e) PROVE TInv'
  <2>1. /\ state' \in [Servers \X Servers \X Ids -> MigrationState]
        /\ playerIndex' \in [Servers -> [Players -> 0 .. MaxID]]
        /\ holds' \in [Servers -> [Players -> SUBSET (Servers \X (0 .. MaxID))]]
    BY <1>21, <1>a, SettleTyped, RollbackTyped DEF Expire, MigrationState
  <2> QED BY <1>21, <1>a, <2>1 DEF Expire, TInv, TypeOK, CallIds
<1>22. ASSUME NEW s \in Servers, NEW e \in table[s], Cleanup(s, e) PROVE TInv'
  <2>1. playerIndex' \in [Servers -> [Players -> 0 .. MaxID]]
    BY <1>22, <1>a, UnindexTyped DEF Cleanup
  <2>2. table' \in [Servers -> SUBSET Entry]
    BY <1>22, <1>a DEF Cleanup, TypeOK
  <2> QED BY <1>22, <1>a, <2>1, <2>2 DEF Cleanup, TInv, TypeOK, CallIds
<1> QED
  BY <1>1, <1>2, <1>3, <1>4, <1>5, <1>6, <1>7, <1>8, <1>9, <1>10, <1>11, <1>12,
     <1>13, <1>14, <1>15, <1>16, <1>17, <1>18, <1>19, <1>20, <1>21, <1>22
  DEF Next, DriverStep, Deliver, LandingStep

\* The state of the managers is well typed in every behaviour
\* (migration_manager.go:54-66), whatever arrives late, twice or never.
THEOREM MigrationTypeCorrect == Spec => []TypeOK
<1>1. Init => TInv
  BY TInit
<1>2. TInv /\ [Next]_vars => TInv'
  BY TStep
<1>3. TInv => TypeOK
  BY DEF TInv
<1> QED BY <1>1, <1>2, <1>3, PTL DEF Spec

-----------------------------------------------------------------------------
(* What is committed was landed *)

LEMMA LInit == Init => LInv
<1> SUFFICES ASSUME Init PROVE LInv
  OBVIOUS
<1>1. TInv
  BY TInit
<1>2. /\ Directed /\ Allocated /\ SameTarget /\ RecordsLanded
      /\ CommitOnlyIfLanded
  BY DEF Init, Directed, Allocated, SameTarget, RecordsLanded, CommitOnlyIfLanded
<1> QED BY <1>1, <1>2 DEF LInv

\* A step of a call that relabels or ends it and adds at most one message of
\* that call to the net keeps everything but the commit discipline.
LEMMA DriverKeeps ==
  ASSUME LInv, TInv', NEW c \in calls, c.pc # "admitted",
         \/ Return(c)
         \/ \E pc \in Phases : Goto(c, pc),
         \E type \in MsgTypes : net' \subseteq net \union {Out(type, c)},
         UNCHANGED <<nextID, table, landings, landed>>
  PROVE  Directed' /\ Allocated' /\ SameTarget' /\ RecordsLanded'
<1> USE DEF LInv, TInv
<1>0. PICK type \in MsgTypes : net' \subseteq net \union {Out(type, c)}
  OBVIOUS
<1>1. \A d \in calls' :
        \E k \in calls : d.from = k.from /\ d.target = k.target /\ d.id = k.id
  <2>1. CASE Return(c)
    BY <2>1 DEF Return
  <2>2. ASSUME NEW pc \in Phases, Goto(c, pc)
        PROVE  \A d \in calls' :
                 \E k \in calls : d.from = k.from /\ d.target = k.target /\ d.id = k.id
    <3> DEFINE e == [c EXCEPT !.pc = pc]
    <3>1. e.from = c.from /\ e.target = c.target /\ e.id = c.id
      BY DEF TypeOK, Call
    <3>2. calls' = (calls \ {c}) \union {e}
      BY <2>2 DEF Goto
    <3> HIDE DEF e
    <3> QED BY <3>1, <3>2
  <2> QED BY <2>1, <2>2
<1>2. /\ Out(type, c).from = c.from /\ Out(type, c).to = c.target
      /\ Out(type, c).id = c.id
  BY DEF Out
<1>3. \A m \in net' : \/ m \in net
                      \/ m.from = c.from /\ m.to = c.target /\ m.id = c.id
  BY <1>0, <1>2
<1>4. Directed'
  BY <1>1, <1>3 DEF Directed
<1>5. Allocated'
  BY <1>1, <1>3 DEF Allocated
<1>6. SameTarget'
  <2>0. c.id # 0
    BY DEF CallIds, Ids
  <2> QED BY <1>1, <1>3, <2>0 DEF SameTarget
<1>7. RecordsLanded'
  BY DEF RecordsLanded
<1> QED BY <1>4, <1>5, <1>6, <1>7

\* A handler that answers a message, or a landing that ends or moves on, keeps
\* who talks to whom about which id.
LEMMA HandlerKeeps ==
  ASSUME LInv, UNCHANGED <<nextID, calls>>,
         \A m \in net' :
            \/ \E k \in net : m.from = k.from /\ m.id = k.id /\ m.to = k.to
            \/ \E k \in landings : m.from = k.from /\ m.id = k.id /\ m.to = k.at,
         \A l \in landings' :
            \/ \E k \in landings : l.from = k.from /\ l.id = k.id /\ l.at = k.at
            \/ \E k \in net : l.from = k.from /\ l.id = k.id /\ l.at = k.to
  PROVE  Directed' /\ Allocated' /\ SameTarget'
<1> USE DEF LInv
<1>1. Directed'
  BY DEF Directed
<1>2. Allocated'
  BY DEF Allocated
<1>3. SameTarget'
  BY DEF SameTarget
<1> QED BY <1>1, <1>2, <1>3

\* One initiator: every step keeps LInv.
LEMMA LStep == OneInitiator /\ LInv /\ [Next]_vars => LInv'
<1> SUFFICES ASSUME OneInitiator, LInv, [Next]_vars PROVE LInv'
  OBVIOUS
<1>a. TInv'
  BY TStep DEF LInv
<1>b. TypeOK /\ CallIds /\ Directed /\ Allocated /\ SameTarget /\ RecordsLanded
      /\ CommitOnlyIfLanded
  BY DEF LInv, TInv
<1>c. CASE UNCHANGED vars
  BY <1>a, <1>b, <1>c
  DEF vars, LInv, Directed, Allocated, SameTarget, RecordsLanded, CommitOnlyIfLanded
<1>1. ASSUME NEW s \in Servers, NEW g \in Callers, NEW p \in Players,
             NEW t \in Servers, Admit(s, g, p, t)
      PROVE  LInv'
  <2> DEFINE d == [from |-> s, caller |-> g, player |-> p, target |-> t,
                   id |-> 0, pc |-> "admitted"]
  <2>1. d.from = s /\ d.target = t /\ d.id = 0 /\ d.pc = "admitted"
    OBVIOUS
  <2>2. calls' = calls \union {d} /\ UNCHANGED <<nextID, table, landings, landed, net>>
    BY <1>1 DEF Admit
  <2>3. s \in Initiators /\ t \notin Initiators
    BY <1>1 DEF Admit, OneInitiator
  <2> HIDE DEF d
  <2>4. Directed'
    BY <1>b, <2>1, <2>2, <2>3 DEF Directed
  <2>5. Allocated'
    BY <1>b, <2>1, <2>2 DEF Allocated, TypeOK
  <2>6. SameTarget'
    <3>1. \A m \in net : m.id # 0
      BY <1>b DEF TypeOK, Message, Ids
    <3>2. \A l \in landings : l.id # 0
      BY <1>b DEF TypeOK, Landing, Ids
    <3> QED BY <1>b, <2>1, <2>2, <3>1, <3>2 DEF SameTarget
  <2>7. RecordsLanded' /\ CommitOnlyIfLanded'
    BY <1>b, <2>1, <2>2 DEF RecordsLanded, CommitOnlyIfLanded
  <2> QED BY <1>a, <2>4, <2>5, <2>6, <2>7 DEF LInv
<1>2. ASSUME NEW c \in calls, Start(c) PROVE LInv'
  <2> DEFINE i == nextID[c.from] + 1
             d == [c EXCEPT !.id = i, !.pc = "awaitPrepare"]
             o == Out("Request", d)
  <2>0. c \in Call /\ c.from \in Servers /\ i \in Nat /\ nextID[c.from] \in Nat
    BY <1>b DEF TypeOK, Call
  <2>1. d.from = c.from /\ d.target = c.target /\ d.id = i /\ d.pc = "awaitPrepare"
    BY <2>0 DEF Call
  <2>2. o.from = c.from /\ o.to = c.target /\ o.id = i /\ o.type = "Request"
    BY <2>1 DEF Out
  <2>3. /\ calls' = (calls \ {c}) \union {d}
        /\ net' = net \union {o}
        /\ nextID' = [nextID EXCEPT ![c.from] = i]
        /\ table' = Store(c.from, [id |-> i, from |-> c.from, player |-> c.player])
        /\ UNCHANGED <<landings, landed>>
    BY <1>2 DEF Start
  <2> HIDE DEF d, o
  <2>4. Directed'
    BY <1>b, <2>1, <2>2, <2>3 DEF Directed
  <2>5. Allocated'
    <3>1. \A s \in Servers : nextID[s] \in Nat /\ nextID'[s] \in Nat /\ nextID[s] <= nextID'[s]
      BY <1>b, <2>0, <2>3 DEF TypeOK
    <3>2. i <= nextID'[c.from]
      BY <1>b, <2>0, <2>3 DEF TypeOK
    <3>3. /\ \A k \in calls : k.from \in Servers /\ k.id \in Nat
          /\ \A m \in net : m.from \in Servers /\ m.id \in Nat
          /\ \A l \in landings : l.from \in Servers /\ l.id \in Nat
      BY <1>b DEF TypeOK, Call, Message, Landing, Ids
    <3>4. \A k \in calls' : k.id <= nextID'[k.from]
      BY <1>b, <2>1, <2>3, <3>1, <3>2, <3>3 DEF Allocated
    <3>5. \A m \in net' : m.id <= nextID'[m.from]
      BY <1>b, <2>2, <2>3, <3>1, <3>2, <3>3 DEF Allocated
    <3>6. \A l \in landings' : l.id <= nextID'[l.from]
      BY <1>b, <2>3, <3>1, <3>3 DEF Allocated
    <3> QED BY <3>4, <3>5, <3>6 DEF Allocated
  <2>6. SameTarget'
    <3>1. /\ \A k \in calls : k.from = c.from => k.id # i
          /\ \A m \in net : m.from = c.from => m.id # i
          /\ \A l \in landings : l.from = c.from => l.id # i
      <4>1. /\ \A k \in calls : k.id \in Nat
            /\ \A m \in net : m.id \in Nat
            /\ \A l \in landings : l.id \in Nat
        BY <1>b DEF TypeOK, Call, Message, Landing, Ids
      <4> QED BY <1>b, <2>0, <4>1 DEF Allocated
    <3> QED BY <1>b, <2>1, <2>2, <2>3, <3>1 DEF SameTarget
  <2>7. RecordsLanded'
    <3>1. \A s \in Servers \ Initiators : table'[s] = table[s]
      BY <1>b, <2>3 DEF Directed, Store, TypeOK
    <3> QED BY <1>b, <2>3, <3>1 DEF RecordsLanded
  <2>8. CommitOnlyIfLanded'
    BY <1>b, <2>1, <2>2, <2>3 DEF CommitOnlyIfLanded
  <2> QED BY <1>a, <2>4, <2>5, <2>6, <2>7, <2>8 DEF LInv
<1>3. ASSUME NEW c \in calls, PrepareAnswered(c) PROVE LInv'
  <2>1. c.pc # "admitted"
    BY <1>3 DEF PrepareAnswered
  <2>2. /\ Return(c) \/ \E pc \in Phases : Goto(c, pc)
        /\ \E type \in MsgTypes : net' \subseteq net \union {Out(type, c)}
        /\ UNCHANGED <<nextID, table, landings, landed>>
    BY <1>3 DEF PrepareAnswered, Phases, MsgTypes
  <2>3. Directed' /\ Allocated' /\ SameTarget' /\ RecordsLanded'
    BY <1>a, <2>1, <2>2, DriverKeeps
  <2>4. CommitOnlyIfLanded'
    BY <1>3, <1>b DEF PrepareAnswered, CommitOnlyIfLanded, Goto, Return, Out, TypeOK, Call
  <2> QED BY <1>a, <2>3, <2>4 DEF LInv
<1>4. ASSUME NEW c \in calls, PrepareCallFails(c) PROVE LInv'
  <2>1. c.pc # "admitted"
    BY <1>4 DEF PrepareCallFails
  <2>2. /\ Return(c) \/ \E pc \in Phases : Goto(c, pc)
        /\ \E type \in MsgTypes : net' \subseteq net \union {Out(type, c)}
        /\ UNCHANGED <<nextID, table, landings, landed>>
    BY <1>4 DEF PrepareCallFails, Phases, MsgTypes
  <2>3. Directed' /\ Allocated' /\ SameTarget' /\ RecordsLanded'
    BY <1>a, <2>1, <2>2, DriverKeeps
  <2>4. CommitOnlyIfLanded'
    BY <1>4, <1>b DEF PrepareCallFails, CommitOnlyIfLanded, Goto, Return, Out, TypeOK, Call
  <2> QED BY <1>a, <2>3, <2>4 DEF LInv
<1>5. ASSUME NEW c \in calls, Transfer(c) PROVE LInv'
  <2>1. c.pc # "admitted"
    BY <1>5 DEF Transfer
  <2>2. /\ Return(c) \/ \E pc \in Phases : Goto(c, pc)
        /\ \E type \in MsgTypes : net' \subseteq net \union {Out(type, c)}
        /\ UNCHANGED <<nextID, table, landings, landed>>
    BY <1>5 DEF Transfer, Phases, MsgTypes
  <2>3. Directed' /\ Allocated' /\ SameTarget' /\ RecordsLanded'
    BY <1>a, <2>1, <2>2, DriverKeeps
  <2>4. CommitOnlyIfLanded'
    BY <1>5, <1>b DEF Transfer, CommitOnlyIfLanded, Goto, Return, Out, TypeOK, Call
  <2> QED BY <1>a, <2>3, <2>4 DEF LInv
<1>6. ASSUME NEW c \in calls, CommitAnswered(c) PROVE LInv'
  <2>1. c.pc # "admitted"
    BY <1>6 DEF CommitAnswered
  <2>2. /\ Return(c) \/ \E pc \in Phases : Goto(c, pc)
        /\ \E type \in MsgTypes : net' \subseteq net \union {Out(type, c)}
        /\ UNCHANGED <<nextID, table, landings, landed>>
    BY <1>6 DEF CommitAnswered, Phases, MsgTypes
  <2>3. Directed' /\ Allocated' /\ SameTarget' /\ RecordsLanded'
    BY <1>a, <2>1, <2>2, DriverKeeps
  <2>4. CommitOnlyIfLanded'
    <3>1. PICK m \in net : /\ AckFor("CommitAck", c, m)
                           /\ \/ m.ok /\ Goto(c, "transferred") /\ net' = net \ {m}
                              \/ /\ net' = (net \ {m}) \union {Out("Rollback", c)}
                                 /\ Return(c)
      BY <1>6 DEF CommitAnswered
    <3>2. m.ok => <<c.target, c.from, c.id>> \in landed
      BY <1>b, <3>1 DEF AckFor, CommitOnlyIfLanded, SameTarget
    <3>3. Out("Rollback", c).type = "Rollback"
      BY DEF Out
    <3>4. \A k \in net' : k.type = "CommitAck" => k \in net
      BY <3>1, <3>3
    <3>5. CASE Return(c)
      BY <3>4, <3>5, <2>2, <1>b DEF Return, CommitOnlyIfLanded
    <3>6. CASE m.ok /\ Goto(c, "transferred")
      <4> DEFINE d == [c EXCEPT !.pc = "transferred"]
      <4>1. d.from = c.from /\ d.target = c.target /\ d.id = c.id
        BY <1>b DEF TypeOK, Call
      <4>2. calls' = (calls \ {c}) \union {d}
        BY <3>6 DEF Goto
      <4> HIDE DEF d
      <4> QED BY <3>2, <3>4, <3>6, <4>1, <4>2, <2>2, <1>b DEF CommitOnlyIfLanded
    <3> QED BY <3>1, <3>5, <3>6
  <2> QED BY <1>a, <2>3, <2>4 DEF LInv
<1>7. ASSUME NEW c \in calls, DataCallFails(c) PROVE LInv'
  <2>1. c.pc # "admitted"
    BY <1>7 DEF DataCallFails
  <2>2. /\ Return(c) \/ \E pc \in Phases : Goto(c, pc)
        /\ \E type \in MsgTypes : net' \subseteq net \union {Out(type, c)}
        /\ UNCHANGED <<nextID, table, landings, landed>>
    BY <1>7 DEF DataCallFails, Phases, MsgTypes
  <2>3. Directed' /\ Allocated' /\ SameTarget' /\ RecordsLanded'
    BY <1>a, <2>1, <2>2, DriverKeeps
  <2>4. CommitOnlyIfLanded'
    BY <1>7, <1>b DEF DataCallFails, CommitOnlyIfLanded, Goto, Return, Out, TypeOK, Call
  <2> QED BY <1>a, <2>3, <2>4 DEF LInv
<1>8. ASSUME NEW c \in calls, BeginCommit(c) PROVE LInv'
  <2>1. c.pc # "admitted"
    BY <1>8 DEF BeginCommit
  <2>2. /\ Return(c) \/ \E pc \in Phases : Goto(c, pc)
        /\ \E type \in MsgTypes : net' \subseteq net \union {Out(type, c)}
        /\ UNCHANGED <<nextID, table, landings, landed>>
    BY <1>8 DEF BeginCommit, Phases, MsgTypes
  <2>3. Directed' /\ Allocated' /\ SameTarget' /\ RecordsLanded'
    BY <1>a, <2>1, <2>2, DriverKeeps
  <2>4. CommitOnlyIfLanded'
    BY <1>8, <1>b DEF BeginCommit, CommitOnlyIfLanded, Goto, Return, Out, TypeOK, Call
  <2> QED BY <1>a, <2>3, <2>4 DEF LInv
<1>9. ASSUME NEW c \in calls, Commit(c) PROVE LInv'
  <2>1. c.pc # "admitted"
    BY <1>9 DEF Commit
  <2>2. /\ Return(c) \/ \E pc \in Phases : Goto(c, pc)
        /\ \E type \in MsgTypes : net' \subseteq net \union {Out(type, c)}
        /\ UNCHANGED <<nextID, table, landings, landed>>
    BY <1>9 DEF Commit, Phases, MsgTypes
  <2>3. Directed' /\ Allocated' /\ SameTarget' /\ RecordsLanded'
    BY <1>a, <2>1, <2>2, DriverKeeps
  <2>4. CommitOnlyIfLanded'
    <3> DEFINE d == [c EXCEPT !.pc = "completing"]
    <3>1. c.pc = "committing" /\ calls' = (calls \ {c}) \union {d}
          /\ net' = net \union {Out("Complete", c)}
      BY <1>9 DEF Commit, Goto
    <3>2. d.from = c.from /\ d.target = c.target /\ d.id = c.id
      BY <1>b DEF TypeOK, Call
    <3>3. Out("Complete", c).type # "CommitAck"
      BY DEF Out
    <3> HIDE DEF d
    <3> QED BY <3>1, <3>2, <3>3, <2>2, <1>b DEF CommitOnlyIfLanded
  <2> QED BY <1>a, <2>3, <2>4 DEF LInv
<1>10. ASSUME NEW c \in calls, CommitFails(c) PROVE LInv'
  <2>1. c.pc # "admitted"
    BY <1>10 DEF CommitFails
  <2>2. /\ Return(c) \/ \E pc \in Phases : Goto(c, pc)
        /\ \E type \in MsgTypes : net' \subseteq net \union {Out(type, c)}
        /\ UNCHANGED <<nextID, table, landings, landed>>
    BY <1>10 DEF CommitFails, Phases, MsgTypes
  <2>3. Directed' /\ Allocated' /\ SameTarget' /\ RecordsLanded'
    BY <1>a, <2>1, <2>2, DriverKeeps
  <2>4. CommitOnlyIfLanded'
    BY <1>10, <1>b DEF CommitFails, CommitOnlyIfLanded, Goto, Return, Out, TypeOK, Call
  <2> QED BY <1>a, <2>3, <2>4 DEF LInv
<1>11. ASSUME NEW c \in calls, Finish(c) PROVE LInv'
  <2>1. c.pc # "admitted"
    BY <1>11 DEF Finish
  <2>2. /\ Return(c) \/ \E pc \in Phases : Goto(c, pc)
        /\ \E type \in MsgTypes : net' \subseteq net \union {Out(type, c)}
        /\ UNCHANGED <<nextID, table, landings, landed>>
    BY <1>11 DEF Finish, Phases, MsgTypes
  <2>3. Directed' /\ Allocated' /\ SameTarget' /\ RecordsLanded'
    BY <1>a, <2>1, <2>2, DriverKeeps
  <2>4. CommitOnlyIfLanded'
    BY <1>11, <1>b DEF Finish, CommitOnlyIfLanded, Goto, Return, Out, TypeOK, Call
  <2> QED BY <1>a, <2>3, <2>4 DEF LInv
<1>12. ASSUME NEW m \in net, HandleRequest(m) PROVE LInv'
  <2>1. PICK ok \in BOOLEAN : net' = (net \ {m}) \union {Msg("PrepareAck", m, ok)}
    BY <1>12 DEF HandleRequest
  <2>2. Msg("PrepareAck", m, ok).from = m.from /\ Msg("PrepareAck", m, ok).to = m.to
        /\ Msg("PrepareAck", m, ok).id = m.id /\ Msg("PrepareAck", m, ok).type = "PrepareAck"
    BY DEF Msg
  <2>3. UNCHANGED <<nextID, calls, table, landings, landed>>
    BY <1>12 DEF HandleRequest
  <2>4. Directed' /\ Allocated' /\ SameTarget'
    BY <2>1, <2>2, <2>3, HandlerKeeps
  <2> QED BY <1>a, <1>b, <2>1, <2>2, <2>3, <2>4 DEF LInv, RecordsLanded, CommitOnlyIfLanded
<1>13. ASSUME NEW m \in net, HandleData(m) PROVE LInv'
  <2> DEFINE k == [at |-> m.to, from |-> m.from, id |-> m.id,
                   player |-> m.player, step |-> "validate"]
             o == Msg("CommitAck", m, Load(m.to, m.id) # {})
  <2>1. \/ landings' = landings \union {k} /\ net' \subseteq net
        \/ UNCHANGED landings /\ net' \subseteq net \union {o}
    BY <1>13 DEF HandleData
  <2>2. k.at = m.to /\ k.from = m.from /\ k.id = m.id /\ k.step = "validate"
    OBVIOUS
  <2>3. o.from = m.from /\ o.to = m.to /\ o.id = m.id /\ o.ok = (Load(m.to, m.id) # {})
    BY DEF Msg
  <2>4. UNCHANGED <<nextID, calls, table, landed>>
    BY <1>13 DEF HandleData
  <2>5. o.ok => <<m.to, m.from, m.id>> \in landed
    <3>1. m.to \in Servers \ Initiators /\ m.from \in Initiators
      BY <1>b DEF Directed, TypeOK, Message
    <3> QED BY <1>b, <2>3, <3>1 DEF Load, RecordsLanded, OneInitiator
  <2> HIDE DEF k, o
  <2>6. Directed' /\ Allocated' /\ SameTarget'
    BY <2>1, <2>2, <2>3, <2>4, HandlerKeeps
  <2>7. RecordsLanded' /\ CommitOnlyIfLanded'
    BY <1>b, <2>1, <2>2, <2>3, <2>4, <2>5 DEF RecordsLanded, CommitOnlyIfLanded
  <2> QED BY <1>a, <2>6, <2>7 DEF LInv
<1>14. ASSUME NEW l \in landings, LandingFails(l) PROVE LInv'
  <2>1. PICK o : o.ok = FALSE /\ o.from = l.from /\ o.to = l.at /\ o.id = l.id
                 /\ net' = net \union {o}
    BY <1>14 DEF LandingFails, Answer
  <2>2. UNCHANGED <<nextID, calls, table, landed>> /\ landings' \subseteq landings
    BY <1>14 DEF LandingFails
  <2>3. Directed' /\ Allocated' /\ SameTarget'
    BY <2>1, <2>2, HandlerKeeps
  <2> QED BY <1>a, <1>b, <2>1, <2>2, <2>3 DEF LInv, RecordsLanded, CommitOnlyIfLanded
<1>15. ASSUME NEW l \in landings, LandPlayer(l) PROVE LInv'
  <2> DEFINE k == [l EXCEPT !.step = "store"]
  <2>1. k.at = l.at /\ k.from = l.from /\ k.id = l.id
    BY <1>b DEF TypeOK, Landing
  <2>2. /\ landings' = (landings \ {l}) \union {k}
        /\ landed' = landed \union {<<l.at, l.from, l.id>>}
        /\ UNCHANGED <<nextID, calls, table, net>>
    BY <1>15 DEF LandPlayer
  <2> HIDE DEF k
  <2>3. Directed' /\ Allocated' /\ SameTarget'
    BY <2>1, <2>2, HandlerKeeps
  <2> QED BY <1>a, <1>b, <2>1, <2>2, <2>3 DEF LInv, RecordsLanded, CommitOnlyIfLanded
<1>16. ASSUME NEW l \in landings, StoreLanded(l) PROVE LInv'
  <2> DEFINE e == [id |-> l.id, from |-> l.from, player |-> l.player]
  <2>0. l.step = "store" /\ <<l.at, l.from, l.id>> \in landed /\ l.from \in Initiators
    BY <1>16, <1>b DEF StoreLanded, RecordsLanded, Directed
  <2>1. PICK o : o.from = l.from /\ o.to = l.at /\ o.id = l.id /\ net' = net \union {o}
    BY <1>16 DEF StoreLanded, Answer
  <2>2. /\ UNCHANGED <<nextID, calls, landed>> /\ landings' \subseteq landings
        /\ table' = Store(l.at, e)
    BY <1>16 DEF StoreLanded
  <2>3. e.id = l.id /\ e.from = l.from
    OBVIOUS
  <2> HIDE DEF e
  <2>4. Directed' /\ Allocated' /\ SameTarget'
    BY <2>1, <2>2, HandlerKeeps
  <2>5. \A s \in Servers : \A x \in table'[s] : x \in table[s] \/ (s = l.at /\ x = e)
    BY <1>b, <2>2 DEF Store, TypeOK
  <2>6. RecordsLanded'
    BY <1>b, <2>0, <2>2, <2>3, <2>5 DEF RecordsLanded
  <2>7. CommitOnlyIfLanded'
    BY <1>b, <2>0, <2>1, <2>2 DEF CommitOnlyIfLanded
  <2> QED BY <1>a, <2>4, <2>6, <2>7 DEF LInv
<1>17. ASSUME NEW m \in net, HandleRollback(m) \/ HandleComplete(m) \/ Lose(m) PROVE LInv'
  <2>1. net' \subseteq net /\ UNCHANGED <<nextID, calls, table, landings, landed>>
    BY <1>17 DEF HandleRollback, HandleComplete, Lose
  <2>2. Directed' /\ Allocated' /\ SameTarget'
    BY <2>1, HandlerKeeps
  <2> QED BY <1>a, <1>b, <2>1, <2>2 DEF LInv, RecordsLanded, CommitOnlyIfLanded
<1>18. ASSUME NEW s \in Servers, NEW e \in table[s], Expire(s, e) \/ Cleanup(s, e)
       PROVE  LInv'
  <2>1. UNCHANGED <<nextID, calls, net, landings, landed>>
    BY <1>18 DEF Expire, Cleanup
  <2>2. \A u \in Servers : table'[u] \subseteq table[u]
    BY <1>18, <1>b DEF Expire, Cleanup, TypeOK
  <2>3. Directed' /\ Allocated' /\ SameTarget'
    BY <2>1, HandlerKeeps
  <2> QED BY <1>a, <1>b, <2>1, <2>2, <2>3 DEF LInv, RecordsLanded, CommitOnlyIfLanded
<1> QED
  BY <1>c, <1>1, <1>2, <1>3, <1>4, <1>5, <1>6, <1>7, <1>8, <1>9, <1>10, <1>11,
     <1>12, <1>13, <1>14, <1>15, <1>16, <1>17, <1>18
  DEF Next, DriverStep, Deliver, LandingStep

\* INF-2 (migration_manager.go:539-540): when one server initiates all
\* migrations, no successful CommitAck exists, and no source commits, unless
\* the target deserialised that very migration; whatever is repeated, expired,
\* forgotten, reordered or lost.
THEOREM MigrationCommitLanded == OneInitiator /\ Spec => []CommitOnlyIfLanded
<1>1. Init => LInv
  BY LInit
<1>2. OneInitiator /\ LInv /\ [Next]_vars => LInv'
  BY LStep
<1>3. LInv => CommitOnlyIfLanded
  BY DEF LInv
<1>4. CASE OneInitiator
  BY <1>1, <1>2, <1>3, <1>4, PTL DEF Spec
<1> QED BY <1>4

-----------------------------------------------------------------------------
(* No migration lands twice *)

Final(m) == m.type \in {"Rollback", "Complete"}

\* One call carries an id, and it reports the end of its migration only once:
\* the Rollback as it returns, the Complete while it is completing.
Once ==
  /\ \A c, d \in calls :
       c.pc # "admitted" /\ d.pc # "admitted" /\ c.from = d.from /\ c.id = d.id => c = d
  /\ \A c \in calls : \A m \in net :
       c.pc # "admitted" /\ Final(m) /\ m.from = c.from /\ m.id = c.id
         => c.pc = "completing" /\ m.type = "Complete"
  /\ \A m, k \in net : Final(m) /\ Final(k) /\ m.from = k.from /\ m.id = k.id => m = k

\* The delivery at work on an id holds the inbox entry and is the only one.
OneLanding ==
  /\ \A l \in landings : l.id \in inbox[l.at]
  /\ \A l, k \in landings : l.at = k.at /\ l.id = k.id => l = k

\* Nobody will end migration i of f any more.
Spent(f, i) ==
  /\ i <= nextID[f]
  /\ \A c \in calls : c.pc # "admitted" => ~ (c.from = f /\ c.id = i)
  /\ \A m \in net : Final(m) => ~ (m.from = f /\ m.id = i)

\* An id the inbox of s has released, or that is being landed again.
Reopened(s, i) ==
  i \notin inbox[s] \/ \E l \in landings : l.at = s /\ l.id = i

\* A target releases the id of a record only on the source's Rollback: the
\* record is no longer live then, and nothing that is under way revives it.
Revoked ==
  \A s \in Servers \ Initiators : \A e \in table[s] :
    Reopened(s, e.id) =>
      Spent(e.from, e.id) /\ state[<<s, e.from, e.id>>] \notin {"Transferred", "Completed"}

OInv == LInv /\ Once /\ OneLanding /\ Revoked

LEMMA OInit == Init => OInv
<1> SUFFICES ASSUME Init PROVE OInv
  OBVIOUS
<1>1. LInv
  BY LInit
<1>2. Once /\ OneLanding /\ Revoked
  BY DEF Init, Once, OneLanding, Revoked
<1> QED BY <1>1, <1>2 DEF OInv

LEMMA OImplies == OInv => LandsOnce
<1> SUFFICES ASSUME OInv, NEW l \in landings
             PROVE  /\ \A k \in landings : k.at = l.at /\ k.id = l.id => k = l
                    /\ \A e \in Load(l.at, l.id) :
                         e.from = l.from => state[<<l.at, l.from, l.id>>]
                                              \notin {"Transferred", "Completed"}
  BY DEF LandsOnce
<1>1. \A k \in landings : k.at = l.at /\ k.id = l.id => k = l
  BY DEF OInv, OneLanding
<1>2. l.at \in Servers \ Initiators
  BY DEF OInv, LInv, TInv, TypeOK, Landing, Directed
<1>3. ASSUME NEW e \in Load(l.at, l.id), e.from = l.from
      PROVE  state[<<l.at, l.from, l.id>>] \notin {"Transferred", "Completed"}
  <2>1. e \in table[l.at] /\ e.id = l.id
    BY DEF Load
  <2>2. Reopened(l.at, e.id)
    BY <2>1 DEF Reopened
  <2> QED BY <1>2, <1>3, <2>1, <2>2 DEF OInv, Revoked
<1> QED BY <1>1, <1>3

\* What neither adds a record to a target, reopens an id, revives a record nor
\* a migration keeps the revoked ones revoked.
LEMMA RevokedKeeps ==
  ASSUME Revoked,
         \A f, i : Spent(f, i) => Spent(f, i)',
         \A s \in Servers \ Initiators :
           /\ table'[s] \subseteq table[s]
           /\ \A e \in table[s] :
                /\ Reopened(s, e.id)' => Reopened(s, e.id)
                /\ state'[<<s, e.from, e.id>>] \in {"Transferred", "Completed"}
                     => state[<<s, e.from, e.id>>] \in {"Transferred", "Completed"}
  PROVE  Revoked'
BY DEF Revoked

\* setState and failMigration of one server leave the records of the others.
LEMMA StateElsewhere ==
  ASSUME TypeOK, NEW s, NEW u \in Servers, u # s, NEW f \in Servers, NEW i \in Ids,
         NEW st,
         \/ \E g, j : SetState(s, g, j, st)
         \/ \E j : SetStateOf(s, j, st)
  PROVE  state'[<<u, f, i>>] = state[<<u, f, i>>]
<1>1. DOMAIN state = Servers \X Servers \X Ids /\ <<u, f, i>> \in DOMAIN state
  BY DEF TypeOK
<1>2. ASSUME NEW g, NEW j, SetState(s, g, j, st)
      PROVE  state'[<<u, f, i>>] = state[<<u, f, i>>]
  BY <1>1, <1>2 DEF SetState
<1>3. ASSUME NEW j, SetStateOf(s, j, st)
      PROVE  state'[<<u, f, i>>] = state[<<u, f, i>>]
  BY <1>1, <1>3 DEF SetStateOf
<1> QED BY <1>2, <1>3

LEMMA EntryTyped ==
  ASSUME TypeOK, NEW s \in Servers, NEW e \in table[s]
  PROVE  e.from \in Servers /\ e.id \in Ids
BY DEF TypeOK, Entry

\* A call that goes on, or returns, and reports an end at most once keeps the
\* discipline; it concerns no target.
LEMMA DriverOnce ==
  ASSUME OInv, NEW c \in calls, c.pc # "admitted",
         UNCHANGED <<nextID, table, inbox, landings>>,
         \A u \in Servers \ {c.from}, f \in Servers, i \in Ids :
           state'[<<u, f, i>>] = state[<<u, f, i>>],
         \/ Return(c) /\ net' \subseteq net
         \/ Return(c) /\ net' \subseteq net \union {Out("Rollback", c)} /\ c.pc # "completing"
         \/ \E pc \in Phases \ {"admitted"}, type \in MsgTypes \ {"Rollback", "Complete"} :
              Goto(c, pc) /\ net' \subseteq net \union {Out(type, c)} /\ c.pc # "completing"
         \/ /\ Goto(c, "completing") /\ c.pc # "completing"
            /\ net' \subseteq net \union {Out("Complete", c)}
  PROVE  Once' /\ OneLanding' /\ Revoked'
<1>1. TypeOK /\ Once /\ OneLanding /\ Revoked /\ Directed /\ RecordsLanded
  BY DEF OInv, LInv, TInv
<1>2. \A type \in MsgTypes : /\ Out(type, c).from = c.from /\ Out(type, c).id = c.id
                             /\ Out(type, c).type = type
  BY DEF Out
<1>3. Once' /\ \A f, i : Spent(f, i) => Spent(f, i)'
  <2>1. CASE Return(c) /\ net' \subseteq net
    BY <1>1, <2>1 DEF Return, Once, Spent, Final
  <2>2. CASE Return(c) /\ net' \subseteq net \union {Out("Rollback", c)} /\ c.pc # "completing"
    <3> DEFINE o == Out("Rollback", c)
    <3>1. o.from = c.from /\ o.id = c.id /\ o.type = "Rollback"
      BY <1>2 DEF MsgTypes
    <3>2. calls' = calls \ {c} /\ net' \subseteq net \union {o}
      BY <2>2 DEF Return
    <3> HIDE DEF o
    <3>3. Once'
      BY <1>1, <2>2, <3>1, <3>2 DEF Once, Final
    <3>4. \A f, i : Spent(f, i) => Spent(f, i)'
      BY <3>1, <3>2 DEF Spent, Final
    <3> QED BY <3>3, <3>4
  <2>3. ASSUME NEW pc \in Phases \ {"admitted"}, NEW type \in MsgTypes \ {"Rollback"},
               Goto(c, pc), net' \subseteq net \union {Out(type, c)},
               c.pc # "completing", type = "Complete" => pc = "completing"
        PROVE  Once' /\ \A f, i : Spent(f, i) => Spent(f, i)'
    <3> DEFINE o == Out(type, c)
               d == [c EXCEPT !.pc = pc]
    <3>1. o.from = c.from /\ o.id = c.id /\ o.type = type
      BY <1>2
    <3>2. d.from = c.from /\ d.id = c.id /\ d.pc = pc
      BY <1>1 DEF TypeOK, Call
    <3>3. calls' = (calls \ {c}) \union {d} /\ net' \subseteq net \union {o}
      BY <2>3 DEF Goto
    <3> HIDE DEF o, d
    <3>4. \A k \in calls', l \in calls' :
            k.pc # "admitted" /\ l.pc # "admitted" /\ k.from = l.from /\ k.id = l.id => k = l
      BY <1>1, <3>2, <3>3 DEF Once
    <3>5. \A k \in calls' : \A m \in net' :
            k.pc # "admitted" /\ Final(m) /\ m.from = k.from /\ m.id = k.id
              => k.pc = "completing" /\ m.type = "Complete"
      BY <1>1, <2>3, <3>1, <3>2, <3>3 DEF Once, Final
    <3>6. \A m \in net', k \in net' :
            Final(m) /\ Final(k) /\ m.from = k.from /\ m.id = k.id => m = k
      BY <1>1, <2>3, <3>1, <3>3 DEF Once, Final
    <3>7. \A f, i : Spent(f, i) => Spent(f, i)'
      BY <3>1, <3>2, <3>3 DEF Spent, Final
    <3> QED BY <3>4, <3>5, <3>6, <3>7 DEF Once, Final
  <2> QED BY <2>1, <2>2, <2>3 DEF Phases, MsgTypes
<1>4. OneLanding'
  BY <1>1 DEF OneLanding
<1>5. Revoked'
  <2>1. \A s \in Servers \ Initiators : \A e \in table[s] :
          state'[<<s, e.from, e.id>>] = state[<<s, e.from, e.id>>]
    <3>1. c.from \in Initiators
      BY <1>1 DEF Directed
    <3> QED BY <1>1, <3>1, EntryTyped
  <2> QED BY <1>1, <1>3, <2>1, RevokedKeeps DEF Reopened
<1> QED BY <1>3, <1>4, <1>5

\* A step that starts no call and reports no end.
LEMMA NoEnd ==
  ASSUME Once, UNCHANGED <<nextID, calls>>, \A m \in net' : Final(m) => m \in net
  PROVE  Once' /\ \A f, i : Spent(f, i) => Spent(f, i)'
BY DEF Once, Spent, Final

\* OnceStep, split by who acts: a call, ...
LEMMA OnceCall ==
  ASSUME OneInitiator, OInv, TInv', NEW c \in calls, DriverStep(c)
  PROVE  Once' /\ OneLanding' /\ Revoked'
<1>1. /\ TypeOK /\ CallIds /\ Once /\ OneLanding /\ Revoked /\ Directed
      /\ RecordsLanded /\ Allocated
  BY DEF OInv, LInv, TInv
<1>2. c \in Call /\ c.from \in Servers
  BY <1>1 DEF TypeOK, Call
<1>3. CASE Start(c)
  <2> DEFINE i == nextID[c.from] + 1
             d == [c EXCEPT !.id = i, !.pc = "awaitPrepare"]
             o == Out("Request", d)
  <2>1. d.from = c.from /\ d.id = i /\ d.pc = "awaitPrepare"
    BY <1>2 DEF Call
  <2>2. o.type = "Request"
    BY DEF Out
  <2>3. /\ calls' = (calls \ {c}) \union {d}
        /\ net' = net \union {o}
        /\ nextID' = [nextID EXCEPT ![c.from] = i]
        /\ table' = Store(c.from, [id |-> i, from |-> c.from, player |-> c.player])
        /\ SetState(c.from, c.from, i, "Requested")
        /\ UNCHANGED <<inbox, landings>>
    BY <1>3 DEF Start
  <2>4. i \in Nat /\ nextID[c.from] \in Nat
    BY <1>1, <1>2 DEF TypeOK
  <2> HIDE DEF d, o
  <2>5. /\ \A k \in calls : k.from = c.from => k.id # i
        /\ \A m \in net : m.from = c.from => m.id # i
    <3>1. /\ \A k \in calls : k.id \in Nat
          /\ \A m \in net : m.id \in Nat
      BY <1>1 DEF TypeOK, Call, Message, Ids
    <3> QED BY <1>1, <2>4, <3>1 DEF Allocated
  <2>6. Once'
    BY <1>1, <2>1, <2>2, <2>3, <2>5 DEF Once, Final
  <2>7. \A f \in Servers, j \in Nat : Spent(f, j) => Spent(f, j)'
    <3> SUFFICES ASSUME NEW f \in Servers, NEW j \in Nat, Spent(f, j) PROVE Spent(f, j)'
      OBVIOUS
    <3>1. j <= nextID'[f] /\ (f = c.from => j # i)
      BY <1>1, <1>2, <2>3, <2>4 DEF Spent, TypeOK
    <3> QED BY <2>1, <2>2, <2>3, <3>1 DEF Spent, Final
  <2>8. \A s \in Servers \ Initiators : table'[s] = table[s]
    BY <1>1, <2>3 DEF Directed, Store, TypeOK
  <2>9. \A s \in Servers \ Initiators : \A e \in table[s] :
          /\ state'[<<s, e.from, e.id>>] = state[<<s, e.from, e.id>>]
          /\ e.from \in Servers /\ e.id \in Nat
    <3>1. c.from \in Initiators
      BY <1>1 DEF Directed
    <3>2. \A s \in Servers \ Initiators : \A e \in table[s] :
            e.from \in Servers /\ e.id \in Ids
      BY <1>1, EntryTyped
    <3> QED BY <1>1, <2>3, <3>1, <3>2, StateElsewhere DEF Ids
  <2>10. OneLanding'
    BY <1>1, <2>3 DEF OneLanding
  <2>11. Revoked'
    BY <1>1, <2>3, <2>7, <2>8, <2>9 DEF Revoked, Reopened
  <2> QED BY <2>6, <2>10, <2>11
<1>4. CASE ~ Start(c)
  <2>1. /\ c.pc # "admitted"
        /\ UNCHANGED <<nextID, table, inbox, landings>>
    BY <1>4 DEF DriverStep, PrepareAnswered, PrepareCallFails, Transfer, CommitAnswered,
                DataCallFails, BeginCommit, Commit, CommitFails, Finish
  <2>2. \/ Return(c) /\ net' \subseteq net
        \/ Return(c) /\ net' \subseteq net \union {Out("Rollback", c)} /\ c.pc # "completing"
        \/ \E pc \in Phases \ {"admitted"}, type \in MsgTypes \ {"Rollback", "Complete"} :
             Goto(c, pc) /\ net' \subseteq net \union {Out(type, c)} /\ c.pc # "completing"
        \/ /\ Goto(c, "completing") /\ c.pc # "completing"
           /\ net' \subseteq net \union {Out("Complete", c)}
    <3>1. CASE PrepareAnswered(c)
      BY <3>1 DEF PrepareAnswered, Phases, MsgTypes
    <3>2. CASE Transfer(c)
      BY <3>2 DEF Transfer, Phases, MsgTypes
    <3>3. CASE CommitAnswered(c)
      BY <3>3 DEF CommitAnswered, Phases, MsgTypes
    <3>4. CASE BeginCommit(c)
      BY <3>4 DEF BeginCommit, Phases, MsgTypes
    <3>5. CASE PrepareCallFails(c) \/ DataCallFails(c) \/ Commit(c) \/ CommitFails(c) \/ Finish(c)
      BY <3>5 DEF PrepareCallFails, DataCallFails, Commit, CommitFails, Finish
    <3> QED BY <1>4, <3>1, <3>2, <3>3, <3>4, <3>5 DEF DriverStep
  <2>3. \/ UNCHANGED state
        \/ \E st : SetState(c.from, c.from, c.id, st) \/ SetStateOf(c.from, c.id, st)
    BY <1>4 DEF DriverStep, PrepareAnswered, PrepareCallFails, Transfer, CommitAnswered,
                DataCallFails, BeginCommit, Commit, CommitFails, Finish, Settle
  <2>4. \A u \in Servers \ {c.from}, f \in Servers, i \in Ids :
          state'[<<u, f, i>>] = state[<<u, f, i>>]
    BY <1>1, <2>3, StateElsewhere
  <2> QED BY <2>1, <2>2, <2>4, DriverOnce
<1> QED BY <1>3, <1>4

\* ... a target that handles a message, ...
LEMMA OnceDeliver ==
  ASSUME OneInitiator, OInv, NEW m \in net,
         \/ HandleRequest(m) \/ HandleData(m) \/ HandleRollback(m)
         \/ HandleComplete(m) \/ Lose(m)
  PROVE  Once' /\ OneLanding' /\ Revoked'
<1>1. /\ TypeOK /\ Once /\ OneLanding /\ Revoked /\ Directed /\ RecordsLanded /\ Allocated
  BY DEF OInv, LInv, TInv
<1>2. /\ m.to \in Servers \ Initiators /\ m.from \in Initiators
      /\ m.id \in Ids /\ m.id <= nextID[m.from]
  BY <1>1 DEF TypeOK, Message, Directed, Allocated
<1>3. Once' /\ \A f, i : Spent(f, i) => Spent(f, i)'
  <2>1. UNCHANGED <<nextID, calls>>
    BY DEF HandleRequest, HandleData, HandleRollback, HandleComplete, Lose
  <2>2. \A ok : /\ Msg("PrepareAck", m, ok).type = "PrepareAck"
                /\ Msg("CommitAck", m, ok).type = "CommitAck"
    BY DEF Msg
  <2>3. \A k \in net' : Final(k) => k \in net
    BY <2>2 DEF HandleRequest, HandleData, HandleRollback, HandleComplete, Lose, Final
  <2> QED BY <1>1, <2>1, <2>3, NoEnd
<1>4. CASE HandleRequest(m) \/ Lose(m)
  <2>1. UNCHANGED <<table, state, inbox, landings>>
    BY <1>4 DEF HandleRequest, Lose
  <2>2. OneLanding'
    BY <1>1, <2>1 DEF OneLanding
  <2> QED BY <1>1, <1>3, <2>1, <2>2, RevokedKeeps DEF Reopened
<1>5. CASE HandleData(m) /\ m.id \in inbox[m.to]
  <2>1. UNCHANGED <<table, state, inbox, landings>>
    BY <1>5 DEF HandleData
  <2>2. OneLanding'
    BY <1>1, <2>1 DEF OneLanding
  <2> QED BY <1>1, <1>3, <2>1, <2>2, RevokedKeeps DEF Reopened
<1>6. CASE HandleData(m) /\ m.id \notin inbox[m.to]
  <2> DEFINE l == [at |-> m.to, from |-> m.from, id |-> m.id,
                   player |-> m.player, step |-> "validate"]
  <2>1. /\ inbox' = [inbox EXCEPT ![m.to] = @ \union {m.id}]
        /\ landings' = landings \union {l}
        /\ UNCHANGED <<table, state>>
    BY <1>6 DEF HandleData
  <2>2. l.at = m.to /\ l.id = m.id
    OBVIOUS
  <2>3. \A k \in landings : k.at \in Servers /\ ~ (k.at = m.to /\ k.id = m.id)
    BY <1>1, <1>6 DEF OneLanding, TypeOK, Landing
  <2>4. \A s \in Servers : inbox'[s] = IF s = m.to THEN inbox[s] \union {m.id} ELSE inbox[s]
    BY <1>1, <2>1 DEF TypeOK
  <2> HIDE DEF l
  <2>5. OneLanding'
    BY <1>1, <1>2, <2>1, <2>2, <2>3, <2>4 DEF OneLanding
  <2>6. \A s \in Servers, i \in Ids : Reopened(s, i)' => Reopened(s, i)
    BY <1>6, <2>1, <2>2, <2>4 DEF Reopened
  <2> QED BY <1>1, <1>3, <2>1, <2>5, <2>6, EntryTyped, RevokedKeeps
<1>7. CASE HandleRollback(m)
  <2>1. /\ UNCHANGED <<nextID, calls, table, landings>>
        /\ net' = net \ {m}
        /\ SetStateOf(m.to, m.id, "RolledBack")
        /\ inbox' = [inbox EXCEPT ![m.to] = @ \ {e.id : e \in Load(m.to, m.id)}]
    BY <1>7 DEF HandleRollback, Settle
  <2>2. Final(m) /\ m.type = "Rollback"
    BY <1>7 DEF HandleRollback, Final
  <2>3. Spent(m.from, m.id)'
    BY <1>1, <1>2, <2>1, <2>2 DEF Spent, Once
  <2>4. ~ Spent(m.from, m.id)
    BY <2>2 DEF Spent
  <2>5. \A e \in Load(m.to, m.id) :
          e \in table[m.to] /\ e.from = m.from /\ e.id = m.id
    BY <1>1, <1>2 DEF Load, RecordsLanded, OneInitiator
  <2>6. Load(m.to, m.id) # {} => ~ Reopened(m.to, m.id)
    BY <1>1, <1>2, <2>4, <2>5 DEF Revoked
  <2>7. \A l \in landings : l.at = m.to /\ l.id = m.id => Load(m.to, m.id) = {}
    BY <2>6 DEF Reopened
  <2>8. \A s \in Servers :
          inbox'[s] = IF s = m.to THEN inbox[s] \ {e.id : e \in Load(m.to, m.id)} ELSE inbox[s]
    BY <1>1, <2>1 DEF TypeOK
  <2>9. OneLanding'
    <3>1. \A l \in landings : l.at \in Servers
      BY <1>1 DEF TypeOK, Landing
    <3> QED BY <1>1, <2>1, <2>5, <2>7, <2>8, <3>1 DEF OneLanding
  <2>10. ASSUME NEW s \in Servers \ Initiators, NEW e \in table[s], Reopened(s, e.id)'
         PROVE  /\ Spent(e.from, e.id)'
                /\ state'[<<s, e.from, e.id>>] \notin {"Transferred", "Completed"}
    <3>1. e.from \in Servers /\ e.id \in Ids /\ <<s, e.from, e.id>> \in DOMAIN state
      BY <1>1, EntryTyped DEF TypeOK
    <3>2. CASE s = m.to /\ e.id = m.id
      <4>1. e \in Load(m.to, m.id)
        BY <3>2 DEF Load
      <4>2. state'[<<s, e.from, e.id>>] = "RolledBack"
        BY <2>1, <3>1, <3>2, <4>1 DEF SetStateOf
      <4> QED BY <2>3, <2>5, <3>2, <4>1, <4>2
    <3>3. CASE s # m.to \/ e.id # m.id
      <4>1. Reopened(s, e.id)
        BY <2>1, <2>5, <2>8, <2>10, <3>3 DEF Reopened
      <4>2. \A x \in Load(m.to, m.id) : <<s, e.from, e.id>> # <<m.to, x.from, m.id>>
        BY <3>3
      <4>3. state'[<<s, e.from, e.id>>] = state[<<s, e.from, e.id>>]
        BY <2>1, <3>1, <4>2 DEF SetStateOf
      <4> QED BY <1>1, <1>3, <4>1, <4>3 DEF Revoked
    <3> QED BY <3>2, <3>3
  <2> QED BY <1>3, <2>1, <2>9, <2>10 DEF Revoked
<1>8. CASE HandleComplete(m)
  <2>1. /\ UNCHANGED <<nextID, calls, table, landings, inbox>>
        /\ net' = net \ {m}
        /\ SetStateOf(m.to, m.id, "Completed")
    BY <1>8 DEF HandleComplete, Settle
  <2>2. ~ Spent(m.from, m.id)
    BY <1>8 DEF HandleComplete, Spent, Final
  <2>3. OneLanding'
    BY <1>1, <2>1 DEF OneLanding
  <2>4. ASSUME NEW s \in Servers \ Initiators, NEW e \in table[s], Reopened(s, e.id)
        PROVE  /\ Spent(e.from, e.id)'
               /\ state'[<<s, e.from, e.id>>] \notin {"Transferred", "Completed"}
    <3>1. e.from \in Servers /\ e.id \in Ids /\ <<s, e.from, e.id>> \in DOMAIN state
      BY <1>1, EntryTyped DEF TypeOK
    <3>2. Spent(e.from, e.id)
      BY <1>1, <2>4 DEF Revoked
    <3>3. e.from \in Initiators
      BY <1>1 DEF RecordsLanded
    <3>4. ~ (s = m.to /\ e.id = m.id)
      BY <1>2, <2>2, <3>2, <3>3 DEF OneInitiator
    <3>5. state'[<<s, e.from, e.id>>] = state[<<s, e.from, e.id>>]
      BY <2>1, <3>1, <3>4 DEF SetStateOf
    <3> QED BY <1>1, <1>3, <2>4, <3>2, <3>5 DEF Revoked
  <2> QED BY <1>3, <2>1, <2>3, <2>4 DEF Revoked, Reopened
<1> QED BY <1>4, <1>5, <1>6, <1>7, <1>8

\* ... a landing that goes on, ...
LEMMA OnceLanding ==
  ASSUME OInv, NEW l \in landings, LandingStep(l)
  PROVE  Once' /\ OneLanding' /\ Revoked'
<1>1. /\ TypeOK /\ Once /\ OneLanding /\ Revoked /\ Directed /\ RecordsLanded
  BY DEF OInv, LInv, TInv
<1>2. l \in Landing /\ l.at \in Servers /\ l.from \in Servers /\ l.id \in Ids
  BY <1>1 DEF TypeOK, Landing
<1>3. Once' /\ \A f, i : Spent(f, i) => Spent(f, i)'
  <2>1. UNCHANGED <<nextID, calls>>
    BY DEF LandingStep, LandingFails, LandPlayer, StoreLanded
  <2>2. \A k \in net' : Final(k) => k \in net
    BY DEF LandingStep, LandingFails, LandPlayer, StoreLanded, Answer, Final
  <2> QED BY <1>1, <2>1, <2>2, NoEnd
<1>4. CASE LandingFails(l)
  <2>1. /\ inbox' = [inbox EXCEPT ![l.at] = @ \ {l.id}]
        /\ landings' = landings \ {l}
        /\ UNCHANGED <<table, state>>
    BY <1>4 DEF LandingFails
  <2>2. \A s \in Servers : inbox'[s] = IF s = l.at THEN inbox[s] \ {l.id} ELSE inbox[s]
    BY <1>1, <2>1 DEF TypeOK
  <2>3. OneLanding'
    <3>1. \A k \in landings : k.at \in Servers
      BY <1>1 DEF TypeOK, Landing
    <3> QED BY <1>1, <2>1, <2>2, <3>1 DEF OneLanding
  <2>4. \A s \in Servers, i \in Ids : Reopened(s, i)' => Reopened(s, i)
    BY <2>1, <2>2 DEF Reopened
  <2> QED BY <1>1, <1>3, <2>1, <2>3, <2>4, EntryTyped, RevokedKeeps
<1>5. CASE LandPlayer(l)
  <2> DEFINE k == [l EXCEPT !.step = "store"]
  <2>1. k.at = l.at /\ k.id = l.id
    BY <1>2 DEF Landing
  <2>2. landings' = (landings \ {l}) \union {k} /\ UNCHANGED <<inbox, table, state>>
    BY <1>5 DEF LandPlayer
  <2> HIDE DEF k
  <2>3. OneLanding'
    BY <1>1, <2>1, <2>2 DEF OneLanding
  <2>4. \A s \in Servers, i \in Ids : Reopened(s, i)' => Reopened(s, i)
    BY <2>1, <2>2 DEF Reopened
  <2> QED BY <1>1, <1>3, <2>2, <2>3, <2>4, EntryTyped, RevokedKeeps
<1>6. CASE StoreLanded(l)
  <2> DEFINE r == [id |-> l.id, from |-> l.from, player |-> l.player]
  <2>1. /\ table' = Store(l.at, r)
        /\ SetState(l.at, l.from, l.id, "Transferred")
        /\ landings' = landings \ {l}
        /\ UNCHANGED inbox
    BY <1>6 DEF StoreLanded
  <2>2. r.id = l.id /\ r.from = l.from
    OBVIOUS
  <2> HIDE DEF r
  <2>3. OneLanding'
    BY <1>1, <2>1 DEF OneLanding
  <2>4. ~ Reopened(l.at, l.id)'
    BY <1>1, <2>1 DEF Reopened, OneLanding
  <2>5. \A s \in Servers : \A e \in table'[s] :
          \/ e \in table[s]
          \/ s = l.at /\ e.id = l.id
    BY <1>1, <2>1, <2>2 DEF Store, TypeOK
  <2>6. ASSUME NEW s \in Servers \ Initiators, NEW e \in table'[s], Reopened(s, e.id)'
        PROVE  /\ Spent(e.from, e.id)'
               /\ state'[<<s, e.from, e.id>>] \notin {"Transferred", "Completed"}
    <3>1. e \in table[s] /\ ~ (s = l.at /\ e.id = l.id)
      BY <2>4, <2>5, <2>6
    <3>2. e.from \in Servers /\ e.id \in Ids /\ <<s, e.from, e.id>> \in DOMAIN state
      BY <1>1, <3>1, EntryTyped DEF TypeOK
    <3>3. state'[<<s, e.from, e.id>>] = state[<<s, e.from, e.id>>]
      BY <2>1, <3>1, <3>2 DEF SetState
    <3>4. Reopened(s, e.id)
      BY <2>1, <2>6 DEF Reopened
    <3> QED BY <1>1, <1>3, <3>1, <3>3, <3>4 DEF Revoked
  <2> QED BY <1>3, <2>3, <2>6 DEF Revoked
<1> QED BY <1>4, <1>5, <1>6 DEF LandingStep

\* ... and everybody else.
LEMMA OStep == OneInitiator /\ OInv /\ [Next]_vars => OInv'
<1> SUFFICES ASSUME OneInitiator, OInv, [Next]_vars PROVE OInv'
  OBVIOUS
<1>1. LInv' /\ TInv'
  BY LStep DEF OInv, LInv
<1>2. TypeOK /\ Once /\ OneLanding /\ Revoked
  BY DEF OInv, LInv, TInv
<1>3. ASSUME NEW s \in Servers, NEW g \in Callers, NEW p \in Players,
             NEW t \in Servers, Admit(s, g, p, t)
      PROVE  OInv'
  <2> DEFINE d == [from |-> s, caller |-> g, player |-> p, target |-> t,
                   id |-> 0, pc |-> "admitted"]
  <2>1. calls' = calls \union {d} /\ UNCHANGED <<nextID, table, state, inbox, landings, net>>
    BY <1>3 DEF Admit
  <2>2. d.pc = "admitted"
    OBVIOUS
  <2> HIDE DEF d
  <2>3. Once' /\ \A f, i : Spent(f, i) => Spent(f, i)'
    BY <1>2, <2>1, <2>2 DEF Once, Spent, Final
  <2>4. OneLanding' /\ Revoked'
    BY <1>2, <2>1, <2>3, RevokedKeeps DEF OneLanding, Reopened
  <2> QED BY <1>1, <2>3, <2>4 DEF OInv
<1>4. ASSUME NEW c \in calls, DriverStep(c) PROVE OInv'
  BY <1>1, <1>4, OnceCall DEF OInv
<1>5. ASSUME NEW m \in net, Deliver(m) \/ Lose(m) PROVE OInv'
  BY <1>1, <1>5, OnceDeliver DEF OInv, Deliver
<1>6. ASSUME NEW l \in landings, LandingStep(l) PROVE OInv'
  BY <1>1, <1>6, OnceLanding DEF OInv
<1>7. ASSUME NEW s \in Servers, NEW x \in table[s], Expire(s, x) \/ Cleanup(s, x)
      PROVE  OInv'
  <2>1. /\ UNCHANGED <<nextID, calls, net, inbox, landings>>
        /\ \A u \in Servers : table'[u] \subseteq table[u]
    BY <1>2, <1>7 DEF Expire, Cleanup, TypeOK
  <2>2. Once' /\ \A f, i : Spent(f, i) => Spent(f, i)'
    BY <1>2, <2>1, NoEnd
  <2>3. \A k \in DOMAIN state : state'[k] \in {"Transferred", "Completed"}
                                  => state[k] \in {"Transferred", "Completed"}
    BY <1>2, <1>7 DEF Expire, Cleanup, Settle, SetStateOf, TypeOK
  <2>4. \A u \in Servers : \A e \in table[u] : <<u, e.from, e.id>> \in DOMAIN state
    BY <1>2, EntryTyped DEF TypeOK
  <2>5. OneLanding' /\ Revoked'
    BY <1>2, <2>1, <2>2, <2>3, <2>4, RevokedKeeps DEF OneLanding, Reopened
  <2> QED BY <1>1, <2>2, <2>5 DEF OInv
<1>8. CASE UNCHANGED vars
  BY <1>1, <1>2, <1>8 DEF vars, OInv, Once, OneLanding, Revoked, Reopened, Spent, Final
<1> QED BY <1>3, <1>4, <1>5, <1>6, <1>7, <1>8 DEF Next

\* migration_manager.go:101: redelivery does not land a player twice.  When one
\* server initiates all migrations, a delivery that passed the inbox is alone
\* with its id and meets no live record of its migration, whatever the
\* concurrent callers, repeated deliveries, late rollbacks and timeouts.
THEOREM MigrationLandsOnce == OneInitiator /\ Spec => []LandsOnce
<1>1. Init => OInv
  BY OInit
<1>2. OneInitiator /\ OInv /\ [Next]_vars => OInv'
  BY OStep
<1>3. OInv => LandsOnce
  BY OImplies
<1>4. CASE OneInitiator
  BY <1>1, <1>2, <1>3, <1>4, PTL DEF Spec
<1> QED BY <1>4

-----------------------------------------------------------------------------
(* One home for every player *)

\* What the rest needs of the deployment: one source, messages about a player handled in
\* the order sent, and time-outs that outlast a call.
Disciplined == OneInitiator /\ Ordered /\ Timely

\* No two calls for one player: the check of playerIndex and the store of the record are
\* two steps, so it is up to the callers.
Solo == \A c, d \in calls : c.player = d.player => c = d

\* Something is left of migration i that names p.
Concerns(i, p) ==
  \/ \E c \in calls : c.pc # "admitted" /\ c.id = i /\ c.player = p
  \/ \E m \in net : m.id = i /\ m.player = p
  \/ \E l \in landings : l.id = i /\ l.player = p
  \/ \E s \in Servers : \E e \in table[s] : e.id = i /\ e.player = p
  \/ \E s, f \in Servers : <<f, i>> \in holds[s][p]

\* An id stands for one player, who was born on the initiator.
Numbered ==
  \A p \in Players, i \in Ids : Concerns(i, p) =>
    /\ Birth[p] \in Initiators /\ i <= nextID[Birth[p]]
    /\ \A q \in Players : Concerns(i, q) => q = p

FromBirth == \A c \in calls : c.from = Birth[c.player]

\* The call for a player is the last of his migrations.
Latest ==
  \A c \in calls : c.pc # "admitted" => \A i \in Ids : Concerns(i, c.player) => i <= c.id

\* Before a call has sent the player nothing is known of it but its Request.
Unsent ==
  \A c \in calls : c.pc \in {"awaitPrepare", "accepted"} =>
    /\ \A m \in net : m.id = c.id => m.type \in {"Request", "PrepareAck"}
    /\ \A l \in landings : l.id # c.id
    /\ \A s \in Servers \ Initiators : Load(s, c.id) = {}

\* No message of an earlier migration of p than i is on its way to s.
Passed(s, i, p) ==
  \A m \in net : m.type \in ToTarget /\ m.to = s /\ m.player = p => i <= m.id

InOrder ==
  /\ \A l \in landings : Passed(l.at, l.id, l.player)
  /\ \A s \in Servers \ Initiators : \A e \in table[s] : Passed(s, e.id, e.player)

\* What has a record on a target is neither being landed there nor will be.
Filed ==
  \A s \in Servers \ Initiators : \A e \in table[s] :
    /\ \A l \in landings : l.at = s => l.id # e.id
    /\ e.id \in inbox[s] \/ \A m \in net : m.type = "Data" /\ m.to = s => m.id # e.id

\* A server lands a player once at a time, and has him until his record is stored.
Landed ==
  /\ \A k, l \in landings : k.at = l.at /\ k.player = l.player => k = l
  /\ \A l \in landings : l.step = "store" => holds[l.at][l.player] = {<<l.from, l.id>>}

\* A player is where he was born by no migration, and elsewhere by one; then on a target.
Tagged ==
  \A p \in Players, s \in Servers : holds[s][p] # {} =>
    IF s = Birth[p]
    THEN holds[s][p] = {<<s, 0>>}
    ELSE s \notin Initiators /\ \E i \in Ids : holds[s][p] = {<<Birth[p], i>>}

\* p is on s by migration i, and nothing there is about to change it.
Kept(s, i, p) ==
  /\ holds[s][p] = {<<Birth[p], i>>}
  /\ i \in inbox[s]
  /\ \A l \in landings : ~ (l.at = s /\ l.player = p)

\* The target of c has the player if it has a record of him, it has a record if it has
\* acknowledged him, and it has acknowledged him before the call goes on.
AckedBy(c) ==
  /\ c.pc # "awaitCommit" => Load(c.target, c.id) # {}
  /\ \A m \in net : m.type = "CommitAck" /\ m.ok /\ m.id = c.id => Load(c.target, c.id) # {}
  /\ \A e \in Load(c.target, c.id) :
       /\ Kept(c.target, c.id, c.player)
       /\ state[<<c.target, e.from, e.id>>] = "Transferred"

Shipped(c) == c.pc \in {"awaitCommit", "transferred", "committing"}

Acked == \A c \in calls : Shipped(c) => AckedBy(c)

\* p is on s by a migration that will still be ended there, if only by a time-out.
Pending(s, p) ==
  \/ \E l \in landings : /\ l.at = s /\ l.player = p /\ l.step = "store"
                         /\ holds[s][p] = {<<l.from, l.id>>}
  \/ \E e \in table[s] : /\ e.player = p /\ holds[s][p] = {<<e.from, e.id>>}
                         /\ state[<<s, e.from, e.id>>] = "Transferred"

\* p is not on s, or will leave it or be confirmed there.
Visiting(s, p) == holds[s][p] = {} \/ Pending(s, p)

\* The records of migration i on t have been completed, or their Complete is on its way.
Closing(t, i) ==
  \A e \in Load(t, i) :
    \/ state[<<t, e.from, i>>] = "Completed"
    \/ /\ state[<<t, e.from, i>>] = "Transferred"
       /\ \E m \in net : m.type = "Complete" /\ m.to = t /\ m.id = i

\* p is at home where he was born, ...
Here(p) ==
  /\ holds[Birth[p]][p] = {<<Birth[p], 0>>}
  /\ \A c \in calls : c.player = p => c.pc # "completing"
  /\ \A m \in net : m.player = p => m.type # "Complete"
  /\ \A s \in Servers \ {Birth[p]} : Visiting(s, p)

\* ... or on t, where migration i has brought him: nothing that ends another migration of
\* his can reach t, nothing that undoes this one is under way, and its record will
\* be completed before it is timed out.
Moved(p, t, i) ==
  /\ holds[Birth[p]][p] = {}
  /\ t # Birth[p] /\ Kept(t, i, p) /\ Closing(t, i)
  /\ \A c \in calls : c.player = p => c.pc = "completing" /\ c.id = i /\ c.target = t
  /\ \A m \in net : m.player = p /\ m.type \in ToTarget =>
       /\ m.to = t => m.id = i /\ m.type # "Rollback"
       /\ m.type = "Complete" => m.to = t
  /\ \A s \in Servers \ {Birth[p], t} : Visiting(s, p)

Home(p) == Here(p) \/ \E t \in Servers, i \in Ids : Moved(p, t, i)

AInv ==
  /\ OInv
  /\ Numbered /\ FromBirth /\ Latest /\ Unsent /\ InOrder /\ Filed /\ Landed /\ Tagged
  /\ Acked

Homes == \A p \in Players : Home(p)

CompleteArrives == "Complete" \notin Lossy

-----------------------------------------------------------------------------
(* What the parts say together *)

LEMMA Facts ==
  ASSUME OneInitiator, OInv
  PROVE  /\ \A c \in calls :
              /\ c.from \in Initiators /\ c.target \in Servers \ Initiators
              /\ c.player \in Players /\ c.pc \in Phases
              /\ c.pc # "admitted" => c.id \in Ids
         /\ \A m \in net : /\ m.from \in Initiators /\ m.to \in Servers \ Initiators
                            /\ m.id \in Ids /\ m.player \in Players /\ m.type \in MsgTypes
         /\ \A l \in landings : /\ l.from \in Initiators /\ l.at \in Servers \ Initiators
                                 /\ l.id \in Ids /\ l.player \in Players
         /\ \A s \in Servers : \A e \in table[s] :
              /\ e.from \in Servers /\ e.id \in Ids /\ e.player \in Players
              /\ s \notin Initiators => e.from \in Initiators
         /\ Initiators \subseteq Servers
         /\ \A i \in Ids : i \in Nat /\ i # 0
<1>1. TypeOK /\ CallIds /\ Directed /\ RecordsLanded
  BY DEF OInv, LInv, TInv
<1>2. \A c \in calls : c \in Call
  BY <1>1 DEF TypeOK
<1>3. \A m \in net : m \in Message
  BY <1>1 DEF TypeOK
<1>4. \A l \in landings : l \in Landing
  BY <1>1 DEF TypeOK
<1>5. \A s \in Servers : \A e \in table[s] : e \in Entry
  BY <1>1 DEF TypeOK
<1>6. \A c \in calls :
        /\ c.from \in Initiators /\ c.target \in Servers \ Initiators
        /\ c.player \in Players /\ c.pc \in Phases
        /\ c.pc # "admitted" => c.id \in Ids
  BY <1>1, <1>2 DEF Call, Directed, CallIds
<1>7. \A m \in net : /\ m.from \in Initiators /\ m.to \in Servers \ Initiators
                     /\ m.id \in Ids /\ m.player \in Players /\ m.type \in MsgTypes
  BY <1>1, <1>3 DEF Message, Directed
<1>8. \A l \in landings : /\ l.from \in Initiators /\ l.at \in Servers \ Initiators
                          /\ l.id \in Ids /\ l.player \in Players
  BY <1>1, <1>4 DEF Landing, Directed
<1>9. \A s \in Servers : \A e \in table[s] :
        /\ e.from \in Servers /\ e.id \in Ids /\ e.player \in Players
        /\ s \notin Initiators => e.from \in Initiators
  BY <1>1, <1>5 DEF Entry, RecordsLanded
<1>10. Initiators \subseteq Servers /\ \A i \in Ids : i \in Nat /\ i # 0
  BY MigrationAssumption DEF MigrationAssumption, Ids
<1> QED BY <1>6, <1>7, <1>8, <1>9, <1>10

\* Where a player is put or taken away nothing else changes.
LEMMA HoldsAt ==
  ASSUME TypeOK, NEW s, NEW p, NEW S, holds' = [holds EXCEPT ![s][p] = S]
  PROVE  \A u \in Servers, q \in Players :
           holds'[u][q] = IF u = s /\ q = p THEN S ELSE holds[u][q]
BY DEF TypeOK

LEMMA Witnesses ==
  /\ \A c \in calls : c.pc # "admitted" => Concerns(c.id, c.player)
  /\ \A m \in net : Concerns(m.id, m.player)
  /\ \A l \in landings : Concerns(l.id, l.player)
  /\ \A s \in Servers : \A e \in table[s] : Concerns(e.id, e.player)
  /\ \A s, f \in Servers : \A p, i : <<f, i>> \in holds[s][p] => Concerns(i, p)
BY DEF Concerns

\* setState under an id ends that record and no other.
LEMMA SettleAt ==
  ASSUME TypeOK, NEW s, NEW i, NEW st, SetStateOf(s, i, st)
  PROVE  \A u \in Servers : \A e \in table[u] :
           state'[<<u, e.from, e.id>>] =
             IF u = s /\ e.id = i THEN st ELSE state[<<u, e.from, e.id>>]
<1> SUFFICES ASSUME NEW u \in Servers, NEW e \in table[u]
             PROVE  state'[<<u, e.from, e.id>>] =
                      IF u = s /\ e.id = i THEN st ELSE state[<<u, e.from, e.id>>]
  OBVIOUS
<1>1. <<u, e.from, e.id>> \in DOMAIN state
  BY EntryTyped DEF TypeOK
<1>2. <<u, e.from, e.id>> \in {<<s, x.from, i>> : x \in Load(s, i)} <=> u = s /\ e.id = i
  BY DEF Load
<1> QED BY <1>1, <1>2 DEF SetStateOf

\* The source has nobody by a migration of its own: a rollback there undoes nothing.
LEMMA RollbackAtSource ==
  ASSUME OneInitiator, AInv, NEW s \in Initiators, NEW i \in Ids, OnMigrationRollback(s, i)
  PROVE  UNCHANGED holds
<1>1. TypeOK /\ Tagged
  BY DEF AInv, OInv, LInv, TInv
<1>2. i # 0 /\ s \in Servers
  BY Facts, SMTT(30) DEF AInv
<1>3. ASSUME NEW p \in Players
      PROVE  holds[s][p] \ {<<e.from, e.id>> : e \in Load(s, i)} = holds[s][p]
  <2>1. \A e \in Load(s, i) : e.id = i
    BY DEF Load
  <2>2. CASE s = Birth[p]
    <3>1. \A x \in holds[s][p] : x = <<Birth[p], 0>>
      BY <1>1, <1>2, <2>2 DEF Tagged
    <3> QED BY <1>2, <2>1, <3>1
  <2>3. CASE s # Birth[p]
    BY <1>1, <1>2, <2>3 DEF Tagged
  <2> QED BY <2>2, <2>3
<1>4. holds' = [holds EXCEPT ![s] = holds[s]]
  <2>1. [p \in Players |-> holds[s][p] \ {<<e.from, e.id>> : e \in Load(s, i)}] = holds[s]
    BY <1>1, <1>2, <1>3 DEF TypeOK
  <2> QED BY <2>1 DEF OnMigrationRollback
<1> QED BY <1>1, <1>2, <1>4 DEF TypeOK

\* On a target a rollback takes away the one player the record names, if he is there by
\* that migration.
LEMMA RollbackAtTarget ==
  ASSUME OneInitiator, AInv, NEW s \in Servers \ Initiators, NEW i \in Ids,
         OnMigrationRollback(s, i)
  PROVE  /\ \A u \in Servers, p \in Players :
              \/ holds'[u][p] = holds[u][p]
              \/ /\ u = s /\ s # Birth[p] /\ holds'[s][p] = {}
                 /\ \E e \in Load(s, i) :
                      e.player = p /\ holds[s][p] = {<<e.from, e.id>>}
         /\ \A p \in Players : \A e \in Load(s, i) : <<e.from, e.id>> \notin holds'[s][p]
<1>1. TypeOK /\ Tagged /\ Numbered
  BY DEF AInv, OInv, LInv, TInv
<1>2. \A e \in Load(s, i) : e \in table[s] /\ e.id = i /\ e.player \in Players /\ i # 0
                            /\ e.from \in Servers
  BY Facts DEF Load, AInv
<1> DEFINE undone == {<<e.from, e.id>> : e \in Load(s, i)}
<1>u. \A x : x \in undone <=> \E e \in Load(s, i) : x = <<e.from, e.id>>
  OBVIOUS
<1>3. \A u \in Servers, p \in Players :
        holds'[u][p] = IF u = s THEN holds[s][p] \ undone ELSE holds[u][p]
  <2>1. holds' = [holds EXCEPT ![s] = [p \in Players |-> holds[s][p] \ undone]]
    BY DEF OnMigrationRollback
  <2> HIDE DEF undone
  <2> QED BY <1>1, <2>1 DEF TypeOK
<1> HIDE DEF undone
<1>4. \A p \in Players : \A e \in Load(s, i) : <<e.from, e.id>> \notin holds'[s][p]
  <2>1. \A e \in Load(s, i) : <<e.from, e.id>> \in undone
    BY <1>u
  <2> QED BY <1>3, <2>1
<1>5. ASSUME NEW p \in Players, holds'[s][p] # holds[s][p]
      PROVE  /\ s # Birth[p] /\ holds'[s][p] = {}
             /\ \E e \in Load(s, i) : e.player = p /\ holds[s][p] = {<<e.from, e.id>>}
  <2>0. PICK x \in undone : x \in holds[s][p]
    BY <1>3, <1>5
  <2>1. PICK e \in Load(s, i) : <<e.from, e.id>> \in holds[s][p] /\ <<e.from, e.id>> \in undone
    BY <1>u, <2>0
  <2>2. s # Birth[p]
    <3>1. s = Birth[p] => \A t \in holds[s][p] : t = <<Birth[p], 0>>
      BY <1>1 DEF Tagged
    <3> QED BY <1>2, <2>1, <3>1
  <2>3. holds[s][p] = {<<e.from, e.id>>}
    BY <1>1, <2>1, <2>2 DEF Tagged
  <2>4. e.player = p
    BY <1>1, <1>2, <2>1, Witnesses DEF Numbered
  <2>5. holds'[s][p] = {}
    <3>1. holds'[s][p] = {<<e.from, e.id>>} \ undone
      BY <1>3, <2>3
    <3>2. <<e.from, e.id>> \in undone
      BY <2>1
    <3> QED BY <3>1, <3>2
  <2> QED BY <2>2, <2>3, <2>4, <2>5
<1>6. \A u \in Servers, p \in Players : u # s => holds'[u][p] = holds[u][p]
  BY <1>3
<1> QED BY <1>4, <1>5, <1>6

-----------------------------------------------------------------------------
(* What a step of a call does *)

LEMMA Advance ==
  ASSUME TypeOK, NEW c \in calls, NEW pc, Goto(c, pc)
  PROVE  \E d : /\ calls' = (calls \ {c}) \union {d}
                /\ d.from = c.from /\ d.player = c.player /\ d.target = c.target
                /\ d.id = c.id /\ d.pc = pc
<1> DEFINE d == [c EXCEPT !.pc = pc]
<1>1. /\ d.from = c.from /\ d.player = c.player /\ d.target = c.target
      /\ d.id = c.id /\ d.pc = pc
  BY DEF TypeOK, Call
<1>2. calls' = (calls \ {c}) \union {d}
  BY DEF Goto
<1> HIDE DEF d
<1> QED BY <1>1, <1>2

\* Every step of a call that has started sends one message at most and concerns the
\* source's records only; the commit alone concerns players.
LEMMA DriverForms ==
  ASSUME Disciplined, AInv, NEW c \in calls, DriverStep(c), ~ Start(c)
  PROVE  /\ c.pc # "admitted"
         /\ UNCHANGED <<nextID, table, inbox, landings>>
         /\ \A s \in Servers \ Initiators : \A e \in table[s] :
              state'[<<s, e.from, e.id>>] = state[<<s, e.from, e.id>>]
         /\ Commit(c) \/ UNCHANGED holds
         /\ \A m \in net : m.type \notin {"PrepareAck", "CommitAck"} => m \in net'
         /\ \/ Return(c) /\ net' \subseteq net
            \/ /\ c.pc \in {"awaitCommit", "committing"} /\ Return(c)
               /\ net' \subseteq net \union {Out("Rollback", c)}
            \/ /\ c.pc = "awaitPrepare" /\ Goto(c, "accepted")
               /\ net' \subseteq net
            \/ /\ c.pc = "accepted" /\ Goto(c, "awaitCommit")
               /\ net' \subseteq net \union {Out("Data", c)}
            \/ /\ c.pc = "awaitCommit" /\ Goto(c, "transferred")
               /\ net' \subseteq net
               /\ \E m \in net : m.type = "CommitAck" /\ m.ok /\ m.id = c.id
            \/ /\ c.pc = "transferred" /\ Goto(c, "committing")
               /\ net' \subseteq net
            \/ /\ c.pc = "committing" /\ Goto(c, "completing") /\ Commit(c)
               /\ net' \subseteq net \union {Out("Complete", c)}
<1>1. TypeOK /\ OneInitiator
  BY DEF AInv, OInv, LInv, TInv, Disciplined
<1>2. c.from \in Initiators /\ (c.pc # "admitted" => c.id \in Ids)
  BY Facts, <1>1 DEF AInv
<1>3. /\ c.pc # "admitted"
      /\ UNCHANGED <<nextID, table, inbox, landings>>
  BY DEF DriverStep, PrepareAnswered, PrepareCallFails, Transfer, CommitAnswered,
         DataCallFails, BeginCommit, Commit, CommitFails, Finish
<1>4. ASSUME NEW s \in Servers \ Initiators, NEW e \in table[s]
      PROVE  state'[<<s, e.from, e.id>>] = state[<<s, e.from, e.id>>]
  <2>1. \/ UNCHANGED state
        \/ \E st : SetState(c.from, c.from, c.id, st) \/ SetStateOf(c.from, c.id, st)
    BY DEF DriverStep, PrepareAnswered, PrepareCallFails, Transfer, CommitAnswered,
           DataCallFails, BeginCommit, Commit, CommitFails, Finish, Settle
  <2> QED BY <1>1, <1>2, <2>1, EntryTyped, StateElsewhere
<1>5. Commit(c) \/ UNCHANGED holds
  <2>1. CASE CommitFails(c)
    BY <1>1, <1>2, <1>3, <2>1, RollbackAtSource DEF CommitFails
  <2> QED BY <2>1 DEF DriverStep, Start, PrepareAnswered, PrepareCallFails, Transfer,
                      CommitAnswered, DataCallFails, BeginCommit, Finish
<1>6. /\ \A m \in net : m.type \notin {"PrepareAck", "CommitAck"} => m \in net'
      /\ \/ Return(c) /\ net' \subseteq net
         \/ /\ c.pc \in {"awaitCommit", "committing"} /\ Return(c)
            /\ net' \subseteq net \union {Out("Rollback", c)}
         \/ /\ c.pc = "awaitPrepare" /\ Goto(c, "accepted")
            /\ net' \subseteq net
         \/ /\ c.pc = "accepted" /\ Goto(c, "awaitCommit")
            /\ net' \subseteq net \union {Out("Data", c)}
         \/ /\ c.pc = "awaitCommit" /\ Goto(c, "transferred")
            /\ net' \subseteq net
            /\ \E m \in net : m.type = "CommitAck" /\ m.ok /\ m.id = c.id
         \/ /\ c.pc = "transferred" /\ Goto(c, "committing")
            /\ net' \subseteq net
         \/ /\ c.pc = "committing" /\ Goto(c, "completing") /\ Commit(c)
            /\ net' \subseteq net \union {Out("Complete", c)}
  <2>1. CASE PrepareAnswered(c)
    BY <2>1 DEF PrepareAnswered, AckFor
  <2>2. CASE PrepareCallFails(c) \/ Finish(c)
    BY <2>2 DEF PrepareCallFails, Finish
  <2>3. CASE Transfer(c)
    BY <2>3 DEF Transfer
  <2>4. CASE CommitAnswered(c)
    BY <2>4 DEF CommitAnswered, AckFor
  <2>5. CASE DataCallFails(c) \/ CommitFails(c)
    BY <2>5 DEF DataCallFails, CommitFails
  <2>6. CASE BeginCommit(c)
    BY <2>6 DEF BeginCommit
  <2>7. CASE Commit(c)
    BY <2>7 DEF Commit
  <2> QED BY <2>1, <2>2, <2>3, <2>4, <2>5, <2>6, <2>7 DEF DriverStep
<1> QED BY <1>3, <1>4, <1>5, <1>6

LEMMA OutIs ==
  ASSUME NEW type, NEW c
  PROVE  /\ Out(type, c).type = type /\ Out(type, c).from = c.from
         /\ Out(type, c).to = c.target /\ Out(type, c).id = c.id
         /\ Out(type, c).player = c.player
BY DEF Out

\* The same, of the players, ids and targets only.
LEMMA DriverShape ==
  ASSUME Disciplined, AInv, NEW c \in calls, DriverStep(c), ~ Start(c)
  PROVE  /\ \A k \in calls' : \E x \in calls :
              /\ k.from = x.from /\ k.player = x.player /\ k.target = x.target /\ k.id = x.id
              /\ x.pc = "admitted" <=> k.pc = "admitted"
              /\ k = x \/ x = c
         /\ \A m \in net' : \/ m \in net
                            \/ /\ m.id = c.id /\ m.player = c.player /\ m.to = c.target
                               /\ m.from = c.from
                               /\ m.type \in {"Data", "Rollback", "Complete"}
                               /\ m.type = "Data" => c.pc = "accepted"
<1>1. TypeOK /\ c.pc # "admitted"
  BY DriverForms DEF AInv, OInv, LInv, TInv
<1>2. \/ Return(c)
      \/ \E pc : pc # "admitted" /\ Goto(c, pc)
  BY DriverForms
<1>3. \A k \in calls' : \E x \in calls :
         /\ k.from = x.from /\ k.player = x.player /\ k.target = x.target /\ k.id = x.id
         /\ x.pc = "admitted" <=> k.pc = "admitted"
         /\ k = x \/ x = c
  <2>1. CASE Return(c)
    BY <2>1 DEF Return
  <2>2. ASSUME NEW pc, pc # "admitted", Goto(c, pc)
        PROVE  \A k \in calls' : \E x \in calls :
                 /\ k.from = x.from /\ k.player = x.player /\ k.target = x.target /\ k.id = x.id
                 /\ x.pc = "admitted" <=> k.pc = "admitted"
                 /\ k = x \/ x = c
    <3>1. PICK d : /\ calls' = (calls \ {c}) \union {d}
                   /\ d.from = c.from /\ d.player = c.player /\ d.target = c.target
                   /\ d.id = c.id /\ d.pc = pc
      BY <1>1, <2>2, Advance
    <3> QED BY <1>1, <2>2, <3>1
  <2> QED BY <1>2, <2>1, <2>2
<1>4. \E type \in {"Data", "Rollback", "Complete"} :
         /\ net' \subseteq net \union {Out(type, c)}
         /\ type = "Data" => c.pc = "accepted" \/ net' \subseteq net
  BY DriverForms
<1>5. \A m \in net' : \/ m \in net
                      \/ /\ m.id = c.id /\ m.player = c.player /\ m.to = c.target
                         /\ m.from = c.from
                         /\ m.type \in {"Data", "Rollback", "Complete"}
                         /\ m.type = "Data" => c.pc = "accepted"
  BY <1>4, OutIs
<1> QED BY <1>3, <1>5

-----------------------------------------------------------------------------
(* Ids and players *)

\* A step after which only concerned players are concerned keeps ids and calls as they are.
LEMMA NothingNew ==
  ASSUME Disciplined, AInv, UNCHANGED nextID,
         \A c \in calls' : c.pc # "admitted" =>
           \E k \in calls : k.pc # "admitted" /\ k.id = c.id /\ k.player = c.player,
         \A m \in net' : Concerns(m.id, m.player),
         \A l \in landings' : Concerns(l.id, l.player),
         \A s \in Servers : \A e \in table'[s] : Concerns(e.id, e.player),
         \A s, f \in Servers, p \in Players, i \in Ids :
           <<f, i>> \in holds'[s][p] => Concerns(i, p)
  PROVE  Numbered' /\ Latest'
<1>1. Numbered /\ Latest
  BY DEF AInv
<1>2. ASSUME NEW p \in Players, NEW i \in Ids, Concerns(i, p)' PROVE Concerns(i, p)
  <2>1. ASSUME NEW c \in calls', c.pc # "admitted", c.id = i, c.player = p
        PROVE  Concerns(i, p)
    BY <2>1, Witnesses
  <2>2. \/ \E c \in calls' : c.pc # "admitted" /\ c.id = i /\ c.player = p
        \/ \E m \in net' : m.id = i /\ m.player = p
        \/ \E l \in landings' : l.id = i /\ l.player = p
        \/ \E s \in Servers : \E e \in table'[s] : e.id = i /\ e.player = p
        \/ \E s, f \in Servers : <<f, i>> \in holds'[s][p]
    BY <1>2 DEF Concerns
  <2> QED BY <2>1, <2>2
<1>3. Numbered'
  BY <1>1, <1>2 DEF Numbered
<1>4. \A c \in calls' : c.pc # "admitted" =>
         \E k \in calls : k.pc # "admitted" /\ k.id = c.id /\ k.player = c.player
                          /\ k.player \in Players
  BY Facts DEF AInv, Disciplined
<1> QED BY <1>1, <1>2, <1>3, <1>4 DEF Latest

\* What most steps leave as it is.
LEMMA TablesAndPlayers ==
  ASSUME UNCHANGED <<table, holds>>
  PROVE  /\ \A s \in Servers : \A e \in table'[s] : Concerns(e.id, e.player)
         /\ \A s, f \in Servers, p \in Players, i \in Ids :
              <<f, i>> \in holds'[s][p] => Concerns(i, p)
BY Witnesses

LEMMA StartNames ==
  ASSUME Disciplined, Solo, AInv, NEW c \in calls, Start(c)
  PROVE  Numbered' /\ Latest' /\ FromBirth'
<1> DEFINE i == nextID[c.from] + 1
           d == [c EXCEPT !.id = i, !.pc = "awaitPrepare"]
           r == [id |-> i, from |-> c.from, player |-> c.player]
<1>1. /\ TypeOK /\ OneInitiator
      /\ Numbered /\ Latest /\ FromBirth
  BY DEF AInv, OInv, LInv, TInv, Disciplined
<1>2. /\ c.from \in Initiators /\ c.from \in Servers /\ c.player \in Players
      /\ nextID[c.from] \in Nat /\ i \in Nat /\ Birth[c.player] = c.from
      /\ c.pc = "admitted"
  BY <1>1, Facts DEF AInv, TypeOK, FromBirth, Start
<1>3. /\ d.from = c.from /\ d.player = c.player /\ d.id = i /\ d.pc = "awaitPrepare"
  BY <1>1 DEF TypeOK, Call
<1>4. /\ calls' = (calls \ {c}) \union {d}
      /\ net' = net \union {Out("Request", d)}
      /\ table' = Store(c.from, r)
      /\ nextID' = [nextID EXCEPT ![c.from] = i]
      /\ UNCHANGED <<landings, holds>>
  BY DEF Start
<1>5. r.id = i /\ r.player = c.player
  OBVIOUS
<1>7. \A s \in Servers : \A e \in table'[s] : e \in table[s] \/ e = r
  BY <1>1, <1>4 DEF Store, TypeOK
<1> HIDE DEF d, r
<1>6. Out("Request", d).id = i /\ Out("Request", d).player = c.player
  BY <1>3, OutIs
<1>8. \A j \in Ids, p \in Players : Concerns(j, p)' => Concerns(j, p) \/ (j = i /\ p = c.player)
  BY <1>3, <1>4, <1>5, <1>6, <1>7 DEF Concerns
<1>9. \A j \in Ids, p \in Players : Concerns(j, p) => j < i /\ Birth[p] = c.from
  BY <1>1, <1>2, Facts DEF Numbered, OneInitiator, AInv
<1>10. Numbered'
  <2> SUFFICES ASSUME NEW p \in Players, NEW j \in Ids, Concerns(j, p)'
               PROVE  /\ Birth[p] \in Initiators /\ j <= nextID'[Birth[p]]
                      /\ \A q \in Players : Concerns(j, q)' => q = p
    BY DEF Numbered
  <2>1. nextID'[c.from] = i /\ j \in Nat
    BY <1>1, <1>2, <1>4, Facts DEF TypeOK, AInv
  <2>2. CASE Concerns(j, p)
    BY <1>1, <1>2, <1>8, <1>9, <2>1, <2>2 DEF Numbered
  <2>3. CASE j = i /\ p = c.player
    BY <1>2, <1>8, <1>9, <2>1, <2>3
  <2> QED BY <1>8, <2>2, <2>3
<1>11. Latest'
  <2> SUFFICES ASSUME NEW k \in calls', k.pc # "admitted", NEW j \in Ids, Concerns(j, k.player)'
               PROVE  j <= k.id
    BY DEF Latest
  <2>0. j \in Nat
    BY <1>1, Facts DEF AInv
  <2>1. CASE k = d
    <3>1. k.id = i /\ k.player = c.player
      BY <1>3, <2>1
    <3> QED BY <1>2, <1>8, <1>9, <2>0, <3>1
  <2>2. CASE k \in calls /\ k # c
    <3>1. k.player # c.player /\ k.player \in Players
      BY <1>1, <2>2, Facts DEF Solo, AInv
    <3> QED BY <1>1, <1>8, <2>2, <3>1 DEF Latest
  <2> QED BY <1>4, <2>1, <2>2
<1>12. FromBirth'
  BY <1>1, <1>2, <1>3, <1>4 DEF FromBirth
<1> QED BY <1>10, <1>11, <1>12

\* Who is where tells whose calls there can be.
LEMMA AdmitNames ==
  ASSUME Disciplined, AInv, NEW s \in Servers, NEW g \in Callers, NEW p \in Players,
         NEW t \in Servers, Admit(s, g, p, t)
  PROVE  /\ s = Birth[p] /\ holds[Birth[p]][p] # {}
         /\ Numbered' /\ Latest' /\ FromBirth'
<1> DEFINE d == [from |-> s, caller |-> g, player |-> p, target |-> t, id |-> 0,
                 pc |-> "admitted"]
<1>1. d.from = s /\ d.player = p /\ d.pc = "admitted"
  OBVIOUS
<1>2. /\ calls' = calls \union {d} /\ s \in Initiators /\ holds[s][p] # {}
      /\ UNCHANGED <<nextID, table, landings, holds, net>>
  BY DEF Admit
<1> HIDE DEF d
<1>3. Numbered' /\ Latest'
  BY <1>1, <1>2, NothingNew, TablesAndPlayers, Witnesses
<1>4. s = Birth[p]
  BY <1>2 DEF AInv, Tagged
<1> QED BY <1>1, <1>2, <1>3, <1>4 DEF FromBirth, AInv

LEMMA DriverNames ==
  ASSUME Disciplined, AInv, NEW c \in calls, DriverStep(c), ~ Start(c)
  PROVE  Numbered' /\ Latest' /\ FromBirth'
<1>1. UNCHANGED <<nextID, table, landings>> /\ (Commit(c) \/ UNCHANGED holds)
      /\ c.pc # "admitted"
  BY DriverForms
<1>2. /\ \A k \in calls' : k.pc # "admitted" =>
           \E x \in calls : x.pc # "admitted" /\ x.id = k.id /\ x.player = k.player
      /\ \A k \in calls' : \E x \in calls : k.from = x.from /\ k.player = x.player
      /\ \A m \in net' : m \in net \/ (m.id = c.id /\ m.player = c.player)
  BY DriverShape
<1>3. \A s, f \in Servers, p \in Players, i \in Ids :
        <<f, i>> \in holds'[s][p] => <<f, i>> \in holds[s][p]
  <2>1. TypeOK
    BY DEF AInv, OInv, LInv, TInv
  <2>2. CASE Commit(c)
    BY <2>1, <2>2, HoldsAt DEF Commit
  <2> QED BY <1>1, <2>2
<1>4. Numbered' /\ Latest'
  <2>1. \A m \in net' : Concerns(m.id, m.player)
    BY <1>1, <1>2, Witnesses
  <2>2. \A s, f \in Servers, p \in Players, i \in Ids :
          <<f, i>> \in holds'[s][p] => Concerns(i, p)
    BY <1>3, Witnesses
  <2>3. /\ \A l \in landings' : Concerns(l.id, l.player)
        /\ \A s \in Servers : \A e \in table'[s] : Concerns(e.id, e.player)
    BY <1>1, Witnesses
  <2> QED BY <1>1, <1>2, <2>1, <2>2, <2>3, NothingNew
<1>5. FromBirth'
  BY <1>2 DEF AInv, FromBirth
<1> QED BY <1>4, <1>5

LEMMA RollbackShrinks ==
  ASSUME TypeOK, NEW s, NEW i, OnMigrationRollback(s, i)
  PROVE  \A u \in Servers, p \in Players : holds'[u][p] \subseteq holds[u][p]
<1> DEFINE undone == {<<e.from, e.id>> : e \in Load(s, i)}
<1>1. holds' = [holds EXCEPT ![s] = [p \in Players |-> holds[s][p] \ undone]]
  BY DEF OnMigrationRollback
<1> HIDE DEF undone
<1> QED BY <1>1 DEF TypeOK

\* No other step names a player who has not been named with that id.
LEMMA OtherNames ==
  ASSUME Disciplined, AInv,
         \/ \E m \in net : HandleRequest(m) \/ HandleData(m) \/ HandleRollback(m)
                           \/ HandleComplete(m) \/ Lose(m)
         \/ \E l \in landings : LandingStep(l)
         \/ \E s \in Servers : \E e \in table[s] : Expire(s, e) \/ Cleanup(s, e)
  PROVE  Numbered' /\ Latest' /\ FromBirth'
<1>1. TypeOK
  BY DEF AInv, OInv, LInv, TInv
<1>2. UNCHANGED <<nextID, calls>>
  BY DEF HandleRequest, HandleData, HandleRollback, HandleComplete, Lose, LandingStep,
         LandingFails, LandPlayer, StoreLanded, Expire, Cleanup
<1>3. FromBirth'
  BY <1>2 DEF AInv, FromBirth
<1> SUFFICES /\ \A m \in net' : Concerns(m.id, m.player)
             /\ \A l \in landings' : Concerns(l.id, l.player)
             /\ \A s \in Servers : \A e \in table'[s] : Concerns(e.id, e.player)
             /\ \A s, f \in Servers, p \in Players, i \in Ids :
                  <<f, i>> \in holds'[s][p] => Concerns(i, p)
  BY <1>2, <1>3, NothingNew
<1>m. \A m \in net : \A type, ok : Msg(type, m, ok).id = m.id /\ Msg(type, m, ok).player = m.player
  BY DEF Msg
<1>4. ASSUME NEW m \in net, HandleRequest(m) \/ HandleComplete(m) \/ Lose(m)
      PROVE  /\ \A k \in net' : Concerns(k.id, k.player)
             /\ UNCHANGED <<landings, table, holds>>
  BY <1>4, <1>m, Witnesses DEF HandleRequest, HandleComplete, Lose
<1>5. ASSUME NEW m \in net, HandleData(m)
      PROVE  /\ \A k \in net' : Concerns(k.id, k.player)
             /\ \A l \in landings' : Concerns(l.id, l.player)
             /\ UNCHANGED <<table, holds>>
  <2> DEFINE k == [at |-> m.to, from |-> m.from, id |-> m.id,
                   player |-> m.player, step |-> "validate"]
             o == Msg("CommitAck", m, Load(m.to, m.id) # {})
  <2>1. /\ k.id = m.id /\ k.player = m.player
        /\ o.id = m.id /\ o.player = m.player
    BY <1>m
  <2>2. /\ landings' \subseteq landings \union {k} /\ net' \subseteq net \union {o}
        /\ UNCHANGED <<table, holds>>
    BY <1>5 DEF HandleData
  <2> HIDE DEF k, o
  <2> QED BY <2>1, <2>2, Witnesses
<1>6. ASSUME NEW l \in landings, LandingStep(l)
      PROVE  /\ \A k \in net' : Concerns(k.id, k.player)
             /\ \A k \in landings' : Concerns(k.id, k.player)
  <2> DEFINE k == [l EXCEPT !.step = "store"]
  <2>1. k.id = l.id /\ k.player = l.player
    BY <1>1 DEF TypeOK, Landing
  <2>2. landings' \subseteq landings \union {k}
    BY <1>6 DEF LandingStep, LandingFails, LandPlayer, StoreLanded
  <2>3. \E ok : net' \subseteq net \union
           {[type |-> "CommitAck", from |-> l.from, to |-> l.at, id |-> l.id,
             player |-> l.player, ok |-> ok]}
    BY <1>6 DEF LandingStep, LandingFails, LandPlayer, StoreLanded, Answer
  <2> HIDE DEF k
  <2>4. \A x \in net' : x \in net \/ (x.id = l.id /\ x.player = l.player)
    BY <2>3
  <2> QED BY <2>1, <2>2, <2>4, Witnesses
<1>7. ASSUME NEW l \in landings, LandingStep(l)
      PROVE  /\ \A s \in Servers : \A e \in table'[s] : Concerns(e.id, e.player)
             /\ \A s, f \in Servers, p \in Players, i \in Ids :
                  <<f, i>> \in holds'[s][p] => Concerns(i, p)
  <2>1. CASE LandingFails(l)
    BY <2>1, TablesAndPlayers DEF LandingFails
  <2>2. CASE LandPlayer(l)
    <3>1. \A s \in Servers, p \in Players :
            holds'[s][p] = IF s = l.at /\ p = l.player THEN {<<l.from, l.id>>} ELSE holds[s][p]
      <4> DEFINE tag == {<<l.from, l.id>>}
      <4>1. holds' = [holds EXCEPT ![l.at][l.player] = tag]
        BY <2>2 DEF LandPlayer
      <4> HIDE DEF tag
      <4>2. \A s \in Servers, p \in Players :
              holds'[s][p] = IF s = l.at /\ p = l.player THEN tag ELSE holds[s][p]
        BY <1>1, <4>1 DEF TypeOK
      <4> QED BY <4>2 DEF tag
    <3>2. UNCHANGED table
      BY <2>2 DEF LandPlayer
    <3> QED BY <3>1, <3>2, Witnesses
  <2>3. CASE StoreLanded(l)
    <3> DEFINE r == [id |-> l.id, from |-> l.from, player |-> l.player]
    <3>1. r.id = l.id /\ r.player = l.player
      OBVIOUS
    <3>2. table' = Store(l.at, r) /\ UNCHANGED holds
      BY <2>3 DEF StoreLanded
    <3>3. \A s \in Servers : \A e \in table'[s] : e \in table[s] \/ e = r
      BY <1>1, <3>2 DEF Store, TypeOK
    <3> HIDE DEF r
    <3> QED BY <3>1, <3>2, <3>3, Witnesses
  <2> QED BY <1>7, <2>1, <2>2, <2>3 DEF LandingStep
<1>8. ASSUME NEW m \in net, HandleRollback(m)
      PROVE  /\ net' \subseteq net /\ UNCHANGED <<landings, table>>
             /\ \A u \in Servers, p \in Players : holds'[u][p] \subseteq holds[u][p]
  BY <1>1, <1>8, RollbackShrinks DEF HandleRollback
<1>9. ASSUME NEW s \in Servers, NEW e \in table[s], Expire(s, e) \/ Cleanup(s, e)
      PROVE  /\ UNCHANGED <<net, landings>>
             /\ \A u \in Servers : table'[u] \subseteq table[u]
             /\ \A u \in Servers, p \in Players : holds'[u][p] \subseteq holds[u][p]
  <2>1. CASE Expire(s, e)
    BY <1>1, <2>1, RollbackShrinks DEF Expire
  <2>2. CASE Cleanup(s, e)
    BY <1>1, <2>2 DEF Cleanup, TypeOK
  <2> QED BY <1>9, <2>1, <2>2
<1> QED BY <1>4, <1>5, <1>6, <1>7, <1>8, <1>9, Witnesses, TablesAndPlayers

-----------------------------------------------------------------------------
(* What the other steps do *)

LEMMA StartEffect ==
  ASSUME Disciplined, AInv, NEW c \in calls, Start(c)
  PROVE  \E i, d, o :
           /\ i \in Nat /\ \A j \in Ids, p \in Players : Concerns(j, p) => j < i
           /\ calls' = (calls \ {c}) \union {d} /\ c.pc = "admitted"
           /\ d.id = i /\ d.player = c.player /\ d.target = c.target /\ d.from = c.from
           /\ d.pc = "awaitPrepare"
           /\ net' = net \union {o}
           /\ o.type = "Request" /\ o.id = i /\ o.to = c.target /\ o.player = c.player
           /\ \A s \in Servers \ Initiators :
                /\ table'[s] = table[s]
                /\ \A e \in table[s] :
                     state'[<<s, e.from, e.id>>] = state[<<s, e.from, e.id>>]
           /\ UNCHANGED <<landings, inbox, holds>>
<1> DEFINE i == nextID[c.from] + 1
           d == [c EXCEPT !.id = i, !.pc = "awaitPrepare"]
           o == Out("Request", d)
<1>1. TypeOK /\ OneInitiator /\ Numbered
  BY DEF AInv, OInv, LInv, TInv, Disciplined
<1>2. c.from \in Initiators /\ c.from \in Servers /\ nextID[c.from] \in Nat
  BY <1>1, Facts DEF AInv, TypeOK
<1>3. i \in Nat /\ \A j \in Ids, p \in Players : Concerns(j, p) => j < i
  BY <1>1, <1>2, Facts DEF Numbered, OneInitiator, AInv
<1>4. /\ d.id = i /\ d.player = c.player /\ d.target = c.target /\ d.from = c.from
      /\ d.pc = "awaitPrepare"
  BY <1>1 DEF TypeOK, Call
<1>5. /\ calls' = (calls \ {c}) \union {d} /\ c.pc = "admitted"
      /\ net' = net \union {o}
      /\ table' = Store(c.from, [id |-> i, from |-> c.from, player |-> c.player])
      /\ SetState(c.from, c.from, i, "Requested")
      /\ UNCHANGED <<landings, inbox, holds>>
  BY DEF Start
<1> HIDE DEF d
<1>6. o.type = "Request" /\ o.id = i /\ o.to = c.target /\ o.player = c.player
  BY <1>4, OutIs
<1>7. \A s \in Servers \ Initiators : table'[s] = table[s]
  BY <1>1, <1>2, <1>5 DEF Store, TypeOK
<1>8. \A s \in Servers \ Initiators : \A e \in table[s] :
        state'[<<s, e.from, e.id>>] = state[<<s, e.from, e.id>>]
  BY <1>1, <1>2, <1>5, EntryTyped, StateElsewhere
<1> HIDE DEF i, o
<1> QED BY <1>3, <1>4, <1>5, <1>6, <1>7, <1>8

LEMMA DataEffect ==
  ASSUME TypeOK, NEW m \in net, HandleData(m)
  PROVE  /\ m.type = "Data"
         /\ UNCHANGED <<calls, table, state, holds>>
         /\ \A k \in net : k # m => k \in net'
         /\ \/ /\ m.id \notin inbox[m.to]
               /\ \A s \in Servers : inbox'[s] = IF s = m.to THEN inbox[s] \union {m.id}
                                                ELSE inbox[s]
               /\ net' \subseteq net
               /\ \E l : /\ landings' = landings \union {l}
                         /\ l.at = m.to /\ l.from = m.from /\ l.id = m.id
                         /\ l.player = m.player /\ l.step = "validate"
            \/ /\ m.id \in inbox[m.to] /\ UNCHANGED <<inbox, landings>>
               /\ \A k \in net' : \/ k \in net
                                  \/ /\ k.type = "CommitAck" /\ k.id = m.id
                                     /\ k.ok => Load(m.to, m.id) # {}
<1>1. /\ m.type = "Data"
      /\ UNCHANGED <<calls, table, state, holds>>
      /\ \A k \in net : k # m => k \in net'
  BY DEF HandleData
<1>2. CASE m.id \notin inbox[m.to]
  <2> DEFINE l == [at |-> m.to, from |-> m.from, id |-> m.id,
                   player |-> m.player, step |-> "validate"]
  <2>1. /\ l.at = m.to /\ l.from = m.from /\ l.id = m.id
        /\ l.player = m.player /\ l.step = "validate"
    OBVIOUS
  <2>2. /\ landings' = landings \union {l} /\ net' \subseteq net
        /\ inbox' = [inbox EXCEPT ![m.to] = @ \union {m.id}]
    BY <1>2 DEF HandleData
  <2> HIDE DEF l
  <2>3. \A s \in Servers : inbox'[s] = IF s = m.to THEN inbox[s] \union {m.id} ELSE inbox[s]
    BY <2>2 DEF TypeOK
  <2> QED BY <1>1, <1>2, <2>1, <2>2, <2>3
<1>3. CASE m.id \in inbox[m.to]
  <2> DEFINE o == Msg("CommitAck", m, Load(m.to, m.id) # {})
  <2>1. o.type = "CommitAck" /\ o.id = m.id /\ (o.ok => Load(m.to, m.id) # {})
    BY DEF Msg
  <2>2. net' \subseteq net \union {o} /\ UNCHANGED <<inbox, landings>>
    BY <1>3 DEF HandleData
  <2> HIDE DEF o
  <2> QED BY <1>1, <1>3, <2>1, <2>2
<1> QED BY <1>2, <1>3

\* Whatever a landing does it answers for its own id.
LEMMA AnswerIs ==
  ASSUME NEW l, NEW ok, Answer(l, ok)
  PROVE  /\ net \subseteq net'
         /\ \A k \in net' : k \in net \/ (k.type = "CommitAck" /\ k.id = l.id /\ k.ok = ok)
BY DEF Answer

LEMMA LandEffect ==
  ASSUME TypeOK, NEW l \in landings, LandPlayer(l)
  PROVE  /\ l.step = "validate"
         /\ UNCHANGED <<nextID, calls, table, state, inbox, net>>
         /\ \E k : /\ landings' = (landings \ {l}) \union {k}
                   /\ k.at = l.at /\ k.from = l.from /\ k.id = l.id /\ k.player = l.player
                   /\ k.step = "store"
         /\ \A s \in Servers, p \in Players :
              holds'[s][p] = IF s = l.at /\ p = l.player THEN {<<l.from, l.id>>} ELSE holds[s][p]
<1> DEFINE tag == {<<l.from, l.id>>}
           k == [l EXCEPT !.step = "store"]
<1>1. holds' = [holds EXCEPT ![l.at][l.player] = tag]
  BY DEF LandPlayer
<1>2. /\ k.at = l.at /\ k.from = l.from /\ k.id = l.id /\ k.player = l.player
      /\ k.step = "store"
  BY DEF TypeOK, Landing
<1>3. /\ l.step = "validate"
      /\ UNCHANGED <<nextID, calls, table, state, inbox, net>>
      /\ landings' = (landings \ {l}) \union {k}
  BY DEF LandPlayer
<1> HIDE DEF tag, k
<1>4. \A s \in Servers, p \in Players :
        holds'[s][p] = IF s = l.at /\ p = l.player THEN tag ELSE holds[s][p]
  BY <1>1 DEF TypeOK
<1> QED BY <1>2, <1>3, <1>4 DEF tag

LEMMA StoreEffect ==
  ASSUME Disciplined, AInv, NEW l \in landings, StoreLanded(l)
  PROVE  /\ l.step = "store" /\ landings' = landings \ {l}
         /\ UNCHANGED <<calls, inbox, holds>>
         /\ Load(l.at, l.id) = {}
         /\ \E r : /\ r.id = l.id /\ r.from = l.from /\ r.player = l.player
                   /\ \A s \in Servers :
                        table'[s] = IF s = l.at THEN table[s] \union {r} ELSE table[s]
         /\ \A s \in Servers \ Initiators : \A e \in table[s] :
              state'[<<s, e.from, e.id>>] = state[<<s, e.from, e.id>>]
         /\ state'[<<l.at, l.from, l.id>>] = "Transferred"
<1> DEFINE r == [id |-> l.id, from |-> l.from, player |-> l.player]
<1>1. TypeOK /\ Filed
  BY DEF AInv, OInv, LInv, TInv
<1>2. l.at \in Servers \ Initiators /\ l.from \in Servers /\ l.id \in Ids
  BY Facts DEF AInv, Disciplined
<1>3. Load(l.at, l.id) = {}
  BY <1>1, <1>2 DEF Filed, Load
<1>4. /\ l.step = "store" /\ landings' = landings \ {l}
      /\ UNCHANGED <<calls, inbox, holds>>
      /\ table' = Store(l.at, r)
      /\ SetState(l.at, l.from, l.id, "Transferred")
  BY DEF StoreLanded
<1>5. r.id = l.id /\ r.from = l.from /\ r.player = l.player
  OBVIOUS
<1> HIDE DEF r
<1>6. \A s \in Servers : table'[s] = IF s = l.at THEN table[s] \union {r} ELSE table[s]
  BY <1>1, <1>3, <1>4, <1>5 DEF Store, TypeOK
<1>7. /\ \A s \in Servers \ Initiators : \A e \in table[s] :
           state'[<<s, e.from, e.id>>] = state[<<s, e.from, e.id>>]
      /\ state'[<<l.at, l.from, l.id>>] = "Transferred"
  <2>1. state \in [Servers \X Servers \X Ids -> MigrationState]
    BY <1>1 DEF TypeOK
  <2>2. \A s \in Servers \ Initiators : \A e \in table[s] : ~ (s = l.at /\ e.id = l.id)
    BY <1>3 DEF Load
  <2>3. \A s \in Servers \ Initiators : \A e \in table[s] :
          <<s, e.from, e.id>> \in DOMAIN state /\ <<s, e.from, e.id>> # <<l.at, l.from, l.id>>
    BY <1>1, <2>1, <2>2, EntryTyped
  <2> QED BY <1>2, <1>4, <2>1, <2>3 DEF SetState
<1> QED BY <1>3, <1>4, <1>5, <1>6, <1>7

-----------------------------------------------------------------------------
(* Order, records and landings *)

LEMMA AdmitParts ==
  ASSUME AInv, NEW s, NEW g, NEW p, NEW t, Admit(s, g, p, t)
  PROVE  Unsent' /\ InOrder' /\ Filed' /\ Landed' /\ Tagged'
<1> DEFINE d == [from |-> s, caller |-> g, player |-> p, target |-> t, id |-> 0,
                 pc |-> "admitted"]
<1>1. d.pc = "admitted"
  OBVIOUS
<1>2. calls' = calls \union {d} /\ UNCHANGED <<table, inbox, landings, holds, net>>
  BY DEF Admit
<1> HIDE DEF d
<1>3. Unsent'
  BY <1>1, <1>2 DEF AInv, Unsent, Load
<1>4. InOrder' /\ Filed' /\ Landed' /\ Tagged'
  BY <1>2 DEF AInv, InOrder, Passed, Filed, Landed, Tagged
<1> QED BY <1>3, <1>4

LEMMA StartParts ==
  ASSUME Disciplined, AInv, NEW c \in calls, Start(c)
  PROVE  Unsent' /\ InOrder' /\ Filed' /\ Landed' /\ Tagged'
<1> PICK i, d, o :
      /\ i \in Nat /\ \A j \in Ids, p \in Players : Concerns(j, p) => j < i
      /\ calls' = (calls \ {c}) \union {d} /\ c.pc = "admitted"
      /\ d.id = i /\ d.player = c.player /\ d.target = c.target /\ d.from = c.from
      /\ d.pc = "awaitPrepare"
      /\ net' = net \union {o}
      /\ o.type = "Request" /\ o.id = i /\ o.to = c.target /\ o.player = c.player
      /\ \A s \in Servers \ Initiators : table'[s] = table[s]
      /\ UNCHANGED <<landings, inbox, holds>>
  BY StartEffect
<1>1. /\ \A k \in calls : k.pc # "admitted" => k.id < i /\ k.id \in Ids
      /\ \A m \in net : m.id < i /\ m.id \in Ids
      /\ \A l \in landings : l.id < i /\ l.id \in Ids
      /\ \A s \in Servers : \A e \in table[s] : e.id < i /\ e.id \in Ids
      /\ \A j \in Ids : j \in Nat
  BY Witnesses, Facts DEF AInv, Disciplined
<1>2. Unsent'
  <2>1. Unsent
    BY DEF AInv
  <2>2. ASSUME NEW k \in calls, k.pc \in {"awaitPrepare", "accepted"}
        PROVE  /\ \A m \in net' : m.id = k.id => m.type \in {"Request", "PrepareAck"}
               /\ \A l \in landings' : l.id # k.id
               /\ \A s \in Servers \ Initiators : Load(s, k.id)' = {}
    BY <1>1, <2>1, <2>2 DEF Unsent, Load
  <2>3. /\ \A m \in net' : m.id = d.id => m.type \in {"Request", "PrepareAck"}
        /\ \A l \in landings' : l.id # d.id
        /\ \A s \in Servers \ Initiators : Load(s, d.id)' = {}
    BY <1>1 DEF Load
  <2> QED BY <2>2, <2>3 DEF Unsent
<1>3. InOrder'
  <2>1. ASSUME NEW s, NEW j \in Ids, j < i, NEW p, Passed(s, j, p)
        PROVE  Passed(s, j, p)'
    BY <1>1, <2>1 DEF Passed
  <2> QED BY <1>1, <2>1, Facts DEF AInv, InOrder, Disciplined
<1>4. Filed'
  BY DEF AInv, Filed
<1>5. Landed' /\ Tagged'
  BY DEF AInv, Landed, Tagged
<1> QED BY <1>2, <1>3, <1>4, <1>5

LEMMA DriverParts ==
  ASSUME Disciplined, AInv, NEW c \in calls, DriverStep(c), ~ Start(c)
  PROVE  Unsent' /\ InOrder' /\ Filed' /\ Landed' /\ Tagged'
<1>1. /\ TypeOK /\ OneInitiator /\ Once
      /\ Latest /\ Unsent /\ InOrder /\ Filed /\ Landed /\ Tagged
  BY DEF AInv, OInv, LInv, TInv, Disciplined
<1>2. /\ c.pc # "admitted"
      /\ UNCHANGED <<table, inbox, landings>>
      /\ Commit(c) \/ UNCHANGED holds
  BY DriverForms
<1>3. \A m \in net' : \/ m \in net
                      \/ /\ m.id = c.id /\ m.player = c.player /\ m.to = c.target
                         /\ m.type = "Data" => c.pc = "accepted"
  BY DriverShape
<1>4. c.from \in Initiators /\ c.id \in Ids
  BY <1>1, <1>2, Facts DEF AInv
<1>5. Unsent'
  <2> SUFFICES ASSUME NEW k \in calls', k.pc \in {"awaitPrepare", "accepted"}
               PROVE  \A m \in net' : m.id = k.id => m.type \in {"Request", "PrepareAck"}
    <3>1. \A k \in calls' : k.pc \in {"awaitPrepare", "accepted"} =>
            \E x \in calls : x.pc \in {"awaitPrepare", "accepted"} /\ x.id = k.id
      <4> SUFFICES ASSUME NEW k \in calls', k.pc \in {"awaitPrepare", "accepted"}
                   PROVE  \E x \in calls : x.pc \in {"awaitPrepare", "accepted"} /\ x.id = k.id
        OBVIOUS
      <4>1. CASE k \in calls
        BY <4>1
      <4>2. CASE k \notin calls
        <5>1. PICK pc : Goto(c, pc) /\ (pc \in {"awaitPrepare", "accepted"} => c.pc = "awaitPrepare")
          BY <4>2, DriverForms DEF Return
        <5>2. k.pc = pc /\ k.id = c.id
          BY <1>1, <4>2, <5>1, Advance
        <5> QED BY <5>1, <5>2
      <4> QED BY <4>1, <4>2
    <3> QED BY <1>1, <1>2, <3>1 DEF Unsent, Load
  <2>1. CASE k \in calls /\ k # c
    <3>1. k.id # c.id
      BY <1>1, <1>2, <2>1, Facts DEF Once, OneInitiator, AInv
    <3> QED BY <1>1, <1>3, <2>1, <3>1 DEF Unsent
  <2>2. CASE k = c \/ k \notin calls
    <3>1. PICK pc : Goto(c, pc) /\ pc # c.pc
                    /\ (pc \in {"awaitPrepare", "accepted"} =>
                          c.pc = "awaitPrepare" /\ net' \subseteq net)
      BY <2>2, DriverForms DEF Return
    <3>2. k.pc = pc /\ k.id = c.id
      BY <1>1, <2>2, <3>1, Advance
    <3> QED BY <1>1, <3>1, <3>2 DEF Unsent
  <2> QED BY <2>1, <2>2
<1>6. InOrder'
  <2>1. ASSUME NEW s, NEW j \in Ids, NEW p, Concerns(j, p), Passed(s, j, p)
        PROVE  Passed(s, j, p)'
    BY <1>1, <1>2, <1>3, <2>1 DEF Passed, Latest
  <2> QED BY <1>1, <1>2, <2>1, Facts, Witnesses DEF InOrder, AInv
<1>7. Filed'
  <2>1. c.pc = "accepted" => \A s \in Servers \ Initiators : \A e \in table[s] : e.id # c.id
    BY <1>1 DEF Unsent, Load
  <2> QED BY <1>1, <1>2, <1>3, <2>1 DEF Filed
<1>8. \A s \in Servers, p \in Players :
        holds'[s][p] = holds[s][p] \/ (s \in Initiators /\ holds'[s][p] = {})
  <2>1. CASE Commit(c)
    BY <1>1, <1>4, <2>1, HoldsAt DEF Commit
  <2> QED BY <1>2, <2>1
<1>9. Landed' /\ Tagged'
  <2>1. \A l \in landings : l.at \in Servers \ Initiators /\ l.player \in Players
    BY <1>1, Facts DEF AInv
  <2> QED BY <1>1, <1>2, <1>8, <2>1 DEF Landed, Tagged
<1> QED BY <1>5, <1>6, <1>7, <1>9

\* A rollback spares whoever is being landed.
LEMMA RollbackParts ==
  ASSUME Disciplined, AInv, NEW s \in Servers, NEW i \in Ids, OnMigrationRollback(s, i),
         UNCHANGED landings
  PROVE  Landed' /\ Tagged'
<1>1. OneInitiator /\ Filed /\ Landed /\ Tagged
  BY DEF AInv, Disciplined
<1>2. CASE s \in Initiators
  BY <1>1, <1>2, RollbackAtSource DEF Landed, Tagged
<1>3. CASE s \notin Initiators
  <2>1. \A u \in Servers, p \in Players :
          \/ holds'[u][p] = holds[u][p]
          \/ /\ u = s /\ holds'[s][p] = {}
             /\ \E e \in Load(s, i) : holds[s][p] = {<<e.from, e.id>>}
    BY <1>1, <1>3, RollbackAtTarget
  <2>2. ASSUME NEW l \in landings, l.step = "store"
        PROVE  holds'[l.at][l.player] = {<<l.from, l.id>>}
    <3>1. /\ l.at \in Servers \ Initiators /\ l.player \in Players
          /\ holds[l.at][l.player] = {<<l.from, l.id>>}
      BY <1>1, <2>2, Facts DEF Landed, AInv
    <3>2. \A e \in Load(l.at, i) : e.id # l.id
      BY <1>1, <3>1 DEF Filed, Load
    <3>3. \A e \in Load(l.at, i) : holds[l.at][l.player] # {<<e.from, e.id>>}
      <4> SUFFICES ASSUME NEW e \in Load(l.at, i), {<<l.from, l.id>>} = {<<e.from, e.id>>}
                   PROVE  FALSE
        BY <3>1
      <4>1. <<l.from, l.id>> \in {<<e.from, e.id>>}
        OBVIOUS
      <4>2. <<l.from, l.id>> = <<e.from, e.id>>
        BY <4>1
      <4> QED BY <3>2, <4>2
    <3> QED BY <2>1, <3>1, <3>3
  <2>3. Landed'
    BY <1>1, <2>2 DEF Landed
  <2>4. Tagged'
    BY <1>1, <2>1 DEF Tagged
  <2> QED BY <2>3, <2>4
<1> QED BY <1>2, <1>3

LEMMA MessageParts ==
  ASSUME Disciplined, AInv, NEW m \in net, Deliver(m) \/ Lose(m)
  PROVE  Unsent' /\ InOrder' /\ Filed' /\ Landed' /\ Tagged'
<1>1. /\ TypeOK /\ OneInitiator /\ Ordered
      /\ Numbered /\ Unsent /\ InOrder /\ Filed /\ Landed /\ Tagged
  BY DEF AInv, OInv, LInv, TInv, Disciplined
<1>2. /\ m.to \in Servers \ Initiators /\ m.from \in Initiators /\ m.id \in Ids
      /\ m.player \in Players
  BY <1>1, Facts DEF AInv
<1>3. CASE HandleRequest(m) \/ HandleComplete(m) \/ Lose(m)
  <2>1. UNCHANGED <<calls, table, inbox, landings, holds>>
    BY <1>3 DEF HandleRequest, HandleComplete, Lose
  <2>2. \A k \in net' : k \in net \/ k.type = "PrepareAck"
    BY <1>3 DEF HandleRequest, HandleComplete, Lose, Msg
  <2>3. Unsent'
    BY <1>1, <2>1, <2>2 DEF Unsent, Load
  <2>4. InOrder'
    BY <1>1, <2>1, <2>2 DEF InOrder, Passed, ToTarget
  <2>5. Filed' /\ Landed' /\ Tagged'
    BY <1>1, <2>1, <2>2 DEF Filed, Landed, Tagged
  <2> QED BY <2>3, <2>4, <2>5
<1>4. CASE HandleData(m) /\ InTurn(m)
  <2>1. m.type = "Data" /\ UNCHANGED <<calls, table, holds>>
    BY <1>1, <1>4, DataEffect
  <2>2. \A c \in calls : c.pc \in {"awaitPrepare", "accepted"} => c.id # m.id
    BY <1>1, <2>1 DEF Unsent
  <2>3. CASE m.id \in inbox[m.to]
    <3>1. /\ UNCHANGED <<inbox, landings>>
          /\ \A k \in net' : k \in net \/ (k.type = "CommitAck" /\ k.id = m.id)
      BY <1>1, <1>4, <2>3, DataEffect
    <3>2. Unsent'
      BY <1>1, <2>1, <2>2, <3>1 DEF Unsent, Load
    <3>3. InOrder'
      BY <1>1, <2>1, <3>1 DEF InOrder, Passed, ToTarget
    <3>4. Filed' /\ Landed' /\ Tagged'
      BY <1>1, <2>1, <3>1 DEF Filed, Landed, Tagged
    <3> QED BY <3>2, <3>3, <3>4
  <2>4. CASE m.id \notin inbox[m.to]
    <3>1. PICK l : /\ landings' = landings \union {l}
                   /\ l.at = m.to /\ l.from = m.from /\ l.id = m.id
                   /\ l.player = m.player /\ l.step = "validate"
      BY <1>1, <1>4, <2>4, DataEffect
    <3>2. /\ net' \subseteq net
          /\ \A s \in Servers : inbox[s] \subseteq inbox'[s]
      BY <1>1, <1>4, <2>4, DataEffect
    <3>3. Unsent'
      BY <1>1, <2>1, <2>2, <3>1, <3>2 DEF Unsent, Load
    <3>4. Passed(m.to, m.id, m.player)
      <4> SUFFICES ASSUME NEW k \in net, k.type \in ToTarget, k.to = m.to, k.player = m.player
                   PROVE  m.id <= k.id
        BY DEF Passed
      <4>1. k.from = m.from /\ k.id \in Nat /\ m.id \in Nat
        BY <1>1, <1>2, Facts DEF OneInitiator, AInv
      <4>2. ~ (k.id < m.id)
        BY <1>1, <1>4, <4>1 DEF InTurn
      <4> QED BY <4>1, <4>2
    <3>5. InOrder'
      <4>1. \A s, i, p : Passed(s, i, p) => Passed(s, i, p)'
        BY <3>2 DEF Passed
      <4> QED BY <1>1, <2>1, <3>1, <3>4, <4>1 DEF InOrder
    <3>6. Filed'
      <4>1. \A e \in table[m.to] : e.id # m.id
        BY <1>1, <1>2, <2>1, <2>4 DEF Filed
      <4> QED BY <1>1, <2>1, <3>1, <3>2, <4>1 DEF Filed
    <3>7. Landed'
      <4>1. \A k \in landings : ~ (k.at = m.to /\ k.player = m.player)
        BY <1>1, <1>2, <1>4, Facts DEF InTurn, OneInitiator, AInv
      <4> QED BY <1>1, <2>1, <3>1, <4>1 DEF Landed
    <3> QED BY <1>1, <2>1, <3>3, <3>5, <3>6, <3>7 DEF Tagged
  <2> QED BY <2>3, <2>4
<1>5. CASE HandleRollback(m) /\ InTurn(m)
  <2>1. /\ m.type = "Rollback" /\ net' = net \ {m} /\ UNCHANGED <<calls, table, landings>>
        /\ OnMigrationRollback(m.to, m.id)
        /\ inbox' = [inbox EXCEPT ![m.to] = @ \ {e.id : e \in Load(m.to, m.id)}]
    BY <1>5 DEF HandleRollback
  <2>2. Unsent'
    BY <1>1, <2>1 DEF Unsent, Load
  <2>3. InOrder'
    BY <1>1, <2>1 DEF InOrder, Passed
  <2>4. Filed'
    <3>1. \A k \in net : k.type = "Data" /\ k.to = m.to => k.id # m.id
      <4> SUFFICES ASSUME NEW k \in net, k.type = "Data", k.to = m.to, k.id = m.id PROVE FALSE
        OBVIOUS
      <4>1. k.from = m.from /\ k.player = m.player
        BY <1>1, <1>2, Facts, Witnesses DEF OneInitiator, Numbered, AInv
      <4>2. Rank(k.type) < Rank(m.type) /\ k.type \in ToTarget
        BY <2>1 DEF Rank, ToTarget
      <4> QED BY <1>1, <1>5, <4>1, <4>2 DEF InTurn
    <3>2. \A e \in Load(m.to, m.id) : e.id = m.id
      BY DEF Load
    <3>3. \A s \in Servers : \A i : i \in inbox[s] => i \in inbox'[s] \/ (s = m.to /\ i = m.id)
      BY <1>1, <2>1, <3>2 DEF TypeOK
    <3> QED BY <1>1, <2>1, <3>1, <3>3 DEF Filed
  <2> QED BY <1>2, <2>1, <2>2, <2>3, <2>4, RollbackParts
<1> QED BY <1>3, <1>4, <1>5 DEF Deliver

LEMMA LandingParts ==
  ASSUME Disciplined, AInv, NEW l \in landings, LandingStep(l)
  PROVE  Unsent' /\ InOrder' /\ Filed' /\ Landed' /\ Tagged'
<1>1. /\ TypeOK /\ OneInitiator /\ OneLanding
      /\ Numbered /\ Unsent /\ InOrder /\ Filed /\ Landed /\ Tagged
  BY DEF AInv, OInv, LInv, TInv, Disciplined
<1>2. /\ l.at \in Servers \ Initiators /\ l.from \in Initiators /\ l.id \in Ids
      /\ l.player \in Players /\ Birth[l.player] = l.from
  BY <1>1, Facts, Witnesses DEF AInv, Numbered, OneInitiator
<1>3. /\ UNCHANGED calls
      /\ \A k \in net' : k \in net \/ (k.type = "CommitAck" /\ k.id = l.id)
  <2>1. UNCHANGED net \/ \E ok : Answer(l, ok)
    BY DEF LandingStep, LandingFails, LandPlayer, StoreLanded
  <2>2. UNCHANGED calls
    BY DEF LandingStep, LandingFails, LandPlayer, StoreLanded
  <2> QED BY <2>1, <2>2, AnswerIs
<1>4. \A c \in calls : c.pc \in {"awaitPrepare", "accepted"} => c.id # l.id
  BY <1>1 DEF Unsent
<1>5. \A s, i, p : Passed(s, i, p) => Passed(s, i, p)'
  BY <1>3 DEF Passed, ToTarget
<1>6. CASE LandingFails(l)
  <2>1. /\ landings' = landings \ {l} /\ UNCHANGED <<table, holds>>
        /\ inbox' = [inbox EXCEPT ![l.at] = @ \ {l.id}]
    BY <1>6 DEF LandingFails
  <2>2. Unsent'
    BY <1>1, <1>3, <1>4, <2>1 DEF Unsent, Load
  <2>3. InOrder'
    BY <1>1, <1>5, <2>1 DEF InOrder
  <2>4. Filed'
    <3>1. \A e \in table[l.at] : e.id # l.id
      BY <1>1, <1>2 DEF Filed
    <3>2. \A s \in Servers : \A i : i \in inbox[s] => i \in inbox'[s] \/ (s = l.at /\ i = l.id)
      BY <1>1, <2>1 DEF TypeOK
    <3> QED BY <1>1, <1>3, <2>1, <3>1, <3>2 DEF Filed
  <2> QED BY <1>1, <2>1, <2>2, <2>3, <2>4 DEF Landed, Tagged
<1>7. CASE LandPlayer(l)
  <2>1. /\ l.step = "validate" /\ UNCHANGED <<table, inbox, net>>
        /\ \A s \in Servers, p \in Players :
             holds'[s][p] = IF s = l.at /\ p = l.player THEN {<<l.from, l.id>>} ELSE holds[s][p]
    BY <1>1, <1>7, LandEffect
  <2>2. PICK k : /\ landings' = (landings \ {l}) \union {k}
                 /\ k.at = l.at /\ k.from = l.from /\ k.id = l.id /\ k.player = l.player
                 /\ k.step = "store"
    BY <1>1, <1>7, LandEffect
  <2>3. Unsent' /\ InOrder' /\ Filed'
    <3>1. Unsent'
      BY <1>1, <1>3, <1>4, <2>1, <2>2 DEF Unsent, Load
    <3>2. InOrder'
      BY <1>1, <1>5, <2>1, <2>2 DEF InOrder
    <3>3. Filed'
      BY <1>1, <2>1, <2>2 DEF Filed
    <3> QED BY <3>1, <3>2, <3>3
  <2>4. Landed'
    <3>1. \A x \in landings : x.at \in Servers /\ x.player \in Players
      BY <1>1, Facts DEF AInv
    <3> QED BY <1>1, <1>2, <2>1, <2>2, <3>1 DEF Landed
  <2>5. Tagged'
    BY <1>1, <1>2, <2>1 DEF Tagged
  <2> QED BY <2>3, <2>4, <2>5
<1>8. CASE StoreLanded(l)
  <2>1. /\ landings' = landings \ {l} /\ UNCHANGED <<inbox, holds>>
    BY <1>8, StoreEffect
  <2>2. PICK r : /\ r.id = l.id /\ r.from = l.from /\ r.player = l.player
                 /\ \A s \in Servers :
                      table'[s] = IF s = l.at THEN table[s] \union {r} ELSE table[s]
    BY <1>8, StoreEffect
  <2>r. \A s \in Servers : \A e \in table'[s] : e \in table[s] \/ (s = l.at /\ e = r)
    BY <2>2
  <2>3. Unsent'
    <3> SUFFICES ASSUME NEW c \in calls, c.pc \in {"awaitPrepare", "accepted"}
                 PROVE  /\ \A m \in net' : m.id = c.id => m.type \in {"Request", "PrepareAck"}
                        /\ \A x \in landings' : x.id # c.id
                        /\ \A s \in Servers \ Initiators : Load(s, c.id)' = {}
      BY <1>3 DEF Unsent
    <3>1. \A s \in Servers \ Initiators : \A e \in table'[s] : e.id # c.id
      BY <1>1, <1>4, <2>2, <2>r DEF Unsent, Load
    <3>2. \A s \in Servers \ Initiators : Load(s, c.id)' = {}
      BY <3>1 DEF Load
    <3>3. \A m \in net' : m.id = c.id => m.type \in {"Request", "PrepareAck"}
      BY <1>1, <1>3, <1>4 DEF Unsent
    <3> QED BY <1>1, <2>1, <3>2, <3>3 DEF Unsent
  <2>4. InOrder'
    BY <1>1, <1>5, <2>1, <2>2, ZenonT(30) DEF InOrder
  <2>5. Filed'
    <3>1. \A x \in landings' : x.at = l.at => x.id # l.id
      BY <1>1, <2>1 DEF OneLanding
    <3>2. r.id \in inbox[l.at]
      BY <1>1, <2>2 DEF OneLanding
    <3>3. \A k \in net' : k.type = "Data" => k \in net
      BY <1>3
    <3> SUFFICES ASSUME NEW s \in Servers \ Initiators, NEW e \in table'[s]
                 PROVE  /\ \A x \in landings' : x.at = s => x.id # e.id
                        /\ \/ e.id \in inbox'[s]
                           \/ \A m \in net' : m.type = "Data" /\ m.to = s => m.id # e.id
      BY DEF Filed
    <3>4. CASE e \in table[s]
      BY <1>1, <2>1, <3>3, <3>4 DEF Filed
    <3>5. CASE s = l.at /\ e = r
      BY <2>1, <2>2, <3>1, <3>2, <3>5
    <3> QED BY <2>r, <3>4, <3>5
  <2> QED BY <1>1, <2>1, <2>3, <2>4, <2>5 DEF Landed, Tagged
<1> QED BY <1>6, <1>7, <1>8 DEF LandingStep

LEMMA LoopParts ==
  ASSUME Disciplined, AInv, NEW s \in Servers, NEW x \in table[s], Expire(s, x) \/ Cleanup(s, x)
  PROVE  Unsent' /\ InOrder' /\ Filed' /\ Landed' /\ Tagged'
<1>1. TypeOK /\ Unsent /\ InOrder /\ Filed /\ Landed /\ Tagged /\ x.id \in Ids
  BY Facts DEF AInv, OInv, LInv, TInv, Disciplined
<1>2. /\ UNCHANGED <<calls, net, inbox, landings>>
      /\ \A u \in Servers : table'[u] \subseteq table[u]
  BY <1>1 DEF Expire, Cleanup, TypeOK
<1>3. Unsent'
  BY <1>1, <1>2 DEF Unsent, Load
<1>4. InOrder'
  BY <1>1, <1>2 DEF InOrder, Passed
<1>5. Filed'
  BY <1>1, <1>2 DEF Filed
<1>6. Landed' /\ Tagged'
  <2>1. CASE Expire(s, x)
    BY <1>1, <2>1, RollbackParts DEF Expire
  <2>2. CASE Cleanup(s, x)
    BY <1>1, <2>2 DEF Cleanup, Landed, Tagged
  <2> QED BY <2>1, <2>2
<1> QED BY <1>3, <1>4, <1>5, <1>6

-----------------------------------------------------------------------------
(* What the target has while a call is on *)

LEMMA AckedKeeps ==
  ASSUME NEW c, AckedBy(c),
         Load(c.target, c.id)' = Load(c.target, c.id),
         \A e \in Load(c.target, c.id) :
           /\ state'[<<c.target, e.from, e.id>>] = state[<<c.target, e.from, e.id>>]
           /\ Kept(c.target, c.id, c.player) => Kept(c.target, c.id, c.player)',
         \A m \in net' : m.type = "CommitAck" /\ m.ok /\ m.id = c.id =>
           m \in net \/ Load(c.target, c.id) # {}
  PROVE  AckedBy(c)'
BY DEF AckedBy

LEMMA KeptKeeps ==
  ASSUME NEW s, NEW i, NEW p, Kept(s, i, p), holds'[s][p] = holds[s][p],
         inbox[s] \subseteq inbox'[s],
         \A l \in landings' : l.at = s /\ l.player = p =>
           \E k \in landings : k.at = s /\ k.player = p
  PROVE  Kept(s, i, p)'
BY DEF Kept

\* What a shipped call is about.
LEMMA ShippedIs ==
  ASSUME Disciplined, AInv, NEW c \in calls, Shipped(c)
  PROVE  /\ c.target \in Servers \ Initiators /\ c.from \in Initiators
         /\ c.player \in Players /\ c.id \in Ids /\ c.pc # "admitted"
         /\ AckedBy(c)
         /\ \A e \in Load(c.target, c.id) :
              e \in table[c.target] /\ e.id = c.id /\ e.player = c.player
              /\ e.from = c.from
<1>1. c.pc # "admitted"
  BY DEF Shipped
<1>2. /\ c.target \in Servers \ Initiators /\ c.from \in Initiators
      /\ c.player \in Players /\ c.id \in Ids
  BY <1>1, Facts DEF AInv, Disciplined
<1>3. \A e \in Load(c.target, c.id) :
        e \in table[c.target] /\ e.id = c.id /\ e.player = c.player /\ e.from = c.from
  <2>1. \A e \in Load(c.target, c.id) : e \in table[c.target] /\ e.id = c.id
    BY DEF Load
  <2>2. \A e \in table[c.target] : e.player \in Players /\ e.from \in Initiators
    BY <1>2, Facts DEF AInv, Disciplined
  <2> QED BY <1>1, <1>2, <2>1, <2>2, Witnesses DEF AInv, Numbered, Disciplined, OneInitiator
<1>4. AckedBy(c)
  BY DEF AInv, Acked
<1> QED BY <1>1, <1>2, <1>3, <1>4

LEMMA AdmitAcked ==
  ASSUME AInv, NEW s, NEW g, NEW p, NEW t, Admit(s, g, p, t)
  PROVE  Acked'
<1> DEFINE d == [from |-> s, caller |-> g, player |-> p, target |-> t, id |-> 0,
                 pc |-> "admitted"]
<1>1. ~ Shipped(d)
  BY DEF Shipped
<1>2. calls' = calls \union {d} /\ UNCHANGED <<table, state, inbox, landings, holds, net>>
  BY DEF Admit
<1> HIDE DEF d
<1>3. \A c : AckedBy(c) => AckedBy(c)'
  BY <1>2, AckedKeeps DEF Load, Kept
<1> QED BY <1>1, <1>2, <1>3 DEF AInv, Acked, Shipped

LEMMA StartAcked ==
  ASSUME Disciplined, AInv, NEW c \in calls, Start(c)
  PROVE  Acked'
<1>1. PICK i, d, o :
        /\ calls' = (calls \ {c}) \union {d} /\ d.pc = "awaitPrepare"
        /\ net' = net \union {o} /\ o.type = "Request"
        /\ \A s \in Servers \ Initiators :
             /\ table'[s] = table[s]
             /\ \A e \in table[s] :
                  state'[<<s, e.from, e.id>>] = state[<<s, e.from, e.id>>]
        /\ UNCHANGED <<landings, inbox, holds>>
  BY StartEffect
<1> SUFFICES ASSUME NEW k \in calls, Shipped(k) PROVE AckedBy(k)'
  BY <1>1 DEF Acked, Shipped
<1>2. AckedBy(k) /\ k.target \in Servers \ Initiators
  BY ShippedIs
<1> QED BY <1>1, <1>2, AckedKeeps DEF Load, Kept

LEMMA DriverAcked ==
  ASSUME Disciplined, AInv, NEW c \in calls, DriverStep(c), ~ Start(c)
  PROVE  Acked'
<1>1. /\ TypeOK /\ Unsent
      /\ \A k \in calls : k.target \in Servers \ Initiators /\ k.player \in Players
                          /\ k.from \in Initiators
      /\ c.pc # "admitted" /\ UNCHANGED <<table, inbox, landings>>
      /\ \A s \in Servers \ Initiators : \A e \in table[s] :
           state'[<<s, e.from, e.id>>] = state[<<s, e.from, e.id>>]
  BY DriverForms, Facts DEF AInv, OInv, LInv, TInv, Disciplined
<1>2. \A s \in Servers \ Initiators, p \in Players : holds'[s][p] = holds[s][p]
  <2>1. CASE Commit(c)
    BY <1>1, <2>1, HoldsAt DEF Commit
  <2> QED BY <2>1, DriverForms
<1>3. \A m \in net' : m.type = "CommitAck" => m \in net
  BY DriverShape
<1>4. ASSUME NEW k \in calls, AckedBy(k) PROVE AckedBy(k)'
  <2>1. Load(k.target, k.id)' = Load(k.target, k.id)
    BY <1>1 DEF Load
  <2>2. \A e \in Load(k.target, k.id) :
          /\ state'[<<k.target, e.from, e.id>>] = state[<<k.target, e.from, e.id>>]
          /\ Kept(k.target, k.id, k.player) => Kept(k.target, k.id, k.player)'
    BY <1>1, <1>2 DEF Load, Kept
  <2> QED BY <1>3, <1>4, <2>1, <2>2, AckedKeeps
<1> SUFFICES ASSUME NEW k \in calls', Shipped(k) PROVE AckedBy(k)'
  BY DEF Acked
<1>5. CASE k \in calls
  BY <1>4, <1>5 DEF AInv, Acked
<1>6. CASE k \notin calls
  <2>1. PICK pc : /\ Goto(c, pc)
                  /\ \/ pc \in {"accepted", "completing"}
                     \/ pc = "awaitCommit" /\ c.pc = "accepted"
                     \/ /\ pc = "transferred" /\ c.pc = "awaitCommit"
                        /\ \E m \in net : m.type = "CommitAck" /\ m.ok /\ m.id = c.id
                     \/ pc = "committing" /\ c.pc = "transferred"
    BY <1>6, DriverForms DEF Return
  <2>2. k.pc = pc /\ k.id = c.id /\ k.target = c.target /\ k.player = c.player
    BY <1>1, <1>6, <2>1, Advance
  <2>3. CASE c.pc = "accepted"
    <3>1. Load(c.target, c.id)' = {}
      BY <1>1, <2>3 DEF Unsent, Load
    <3>2. \A m \in net' : m.type = "CommitAck" => m.id # c.id
      BY <1>1, <1>3, <2>3 DEF Unsent
    <3> QED BY <2>1, <2>2, <2>3, <3>1, <3>2 DEF AckedBy, Shipped
  <2>4. CASE c.pc # "accepted"
    <3>1. Shipped(c) /\ pc \in {"transferred", "committing"}
      BY <1>6, <2>1, <2>2, <2>4 DEF Shipped
    <3>2. AckedBy(c) /\ Load(c.target, c.id) # {}
      BY <2>1, <2>4, <3>1 DEF AInv, Acked, AckedBy, Shipped
    <3>3. AckedBy(c)' /\ Load(c.target, c.id)' # {}
      BY <1>1, <1>4, <3>2 DEF Load
    <3> QED BY <2>2, <3>3 DEF AckedBy
  <2> QED BY <2>3, <2>4
<1> QED BY <1>5, <1>6

LEMMA MessageAcked ==
  ASSUME Disciplined, AInv, NEW m \in net, Deliver(m) \/ Lose(m)
  PROVE  Acked'
<1>1. /\ TypeOK /\ OneInitiator /\ Once /\ SameTarget /\ Latest /\ InOrder /\ Numbered
      /\ m.to \in Servers \ Initiators /\ m.from \in Initiators /\ m.id \in Ids
      /\ m.player \in Players
  BY Facts DEF AInv, OInv, LInv, TInv, Disciplined
<1>2. UNCHANGED <<calls, table>>
  BY DEF Deliver, HandleRequest, HandleData, HandleRollback, HandleComplete, Lose
<1> SUFFICES ASSUME NEW c \in calls, Shipped(c) PROVE AckedBy(c)'
  BY <1>2 DEF Acked, Shipped
<1>3. /\ c.target \in Servers \ Initiators /\ c.from \in Initiators
      /\ c.player \in Players /\ c.id \in Ids /\ c.pc # "admitted"
      /\ AckedBy(c) /\ Load(c.target, c.id)' = Load(c.target, c.id)
      /\ \A e \in Load(c.target, c.id) :
           e \in table[c.target] /\ e.id = c.id /\ e.player = c.player /\ e.from = c.from
  BY <1>2, ShippedIs DEF Load
<1>4. CASE HandleRequest(m) \/ Lose(m)
  <2>1. /\ UNCHANGED <<state, inbox, landings, holds>>
        /\ \A k \in net' : k \in net \/ k.type = "PrepareAck"
    BY <1>4 DEF HandleRequest, Lose, Msg
  <2> QED BY <1>3, <2>1, AckedKeeps DEF Kept
<1>5. CASE HandleComplete(m)
  <2>1. /\ m.type = "Complete" /\ net' \subseteq net /\ SetStateOf(m.to, m.id, "Completed")
        /\ UNCHANGED <<inbox, landings, holds>>
    BY <1>5 DEF HandleComplete, Settle
  <2>2. m.id # c.id
    BY <1>1, <1>3, <2>1 DEF Once, OneInitiator, Final, Shipped
  <2>3. \A e \in Load(c.target, c.id) :
          state'[<<c.target, e.from, e.id>>] = state[<<c.target, e.from, e.id>>]
    BY <1>1, <1>3, <2>1, <2>2, SettleAt
  <2> QED BY <1>3, <2>1, <2>3, AckedKeeps DEF Kept
<1>6. CASE HandleData(m) /\ InTurn(m)
  <2>1. m.type = "Data" /\ UNCHANGED <<state, holds>>
    BY <1>1, <1>6, DataEffect
  <2>2. CASE m.id \in inbox[m.to]
    <3>1. /\ UNCHANGED <<inbox, landings>>
          /\ \A k \in net' : k \in net \/ (k.id = m.id /\ (k.ok => Load(m.to, m.id) # {}))
      BY <1>1, <1>6, <2>2, DataEffect
    <3>2. m.id = c.id => m.to = c.target
      BY <1>1, <1>3 DEF SameTarget, OneInitiator
    <3> QED BY <1>3, <2>1, <3>1, <3>2, AckedKeeps DEF Kept
  <2>3. CASE m.id \notin inbox[m.to]
    <3>1. PICK l : /\ landings' = landings \union {l}
                   /\ l.at = m.to /\ l.id = m.id /\ l.player = m.player
      BY <1>1, <1>6, <2>3, DataEffect
    <3>2. /\ net' \subseteq net
          /\ \A s \in Servers : inbox[s] \subseteq inbox'[s]
      BY <1>1, <1>6, <2>3, DataEffect
    <3>3. ASSUME NEW e \in Load(c.target, c.id), Kept(c.target, c.id, c.player)
          PROVE  Kept(c.target, c.id, c.player)'
      <4>1. ~ (m.to = c.target /\ m.player = c.player)
        <5> SUFFICES ASSUME m.to = c.target, m.player = c.player PROVE FALSE
          OBVIOUS
        <5>1. m.id <= c.id
          BY <1>1, <1>3, Witnesses DEF Latest
        <5>2. c.id <= m.id
          BY <1>1, <1>3, <2>1 DEF InOrder, Passed, ToTarget
        <5>3. m.id = c.id
          BY <1>1, <1>3, <5>1, <5>2, Facts DEF AInv
        <5> QED BY <2>3, <3>3, <5>3 DEF Kept
      <4> QED BY <1>3, <2>1, <3>1, <3>2, <3>3, <4>1 DEF Kept
    <3> QED BY <1>3, <2>1, <3>2, <3>3, AckedKeeps
  <2> QED BY <2>2, <2>3
<1>7. CASE HandleRollback(m)
  <2>1. /\ m.type = "Rollback" /\ net' \subseteq net /\ UNCHANGED landings
        /\ SetStateOf(m.to, m.id, "RolledBack") /\ OnMigrationRollback(m.to, m.id)
        /\ inbox' = [inbox EXCEPT ![m.to] = @ \ {e.id : e \in Load(m.to, m.id)}]
    BY <1>7 DEF HandleRollback, Settle
  <2>2. m.id # c.id
    BY <1>1, <1>3, <2>1 DEF Once, OneInitiator, Final, Shipped
  <2>3. \A e \in Load(c.target, c.id) :
          state'[<<c.target, e.from, e.id>>] = state[<<c.target, e.from, e.id>>]
    BY <1>1, <1>3, <2>1, <2>2, SettleAt
  <2>4. ASSUME Kept(c.target, c.id, c.player) PROVE Kept(c.target, c.id, c.player)'
    <3>1. \A e \in Load(m.to, m.id) : e.id = m.id
      BY DEF Load
    <3>2. c.id \in inbox'[c.target]
      BY <1>1, <1>3, <2>1, <2>2, <2>4, <3>1 DEF TypeOK, Kept
    <3>3. \A e \in Load(m.to, m.id) : holds[c.target][c.player] # {<<e.from, e.id>>}
      <4> SUFFICES ASSUME NEW e \in Load(m.to, m.id), 
                          {<<Birth[c.player], c.id>>} = {<<e.from, e.id>>}
                   PROVE  FALSE
        BY <2>4 DEF Kept
      <4>1. <<Birth[c.player], c.id>> \in {<<e.from, e.id>>}
        OBVIOUS
      <4>2. <<Birth[c.player], c.id>> = <<e.from, e.id>>
        BY <4>1
      <4> QED BY <2>2, <3>1, <4>2
    <3>4. holds'[c.target][c.player] = holds[c.target][c.player]
      BY <1>1, <1>3, <2>1, <3>3, RollbackAtTarget
    <3> QED BY <2>1, <2>4, <3>2, <3>4 DEF Kept
  <2> QED BY <1>3, <2>1, <2>3, <2>4, AckedKeeps
<1> QED BY <1>4, <1>5, <1>6, <1>7 DEF Deliver

LEMMA LandingAcked ==
  ASSUME Disciplined, AInv, NEW l \in landings, LandingStep(l)
  PROVE  Acked'
<1>1. /\ TypeOK /\ OneInitiator /\ OneLanding /\ SameTarget /\ Numbered /\ Filed /\ Landed
      /\ l.at \in Servers \ Initiators /\ l.from \in Initiators /\ l.id \in Ids
      /\ l.player \in Players
  BY Facts DEF AInv, OInv, LInv, TInv, Disciplined
<1>2. UNCHANGED calls
  BY DEF LandingStep, LandingFails, LandPlayer, StoreLanded
<1> SUFFICES ASSUME NEW c \in calls, Shipped(c) PROVE AckedBy(c)'
  BY <1>2 DEF Acked, Shipped
<1>3. /\ c.target \in Servers \ Initiators /\ c.from \in Initiators
      /\ c.player \in Players /\ c.id \in Ids /\ c.pc # "admitted"
      /\ AckedBy(c)
      /\ \A e \in Load(c.target, c.id) :
           e \in table[c.target] /\ e.id = c.id /\ e.player = c.player /\ e.from = c.from
  BY ShippedIs
<1>4. CASE LandingFails(l)
  <2>1. /\ landings' \subseteq landings /\ UNCHANGED <<table, state, holds>>
        /\ inbox' = [inbox EXCEPT ![l.at] = @ \ {l.id}] /\ Answer(l, FALSE)
    BY <1>4 DEF LandingFails
  <2>2. \A e \in Load(c.target, c.id) :
          Kept(c.target, c.id, c.player) => Kept(c.target, c.id, c.player)'
    <3>1. \A e \in Load(c.target, c.id) : l.at = c.target => l.id # c.id
      BY <1>1, <1>3 DEF Filed
    <3> QED BY <1>1, <1>3, <2>1, <3>1 DEF Kept, TypeOK
  <2>3. Load(c.target, c.id)' = Load(c.target, c.id)
    BY <2>1 DEF Load
  <2>4. \A m \in net' : m.type = "CommitAck" /\ m.ok /\ m.id = c.id =>
          m \in net \/ Load(c.target, c.id) # {}
    BY <2>1, AnswerIs
  <2> QED BY <1>3, <2>1, <2>2, <2>3, <2>4, AckedKeeps
<1>5. CASE LandPlayer(l)
  <2>1. /\ UNCHANGED <<table, state, inbox, net>>
        /\ \A s \in Servers, p \in Players :
             holds'[s][p] = IF s = l.at /\ p = l.player THEN {<<l.from, l.id>>} ELSE holds[s][p]
    BY <1>1, <1>5, LandEffect
  <2>k. PICK y : landings' = (landings \ {l}) \union {y} /\ y.at = l.at /\ y.player = l.player
    BY <1>1, <1>5, LandEffect
  <2>2. \A x \in landings' : \E k \in landings : k.at = x.at /\ k.player = x.player
    BY <2>k
  <2>3. Kept(c.target, c.id, c.player) => Kept(c.target, c.id, c.player)'
    BY <1>3, <2>1, <2>2 DEF Kept
  <2>4. Load(c.target, c.id)' = Load(c.target, c.id)
    BY <2>1 DEF Load
  <2> QED BY <1>3, <2>1, <2>3, <2>4, AckedKeeps
<1>6. CASE StoreLanded(l)
  <2>1. /\ l.step = "store" /\ landings' = landings \ {l}
        /\ UNCHANGED <<calls, inbox, holds>> /\ Load(l.at, l.id) = {}
        /\ state'[<<l.at, l.from, l.id>>] = "Transferred"
        /\ \A s \in Servers \ Initiators : \A e \in table[s] :
             state'[<<s, e.from, e.id>>] = state[<<s, e.from, e.id>>]
    BY <1>6, StoreEffect
  <2>2. PICK r : /\ r.id = l.id /\ r.from = l.from /\ r.player = l.player
                 /\ \A s \in Servers :
                      table'[s] = IF s = l.at THEN table[s] \union {r} ELSE table[s]
    BY <1>6, StoreEffect
  <2>3. \A m \in net' : m \in net \/ m.id = l.id
    BY <1>6, AnswerIs DEF StoreLanded
  <2>4. CASE l.id = c.id
    <3>1. /\ l.at = c.target /\ l.player = c.player
          /\ Birth[c.player] = l.from
      BY <1>1, <1>3, <2>4, Witnesses DEF SameTarget, OneInitiator, Numbered
    <3>2. \A e : e \in Load(c.target, c.id)' <=> e = r
      BY <1>1, <2>1, <2>2, <2>4, <3>1, ZenonT(30) DEF Load
    <3>3. Kept(c.target, c.id, c.player)'
      BY <1>1, <2>1, <2>4, <3>1 DEF Kept, Landed, OneLanding
    <3> QED BY <2>1, <2>2, <2>4, <3>1, <3>2, <3>3 DEF AckedBy
  <2>5. CASE l.id # c.id
    <3>1. Load(c.target, c.id)' = Load(c.target, c.id)
      BY <1>3, <2>2, <2>5 DEF Load
    <3> QED BY <1>3, <2>1, <2>3, <2>5, <3>1, AckedKeeps DEF Kept
  <2> QED BY <2>4, <2>5
<1> QED BY <1>4, <1>5, <1>6 DEF LandingStep

LEMMA LoopAcked ==
  ASSUME Disciplined, AInv, NEW s \in Servers, NEW x \in table[s], Expire(s, x) \/ Cleanup(s, x)
  PROVE  Acked'
<1>1. TypeOK /\ OneInitiator /\ Timely /\ x.id \in Ids /\ x.from \in Servers
      /\ (s \notin Initiators => x.from \in Initiators)
  BY Facts DEF AInv, OInv, LInv, TInv, Disciplined
<1>2. UNCHANGED <<calls, net, inbox, landings>> /\ Old(x)
  BY DEF Expire, Cleanup
<1> SUFFICES ASSUME NEW c \in calls, Shipped(c) PROVE AckedBy(c)'
  BY <1>2 DEF Acked, Shipped
<1>3. /\ c.target \in Servers \ Initiators /\ c.from \in Initiators
      /\ c.player \in Players /\ c.id \in Ids /\ c.pc # "admitted"
      /\ AckedBy(c)
      /\ \A e \in Load(c.target, c.id) :
           e \in table[c.target] /\ e.id = c.id /\ e.player = c.player /\ e.from = c.from
  BY ShippedIs
<1>4. s = c.target => x.id # c.id
  BY <1>1, <1>2, <1>3 DEF Old, OneInitiator
<1>5. CASE Expire(s, x)
  <2>1. UNCHANGED table /\ SetStateOf(s, x.id, "TimedOut") /\ OnMigrationRollback(s, x.id)
    BY <1>5 DEF Expire, Settle
  <2>2. \A e \in Load(c.target, c.id) :
          state'[<<c.target, e.from, e.id>>] = state[<<c.target, e.from, e.id>>]
    BY <1>1, <1>3, <1>4, <2>1, SettleAt
  <2>3. ASSUME Kept(c.target, c.id, c.player)
        PROVE  holds'[c.target][c.player] = holds[c.target][c.player]
    <3>1. CASE s \in Initiators
      BY <1>1, <2>1, <3>1, RollbackAtSource
    <3>2. CASE s \notin Initiators
      <4>1. \A e \in Load(s, x.id) : e.id = x.id
        BY DEF Load
      <4>2. s = c.target =>
              \A e \in Load(s, x.id) : holds[c.target][c.player] # {<<e.from, e.id>>}
        <5> SUFFICES ASSUME s = c.target, NEW e \in Load(s, x.id),
                            {<<Birth[c.player], c.id>>} = {<<e.from, e.id>>}
                     PROVE  FALSE
          BY <2>3 DEF Kept
        <5>1. <<Birth[c.player], c.id>> \in {<<e.from, e.id>>}
          OBVIOUS
        <5>2. <<Birth[c.player], c.id>> = <<e.from, e.id>>
          BY <5>1
        <5> QED BY <1>4, <4>1, <5>2
      <4> QED BY <1>1, <1>3, <2>1, <3>2, <4>2, RollbackAtTarget
    <3> QED BY <3>1, <3>2
  <2>4. Load(c.target, c.id)' = Load(c.target, c.id)
    BY <2>1 DEF Load
  <2> QED BY <1>2, <1>3, <2>2, <2>3, <2>4, AckedKeeps DEF Kept
<1>6. CASE Cleanup(s, x)
  <2>1. UNCHANGED <<state, holds>> /\ table' = [table EXCEPT ![s] = @ \ {x}]
    BY <1>6 DEF Cleanup
  <2>2. Load(c.target, c.id)' = Load(c.target, c.id)
    BY <1>1, <1>3, <1>4, <2>1 DEF Load, TypeOK
  <2> QED BY <1>2, <1>3, <2>1, <2>2, AckedKeeps DEF Kept
<1> QED BY <1>5, <1>6

-----------------------------------------------------------------------------
(* Where a player lives *)

\* No step makes a player homeless that leaves his birthplace, whoever visits, whoever has
\* been moved, and lets nobody act for a moved one.
LEMMA HomeKeeps ==
  ASSUME NEW p \in Players, Home(p),
         holds'[Birth[p]][p] = holds[Birth[p]][p],
         Here(p) => \A s \in Servers \ {Birth[p]} : Visiting(s, p) => Visiting(s, p)',
         \A t \in Servers, i \in Ids : Moved(p, t, i) =>
           /\ Kept(t, i, p)' /\ Closing(t, i)'
           /\ \A s \in Servers \ {Birth[p], t} : Visiting(s, p) => Visiting(s, p)',
         \A k \in calls' : k.player = p =>
           \/ k \in calls
           \/ /\ k.pc # "completing"
              /\ \/ holds[Birth[p]][p] # {}
                 \/ \E x \in calls : x.player = p /\ x.pc # "completing",
         \A m \in net' : m.player = p /\ m.type \in ToTarget =>
           \/ m \in net
           \/ /\ m.type # "Complete"
              /\ \E x \in calls : x.player = p /\ x.pc # "completing"
  PROVE  Home(p)'
<1>1. CASE Here(p)
  <2>1. Here(p)'
    BY <1>1 DEF Here, ToTarget
  <2> QED BY <2>1 DEF Home
<1>2. ASSUME NEW t \in Servers, NEW i \in Ids, Moved(p, t, i)
      PROVE  Home(p)'
  <2>1. Moved(p, t, i)'
    BY <1>2 DEF Moved
  <2> QED BY <2>1 DEF Home
<1> QED BY <1>1, <1>2 DEF Home

\* Whoever is on a server but not by birth is on a target.
LEMMA GuestAt ==
  ASSUME Disciplined, AInv, Homes, NEW p \in Players
  PROVE  /\ \A s \in Servers \ {Birth[p]} : holds[s][p] # {} => s \notin Initiators
         /\ \A t \in Servers, i \in Ids : Moved(p, t, i) =>
              /\ t \notin Initiators /\ Concerns(i, p)
              /\ holds[t][p] = {<<Birth[p], i>>} /\ Birth[p] \in Initiators
<1>1. Tagged /\ Numbered
  BY DEF AInv, Homes
<1>2. \A t \in Servers, i \in Ids : Moved(p, t, i) =>
        /\ t \notin Initiators /\ holds[t][p] = {<<Birth[p], i>>}
  BY <1>1 DEF Tagged, Moved, Kept
<1>3. Birth[p] \in Servers
  BY MigrationAssumption DEF MigrationAssumption
<1>4. \A t \in Servers, i \in Ids : Moved(p, t, i) => Concerns(i, p)
  BY <1>2, <1>3, Witnesses
<1> QED BY <1>1, <1>2, <1>4 DEF Tagged, Numbered

\* Whatever does not concern the targets, or p there.
LEMMA QuietHome ==
  ASSUME Disciplined, AInv, Homes, NEW p \in Players, UNCHANGED <<inbox, landings>>,
         \A s \in Servers : holds'[s][p] = holds[s][p],
         \A s \in Servers \ Initiators :
           /\ table'[s] = table[s]
           /\ \A e \in table[s] : state'[<<s, e.from, e.id>>] = state[<<s, e.from, e.id>>],
         \A m \in net : m.type = "Complete" => m \in net',
         \A k \in calls' : k.player = p =>
           \/ k \in calls
           \/ /\ k.pc # "completing"
              /\ \/ holds[Birth[p]][p] # {}
                 \/ \E x \in calls : x.player = p /\ x.pc # "completing",
         \A m \in net' : m.player = p /\ m.type \in ToTarget =>
           \/ m \in net
           \/ /\ m.type # "Complete"
              /\ \E x \in calls : x.player = p /\ x.pc # "completing"
  PROVE  Home(p)'
<1>1. Home(p) /\ Birth[p] \in Servers
  BY MigrationAssumption DEF AInv, Homes, MigrationAssumption
<1>2. \A s \in Servers \ {Birth[p]} : holds[s][p] # {} => s \notin Initiators
  BY GuestAt
<1>3. ASSUME NEW s \in Servers \ {Birth[p]}, Visiting(s, p) PROVE Visiting(s, p)'
  <2>1. CASE holds[s][p] = {}
    BY <2>1 DEF Visiting
  <2>2. CASE holds[s][p] # {}
    <3>1. Pending(s, p) /\ s \in Servers \ Initiators
      BY <1>2, <1>3, <2>2 DEF Visiting
    <3>2. CASE \E l \in landings : l.at = s /\ l.player = p /\ l.step = "store"
                                  /\ holds[s][p] = {<<l.from, l.id>>}
      BY <3>2 DEF Visiting, Pending
    <3>3. ASSUME NEW e \in table[s], e.player = p, holds[s][p] = {<<e.from, e.id>>},
                 state[<<s, e.from, e.id>>] = "Transferred"
          PROVE  Visiting(s, p)'
      BY <3>1, <3>3 DEF Visiting, Pending
    <3> QED BY <3>1, <3>2, <3>3 DEF Pending
  <2> QED BY <2>1, <2>2
<1>4. ASSUME NEW t \in Servers, NEW i \in Ids, Moved(p, t, i)
      PROVE  Kept(t, i, p)' /\ Closing(t, i)'
  <2>1. t \notin Initiators
    BY <1>4, GuestAt
  <2>2. Kept(t, i, p)'
    BY <1>4 DEF Moved, Kept
  <2>3. \A e \in Load(t, i)' : e \in Load(t, i) /\ state'[<<t, e.from, i>>] = state[<<t, e.from, i>>]
    BY <2>1 DEF Load
  <2> QED BY <1>4, <2>2, <2>3 DEF Moved, Closing
<1> QED BY <1>1, <1>3, <1>4, HomeKeeps

LEMMA AdmitHome ==
  ASSUME Disciplined, AInv, Homes, NEW s \in Servers, NEW g \in Callers, NEW q \in Players,
         NEW t \in Servers, Admit(s, g, q, t), NEW p \in Players
  PROVE  Home(p)'
<1> DEFINE d == [from |-> s, caller |-> g, player |-> q, target |-> t, id |-> 0,
                 pc |-> "admitted"]
<1>1. d.player = q /\ d.pc = "admitted"
  OBVIOUS
<1>2. /\ calls' = calls \union {d}
      /\ UNCHANGED <<table, state, inbox, landings, holds, net>>
  BY DEF Admit
<1> HIDE DEF d
<1>3. holds[Birth[q]][q] # {}
  BY AdmitNames
<1> QED BY <1>1, <1>2, <1>3, QuietHome

LEMMA StartHome ==
  ASSUME Disciplined, AInv, Homes, NEW c \in calls, Start(c), NEW p \in Players
  PROVE  Home(p)'
<1>1. PICK i, d, o :
        /\ calls' = (calls \ {c}) \union {d} /\ c.pc = "admitted"
        /\ d.player = c.player /\ d.pc = "awaitPrepare"
        /\ net' = net \union {o}
        /\ o.type = "Request" /\ o.player = c.player
        /\ \A s \in Servers \ Initiators :
             /\ table'[s] = table[s]
             /\ \A e \in table[s] :
                  state'[<<s, e.from, e.id>>] = state[<<s, e.from, e.id>>]
        /\ UNCHANGED <<landings, inbox, holds>>
  BY StartEffect
<1> QED BY <1>1, QuietHome

LEMMA DriverHome ==
  ASSUME Disciplined, AInv, Homes, NEW c \in calls, DriverStep(c), ~ Start(c), NEW p \in Players,
         ~ Commit(c) \/ c.player # p
  PROVE  Home(p)'
<1>1. /\ TypeOK /\ UNCHANGED <<table, inbox, landings>>
      /\ \A s \in Servers \ Initiators : \A e \in table[s] :
           state'[<<s, e.from, e.id>>] = state[<<s, e.from, e.id>>]
      /\ \A m \in net : m.type = "Complete" => m \in net'
  BY DriverForms DEF AInv, Homes, OInv, LInv, TInv
<1>2. \A s \in Servers : holds'[s][p] = holds[s][p]
  <2>1. CASE Commit(c)
    BY <1>1, <2>1, HoldsAt DEF Commit
  <2> QED BY <2>1, DriverForms
<1>3. ASSUME c.player # p
      PROVE  /\ \A k \in calls' : k.player = p => k \in calls
             /\ \A m \in net' : m.player = p => m \in net
  <2>1. \A m \in net' : m.player = p => m \in net
    BY <1>3, DriverShape
  <2>2. \A k \in calls' : k.player = p => k \in calls
    BY <1>3, DriverShape
  <2> QED BY <2>1, <2>2
<1>4. ASSUME ~ Commit(c)
      PROVE  /\ \A k \in calls' : k \in calls \/ (k.pc # "completing" /\ c.pc # "completing")
             /\ \A m \in net' : m \in net \/ (m.type # "Complete" /\ c.pc # "completing")
  <2>1. \/ Return(c)
        \/ \E pc : Goto(c, pc) /\ pc # "completing" /\ c.pc # "completing"
    BY <1>4, DriverForms
  <2>2. \A k \in calls' : k \in calls \/ (k.pc # "completing" /\ c.pc # "completing")
    <3>1. CASE Return(c)
      BY <3>1 DEF Return
    <3>2. ASSUME NEW pc, Goto(c, pc), pc # "completing", c.pc # "completing"
          PROVE  \A k \in calls' : k \in calls \/ (k.pc # "completing" /\ c.pc # "completing")
      BY <1>1, <3>2, Advance
    <3> QED BY <2>1, <3>1, <3>2
  <2>3. \/ net' \subseteq net
        \/ /\ c.pc # "completing"
           /\ \E type : type # "Complete" /\ net' \subseteq net \union {Out(type, c)}
    BY <1>4, DriverForms
  <2>4. \A m \in net' : m \in net \/ (m.type # "Complete" /\ c.pc # "completing")
    BY <2>3, OutIs
  <2> QED BY <2>2, <2>4
<1>5. CASE c.player # p
  BY <1>1, <1>2, <1>3, <1>5, QuietHome
<1>6. CASE ~ Commit(c) /\ c.player = p
  BY <1>1, <1>2, <1>4, <1>6, QuietHome
<1> QED BY <1>5, <1>6

\* The commit moves the player: the target has him, and what is on its way to the target
\* about him is no older than this migration and does not end it.
LEMMA CommitHome ==
  ASSUME Disciplined, Solo, AInv, Homes, NEW c \in calls, Commit(c)
  PROVE  Home(c.player)'
<1> DEFINE p == c.player
           t == c.target
           i == c.id
           o == Out("Complete", c)
<1>1. /\ TypeOK /\ OneInitiator /\ Once /\ SameTarget /\ Latest /\ InOrder /\ FromBirth
      /\ Home(p)
  BY Facts DEF AInv, Homes, OInv, LInv, TInv, Disciplined
<1>2. /\ c.pc = "committing" /\ Shipped(c)
      /\ holds' = [holds EXCEPT ![c.from][c.player] = {}]
      /\ SetState(c.from, c.from, c.id, "Committed")
      /\ net' = net \union {o}
      /\ Goto(c, "completing")
      /\ UNCHANGED <<table, inbox, landings>>
  BY DEF Commit, Shipped
<1>3. /\ t \in Servers \ Initiators /\ c.from \in Initiators /\ p \in Players /\ i \in Ids
      /\ AckedBy(c)
      /\ \A e \in Load(t, i) : e \in table[t] /\ e.id = i /\ e.player = p /\ e.from = c.from
  BY <1>2, ShippedIs
<1>4. /\ o.type = "Complete" /\ o.from = c.from /\ o.to = t /\ o.id = i /\ o.player = p
  BY OutIs
<1>5. PICK d : /\ calls' = (calls \ {c}) \union {d}
               /\ d.player = p /\ d.target = t /\ d.id = i /\ d.pc = "completing"
  BY <1>1, <1>2, Advance
<1>6. c.from = Birth[p] /\ Birth[p] \in Servers /\ t # Birth[p]
  BY <1>1, <1>3, MigrationAssumption DEF FromBirth, MigrationAssumption
<1>7. Here(p)
  BY <1>1, <1>2 DEF Home, Moved
<1> HIDE DEF p, t, i, o
<1>8. /\ holds'[Birth[p]][p] = {}
      /\ \A s \in Servers \ {Birth[p]} : holds'[s][p] = holds[s][p]
  <2>1. \A u \in Servers, q \in Players :
          holds'[u][q] = IF u = c.from /\ q = c.player THEN {} ELSE holds[u][q]
    <3>1. TypeOK /\ holds' = [holds EXCEPT ![c.from][c.player] = {}]
      BY <1>1, <1>2
    <3> QED BY <3>1 DEF TypeOK
  <2> QED BY <1>3, <1>6, <2>1 DEF p
<1>9. Kept(t, i, p)'
  BY <1>2, <1>3, <1>6, <1>8 DEF Kept, AckedBy, p, t, i
<1>s. ASSUME NEW s \in Servers \ Initiators, NEW e \in table[s]
      PROVE  state'[<<s, e.from, e.id>>] = state[<<s, e.from, e.id>>]
  BY <1>1, <1>2, <1>3, EntryTyped, StateElsewhere
<1>10. Closing(t, i)'
  <2>1. \A e \in Load(t, i)' : e \in Load(t, i) /\ e \in table[t] /\ e.id = i
    BY <1>2 DEF Load
  <2>2. \A e \in Load(t, i) : state[<<t, e.from, i>>] = "Transferred"
    BY <1>3 DEF AckedBy, t, i
  <2>3. \A e \in Load(t, i)' : state'[<<t, e.from, i>>] = "Transferred"
    BY <1>3, <1>s, <2>1, <2>2
  <2>4. o \in net'
    BY <1>2
  <2> QED BY <1>4, <2>3, <2>4 DEF Closing
<1>11. \A k \in calls' : k.player = p => k.pc = "completing" /\ k.id = i /\ k.target = t
  BY <1>5 DEF Solo, p
<1>12. ASSUME NEW m \in net', m.player = p, m.type \in ToTarget
       PROVE  /\ m.to = t => m.id = i /\ m.type # "Rollback"
              /\ m.type = "Complete" => m.to = t
  <2>1. CASE m = o
    BY <1>4, <2>1
  <2>2. CASE m \in net
    <3>1. m.id \in Ids /\ m.from = c.from
      BY <1>1, <1>3, <2>2, Facts DEF AInv, Homes, OneInitiator
    <3>2. m.type # "Complete"
      BY <1>7, <1>12, <2>2 DEF Here
    <3>3. m.id <= i
      BY <1>1, <1>2, <1>3, <1>12, <2>2, <3>1, Witnesses DEF Latest, p, i
    <3>4. m.to = t => i <= m.id
      <4>1. PICK e : e \in Load(t, i)
        BY <1>2, <1>3 DEF AckedBy, t, i
      <4>2. e \in table[t] /\ e.id = i /\ e.player = p
        BY <1>3, <4>1
      <4>3. Passed(t, i, p)
        BY <1>1, <1>3, <4>2 DEF InOrder
      <4> QED BY <1>12, <2>2, <4>3 DEF Passed
    <3>5. m.to = t => m.id = i
      BY <1>3, <3>1, <3>3, <3>4, Facts DEF AInv, Homes, Disciplined
    <3>6. m.id = i => m.type # "Rollback"
      BY <1>1, <1>2, <2>2, <3>1 DEF Once, Final, i
    <3> QED BY <3>2, <3>5, <3>6
  <2> QED BY <1>2, <2>1, <2>2
<1>13. ASSUME NEW s \in Servers \ {Birth[p], t} PROVE Visiting(s, p)'
  <2>1. Visiting(s, p)
    BY <1>7 DEF Here
  <2>2. CASE holds[s][p] = {}
    BY <1>8, <2>2 DEF Visiting
  <2>3. CASE \E l \in landings : l.at = s /\ l.player = p /\ l.step = "store"
                                 /\ holds[s][p] = {<<l.from, l.id>>}
    BY <1>2, <1>8, <2>3 DEF Visiting, Pending
  <2>4. ASSUME NEW e \in table[s], e.player = p, holds[s][p] = {<<e.from, e.id>>},
               state[<<s, e.from, e.id>>] = "Transferred"
        PROVE  Visiting(s, p)'
    <3>1. s \notin Initiators
      BY <1>3, <2>4, GuestAt
    <3>2. state'[<<s, e.from, e.id>>] = "Transferred"
      BY <1>s, <2>4, <3>1
    <3> QED BY <1>2, <1>8, <2>4, <3>2 DEF Visiting, Pending
  <2> QED BY <2>1, <2>2, <2>3, <2>4 DEF Visiting, Pending
<1>14. Moved(p, t, i)'
  BY <1>6, <1>8, <1>9, <1>10, <1>11, <1>12, <1>13 DEF Moved
<1> QED BY <1>3, <1>14 DEF Home, p, t

\* A migration that has brought a player somewhere concerns nobody else there.
LEMMA MovedIs ==
  ASSUME Disciplined, AInv, Homes, NEW p \in Players, NEW t \in Servers, NEW i \in Ids, Moved(p, t, i)
  PROVE  /\ t \in Servers \ Initiators /\ t # Birth[p]
         /\ holds[t][p] = {<<Birth[p], i>>} /\ Kept(t, i, p) /\ Closing(t, i)
         /\ \A l \in landings : l.at = t => l.id # i
         /\ \A m \in net : m.id = i => m.player = p
         /\ \A q \in Players : Concerns(i, q) => q = p
<1>1. /\ t \in Servers \ Initiators /\ t # Birth[p] /\ Concerns(i, p)
      /\ holds[t][p] = {<<Birth[p], i>>} /\ Kept(t, i, p) /\ Closing(t, i)
  BY GuestAt DEF Moved
<1>2. \A q \in Players : Concerns(i, q) => q = p
  BY <1>1 DEF AInv, Homes, Numbered
<1>3. \A m \in net : m.id = i => m.player = p
  BY <1>2, Facts, Witnesses DEF AInv, Homes, Disciplined
<1>4. \A l \in landings : l.at = t => l.id # i
  BY <1>1, <1>2, Facts, Witnesses DEF AInv, Homes, Disciplined, Kept
<1> QED BY <1>1, <1>2, <1>3, <1>4

\* What a message can do: ...
LEMMA DataHome ==
  ASSUME Disciplined, AInv, Homes, NEW m \in net, HandleData(m), NEW p \in Players
  PROVE  Home(p)'
<1>1. TypeOK /\ Home(p) /\ m.to \in Servers \ Initiators /\ m.id \in Ids
  BY Facts DEF AInv, Homes, OInv, LInv, TInv, Disciplined
<1>2. /\ m.type = "Data" /\ UNCHANGED <<calls, table, state, holds>>
      /\ \A k \in net : k # m => k \in net'
  BY <1>1, DataEffect
<1>3. CASE m.id \in inbox[m.to]
  <2>1. /\ UNCHANGED <<inbox, landings>>
        /\ \A k \in net' : k \in net \/ k.type = "CommitAck"
    BY <1>1, <1>3, DataEffect
  <2>2. /\ \A k \in net : k.type = "Complete" => k \in net'
        /\ \A k \in net' : k.type \in ToTarget => k \in net
    BY <1>2, <2>1 DEF ToTarget
  <2> QED BY <1>2, <2>1, <2>2, QuietHome
<1>4. CASE m.id \notin inbox[m.to]
  <2>1. PICK l : /\ landings' = landings \union {l}
                 /\ l.at = m.to /\ l.id = m.id /\ l.player = m.player
    BY <1>1, <1>4, DataEffect
  <2>2. /\ net' \subseteq net
        /\ \A s \in Servers : inbox[s] \subseteq inbox'[s]
    BY <1>1, <1>4, DataEffect
  <2>3. ASSUME NEW s, Visiting(s, p) PROVE Visiting(s, p)'
    BY <1>2, <2>1, <2>3 DEF Visiting, Pending
  <2>4. ASSUME NEW t \in Servers, NEW i \in Ids, Moved(p, t, i)
        PROVE  Kept(t, i, p)' /\ Closing(t, i)'
    <3>1. Kept(t, i, p) /\ Closing(t, i)
      BY <2>4 DEF Moved
    <3>2. ~ (m.to = t /\ m.player = p)
      BY <1>2, <1>4, <2>4, <3>1 DEF Moved, Kept, ToTarget
    <3>3. Kept(t, i, p)'
      BY <1>2, <2>1, <2>2, <3>1, <3>2 DEF Kept
    <3>4. Closing(t, i)'
      BY <1>2, <3>1 DEF Closing, Load
    <3> QED BY <3>3, <3>4
  <2> QED BY <1>1, <1>2, <2>2, <2>3, <2>4, HomeKeeps
<1> QED BY <1>3, <1>4

\* ... a Rollback takes away whoever visits by that migration and nobody else, ...
LEMMA RollbackVisits ==
  ASSUME Disciplined, AInv, Homes, NEW s \in Servers \ Initiators, NEW i \in Ids, NEW st,
         OnMigrationRollback(s, i), SetStateOf(s, i, st), UNCHANGED <<table, landings>>,
         NEW p \in Players, NEW u \in Servers \ {Birth[p]}, Visiting(u, p)
  PROVE  Visiting(u, p)'
<1>1. TypeOK /\ OneInitiator
  BY DEF AInv, Homes, OInv, LInv, TInv, Disciplined
<1>2. /\ holds'[u][p] = holds[u][p] \/ holds'[u][p] = {}
      /\ \A e \in Load(s, i) : <<e.from, e.id>> \notin holds'[s][p]
  BY <1>1, RollbackAtTarget
<1>3. CASE holds'[u][p] = {} \/ holds[u][p] = {}
  BY <1>2, <1>3 DEF Visiting
<1>4. CASE holds'[u][p] = holds[u][p] /\ holds[u][p] # {}
  <2>1. CASE \E l \in landings : l.at = u /\ l.player = p /\ l.step = "store"
                                 /\ holds[u][p] = {<<l.from, l.id>>}
    BY <1>4, <2>1 DEF Visiting, Pending
  <2>2. ASSUME NEW e \in table[u], e.player = p, holds[u][p] = {<<e.from, e.id>>},
               state[<<u, e.from, e.id>>] = "Transferred"
        PROVE  Visiting(u, p)'
    <3>1. ~ (u = s /\ e.id = i)
      <4> SUFFICES ASSUME u = s, e.id = i PROVE FALSE
        OBVIOUS
      <4>1. e \in Load(s, i)
        BY DEF Load
      <4>2. <<e.from, e.id>> \in holds'[s][p]
        BY <1>4, <2>2
      <4> QED BY <1>2, <4>1, <4>2
    <3>2. state'[<<u, e.from, e.id>>] = "Transferred"
      BY <1>1, <2>2, <3>1, SettleAt
    <3> QED BY <1>4, <2>2, <3>2 DEF Visiting, Pending
  <2> QED BY <1>4, <2>1, <2>2 DEF Visiting, Pending
<1> QED BY <1>2, <1>3, <1>4

LEMMA RollbackMoved ==
  ASSUME Disciplined, AInv, Homes, NEW s \in Servers \ Initiators, NEW i \in Ids, NEW st,
         OnMigrationRollback(s, i), SetStateOf(s, i, st), UNCHANGED <<table, landings>>,
         \A k \in net : k.type = "Complete" => k \in net',
         NEW p \in Players, NEW t \in Servers, NEW j \in Ids, Moved(p, t, j),
         s = t => i # j, j \in inbox'[t]
  PROVE  Kept(t, j, p)' /\ Closing(t, j)'
<1>1. TypeOK /\ OneInitiator
  BY DEF AInv, Homes, OInv, LInv, TInv, Disciplined
<1>2. /\ t \in Servers \ Initiators /\ holds[t][p] = {<<Birth[p], j>>}
      /\ Kept(t, j, p) /\ Closing(t, j)
  BY MovedIs
<1>3. holds'[t][p] = holds[t][p]
  <2>1. \A e \in Load(s, i) : e.id = i
    BY DEF Load
  <2>2. s = t => \A e \in Load(s, i) : holds[t][p] # {<<e.from, e.id>>}
    <3> SUFFICES ASSUME s = t, NEW e \in Load(s, i), {<<Birth[p], j>>} = {<<e.from, e.id>>}
                 PROVE  FALSE
      BY <1>2
    <3>1. <<Birth[p], j>> \in {<<e.from, e.id>>}
      OBVIOUS
    <3>2. <<Birth[p], j>> = <<e.from, e.id>>
      BY <3>1
    <3> QED BY <2>1, <3>2
  <2> QED BY <1>1, <1>2, <2>2, RollbackAtTarget
<1>4. Kept(t, j, p)'
  BY <1>2, <1>3 DEF Kept
<1>5. \A e \in Load(t, j)' : e \in Load(t, j) /\ state'[<<t, e.from, j>>] = state[<<t, e.from, j>>]
  <2>1. \A e \in Load(t, j)' : e \in Load(t, j) /\ e \in table[t] /\ e.id = j
    BY DEF Load
  <2> QED BY <1>1, <2>1, SettleAt
<1> QED BY <1>2, <1>4, <1>5 DEF Closing

LEMMA RollbackHome ==
  ASSUME Disciplined, AInv, Homes, NEW m \in net, HandleRollback(m), NEW p \in Players
  PROVE  Home(p)'
<1>1. TypeOK /\ OneInitiator /\ Home(p) /\ m.to \in Servers \ Initiators /\ m.id \in Ids
      /\ Birth[p] \in Servers
  BY Facts, MigrationAssumption DEF AInv, Homes, OInv, LInv, TInv, Disciplined, MigrationAssumption
<1>2. /\ m.type = "Rollback" /\ net' = net \ {m} /\ UNCHANGED <<calls, table, landings>>
      /\ SetStateOf(m.to, m.id, "RolledBack") /\ OnMigrationRollback(m.to, m.id)
      /\ inbox' = [inbox EXCEPT ![m.to] = @ \ {e.id : e \in Load(m.to, m.id)}]
  BY DEF HandleRollback, Settle
<1>3. holds'[Birth[p]][p] = holds[Birth[p]][p]
  BY <1>1, <1>2, RollbackAtTarget
<1>4. \A s \in Servers \ {Birth[p]} : Visiting(s, p) => Visiting(s, p)'
  BY <1>1, <1>2, RollbackVisits
<1>5. ASSUME NEW t \in Servers, NEW i \in Ids, Moved(p, t, i)
      PROVE  Kept(t, i, p)' /\ Closing(t, i)'
  <2>1. m.to = t => m.id # i
    BY <1>2, <1>5, MovedIs DEF Moved, ToTarget
  <2>2. i \in inbox[t]
    BY <1>5 DEF Moved, Kept
  <2>3. \A e \in Load(m.to, m.id) : e.id = m.id
    BY DEF Load
  <2>4. i \in inbox'[t]
    BY <1>1, <1>2, <2>1, <2>2, <2>3 DEF TypeOK
  <2>5. \A k \in net : k.type = "Complete" => k \in net'
    BY <1>2
  <2> QED BY <1>1, <1>2, <1>5, <2>1, <2>4, <2>5, RollbackMoved
<1> QED BY <1>1, <1>2, <1>3, <1>4, <1>5, HomeKeeps

\* ... and a Complete ends the record of whoever has been moved.
LEMMA CompleteHome ==
  ASSUME Disciplined, AInv, Homes, NEW m \in net, HandleComplete(m), NEW p \in Players
  PROVE  Home(p)'
<1>1. TypeOK /\ OneInitiator /\ Numbered /\ Home(p) /\ m.to \in Servers \ Initiators
      /\ m.id \in Ids /\ m.player \in Players
  BY Facts DEF AInv, Homes, OInv, LInv, TInv, Disciplined
<1>2. /\ m.type = "Complete" /\ net' = net \ {m}
      /\ UNCHANGED <<calls, table, inbox, landings, holds>>
      /\ SetStateOf(m.to, m.id, "Completed")
  BY DEF HandleComplete, Settle
<1>3. ASSUME NEW s \in Servers, Visiting(s, p), ~ (s = m.to /\ m.player = p)
      PROVE  Visiting(s, p)'
  <2>1. CASE holds[s][p] = {}
    BY <1>2, <2>1 DEF Visiting
  <2>2. CASE \E l \in landings : l.at = s /\ l.player = p /\ l.step = "store"
                                 /\ holds[s][p] = {<<l.from, l.id>>}
    BY <1>2, <2>2 DEF Visiting, Pending
  <2>3. ASSUME NEW e \in table[s], e.player = p, holds[s][p] = {<<e.from, e.id>>},
               state[<<s, e.from, e.id>>] = "Transferred"
        PROVE  Visiting(s, p)'
    <3>1. ~ (s = m.to /\ e.id = m.id)
      <4> SUFFICES ASSUME s = m.to, e.id = m.id PROVE FALSE
        OBVIOUS
      <4>1. Concerns(m.id, p) /\ Concerns(m.id, m.player)
        BY <1>3, <2>3, Witnesses
      <4> QED BY <1>1, <1>3, <4>1 DEF Numbered
    <3>2. state'[<<s, e.from, e.id>>] = "Transferred"
      BY <1>1, <1>2, <2>3, <3>1, SettleAt
    <3> QED BY <1>2, <2>3, <3>2 DEF Visiting, Pending
  <2> QED BY <1>3, <2>1, <2>2, <2>3 DEF Visiting, Pending
<1>4. ASSUME NEW t \in Servers, NEW i \in Ids, Moved(p, t, i)
      PROVE  /\ Kept(t, i, p)' /\ Closing(t, i)'
             /\ \A s \in Servers \ {Birth[p], t} : Visiting(s, p) => Visiting(s, p)'
  <2>1. Kept(t, i, p)'
    BY <1>2, <1>4 DEF Moved, Kept
  <2>2. \A e \in Load(t, i)' : e \in Load(t, i) /\ e \in table[t] /\ e.id = i
    BY <1>2 DEF Load
  <2>3. Closing(t, i)'
    <3>1. CASE m.to = t /\ m.id = i
      BY <1>1, <1>2, <2>2, <3>1, SettleAt DEF Closing
    <3>2. CASE ~ (m.to = t /\ m.id = i)
      <4>1. \A e \in Load(t, i)' : state'[<<t, e.from, i>>] = state[<<t, e.from, i>>]
        BY <1>1, <1>2, <2>2, <3>2, SettleAt
      <4> QED BY <1>2, <1>4, <2>2, <3>2, <4>1 DEF Moved, Closing
    <3> QED BY <3>1, <3>2
  <2>4. m.player = p => m.to = t
    BY <1>2, <1>4 DEF Moved, ToTarget
  <2> QED BY <1>3, <2>1, <2>3, <2>4
<1>5. Here(p) => m.player # p
  BY <1>2 DEF Here
<1>6. \A k \in net' : k \in net
  BY <1>2
<1>7. holds'[Birth[p]][p] = holds[Birth[p]][p] /\ calls' = calls
  BY <1>2
<1>8. Here(p) => \A s \in Servers \ {Birth[p]} : Visiting(s, p) => Visiting(s, p)'
  BY <1>3, <1>5
<1> QED BY <1>1, <1>4, <1>6, <1>7, <1>8, HomeKeeps

\* Landings: ...
LEMMA LandingHome ==
  ASSUME Disciplined, AInv, Homes, NEW l \in landings, LandingStep(l), NEW p \in Players
  PROVE  Home(p)'
<1>1. /\ TypeOK /\ OneInitiator /\ OneLanding /\ Home(p) /\ Birth[p] \in Servers
      /\ l.at \in Servers \ Initiators /\ l.player \in Players /\ l.id \in Ids
  BY Facts, MigrationAssumption DEF AInv, Homes, OInv, LInv, TInv, Disciplined, MigrationAssumption
<1>2. /\ UNCHANGED calls /\ net \subseteq net'
      /\ \A k \in net' : k.type \in ToTarget => k \in net
  <2>1. UNCHANGED net \/ \E ok : Answer(l, ok)
    BY DEF LandingStep, LandingFails, LandPlayer, StoreLanded
  <2>2. UNCHANGED calls
    BY DEF LandingStep, LandingFails, LandPlayer, StoreLanded
  <2> QED BY <2>1, <2>2, AnswerIs DEF ToTarget
<1>3. CASE LandingFails(l)
  <2>1. /\ l.step = "validate" /\ landings' = landings \ {l} /\ UNCHANGED <<table, state, holds>>
        /\ inbox' = [inbox EXCEPT ![l.at] = @ \ {l.id}]
    BY <1>3 DEF LandingFails
  <2>2. \A s : Visiting(s, p) => Visiting(s, p)'
    BY <2>1 DEF Visiting, Pending
  <2>3. ASSUME NEW t \in Servers, NEW i \in Ids, Moved(p, t, i)
        PROVE  Kept(t, i, p)' /\ Closing(t, i)'
    <3>1. Kept(t, i, p) /\ Closing(t, i) /\ (l.at = t => l.id # i)
      BY <2>3, MovedIs
    <3>2. Kept(t, i, p)'
      BY <1>1, <2>1, <3>1 DEF Kept, TypeOK
    <3>3. Closing(t, i)'
      BY <1>2, <2>1, <3>1 DEF Closing, Load
    <3> QED BY <3>2, <3>3
  <2> QED BY <1>1, <1>2, <2>1, <2>2, <2>3, HomeKeeps
<1>4. CASE LandPlayer(l)
  <2>1. /\ l.step = "validate" /\ UNCHANGED <<table, state, inbox>>
        /\ \A s \in Servers, q \in Players :
             holds'[s][q] = IF s = l.at /\ q = l.player THEN {<<l.from, l.id>>} ELSE holds[s][q]
    BY <1>1, <1>4, LandEffect
  <2>2. PICK k : /\ landings' = (landings \ {l}) \union {k}
                 /\ k.at = l.at /\ k.from = l.from /\ k.id = l.id /\ k.player = l.player
                 /\ k.step = "store"
    BY <1>1, <1>4, LandEffect
  <2>3. ASSUME NEW s \in Servers, Visiting(s, p) PROVE Visiting(s, p)'
    <3>1. CASE s = l.at /\ p = l.player
      <4>1. holds'[s][p] = {<<k.from, k.id>>} /\ k \in landings'
        BY <2>1, <2>2, <3>1
      <4> QED BY <2>2, <3>1, <4>1 DEF Visiting, Pending
    <3>2. CASE ~ (s = l.at /\ p = l.player)
      <4>1. holds'[s][p] = holds[s][p]
        BY <2>1, <3>2
      <4>2. \A x \in landings : x.step = "store" => x \in landings'
        BY <2>1, <2>2
      <4> QED BY <2>1, <2>3, <4>1, <4>2 DEF Visiting, Pending
    <3> QED BY <3>1, <3>2
  <2>4. ASSUME NEW t \in Servers, NEW i \in Ids, Moved(p, t, i)
        PROVE  Kept(t, i, p)' /\ Closing(t, i)'
    <3>1. Kept(t, i, p) /\ Closing(t, i)
      BY <2>4 DEF Moved
    <3>2. ~ (l.at = t /\ l.player = p)
      BY <3>1 DEF Kept
    <3>3. Kept(t, i, p)'
      BY <2>1, <2>2, <3>1, <3>2 DEF Kept
    <3>4. Closing(t, i)'
      BY <1>2, <2>1, <3>1 DEF Closing, Load
    <3> QED BY <3>3, <3>4
  <2>5. holds'[Birth[p]][p] = holds[Birth[p]][p]
    <3>1. l.player = p => Birth[p] \in Initiators
      BY <1>1, Witnesses DEF AInv, Homes, Numbered
    <3> QED BY <1>1, <2>1, <3>1
  <2> QED BY <1>1, <1>2, <2>3, <2>4, <2>5, HomeKeeps
<1>5. CASE StoreLanded(l)
  <2>1. /\ l.step = "store" /\ landings' = landings \ {l}
        /\ UNCHANGED <<inbox, holds>>
        /\ \A s \in Servers \ Initiators : \A e \in table[s] :
             state'[<<s, e.from, e.id>>] = state[<<s, e.from, e.id>>]
        /\ state'[<<l.at, l.from, l.id>>] = "Transferred"
    BY <1>5, StoreEffect
  <2>2. PICK r : /\ r.id = l.id /\ r.from = l.from /\ r.player = l.player
                 /\ \A s \in Servers :
                      table'[s] = IF s = l.at THEN table[s] \union {r} ELSE table[s]
    BY <1>5, StoreEffect
  <2>3. ASSUME NEW s \in Servers \ {Birth[p]}, Visiting(s, p) PROVE Visiting(s, p)'
    <3>1. CASE holds[s][p] = {}
      BY <2>1, <3>1 DEF Visiting
    <3>2. ASSUME NEW x \in landings, x.at = s, x.player = p, x.step = "store",
                 holds[s][p] = {<<x.from, x.id>>}
          PROVE  Visiting(s, p)'
      <4>1. CASE x = l
        <5>1. r \in table'[s] /\ r.player = p /\ state'[<<s, r.from, r.id>>] = "Transferred"
          BY <2>1, <2>2, <3>2, <4>1
        <5>2. holds'[s][p] = {<<r.from, r.id>>}
          BY <2>1, <2>2, <3>2, <4>1
        <5> QED BY <5>1, <5>2 DEF Visiting, Pending
      <4>2. CASE x # l
        BY <2>1, <3>2, <4>2 DEF Visiting, Pending
      <4> QED BY <4>1, <4>2
    <3>3. ASSUME NEW e \in table[s], e.player = p, holds[s][p] = {<<e.from, e.id>>},
                 state[<<s, e.from, e.id>>] = "Transferred"
          PROVE  Visiting(s, p)'
      <4>1. s \notin Initiators
        BY <3>3, GuestAt
      <4>2. e \in table'[s] /\ state'[<<s, e.from, e.id>>] = "Transferred"
        BY <2>1, <2>2, <3>3, <4>1, ZenonT(30)
      <4>3. holds'[s][p] = {<<e.from, e.id>>}
        BY <2>1, <3>3
      <4> QED BY <3>3, <4>2, <4>3 DEF Visiting, Pending
    <3> QED BY <2>3, <3>1, <3>2, <3>3 DEF Visiting, Pending
  <2>4. ASSUME NEW t \in Servers, NEW i \in Ids, Moved(p, t, i)
        PROVE  Kept(t, i, p)' /\ Closing(t, i)'
    <3>1. /\ t \in Servers \ Initiators /\ Kept(t, i, p) /\ Closing(t, i)
          /\ l.at = t => l.id # i
      BY <2>4, MovedIs
    <3>2. Kept(t, i, p)'
      BY <2>1, <3>1 DEF Kept
    <3>3. \A e \in Load(t, i)' : /\ e \in Load(t, i)
                                /\ state'[<<t, e.from, i>>] = state[<<t, e.from, i>>]
      <4> SUFFICES ASSUME NEW e \in table'[t], e.id = i
                   PROVE  e \in table[t] /\ state'[<<t, e.from, i>>] = state[<<t, e.from, i>>]
        BY DEF Load
      <4>1. e \in table[t]
        BY <2>2, <3>1
      <4> QED BY <2>1, <3>1, <4>1
    <3> QED BY <1>2, <3>1, <3>2, <3>3 DEF Closing
  <2>5. holds'[Birth[p]][p] = holds[Birth[p]][p]
    BY <2>1
  <2> QED BY <1>1, <1>2, <2>3, <2>4, <2>5, HomeKeeps
<1> QED BY <1>3, <1>4, <1>5 DEF LandingStep

\* ... and the background loop, which leaves a migration alone while its Complete is on the
\* way.
LEMMA LoopHome ==
  ASSUME Disciplined, AInv, Homes, NEW s \in Servers, NEW x \in table[s], Expire(s, x) \/ Cleanup(s, x),
         NEW p \in Players
  PROVE  Home(p)'
<1>1. /\ TypeOK /\ OneInitiator /\ Timely /\ Home(p) /\ Birth[p] \in Servers
      /\ x.id \in Ids /\ x.from \in Servers /\ (s \notin Initiators => x.from \in Initiators)
  BY Facts, MigrationAssumption DEF AInv, Homes, OInv, LInv, TInv, Disciplined, MigrationAssumption
<1>2. UNCHANGED <<calls, net, inbox, landings>> /\ Old(x)
  BY DEF Expire, Cleanup
<1>3. CASE Expire(s, x) /\ s \in Initiators
  <2>1. /\ UNCHANGED table /\ SetStateOf(s, x.id, "TimedOut") /\ OnMigrationRollback(s, x.id)
    BY <1>3 DEF Expire, Settle
  <2>2. UNCHANGED holds
    BY <1>1, <1>3, <2>1, RollbackAtSource
  <2>3. \A u \in Servers \ Initiators : \A e \in table[u] :
          state'[<<u, e.from, e.id>>] = state[<<u, e.from, e.id>>]
    <3> SUFFICES ASSUME NEW u \in Servers \ Initiators, NEW e \in table[u]
                 PROVE  state'[<<u, e.from, e.id>>] = state[<<u, e.from, e.id>>]
      OBVIOUS
    <3>1. e.from \in Servers /\ e.id \in Ids
      BY <1>1, EntryTyped
    <3> QED BY <1>1, <1>3, <2>1, <3>1, StateElsewhere
  <2> QED BY <1>2, <2>1, <2>2, <2>3, QuietHome
<1>4. CASE Expire(s, x) /\ s \notin Initiators
  <2>1. /\ UNCHANGED table /\ SetStateOf(s, x.id, "TimedOut") /\ OnMigrationRollback(s, x.id)
        /\ ~ IsTerminal(state[<<s, x.from, x.id>>])
    BY <1>4 DEF Expire, Settle
  <2>2. holds'[Birth[p]][p] = holds[Birth[p]][p]
    BY <1>1, <1>4, <2>1, RollbackAtTarget
  <2>3. \A u \in Servers \ {Birth[p]} : Visiting(u, p) => Visiting(u, p)'
    BY <1>1, <1>2, <1>4, <2>1, RollbackVisits
  <2>4. ASSUME NEW t \in Servers, NEW i \in Ids, Moved(p, t, i)
        PROVE  Kept(t, i, p)' /\ Closing(t, i)'
    <3>1. s = t => x.id # i
      <4> SUFFICES ASSUME s = t, x.id = i PROVE FALSE
        OBVIOUS
      <4>1. x \in Load(t, i) /\ Closing(t, i)
        BY <2>4 DEF Load, Moved
      <4>2. PICK m \in net : m.type = "Complete" /\ m.to = t /\ m.id = i
        BY <2>1, <4>1 DEF Closing, IsTerminal
      <4>3. m.from = x.from
        BY <1>1, <1>4, <4>2, Facts DEF OneInitiator, AInv
      <4> QED BY <1>1, <1>2, <4>2, <4>3 DEF Old
    <3>2. i \in inbox'[t]
      BY <1>2, <2>4 DEF Moved, Kept
    <3> QED BY <1>1, <1>2, <1>4, <2>1, <2>4, <3>1, <3>2, RollbackMoved
  <2> QED BY <1>1, <1>2, <2>2, <2>3, <2>4, HomeKeeps
<1>5. CASE Cleanup(s, x)
  <2>1. /\ UNCHANGED <<state, holds>> /\ table' = [table EXCEPT ![s] = @ \ {x}]
        /\ IsTerminal(state[<<s, x.from, x.id>>])
    BY <1>5 DEF Cleanup
  <2>2. /\ \A u \in Servers : table'[u] \subseteq table[u]
        /\ \A u \in Servers : \A e \in table[u] : e \in table'[u] \/ (u = s /\ e = x)
    BY <1>1, <2>1 DEF TypeOK
  <2>3. ASSUME NEW u \in Servers, Visiting(u, p) PROVE Visiting(u, p)'
    <3>1. \A e \in table[u] : state[<<u, e.from, e.id>>] = "Transferred" => e \in table'[u]
      BY <2>1, <2>2 DEF IsTerminal
    <3> QED BY <1>2, <2>1, <2>3, <3>1 DEF Visiting, Pending
  <2>4. ASSUME NEW t \in Servers, NEW i \in Ids, Moved(p, t, i)
        PROVE  Kept(t, i, p)' /\ Closing(t, i)'
    <3>1. Kept(t, i, p)'
      BY <1>2, <2>1, <2>4 DEF Moved, Kept
    <3>2. \A e \in Load(t, i)' : e \in Load(t, i)
      BY <2>2 DEF Load
    <3> QED BY <1>2, <2>1, <2>4, <3>1, <3>2 DEF Moved, Closing
  <2> QED BY <1>1, <1>2, <2>1, <2>3, <2>4, HomeKeeps
<1> QED BY <1>3, <1>4, <1>5

LEMMA MessageHome ==
  ASSUME Disciplined, CompleteArrives, AInv, Homes, NEW m \in net, Deliver(m) \/ Lose(m), NEW p \in Players
  PROVE  Home(p)'
<1>1. CASE HandleRequest(m) \/ Lose(m)
  <2>1. /\ UNCHANGED <<calls, table, state, inbox, landings, holds>>
        /\ m.type # "Complete" /\ net \ {m} \subseteq net'
    BY <1>1 DEF HandleRequest, Lose, CompleteArrives
  <2>2. \A k \in net' : k.type \in ToTarget => k \in net
    BY <1>1 DEF HandleRequest, Lose, Msg, ToTarget
  <2>3. \A k \in net : k.type = "Complete" => k \in net'
    BY <2>1
  <2> QED BY <2>1, <2>2, <2>3, QuietHome
<1> QED BY <1>1, DataHome, RollbackHome, CompleteHome DEF Deliver

LEMMA AInit == Init => AInv /\ Homes
<1> SUFFICES ASSUME Init PROVE AInv /\ Homes
  OBVIOUS
<1>1. OInv
  BY OInit
<1>2. \A s \in Servers, p \in Players :
        holds[s][p] = IF Birth[p] = s THEN {<<s, 0>>} ELSE {}
  BY DEF Init
<1>3. calls = {} /\ net = {} /\ landings = {} /\ \A s \in Servers : table[s] = {}
  BY DEF Init
<1>4. \A i \in Ids, p \in Players : ~ Concerns(i, p)
  <2>1. \A i \in Ids : i # 0
    BY DEF Ids
  <2>2. \A s \in Servers, p \in Players : \A f, i : <<f, i>> \in holds[s][p] => i = 0
    <3> SUFFICES ASSUME NEW s \in Servers, NEW p \in Players, NEW f, NEW i,
                        <<f, i>> \in holds[s][p]
                 PROVE  i = 0
      OBVIOUS
    <3>1. <<f, i>> \in {<<s, 0>>}
      BY <1>2
    <3>2. <<f, i>> = <<s, 0>>
      BY <3>1
    <3> QED BY <3>2
  <2> QED BY <1>3, <2>1, <2>2 DEF Concerns
<1>5. Numbered /\ FromBirth /\ Latest /\ Unsent /\ Acked
  BY <1>3, <1>4 DEF Numbered, FromBirth, Latest, Unsent, Acked
<1>6. InOrder /\ Filed /\ Landed
  BY <1>3 DEF InOrder, Filed, Landed
<1>7. Tagged
  BY <1>2 DEF Tagged
<1>8. \A p \in Players : Home(p)
  <2>1. \A p \in Players : Birth[p] \in Servers
    BY MigrationAssumption DEF MigrationAssumption
  <2> QED BY <1>2, <1>3, <2>1 DEF Home, Here, Visiting
<1> QED BY <1>1, <1>5, <1>6, <1>7, <1>8 DEF AInv, Homes

LEMMA AStep == Disciplined /\ Solo /\ AInv /\ [Next]_vars => AInv'
<1> SUFFICES ASSUME Disciplined, Solo, AInv, [Next]_vars PROVE AInv'
  OBVIOUS
<1>1. OInv'
  BY OStep DEF AInv, Disciplined
<1> SUFFICES /\ Numbered' /\ FromBirth' /\ Latest'
             /\ Unsent' /\ InOrder' /\ Filed' /\ Landed' /\ Tagged'
             /\ Acked'
  BY <1>1 DEF AInv
<1>2. CASE UNCHANGED vars
  <2>1. Numbered' /\ FromBirth' /\ Latest'
    <3>1. UNCHANGED <<nextID, calls, net, landings, table, holds>>
      BY <1>2 DEF vars
    <3>2. Numbered' /\ Latest'
      BY <3>1, NothingNew, TablesAndPlayers, Witnesses
    <3> QED BY <3>1, <3>2 DEF AInv, FromBirth
  <2>2. Unsent' /\ InOrder' /\ Filed' /\ Landed' /\ Tagged'
    BY <1>2 DEF vars, AInv, Unsent, InOrder, Passed, Filed, Landed, Tagged, Load
  <2>3. Acked'
    BY <1>2 DEF vars, AInv, Acked, AckedBy, Shipped, Load, Kept
  <2> QED BY <2>1, <2>2, <2>3
<1>3. ASSUME NEW s \in Servers, NEW g \in Callers, NEW p \in Players, NEW t \in Servers,
             Admit(s, g, p, t)
      PROVE  /\ Numbered' /\ FromBirth' /\ Latest'
             /\ Unsent' /\ InOrder' /\ Filed' /\ Landed' /\ Tagged'
             /\ Acked'
  BY <1>3, AdmitNames, AdmitParts, AdmitAcked
<1>4. ASSUME NEW c \in calls, DriverStep(c)
      PROVE  /\ Numbered' /\ FromBirth' /\ Latest'
             /\ Unsent' /\ InOrder' /\ Filed' /\ Landed' /\ Tagged'
             /\ Acked'
  <2>1. CASE Start(c)
    BY <2>1, StartNames, StartParts, StartAcked
  <2>2. CASE ~ Start(c)
    BY <1>4, <2>2, DriverNames, DriverParts, DriverAcked
  <2> QED BY <2>1, <2>2
<1>5. ASSUME NEW m \in net, Deliver(m) \/ Lose(m)
      PROVE  /\ Numbered' /\ FromBirth' /\ Latest'
             /\ Unsent' /\ InOrder' /\ Filed' /\ Landed' /\ Tagged'
             /\ Acked'
  <2>1. Numbered' /\ FromBirth' /\ Latest'
    BY <1>5, OtherNames DEF Deliver
  <2> QED BY <1>5, <2>1, MessageParts, MessageAcked
<1>6. ASSUME NEW l \in landings, LandingStep(l)
      PROVE  /\ Numbered' /\ FromBirth' /\ Latest'
             /\ Unsent' /\ InOrder' /\ Filed' /\ Landed' /\ Tagged'
             /\ Acked'
  <2>1. Numbered' /\ FromBirth' /\ Latest'
    BY <1>6, OtherNames
  <2> QED BY <1>6, <2>1, LandingParts, LandingAcked
<1>7. ASSUME NEW s \in Servers, NEW e \in table[s], Expire(s, e) \/ Cleanup(s, e)
      PROVE  /\ Numbered' /\ FromBirth' /\ Latest'
             /\ Unsent' /\ InOrder' /\ Filed' /\ Landed' /\ Tagged'
             /\ Acked'
  <2>1. Numbered' /\ FromBirth' /\ Latest'
    BY <1>7, OtherNames
  <2> QED BY <1>7, <2>1, LoopParts, LoopAcked
<1> QED BY <1>2, <1>3, <1>4, <1>5, <1>6, <1>7 DEF Next

LEMMA HomeStep ==
  Disciplined /\ CompleteArrives /\ Solo /\ AInv /\ Homes /\ [Next]_vars => Homes'
<1> SUFFICES ASSUME Disciplined, CompleteArrives, Solo, AInv, Homes, [Next]_vars,
                    NEW p \in Players
             PROVE  Home(p)'
  BY DEF Homes
<1>1. CASE UNCHANGED vars
  BY <1>1, QuietHome DEF vars
<1>2. ASSUME NEW s \in Servers, NEW g \in Callers, NEW q \in Players, NEW t \in Servers,
             Admit(s, g, q, t)
      PROVE  Home(p)'
  BY <1>2, AdmitHome
<1>3. ASSUME NEW c \in calls, DriverStep(c) PROVE Home(p)'
  BY <1>3, StartHome, DriverHome, CommitHome
<1>4. ASSUME NEW m \in net, Deliver(m) \/ Lose(m) PROVE Home(p)'
  BY <1>4, MessageHome
<1>5. ASSUME NEW l \in landings, LandingStep(l) PROVE Home(p)'
  BY <1>5, LandingHome
<1>6. ASSUME NEW s \in Servers, NEW e \in table[s], Expire(s, e) \/ Cleanup(s, e) PROVE Home(p)'
  BY <1>6, LoopHome
<1> QED BY <1>1, <1>2, <1>3, <1>4, <1>5, <1>6 DEF Next

-----------------------------------------------------------------------------
(* What it comes to *)

LEMMA AOnTarget ==
  ASSUME AInv
  PROVE  PlayerOnTargetAtCommit
<1> SUFFICES ASSUME NEW c \in calls, c.pc \in {"transferred", "committing"}
             PROVE  holds[c.target][c.player] # {}
  BY DEF PlayerOnTargetAtCommit
<1>1. AckedBy(c)
  BY DEF AInv, Acked, Shipped
<1> QED BY <1>1 DEF AckedBy, Kept

\* At rest nobody is visiting.
LEMMA HomeAtRest ==
  ASSUME Homes
  PROVE  OneHomeAtRest
<1> SUFFICES ASSUME Quiescent, NEW p \in Players PROVE Cardinality(Holders(p)) = 1
  BY DEF OneHomeAtRest
<1>1. Home(p) /\ Birth[p] \in Servers
  BY MigrationAssumption DEF Homes, MigrationAssumption
<1>2. \A s \in Servers : Visiting(s, p) => holds[s][p] = {}
  BY DEF Quiescent, IsTerminal, Visiting, Pending
<1>3. \E s : Holders(p) = {s}
  <2>1. CASE Here(p)
    <3>1. Holders(p) = {Birth[p]}
      BY <1>1, <1>2, <2>1 DEF Here, Holders
    <3> QED BY <3>1
  <2>2. ASSUME NEW t \in Servers, NEW i \in Ids, Moved(p, t, i) PROVE \E s : Holders(p) = {s}
    <3>1. Holders(p) = {t}
      BY <1>1, <1>2, <2>2 DEF Moved, Kept, Holders
    <3> QED BY <3>1
  <2> QED BY <1>1, <2>1, <2>2 DEF Home
<1> QED BY <1>3, FS_Singleton

\* migration_manager.go:101: "the source must not delete the player before the target has
\* landed it".  With one source, ordered handling, time-outs that outlast a call and one call
\* for a player at a time, the player is on the target whenever the source commits.
THEOREM MigrationPlayerOnTarget == Disciplined /\ Spec /\ []Solo => []PlayerOnTargetAtCommit
<1> SUFFICES ASSUME Disciplined PROVE Spec /\ []Solo => []PlayerOnTargetAtCommit
  OBVIOUS
<1>1. Solo /\ AInv /\ [Next]_vars => AInv'
  BY AStep
<1>2. AInv => PlayerOnTargetAtCommit
  BY AOnTarget
<1> QED BY AInit, <1>1, <1>2, PTL DEF Spec

\* The point of the two phases (migration_manager.go:85-101): whatever failed, was late or
\* was delivered twice, when everything has come to rest a player is on one server.  Only
\* the Complete must not be lost.
THEOREM MigrationOneHome ==
  Disciplined /\ CompleteArrives /\ Spec /\ []Solo => []OneHomeAtRest
<1> SUFFICES ASSUME Disciplined, CompleteArrives PROVE Spec /\ []Solo => []OneHomeAtRest
  OBVIOUS
<1>1. Solo /\ AInv /\ Homes /\ [Next]_vars => AInv' /\ Homes'
  BY AStep, HomeStep
<1>2. Homes => OneHomeAtRest
  BY HomeAtRest
<1> QED BY AInit, <1>1, <1>2, PTL DEF Spec

-----------------------------------------------------------------------------
(* That Migration implements Ownership *)

LEMMA OwnInit == Init => Own!Init
<1> SUFFICES ASSUME Init PROVE [x \in Players |-> Holders(x)] \in [Players -> {{s} : s \in Servers}]
  BY DEF Own!Init
<1>1. \A p \in Players : Birth[p] \in Servers
  BY MigrationAssumption DEF MigrationAssumption
<1>2. \A p \in Players : Holders(p) = {Birth[p]}
  BY <1>1 DEF Init, Holders
<1>3. \A p \in Players : Holders(p) \in {{s} : s \in Servers}
  BY <1>1, <1>2
<1> QED BY <1>3

\* Where one player comes or goes he is copied or dropped.
LEMMA OwnLand ==
  ASSUME NEW s \in Servers, NEW p \in Players, holds'[s][p] # {},
         \A u \in Servers, q \in Players : (u = s /\ q = p) \/ holds'[u][q] = holds[u][q]
  PROVE  Own!Next
<1> DEFINE own == [x \in Players |-> Holders(x)]
<1>1. \A q \in Players : Holders(q)' = IF q = p THEN Holders(q) \union {s} ELSE Holders(q)
  BY DEF Holders
<1>2. own' = [own EXCEPT ![p] = @ \union {s}]
  BY <1>1
<1>3. Own!Copy(p, s)
  BY <1>2 DEF Own!Copy
<1> QED BY <1>3 DEF Own!Next

LEMMA OwnLeave ==
  ASSUME NEW s \in Servers, NEW p \in Players, Home(p)', holds'[s][p] = {},
         \A u \in Servers, q \in Players : (u = s /\ q = p) \/ holds'[u][q] = holds[u][q]
  PROVE  Own!Next
<1> DEFINE own == [x \in Players |-> Holders(x)]
<1>1. \A q \in Players : Holders(q)' = IF q = p THEN Holders(q) \ {s} ELSE Holders(q)
  BY DEF Holders
<1>2. own' = [own EXCEPT ![p] = @ \ {s}]
  BY <1>1
<1>3. own[p] # {s}
  <2>1. PICK t \in Servers : holds'[t][p] # {}
    BY MigrationAssumption DEF Home, Here, Moved, Kept, MigrationAssumption
  <2> QED BY <2>1 DEF Holders
<1>4. Own!Drop(p, s)
  BY <1>2, <1>3 DEF Own!Drop
<1> QED BY <1>4 DEF Own!Next

\* A rollback on a target drops one player at most.
LEMMA OwnRollback ==
  ASSUME Disciplined, AInv, Homes', NEW s \in Servers \ Initiators, NEW i \in Ids,
         OnMigrationRollback(s, i)
  PROVE  Own!Next \/ UNCHANGED [x \in Players |-> Holders(x)]
<1>1. \A u \in Servers, p \in Players :
        \/ holds'[u][p] = holds[u][p]
        \/ /\ u = s /\ holds'[s][p] = {}
           /\ \E e \in Load(s, i) : e.player = p
  BY RollbackAtTarget DEF Disciplined
<1>2. CASE \A u \in Servers, p \in Players : holds'[u][p] = holds[u][p]
  <2>1. \A p \in Players : Holders(p)' = Holders(p)
    BY <1>2 DEF Holders
  <2> QED BY <2>1
<1>3. ASSUME NEW u \in Servers, NEW p \in Players, holds'[u][p] # holds[u][p]
      PROVE  Own!Next
  <2>1. \A q \in Players : (\E e \in Load(s, i) : e.player = q) => Concerns(i, q)
    BY DEF Load, Concerns
  <2>2. \A v \in Servers, q \in Players : (v = s /\ q = p) \/ holds'[v][q] = holds[v][q]
    BY <1>1, <1>3, <2>1 DEF AInv, Numbered
  <2>3. holds'[s][p] = {} /\ Home(p)'
    BY <1>1, <1>3 DEF Homes
  <2> QED BY <2>2, <2>3, OwnLeave
<1> QED BY <1>2, <1>3

LEMMA OwnStep ==
  ASSUME Disciplined, AInv, Homes', [Next]_vars
  PROVE  Own!Next \/ UNCHANGED [x \in Players |-> Holders(x)]
<1>1. TypeOK /\ OneInitiator
  BY DEF AInv, OInv, LInv, TInv, Disciplined
<1>2. CASE UNCHANGED holds
  BY <1>2 DEF Holders
<1>3. ASSUME NEW c \in calls, DriverStep(c)
      PROVE  Own!Next \/ UNCHANGED holds
  <2>1. CASE Commit(c)
    <3>1. c.from \in Servers /\ c.player \in Players
      BY <1>1, Facts DEF AInv
    <3>2. holds' = [holds EXCEPT ![c.from][c.player] = {}]
      BY <2>1 DEF Commit
    <3>3. \A u \in Servers, q \in Players :
            holds'[u][q] = IF u = c.from /\ q = c.player THEN {} ELSE holds[u][q]
      BY <1>1, <3>2 DEF TypeOK
    <3>4. holds'[c.from][c.player] = {} /\ Home(c.player)'
      BY <3>1, <3>3 DEF Homes
    <3> QED BY <3>1, <3>3, <3>4, OwnLeave
  <2>2. CASE Start(c)
    BY <2>2 DEF Start
  <2> QED BY <1>3, <2>1, <2>2, DriverForms
<1>4. ASSUME NEW m \in net, Deliver(m) \/ Lose(m)
      PROVE  Own!Next \/ UNCHANGED [x \in Players |-> Holders(x)]
  <2>1. CASE HandleRollback(m)
    <3>1. OnMigrationRollback(m.to, m.id) /\ m.to \in Servers \ Initiators /\ m.id \in Ids
      BY <1>1, <2>1, Facts DEF HandleRollback, AInv
    <3> QED BY <3>1, OwnRollback
  <2>2. CASE ~ HandleRollback(m)
    <3>1. UNCHANGED holds
      BY <1>4, <2>2 DEF Deliver, HandleRequest, HandleData, HandleComplete, Lose
    <3> QED BY <1>2, <3>1
  <2> QED BY <2>1, <2>2
<1>5. ASSUME NEW l \in landings, LandingStep(l)
      PROVE  Own!Next \/ UNCHANGED holds
  <2>1. CASE LandPlayer(l)
    <3>1. l.at \in Servers /\ l.player \in Players
      BY <1>1, Facts DEF AInv
    <3>2. \A s \in Servers, p \in Players :
            holds'[s][p] = IF s = l.at /\ p = l.player THEN {<<l.from, l.id>>} ELSE holds[s][p]
      BY <1>1, <2>1, LandEffect
    <3>3. holds'[l.at][l.player] # {}
      BY <3>1, <3>2
    <3> QED BY <3>1, <3>2, <3>3, OwnLand
  <2> QED BY <1>5, <2>1 DEF LandingStep, LandingFails, StoreLanded
<1>6. ASSUME NEW s \in Servers, NEW e \in table[s], Expire(s, e) \/ Cleanup(s, e)
      PROVE  Own!Next \/ UNCHANGED [x \in Players |-> Holders(x)]
  <2>1. CASE Expire(s, e)
    <3>1. OnMigrationRollback(s, e.id) /\ e.id \in Ids
      BY <1>1, <2>1, Facts DEF Expire, AInv
    <3>2. CASE s \in Initiators
      BY <1>1, <1>2, <3>1, <3>2, RollbackAtSource
    <3>3. CASE s \notin Initiators
      BY <3>1, <3>3, OwnRollback
    <3> QED BY <3>2, <3>3
  <2>2. CASE Cleanup(s, e)
    BY <1>2, <2>2 DEF Cleanup
  <2> QED BY <1>6, <2>1, <2>2
<1>7. ASSUME NEW s \in Servers, NEW g \in Callers, NEW p \in Players, NEW t \in Servers,
             Admit(s, g, p, t)
      PROVE  UNCHANGED holds
  BY <1>7 DEF Admit
<1>8. UNCHANGED vars => UNCHANGED holds
  BY DEF vars
<1> QED BY <1>2, <1>3, <1>4, <1>5, <1>6, <1>7, <1>8 DEF Next

\* migration_manager.go:85-101: from the outside ExecuteMigration is a copy of the player
\* to one more server and then the drop of one of the two, the last never.
THEOREM MigrationImplementsOwnership ==
  Disciplined /\ CompleteArrives /\ Spec /\ []Solo => ImplementsOwnership
<1> SUFFICES ASSUME Disciplined, CompleteArrives PROVE Spec /\ []Solo => ImplementsOwnership
  OBVIOUS
<1>1. Solo /\ AInv /\ Homes /\ [Next]_vars => AInv' /\ Homes'
  BY AStep, HomeStep
<1>2. AInv /\ Homes' /\ [Next]_vars => [Own!Next]_([x \in Players |-> Holders(x)])
  BY OwnStep
<1> QED BY AInit, OwnInit, <1>1, <1>2, PTL DEF Spec, ImplementsOwnership, Own!Spec

-----------------------------------------------------------------------------
(* Who is solo *)

OneCaller == \A g, h \in Callers : g = h

\* A call keeps its place: whoever ends or goes on makes no second one.
LEMMA AloneStep ==
  ASSUME OneInitiator, OneCaller, TypeOK, Directed, [Next]_vars, \A c, d \in calls : c = d
  PROVE  (\A c, d \in calls : c = d)'
<1>1. CASE UNCHANGED calls
  BY <1>1
<1>2. ASSUME NEW s \in Servers, NEW g \in Callers, NEW p \in Players, NEW t \in Servers,
             Admit(s, g, p, t)
      PROVE  (\A c, d \in calls : c = d)'
  <2>1. \A c \in calls : c.from \in Initiators /\ c.caller \in Callers
    BY DEF TypeOK, Call, Directed
  <2>2. calls = {}
    BY <1>2, <2>1 DEF Admit, OneInitiator, OneCaller
  <2> QED BY <1>2, <2>2 DEF Admit
<1>3. ASSUME NEW c \in calls, DriverStep(c)
      PROVE  (\A d, e \in calls : d = e)'
  <2>1. calls = {c}
    OBVIOUS
  <2>2. \E d : calls' \subseteq (calls \ {c}) \union {d}
    <3>1. \/ Start(c) \/ Return(c) \/ UNCHANGED calls
          \/ \E pc : Goto(c, pc)
      BY <1>3 DEF DriverStep, PrepareAnswered, PrepareCallFails, Transfer, CommitAnswered,
                  DataCallFails, BeginCommit, Commit, CommitFails, Finish
    <3> QED BY <2>1, <3>1 DEF Start, Return, Goto
  <2> QED BY <2>1, <2>2
<1>4. ASSUME \/ \E m \in net : Deliver(m) \/ Lose(m)
             \/ \E l \in landings : LandingStep(l)
             \/ \E s \in Servers : \E e \in table[s] : Expire(s, e) \/ Cleanup(s, e)
      PROVE  UNCHANGED calls
  BY <1>4 DEF Deliver, HandleRequest, HandleData, HandleRollback, HandleComplete, Lose,
              LandingStep, LandingFails, LandPlayer, StoreLanded, Expire, Cleanup
<1>5. UNCHANGED vars => UNCHANGED calls
  BY DEF vars
<1> QED BY <1>1, <1>2, <1>3, <1>4, <1>5 DEF Next

\* One goroutine that calls ExecuteMigration is enough for no player to be migrated twice at
\* once (migration_manager.go:195-220): what the three theorems above assume.
THEOREM MigrationOneCaller == OneInitiator /\ OneCaller /\ Spec => []Solo
<1> SUFFICES ASSUME OneInitiator, OneCaller PROVE Spec => []Solo
  OBVIOUS
<1>1. Init => OInv
  BY OInit
<1>2. OInv /\ [Next]_vars => OInv'
  BY OStep
<1>3. Init => \A c, d \in calls : c = d
  BY DEF Init
<1>4. /\ OInv /\ [Next]_vars /\ (\A c, d \in calls : c = d)
      => (\A c, d \in calls : c = d)'
  BY AloneStep DEF OInv, LInv, TInv
<1>5. (\A c, d \in calls : c = d) => Solo
  BY DEF Solo
<1> QED BY <1>1, <1>2, <1>3, <1>4, <1>5, PTL DEF Spec
=============================================================================
