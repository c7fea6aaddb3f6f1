-------------------------- MODULE PlayerAssetsProofs -------------------------
(***************************************************************************)
(* For any number of players, lanes, items and actors: PlayerAssets is     *)
(* type correct, a player who is not marked is in the database as he is    *)
(* (CleanMeansSaved), and one who has left finds what he owned             *)
(* (OfflineMeansSaved), each unless he met one of the disturbances.        *)
(*                                                                         *)
(* The invariant has two halves.  SoundInv says who works for whom, and    *)
(* holds whatever is excused; OpenInv follows the save of a player whose   *)
(* ledger is open from statement to statement.                             *)
(***************************************************************************)
EXTENDS PlayerAssets, TLAPS

USE PlayerAssetsAssumption DEF PlayerAssetsAssumption

-----------------------------------------------------------------------------
(* Who works for whom *)

Loading(w) == Busy(w) /\ job[w].kind = "load"

\* PlayerManager and the loop know actors of players; an actor not yet made does nothing.
ActorsSound ==
  /\ \A p \in Players : online[p] # 0 => owner[online[p]] = p
  /\ \A a \in Actors : owner[a] # Nobody => a <= logins
  /\ \A a \in Actors : work[a] # <<>> => owner[a] \in Players
  /\ \A a \in round : owner[a] \in Players

\* What a message has still to do can be done.
Feasible(a) ==
  \/ work[a] = <<>>
  \/ \E o \in Op :
       /\ work[a] = <<o>>
       /\ o.act = "take" => memory[a][o.table][o.item] > 0
  \/ \E o, r \in Op :
       /\ work[a] = <<o, r>>
       /\ o.act = "take" /\ r.act = "put" /\ o.marked /\ r.marked
       /\ memory[a][o.table][o.item] > 0

\* A goroutine works for the player its actor was made for; an actor being loaded is
\* nobody else's business.
JobSound(w) ==
  Busy(w) =>
    /\ owner[job[w].actor] = job[w].player
    /\ w = "loop" <=> job[w].kind = "sweep"
    /\ job[w].kind = "load" =>
         /\ job[w].step \in {"read", "add", "store"}
         /\ job[w].step # "read" => job[w].table = "warehouse"
         /\ online[job[w].player] # job[w].actor
         /\ work[job[w].actor] = <<>>
         /\ \A v \in Workers : Loading(v) /\ job[v].actor = job[w].actor => v = w
    /\ job[w].kind = "leave" => job[w].step \in {"list", "delete", "insert", "remove"}
    /\ job[w].kind = "sweep" => job[w].step \in {"list", "delete", "insert"}

SoundInv ==
  /\ TypeOK
  /\ ActorsSound
  /\ \A a \in Actors : Feasible(a)
  /\ \A w \in Workers : JobSound(w)

-----------------------------------------------------------------------------
(* Records and nested functions *)

LEMMA TablePut ==
  ASSUME NEW S, NEW f \in [S -> Stock], NEW s \in S, NEW t \in Tables,
         NEW n \in [Items -> Nat]
  PROVE  /\ [f EXCEPT ![s][t] = n] \in [S -> Stock]
         /\ \A x \in S, u \in Tables :
              [f EXCEPT ![s][t] = n][x][u] = IF x = s /\ u = t THEN n ELSE f[x][u]
  BY DEF Stock

LEMMA ItemPut ==
  ASSUME NEW S, NEW f \in [S -> Stock], NEW s \in S, NEW t \in Tables, NEW i \in Items,
         NEW n \in Nat
  PROVE  /\ [f EXCEPT ![s][t][i] = n] \in [S -> Stock]
         /\ \A x \in S, u \in Tables :
              [f EXCEPT ![s][t][i] = n][x][u] = IF x = s /\ u = t THEN [f[x][u] EXCEPT ![i] = n]
                                              ELSE f[x][u]
  BY DEF Stock

LEMMA NoneTyped == None \in [Items -> Nat] /\ Nothing \in Stock
  BY DEF None, Nothing, Stock

LEMMA JobTyped ==
  ASSUME NEW j \in Job
  PROVE  /\ j.kind \in {"load", "leave", "sweep"} /\ j.actor \in Actors /\ j.player \in Players
         /\ j.table \in Tables /\ j.left \in [Items -> Nat]
         /\ j.step \in {"read", "add", "store", "list", "delete", "insert", "remove"}
         /\ j # Idle
<1>1. j.kind \in {"load", "leave", "sweep"}
  BY DEF Job
<1>2. Idle.kind = "idle"
  BY DEF Idle
<1> QED BY <1>1, <1>2 DEF Job

LEMMA NewJobTyped ==
  ASSUME NEW kind \in {"load", "leave", "sweep"}, NEW a \in Actors, NEW p \in Players,
         NEW step \in {"read", "add", "store", "list", "delete", "insert", "remove"}
  PROVE  LET n == NewJob(kind, a, p, step)
         IN  /\ n \in Job
             /\ n.kind = kind /\ n.actor = a /\ n.player = p
             /\ n.table = "bag" /\ n.left = None /\ n.step = step
  BY NoneTyped DEF NewJob, Job, FirstTable, Tables

\* What follows the save of a table.
LEMMA TableDoneIs ==
  ASSUME NEW j \in Job
  PROVE  LET n == TableDone(j)
         IN  \/ n = Idle /\ j.table # "bag" /\ j.kind # "leave"
             \/ /\ n \in Job
                /\ n.kind = j.kind /\ n.actor = j.actor /\ n.player = j.player
                /\ n.table = "warehouse" /\ n.left = None
                /\ \/ j.table = "bag" /\ n.step = "list"
                   \/ j.table = "warehouse" /\ j.kind = "leave" /\ n.step = "remove"
<1>1. CASE j.table = "bag"
  <2>1. TableDone(j) = [j EXCEPT !.table = "warehouse", !.step = "list", !.left = None]
    BY <1>1 DEF TableDone
  <2>2. "warehouse" \in Tables
    BY DEF Tables
  <2> QED BY <1>1, <2>1, <2>2, NoneTyped DEF Job
<1>2. CASE j.table # "bag" /\ j.kind = "leave"
  <2>1. TableDone(j) = [j EXCEPT !.step = "remove", !.left = None]
    BY <1>2 DEF TableDone
  <2>2. j.table = "warehouse" /\ j.table \in Tables
    BY <1>2, JobTyped DEF Tables
  <2> QED BY <1>2, <2>1, <2>2, NoneTyped DEF Job
<1>3. CASE j.table # "bag" /\ j.kind # "leave"
  BY <1>3 DEF TableDone
<1> QED BY <1>1, <1>2, <1>3

LEMMA ClosedIsClosed == Closed \notin Account /\ Closed.met = Disturbances
<1>1. Closed.met = Disturbances
  BY DEF Closed
<1>2. "late" \in Disturbances /\ "late" \notin Passing
  BY DEF Disturbances, Passing
<1>3. \A b \in Account : b.met \subseteq Passing
  BY DEF Account
<1> QED BY <1>1, <1>2, <1>3

LEMMA BookTyped ==
  ASSUME NEW b \in Account \union {Closed}, NEW s \in [Tables -> [Items -> Int]], NEW d
  PROVE  /\ Book(b, s, d) \in Account \union {Closed}
         /\ Book(b, s, d) # Closed =>
              /\ b # Closed
              /\ d \intersect Excused \subseteq Passing
              /\ Book(b, s, d).owned = s
              /\ Book(b, s, d).met = b.met \union (d \intersect Excused)
<1>1. CASE b = Closed \/ ~ (d \intersect Excused \subseteq Passing)
  BY <1>1 DEF Book
<1>2. CASE b # Closed /\ d \intersect Excused \subseteq Passing
  BY <1>2 DEF Book, Account
<1> QED BY <1>1, <1>2

LEMMA OwnedTyped ==
  ASSUME NEW b \in Account \union {Closed}
  PROVE  b.owned \in [Tables -> [Items -> Int]]
<1>1. Closed.owned = Nothing
  BY DEF Closed
<1>2. Nothing \in [Tables -> [Items -> Int]]
  BY DEF Nothing, None
<1> QED BY <1>1, <1>2 DEF Account

LEMMA DisturbTyped ==
  ASSUME NEW p \in Players, NEW d, ledger \in [Players -> Account \union {Closed}],
         Disturb(p, d)
  PROVE  /\ ledger' \in [Players -> Account \union {Closed}]
         /\ \A q \in Players \ {p} : ledger'[q] = ledger[q]
         /\ ledger'[p] # Closed =>
              /\ ledger[p] # Closed
              /\ d \intersect Excused \subseteq Passing
              /\ ledger'[p].owned = ledger[p].owned
              /\ ledger'[p].met = ledger[p].met \union (d \intersect Excused)
<1>1. ledger[p].owned \in [Tables -> [Items -> Int]]
  BY OwnedTyped
<1>2. ledger' = [ledger EXCEPT ![p] = Book(ledger[p], ledger[p].owned, d)]
  BY DEF Disturb
<1> QED BY <1>1, <1>2, BookTyped

-----------------------------------------------------------------------------
(* Every step keeps the work sound *)

LEMMA SoundInit == Init => SoundInv
<1> SUFFICES ASSUME Init PROVE SoundInv
  OBVIOUS
<1>1. [Nothing EXCEPT !["bag"] = [i \in Items |-> 1]] \in Stock
  BY NoneTyped DEF Stock, Tables
<1>2. rows \in [Players -> Stock]
  BY <1>1 DEF Init
<1>3. ledger \in [Players -> Account \union {Closed}]
  <2>1. \A p \in Players : rows[p] \in [Tables -> [Items -> Int]]
    BY <1>2 DEF Stock
  <2> QED BY <2>1 DEF Init, Account
<1>4. 0 \in 0 .. MaxLogin /\ 0 \in 0 .. MaxChange
  OBVIOUS
<1>5. TypeOK
  <2>1. \A a \in Actors : memory[a] \in Stock /\ work[a] \in Seq(Op) /\ dirty[a] \in BOOLEAN
    BY NoneTyped DEF Init
  <2>2. /\ memory \in [Actors -> Stock] /\ work \in [Actors -> Seq(Op)]
        /\ dirty \in [Actors -> BOOLEAN]
    BY <2>1 DEF Init
  <2>3. /\ online \in [Players -> 0 .. MaxLogin] /\ owner \in [Actors -> Players \union {Nobody}]
        /\ job \in [Workers -> Job \union {Idle}] /\ round \subseteq Actors
        /\ logins \in 0 .. MaxLogin /\ changes \in 0 .. MaxChange
    BY <1>4 DEF Init
  <2> QED BY <1>2, <1>3, <2>2, <2>3 DEF TypeOK
<1> QED BY <1>5 DEF Init, SoundInv, ActorsSound, Feasible, JobSound, Busy

\* A save goes on, or ends: the same goroutine, for the same actor.
LEMMA SaveMoves ==
  ASSUME SoundInv, NEW w \in Workers, Busy(w), job[w].kind # "load",
         NEW n, job' = [job EXCEPT ![w] = n],
         \/ n = Idle
         \/ /\ n \in Job /\ n.kind = job[w].kind /\ n.actor = job[w].actor
            /\ n.player = job[w].player
            /\ n.step \in {"list", "delete", "insert"} \/ (n.step = "remove" /\ n.kind = "leave"),
         UNCHANGED <<online, owner, memory, dirty, work, round, logins, changes>>,
         rows' \in [Players -> Stock], ledger' \in [Players -> Account \union {Closed}]
  PROVE  SoundInv'
<1>1. TypeOK /\ ActorsSound /\ (\A a \in Actors : Feasible(a)) /\ (\A v \in Workers : JobSound(v))
  BY DEF SoundInv
<1>2. job' \in [Workers -> Job \union {Idle}]
  BY <1>1 DEF TypeOK
<1>3. TypeOK'
  BY <1>1, <1>2 DEF TypeOK
<1>4. ActorsSound' /\ \A a \in Actors : Feasible(a)'
  BY <1>1 DEF ActorsSound, Feasible
<1>5. job'[w] = n /\ \A v \in Workers \ {w} : job'[v] = job[v]
  BY <1>1 DEF TypeOK
<1>6. \A v \in Workers : Loading(v)' => v # w /\ Loading(v)
  BY <1>5 DEF Loading, Busy
<1>7. ASSUME NEW v \in Workers PROVE JobSound(v)'
  <2>1. CASE v = w
    BY <1>1, <1>5, <2>1 DEF JobSound, Busy
  <2>2. CASE v # w
    BY <1>1, <1>5, <1>6, <2>2 DEF JobSound, Busy
  <2> QED BY <2>1, <2>2
<1> QED BY <1>3, <1>4, <1>7 DEF SoundInv

\* a goroutine that saves, and what it is about to do
LEMMA Saving ==
  ASSUME SoundInv, NEW w \in Workers, Busy(w), job[w].step \in {"list", "delete", "insert"}
  PROVE  job[w] \in Job /\ job[w].kind # "load"
<1>1. job[w] \in Job
  BY DEF SoundInv, TypeOK, Busy
<1>2. JobSound(w)
  BY DEF SoundInv
<1> QED BY <1>1, <1>2 DEF JobSound

LEMMA ListSound ==
  ASSUME SoundInv, NEW w \in Workers, List(w)
  PROVE  SoundInv'
<1> DEFINE j == job[w]
           n == [j EXCEPT !.left = memory[j.actor][j.table], !.step = "delete"]
<1>1. Busy(w) /\ j.step = "list" /\ UNCHANGED <<rows, online, owner, memory, dirty, work, round, logins, changes, ledger>>
  BY DEF List
<1>2. j \in Job /\ j.kind # "load"
  BY <1>1, Saving
<1>3. job' = [job EXCEPT ![w] = n]
  BY DEF List
<1>4. memory[j.actor][j.table] \in [Items -> Nat]
  BY <1>2, JobTyped DEF SoundInv, TypeOK, Stock
<1> HIDE DEF j
<1>5. /\ n \in Job /\ n.kind = j.kind /\ n.actor = j.actor /\ n.player = j.player
      /\ n.step = "delete"
  BY <1>2, <1>4 DEF Job
<1> HIDE DEF n
<1> QED BY <1>1, <1>2, <1>3, <1>5, SaveMoves DEF j, SoundInv, TypeOK

LEMMA DeleteSound ==
  ASSUME SoundInv, NEW w \in Workers, Delete(w)
  PROVE  SoundInv'
<1> DEFINE j == job[w]
           n == IF j.left = None THEN TableDone(j) ELSE [j EXCEPT !.step = "insert"]
<1>1. /\ Busy(w) /\ j.step = "delete" /\ job' = [job EXCEPT ![w] = n]
      /\ rows' = [rows EXCEPT ![j.player][j.table] = None]
      /\ UNCHANGED <<online, owner, memory, dirty, work, round, logins, changes, ledger>>
  BY DEF Delete
<1>2. j \in Job /\ j.kind # "load"
  BY <1>1, Saving
<1>3. rows' \in [Players -> Stock]
  <2>1. rows \in [Players -> Stock] /\ j.player \in Players /\ j.table \in Tables
    BY <1>2, JobTyped DEF SoundInv, TypeOK
  <2> HIDE DEF j
  <2> QED BY <1>1, <2>1, NoneTyped, TablePut
<1>4. \/ n = Idle
      \/ /\ n \in Job /\ n.kind = j.kind /\ n.actor = j.actor /\ n.player = j.player
         /\ n.step \in {"list", "insert"} \/ (n.step = "remove" /\ n.kind = "leave")
  <2> HIDE DEF j
  <2>1. LET i == [j EXCEPT !.step = "insert"]
        IN  i \in Job /\ i.kind = j.kind /\ i.actor = j.actor /\ i.player = j.player /\ i.step = "insert"
    BY <1>2 DEF Job
  <2> QED BY <1>2, <2>1, TableDoneIs
<1> HIDE DEF n
<1> QED BY <1>1, <1>2, <1>3, <1>4, SaveMoves DEF SoundInv, TypeOK

LEMMA InsertSound ==
  ASSUME SoundInv, NEW w \in Workers, NEW i \in Items, Insert(w, i)
  PROVE  SoundInv'
<1> DEFINE j == job[w]
           left == [j.left EXCEPT ![i] = 0]
           n == IF left = None THEN TableDone(j) ELSE [j EXCEPT !.left = left]
           k == rows[j.player][j.table][i] + j.left[i]
<1>1. /\ Busy(w) /\ j.step = "insert" /\ job' = [job EXCEPT ![w] = n]
      /\ rows' = [rows EXCEPT ![j.player][j.table][i] = k]
      /\ UNCHANGED <<online, owner, memory, dirty, work, round, logins, changes, ledger>>
  BY DEF Insert
<1>2. j \in Job /\ j.kind # "load"
  BY <1>1, Saving
<1>3. k \in Nat /\ left \in [Items -> Nat]
  BY <1>2, JobTyped DEF SoundInv, TypeOK, Stock
<1>4. rows' \in [Players -> Stock]
  <2>1. rows \in [Players -> Stock] /\ j.player \in Players /\ j.table \in Tables
    BY <1>2, JobTyped DEF SoundInv, TypeOK
  <2> HIDE DEF k, j, left, n
  <2>2. rows' = [rows EXCEPT ![j.player][j.table][i] = k] /\ k \in Nat
    BY <1>1, <1>3
  <2>3. [rows EXCEPT ![j.player][j.table][i] = k] \in [Players -> Stock]
    BY <2>1, <2>2, ItemPut
  <2> QED BY <2>2, <2>3
<1>5. \/ n = Idle
      \/ /\ n \in Job /\ n.kind = j.kind /\ n.actor = j.actor /\ n.player = j.player
         /\ n.step \in {"list", "insert"} \/ (n.step = "remove" /\ n.kind = "leave")
  <2> HIDE DEF j, left
  <2>1. LET m == [j EXCEPT !.left = left]
        IN  m \in Job /\ m.kind = j.kind /\ m.actor = j.actor /\ m.player = j.player /\ m.step = j.step
    BY <1>2, <1>3 DEF Job
  <2> QED BY <1>1, <1>2, <2>1, TableDoneIs
<1> HIDE DEF n
<1> QED BY <1>1, <1>2, <1>4, <1>5, SaveMoves DEF SoundInv, TypeOK

LEMMA StatementFailsSound ==
  ASSUME SoundInv, NEW w \in Workers, StatementFails(w)
  PROVE  SoundInv'
<1> DEFINE j == job[w]
           n == TableDone(j)
<1>1. /\ Busy(w) /\ j.step \in {"delete", "insert"} /\ job' = [job EXCEPT ![w] = n]
      /\ Disturb(j.player, {"failed"})
      /\ UNCHANGED <<rows, online, owner, memory, dirty, work, round, logins, changes>>
  BY DEF StatementFails, Fails
<1>2. j \in Job /\ j.kind # "load"
  BY <1>1, Saving
<1>3. \/ n = Idle
      \/ /\ n \in Job /\ n.kind = j.kind /\ n.actor = j.actor /\ n.player = j.player
         /\ n.step = "list" \/ (n.step = "remove" /\ n.kind = "leave")
  <2> HIDE DEF j
  <2> QED BY <1>2, TableDoneIs
<1>4. ledger' \in [Players -> Account \union {Closed}]
  BY <1>1, <1>2, JobTyped, DisturbTyped DEF SoundInv, TypeOK
<1> HIDE DEF n
<1> QED BY <1>1, <1>2, <1>3, <1>4, SaveMoves DEF SoundInv, TypeOK

LEMMA EnterGameSound ==
  ASSUME SoundInv, NEW l \in Lanes, NEW p \in Players, EnterGame(l, p)
  PROVE  SoundInv'
<1> DEFINE a == logins + 1
           n == NewJob("load", a, p, "read")
<1>1. TypeOK /\ ActorsSound /\ (\A b \in Actors : Feasible(b)) /\ (\A v \in Workers : JobSound(v))
  BY DEF SoundInv
<1>2. /\ ~ Busy(l) /\ online[p] = 0 /\ logins < MaxLogin /\ logins' = a
      /\ owner' = [owner EXCEPT ![a] = p] /\ job' = [job EXCEPT ![l] = n]
      /\ Disturb(p, When(SavesOf(p) # {}, "overlap"))
      /\ UNCHANGED <<rows, online, memory, dirty, work, round, changes>>
  BY DEF EnterGame
<1>3. a \in Actors /\ a # 0 /\ logins' \in 0 .. MaxLogin
  BY <1>1, <1>2 DEF TypeOK, Actors
<1>4. owner[a] = Nobody
  BY <1>1, <1>2, <1>3 DEF TypeOK, ActorsSound
<1> HIDE DEF a
<1>5. /\ n \in Job /\ n.kind = "load" /\ n.actor = a /\ n.player = p /\ n.step = "read"
  BY <1>3, NewJobTyped
<1> HIDE DEF n
<1>6. l \in Workers /\ l # "loop" /\ n # Idle
  BY <1>5, JobTyped DEF Workers
<1>7. /\ job'[l] = n /\ \A v \in Workers \ {l} : job'[v] = job[v]
      /\ owner'[a] = p /\ \A b \in Actors \ {a} : owner'[b] = owner[b]
  BY <1>1, <1>2, <1>3, <1>6 DEF TypeOK
<1>8. TypeOK'
  <2>1. owner' \in [Actors -> Players \union {Nobody}]
    BY <1>1, <1>2 DEF TypeOK
  <2>2. job' \in [Workers -> Job \union {Idle}]
    BY <1>1, <1>2, <1>5 DEF TypeOK
  <2>3. ledger' \in [Players -> Account \union {Closed}]
    BY <1>1, <1>2, DisturbTyped DEF TypeOK
  <2> QED BY <1>1, <1>2, <1>3, <2>1, <2>2, <2>3 DEF TypeOK
<1>9. ActorsSound'
  <2>1. \A b \in Actors : owner'[b] # Nobody => b <= logins'
    BY <1>1, <1>2, <1>7 DEF ActorsSound, TypeOK, Actors, a
  <2>2. \A q \in Players : online[q] # 0 => online[q] \in Actors /\ online[q] # a
    BY <1>1, <1>4 DEF ActorsSound, TypeOK, Actors
  <2> QED BY <1>1, <1>2, <1>4, <1>7, <2>1, <2>2 DEF ActorsSound, TypeOK
<1>10. \A b \in Actors : Feasible(b)'
  BY <1>1, <1>2 DEF Feasible
<1>11. ASSUME NEW v \in Workers, v # l, Busy(v)
       PROVE  job[v] \in Job /\ job[v].actor \in Actors /\ job[v].actor # a
  <2>1. job[v] \in Job
    BY <1>1, <1>11 DEF TypeOK, Busy
  <2>2. owner[job[v].actor] = job[v].player
    BY <1>1, <1>11 DEF JobSound
  <2> QED BY <1>4, <2>1, <2>2, JobTyped
<1>12. ASSUME NEW v \in Workers PROVE JobSound(v)'
  <2>1. CASE v = l
    <3>1. online[p] # a /\ work[a] = <<>>
      BY <1>1, <1>2, <1>3, <1>4 DEF ActorsSound
    <3>2. \A u \in Workers : Loading(u)' /\ job'[u].actor = a => u = l
      BY <1>7, <1>11 DEF Loading, Busy
    <3> QED BY <1>2, <1>5, <1>6, <1>7, <2>1, <3>1, <3>2 DEF JobSound
  <2>2. CASE v # l
    <3>1. \A u \in Workers : Loading(u)' => u = l \/ Loading(u)
      BY <1>7 DEF Loading, Busy
    <3> QED BY <1>1, <1>2, <1>5, <1>7, <1>11, <2>2, <3>1 DEF JobSound, Busy
  <2> QED BY <2>1, <2>2
<1> QED BY <1>8, <1>9, <1>10, <1>12 DEF SoundInv

LEMMA LoadTableSound ==
  ASSUME SoundInv, NEW l \in Lanes, LoadTable(l)
  PROVE  SoundInv'
<1> DEFINE j == job[l]
           n == IF j.table = "bag" THEN [j EXCEPT !.table = "warehouse"] ELSE [j EXCEPT !.step = "add"]
<1>1. TypeOK /\ ActorsSound /\ (\A b \in Actors : Feasible(b)) /\ (\A v \in Workers : JobSound(v))
  BY DEF SoundInv
<1>2. /\ Busy(l) /\ j.step = "read"
      /\ \/ memory' = [memory EXCEPT ![j.actor][j.table] = rows[j.player][j.table]] /\ UNCHANGED ledger
         \/ Disturb(j.player, {"failed"}) /\ UNCHANGED memory
      /\ UNCHANGED <<rows, online, owner, dirty, work, round, logins, changes>>
  BY DEF LoadTable, Fails
<1>3. l \in Workers /\ l # "loop"
  BY DEF Workers
<1>4. j \in Job /\ JobSound(l)
  BY <1>1, <1>2, <1>3 DEF TypeOK, Busy
<1>5. j.kind = "load"
  BY <1>2, <1>3, <1>4, JobTyped DEF JobSound
<1>6. job' = [job EXCEPT ![l] = n]
  BY <1>1, <1>3 DEF LoadTable, TypeOK
<1>7. j.player \in Players /\ j.actor \in Actors /\ j.table \in Tables
  BY <1>4, JobTyped
<1> HIDE DEF j
<1>8. /\ n \in Job /\ n.kind = "load" /\ n.actor = j.actor /\ n.player = j.player
      /\ n.step \in {"read", "add"}
      /\ n.step # "read" => n.table = "warehouse"
  BY <1>2, <1>4, <1>5, <1>7 DEF Job, Tables
<1> HIDE DEF n
<1>9. job'[l] = n /\ n # Idle /\ \A v \in Workers \ {l} : job'[v] = job[v]
  BY <1>1, <1>3, <1>6, <1>8, JobTyped DEF TypeOK
<1>10. /\ memory' \in [Actors -> Stock]
       /\ \A a \in Actors \ {j.actor} : memory'[a] = memory[a]
  <2>1. rows[j.player][j.table] \in [Items -> Nat] /\ memory \in [Actors -> Stock]
    BY <1>1, <1>7 DEF TypeOK, Stock
  <2>2. CASE memory' = [memory EXCEPT ![j.actor][j.table] = rows[j.player][j.table]]
    BY <1>7, <2>1, <2>2, TablePut
  <2> QED BY <1>2, <2>1, <2>2
<1>11. TypeOK'
  <2>1. ledger' \in [Players -> Account \union {Closed}]
    BY <1>1, <1>2, <1>7, DisturbTyped DEF TypeOK
  <2>2. job' \in [Workers -> Job \union {Idle}]
    BY <1>1, <1>6, <1>8 DEF TypeOK
  <2> QED BY <1>1, <1>2, <1>10, <2>1, <2>2 DEF TypeOK
<1>12. ActorsSound'
  BY <1>1, <1>2 DEF ActorsSound
<1>13. work[j.actor] = <<>> /\ online[j.player] # j.actor /\ owner[j.actor] = j.player
       /\ \A v \in Workers : Loading(v) /\ job[v].actor = j.actor => v = l
  BY <1>2, <1>4, <1>5 DEF JobSound, j
<1>14. \A a \in Actors : Feasible(a)'
  BY <1>1, <1>2, <1>10, <1>13 DEF Feasible
<1>15. \A v \in Workers : Loading(v)' <=> Loading(v)
  BY <1>2, <1>5, <1>8, <1>9 DEF Loading, Busy, j
<1>16. ASSUME NEW v \in Workers PROVE JobSound(v)'
  <2>1. \A u \in Workers : Loading(u) => job'[u].actor = job[u].actor
    BY <1>8, <1>9 DEF j
  <2>2. CASE v = l
    BY <1>2, <1>3, <1>8, <1>9, <1>13, <1>15, <2>1, <2>2 DEF JobSound
  <2>3. CASE v # l
    BY <1>1, <1>2, <1>9, <1>15, <2>1, <2>3 DEF JobSound, Busy
  <2> QED BY <2>2, <2>3
<1> QED BY <1>11, <1>12, <1>14, <1>16 DEF SoundInv

LEMMA AddPlayerSound ==
  ASSUME SoundInv, NEW l \in Lanes, AddPlayer(l)
  PROVE  SoundInv'
<1> DEFINE j == job[l]
           n == IF online[j.player] # 0 THEN Idle ELSE [j EXCEPT !.step = "store"]
<1>1. TypeOK /\ ActorsSound /\ (\A b \in Actors : Feasible(b)) /\ (\A v \in Workers : JobSound(v))
  BY DEF SoundInv
<1>2. /\ Busy(l) /\ j.step = "add"
      /\ UNCHANGED <<rows, online, owner, memory, dirty, work, round, logins, changes, ledger>>
  BY DEF AddPlayer
<1>3. l \in Workers /\ l # "loop"
  BY DEF Workers
<1>4. j \in Job /\ JobSound(l)
  BY <1>1, <1>2, <1>3 DEF TypeOK, Busy
<1>5. j.kind = "load" /\ j.table = "warehouse"
  BY <1>2, <1>3, <1>4, JobTyped DEF JobSound
<1>6. job' = [job EXCEPT ![l] = n]
  BY <1>1, <1>3 DEF AddPlayer, TypeOK, Return, Goto
<1> HIDE DEF j
<1>7. \/ n = Idle
      \/ /\ n \in Job /\ n.kind = "load" /\ n.actor = j.actor /\ n.player = j.player
         /\ n.step = "store" /\ n.table = "warehouse"
  BY <1>4, <1>5 DEF Job
<1> HIDE DEF n
<1>8. job'[l] = n /\ \A v \in Workers \ {l} : job'[v] = job[v]
  BY <1>1, <1>3, <1>6 DEF TypeOK
<1>9. TypeOK'
  <2>1. job' \in [Workers -> Job \union {Idle}]
    BY <1>1, <1>6, <1>7 DEF TypeOK
  <2> QED BY <1>1, <1>2, <2>1 DEF TypeOK
<1>10. ActorsSound' /\ \A a \in Actors : Feasible(a)'
  BY <1>1, <1>2 DEF ActorsSound, Feasible
<1>11. \A v \in Workers : Loading(v)' => Loading(v) /\ job'[v].actor = job[v].actor
  BY <1>2, <1>5, <1>7, <1>8 DEF Loading, Busy, j
<1>12. ASSUME NEW v \in Workers PROVE JobSound(v)'
  <2>1. CASE v = l
    BY <1>1, <1>2, <1>3, <1>4, <1>5, <1>7, <1>8, <1>11, <2>1 DEF JobSound, Busy, j
  <2>2. CASE v # l
    BY <1>1, <1>2, <1>8, <1>11, <2>2 DEF JobSound, Busy
  <2> QED BY <2>1, <2>2
<1> QED BY <1>9, <1>10, <1>12 DEF SoundInv

LEMMA StorePlayerSound ==
  ASSUME SoundInv, NEW l \in Lanes, StorePlayer(l)
  PROVE  SoundInv'
<1> DEFINE j == job[l]
<1>1. TypeOK /\ ActorsSound /\ (\A b \in Actors : Feasible(b)) /\ (\A v \in Workers : JobSound(v))
  BY DEF SoundInv
<1>2. /\ Busy(l) /\ j.step = "store"
      /\ online' = [online EXCEPT ![j.player] = j.actor]
      /\ Disturb(j.player, When(online[j.player] # 0, "twin"))
      /\ job' = [job EXCEPT ![l] = Idle]
      /\ UNCHANGED <<rows, owner, memory, dirty, work, round, logins, changes>>
  BY DEF StorePlayer, Return
<1>3. l \in Workers /\ l # "loop"
  BY DEF Workers
<1>4. j \in Job /\ JobSound(l)
  BY <1>1, <1>2, <1>3 DEF TypeOK, Busy
<1>5. /\ j.kind = "load" /\ owner[j.actor] = j.player
      /\ \A v \in Workers : Loading(v) /\ job[v].actor = j.actor => v = l
  BY <1>2, <1>3, <1>4, JobTyped DEF JobSound
<1>6. j.player \in Players /\ j.actor \in Actors
  BY <1>4, JobTyped
<1>7. job'[l] = Idle /\ \A v \in Workers \ {l} : job'[v] = job[v]
  BY <1>1, <1>2, <1>3 DEF TypeOK
<1> HIDE DEF j
<1>8. TypeOK'
  <2>1. job' \in [Workers -> Job \union {Idle}]
    BY <1>1, <1>2 DEF TypeOK
  <2>2. online' \in [Players -> 0 .. MaxLogin]
    BY <1>1, <1>2, <1>6 DEF TypeOK, Actors
  <2>3. ledger' \in [Players -> Account \union {Closed}]
    BY <1>1, <1>2, <1>6, DisturbTyped DEF TypeOK
  <2> QED BY <1>1, <1>2, <2>1, <2>2, <2>3 DEF TypeOK
<1>9. \A q \in Players : online'[q] = IF q = j.player THEN j.actor ELSE online[q]
  BY <1>1, <1>2, <1>6 DEF TypeOK
<1>10. ActorsSound' /\ \A a \in Actors : Feasible(a)'
  BY <1>1, <1>2, <1>5, <1>9 DEF ActorsSound, Feasible
<1>11. \A v \in Workers : Loading(v)' => v # l /\ Loading(v) /\ job'[v] = job[v]
  BY <1>7 DEF Loading, Busy
<1>12. ASSUME NEW v \in Workers PROVE JobSound(v)'
  <2>1. CASE v = l
    BY <1>7, <2>1 DEF JobSound, Busy
  <2>2. CASE v # l
    <3>1. Loading(v) => job[v].actor # j.actor /\ job[v].player \in Players
      BY <1>1, <1>5, <2>2, JobTyped DEF Loading, Busy, TypeOK
    <3> QED BY <1>1, <1>2, <1>7, <1>9, <1>11, <2>2, <3>1 DEF JobSound, Busy, Loading
  <2> QED BY <2>1, <2>2
<1> QED BY <1>8, <1>10, <1>12 DEF SoundInv

LEMMA LeaveGameSound ==
  ASSUME SoundInv, NEW l \in Lanes, NEW p \in Players, LeaveGame(l, p)
  PROVE  SoundInv'
<1> DEFINE a == online[p]
           n == NewJob("leave", a, p, "list")
<1>1. TypeOK /\ ActorsSound /\ (\A b \in Actors : Feasible(b)) /\ (\A v \in Workers : JobSound(v))
  BY DEF SoundInv
<1>2. /\ ~ Busy(l) /\ a # 0 /\ job' = [job EXCEPT ![l] = n]
      /\ Disturb(p, When(JobsOf(p) # {}, "overlap"))
      /\ UNCHANGED <<rows, online, owner, memory, dirty, work, round, logins, changes>>
  BY DEF LeaveGame
<1>3. a \in Actors /\ owner[a] = p
  BY <1>1, <1>2 DEF TypeOK, Actors, ActorsSound
<1> HIDE DEF a
<1>4. n \in Job /\ n.kind = "leave" /\ n.actor = a /\ n.player = p /\ n.step = "list"
  BY <1>3, NewJobTyped
<1> HIDE DEF n
<1>5. l \in Workers /\ l # "loop" /\ n # Idle
  BY <1>4, JobTyped DEF Workers
<1>6. job'[l] = n /\ \A v \in Workers \ {l} : job'[v] = job[v]
  BY <1>1, <1>2, <1>5 DEF TypeOK
<1>7. TypeOK'
  <2>1. job' \in [Workers -> Job \union {Idle}]
    BY <1>1, <1>2, <1>4 DEF TypeOK
  <2>2. ledger' \in [Players -> Account \union {Closed}]
    BY <1>1, <1>2, DisturbTyped DEF TypeOK
  <2> QED BY <1>1, <1>2, <2>1, <2>2 DEF TypeOK
<1>8. ActorsSound' /\ \A b \in Actors : Feasible(b)'
  BY <1>1, <1>2 DEF ActorsSound, Feasible
<1>9. \A v \in Workers : Loading(v)' => v # l /\ Loading(v) /\ job'[v] = job[v]
  BY <1>4, <1>6 DEF Loading, Busy
<1>10. ASSUME NEW v \in Workers PROVE JobSound(v)'
  <2>1. CASE v = l
    BY <1>2, <1>3, <1>4, <1>5, <1>6, <2>1 DEF JobSound
  <2>2. CASE v # l
    BY <1>1, <1>2, <1>6, <1>9, <2>2 DEF JobSound, Busy
  <2> QED BY <2>1, <2>2
<1> QED BY <1>7, <1>8, <1>10 DEF SoundInv

LEMMA RemovePlayerSound ==
  ASSUME SoundInv, NEW l \in Lanes, RemovePlayer(l)
  PROVE  SoundInv'
<1> DEFINE j == job[l]
<1>1. TypeOK /\ ActorsSound /\ (\A b \in Actors : Feasible(b)) /\ (\A v \in Workers : JobSound(v))
  BY DEF SoundInv
<1>2. /\ Busy(l) /\ j.step = "remove"
      /\ online' = [online EXCEPT ![j.player] = 0]
      /\ Disturb(j.player, When(online[j.player] \notin {0, j.actor}, "evicted"))
      /\ job' = [job EXCEPT ![l] = Idle]
      /\ UNCHANGED <<rows, owner, memory, dirty, work, round, logins, changes>>
  BY DEF RemovePlayer, Return
<1>3. l \in Workers
  BY DEF Workers
<1>4. j \in Job /\ j.player \in Players
  BY <1>1, <1>2, <1>3, JobTyped DEF TypeOK, Busy
<1>5. job'[l] = Idle /\ \A v \in Workers \ {l} : job'[v] = job[v]
  BY <1>1, <1>2, <1>3 DEF TypeOK
<1> HIDE DEF j
<1>6. TypeOK'
  <2>1. job' \in [Workers -> Job \union {Idle}]
    BY <1>1, <1>2 DEF TypeOK
  <2>2. online' \in [Players -> 0 .. MaxLogin]
    <3>1. 0 \in 0 .. MaxLogin
      OBVIOUS
    <3> QED BY <1>1, <1>2, <3>1 DEF TypeOK
  <2>3. ledger' \in [Players -> Account \union {Closed}]
    BY <1>1, <1>2, <1>4, DisturbTyped DEF TypeOK
  <2> QED BY <1>1, <1>2, <2>1, <2>2, <2>3 DEF TypeOK
<1>7. \A q \in Players : online'[q] = IF q = j.player THEN 0 ELSE online[q]
  BY <1>1, <1>2 DEF TypeOK
<1>8. ActorsSound' /\ \A b \in Actors : Feasible(b)'
  BY <1>1, <1>2, <1>7 DEF ActorsSound, Feasible
<1>9. \A v \in Workers : Loading(v)' => v # l /\ Loading(v) /\ job'[v] = job[v]
  BY <1>5 DEF Loading, Busy
<1>10. ASSUME NEW v \in Workers PROVE JobSound(v)'
  <2>1. CASE v = l
    BY <1>5, <2>1 DEF JobSound, Busy
  <2>2. CASE v # l
    <3>1. Busy(v) => job[v].player \in Players /\ job[v].actor # 0
      BY <1>1, JobTyped DEF TypeOK, Busy, Actors
    <3> QED BY <1>1, <1>2, <1>5, <1>7, <1>9, <2>2, <3>1 DEF JobSound, Busy
  <2> QED BY <2>1, <2>2
<1> QED BY <1>6, <1>8, <1>10 DEF SoundInv

LEMMA TickSound ==
  ASSUME SoundInv, Tick
  PROVE  SoundInv'
<1>1. TypeOK /\ ActorsSound /\ (\A b \in Actors : Feasible(b)) /\ (\A v \in Workers : JobSound(v))
  BY DEF SoundInv
<1>2. /\ round' = {online[p] : p \in Players} \ {0}
      /\ UNCHANGED <<rows, online, owner, memory, dirty, work, job, logins, changes, ledger>>
  BY DEF Tick
<1>3. round' \subseteq Actors
  BY <1>1, <1>2 DEF TypeOK, Actors
<1>4. TypeOK'
  BY <1>1, <1>2, <1>3 DEF TypeOK
<1>5. ActorsSound' /\ \A b \in Actors : Feasible(b)'
  BY <1>1, <1>2 DEF ActorsSound, Feasible
<1>6. \A v \in Workers : JobSound(v)'
  BY <1>1, <1>2 DEF JobSound, Loading, Busy
<1> QED BY <1>4, <1>5, <1>6 DEF SoundInv

\* what the player of actor a meets when the loop takes his mark
MetByTake(a) ==
  UNION {When(JobsOf(owner[a]) # {}, "overlap"), When(online[owner[a]] # a, "stale"),
         When(work[a] # <<>>, "raced")}

LEMMA TakeBooks ==
  ASSUME SoundInv, NEW a \in Actors, NEW p \in Players, p = owner[a], dirty[a], Take(a)
  PROVE  /\ ledger' \in [Players -> Account \union {Closed}]
         /\ \A q \in Players \ {p} : ledger'[q] = ledger[q]
         /\ ledger'[p] # Closed =>
              /\ ledger[p] # Closed
              /\ MetByTake(a) \intersect Excused \subseteq Passing
              /\ ledger'[p].owned = ledger[p].owned
              /\ ledger'[p].met =
                   (IF work[a] = <<>> THEN {} ELSE ledger[p].met)
                     \union (MetByTake(a) \intersect Excused)
<1> DEFINE d == MetByTake(a)
           b == MadeGood(ledger[p], a)
<1>1. ledger \in [Players -> Account \union {Closed}]
  BY DEF SoundInv, TypeOK
<1>2. ledger' = [ledger EXCEPT ![p] = Book(b, ledger[p].owned, d)]
  BY DEF Take, MetByTake
<1>3. ledger[p].owned \in [Tables -> [Items -> Int]]
  BY <1>1, OwnedTyped
<1>4. /\ b \in Account \union {Closed}
      /\ b # Closed => ledger[p] # Closed /\ b.met = IF work[a] = <<>> THEN {} ELSE ledger[p].met
  <2>1. CASE work[a] = <<>> /\ ledger[p] # Closed
    <3>1. b = [ledger[p] EXCEPT !.met = {}]
      BY <2>1 DEF MadeGood
    <3> QED BY <1>1, <2>1, <3>1 DEF Account
  <2>2. CASE ~ (work[a] = <<>> /\ ledger[p] # Closed)
    BY <1>1, <2>2 DEF MadeGood
  <2> QED BY <2>1, <2>2
<1> HIDE DEF b, d
<1>5. /\ Book(b, ledger[p].owned, d) \in Account \union {Closed}
      /\ Book(b, ledger[p].owned, d) # Closed =>
           /\ b # Closed
           /\ d \intersect Excused \subseteq Passing
           /\ Book(b, ledger[p].owned, d).owned = ledger[p].owned
           /\ Book(b, ledger[p].owned, d).met = b.met \union (d \intersect Excused)
  <2>1. b \in Account \union {Closed} /\ ledger[p].owned \in [Tables -> [Items -> Int]]
    BY <1>3, <1>4
  <2> QED BY <2>1, BookTyped
<1> QED BY <1>1, <1>2, <1>4, <1>5 DEF d

LEMMA TakeSound ==
  ASSUME SoundInv, NEW a \in round, Take(a)
  PROVE  SoundInv'
<1> DEFINE p == owner[a]
           n == NewJob("sweep", a, p, "list")
<1>1. TypeOK /\ ActorsSound /\ (\A b \in Actors : Feasible(b)) /\ (\A v \in Workers : JobSound(v))
  BY DEF SoundInv
<1>2. /\ ~ Busy("loop") /\ round' = round \ {a} /\ dirty' = [dirty EXCEPT ![a] = FALSE]
      /\ UNCHANGED <<rows, online, owner, memory, work, logins, changes>>
      /\ dirty[a] => job' = [job EXCEPT !["loop"] = n]
      /\ ~ dirty[a] => UNCHANGED <<job, ledger>>
  BY DEF Take
<1>3. a \in Actors /\ p \in Players /\ "loop" \in Workers
  BY <1>1 DEF TypeOK, ActorsSound, Workers
<1>4. /\ n \in Job /\ n.kind = "sweep" /\ n.actor = a /\ n.player = p /\ n.step = "list"
      /\ n # Idle
  BY <1>3, NewJobTyped, JobTyped
<1> HIDE DEF n
<1>5. dirty' \in [Actors -> BOOLEAN]
  BY <1>1, <1>2 DEF TypeOK
<1>6. ledger' \in [Players -> Account \union {Closed}]
  <2>1. CASE dirty[a]
    BY <1>3, <2>1, TakeBooks
  <2>2. CASE ~ dirty[a]
    BY <1>1, <1>2, <2>2 DEF TypeOK
  <2> QED BY <2>1, <2>2
<1>7. job' \in [Workers -> Job \union {Idle}]
  BY <1>1, <1>2, <1>4 DEF TypeOK
<1>8. TypeOK'
  BY <1>1, <1>2, <1>5, <1>6, <1>7 DEF TypeOK
<1>9. ActorsSound' /\ \A b \in Actors : Feasible(b)'
  BY <1>1, <1>2 DEF ActorsSound, Feasible
<1>10. /\ \A v \in Workers \ {"loop"} : job'[v] = job[v]
       /\ job'["loop"] = n \/ job'["loop"] = job["loop"]
  BY <1>1, <1>2, <1>3 DEF TypeOK
<1>11. \A v \in Workers : Loading(v)' => v # "loop" /\ Loading(v) /\ job'[v] = job[v]
  BY <1>2, <1>4, <1>10 DEF Loading, Busy
<1>12. ASSUME NEW v \in Workers PROVE JobSound(v)'
  <2>1. CASE v = "loop"
    BY <1>2, <1>4, <1>10, <2>1 DEF JobSound, Busy
  <2>2. CASE v # "loop"
    BY <1>1, <1>2, <1>10, <1>11, <2>2 DEF JobSound, Busy
  <2> QED BY <2>1, <2>2
<1> QED BY <1>8, <1>9, <1>12 DEF SoundInv

LEMMA ApplyTyped ==
  ASSUME NEW op \in Op
  PROVE  /\ \A s \in Stock :
              (op.act = "take" => s[op.table][op.item] > 0) =>
                /\ Apply(op, s) \in Stock
                /\ \A t \in Tables \ {op.table} : Apply(op, s)[t] = s[t]
         /\ \A s \in [Tables -> [Items -> Int]] : Apply(op, s) \in [Tables -> [Items -> Int]]
<1>1. op.act \in {"put", "take"} /\ op.table \in Tables /\ op.item \in Items
  BY DEF Op
<1> QED BY <1>1 DEF Apply, Stock

\* The messages an actor may take: what they do first can be done.
LEMMA MessageTyped ==
  ASSUME NEW s \in Stock
  PROVE  /\ \A m \in MarkedMessage(s) :
              \E o, r \in Op :
                /\ m = <<o>> \/ m = <<o, r>>
                /\ o.act = "take" /\ r.act = "put" /\ o.marked /\ r.marked
                /\ s[o.table][o.item] > 0
         /\ \A m \in Grant : \E o \in Op : m = <<o>> /\ o.act = "put" /\ ~ o.marked
<1>0. "bag" \in Tables
  BY DEF Tables
<1>1. ASSUME NEW m \in MarkedMessage(s)
      PROVE  \E o, r \in Op :
               /\ m = <<o>> \/ m = <<o, r>>
               /\ o.act = "take" /\ r.act = "put" /\ o.marked /\ r.marked
               /\ s[o.table][o.item] > 0
  <2>1. CASE \E i \in Items : s["bag"][i] > 0 /\ m = <<Pick("bag", i)>>
    <3>1. PICK i \in Items : s["bag"][i] > 0 /\ m = <<Pick("bag", i)>>
      BY <2>1
    <3>2. /\ Pick("bag", i) \in Op /\ Pick("bag", i).act = "take" /\ Pick("bag", i).marked
          /\ Pick("bag", i).table = "bag" /\ Pick("bag", i).item = i
          /\ Put("bag", i, TRUE) \in Op /\ Put("bag", i, TRUE).act = "put" /\ Put("bag", i, TRUE).marked
      BY <1>0 DEF Put, Pick, Op
    <3> QED BY <3>1, <3>2
  <2>2. CASE \E from, to \in Tables, i \in Items :
               s[from][i] > 0 /\ m = <<Pick(from, i), Put(to, i, TRUE)>>
    <3>1. PICK from \in Tables, to \in Tables, i \in Items :
            s[from][i] > 0 /\ m = <<Pick(from, i), Put(to, i, TRUE)>>
      BY <2>2
    <3>2. /\ Pick(from, i) \in Op /\ Pick(from, i).act = "take" /\ Pick(from, i).marked
          /\ Pick(from, i).table = from /\ Pick(from, i).item = i
          /\ Put(to, i, TRUE) \in Op /\ Put(to, i, TRUE).act = "put" /\ Put(to, i, TRUE).marked
      BY DEF Put, Pick, Op
    <3> QED BY <3>1, <3>2
  <2>3. CASE m \in UNION {Moved(s, from) : from \in Tables}
    <3>1. PICK from \in Tables : m \in Moved(s, from)
      BY <2>3
    <3>2. PICK to \in Tables :
            m \in {<<Pick(from, i), Put(to, i, TRUE)>> : i \in {k \in Items : s[from][k] > 0}}
      BY <3>1 DEF Moved
    <3> QED BY <2>2, <3>2
  <2> QED BY <1>1, <2>1, <2>3 DEF MarkedMessage
<1>2. ASSUME NEW m \in Grant
      PROVE  \E o \in Op : m = <<o>> /\ o.act = "put" /\ ~ o.marked
  <2>1. PICK i \in Items : m = <<Put("bag", i, FALSE)>>
    BY <1>2 DEF Grant
  <2>2. /\ Put("bag", i, FALSE) \in Op /\ Put("bag", i, FALSE).act = "put"
        /\ ~ Put("bag", i, FALSE).marked
    BY <1>0 DEF Put, Pick, Op
  <2> QED BY <2>1, <2>2
<1> QED BY <1>1, <1>2

LEMMA HandleMessageSound ==
  ASSUME SoundInv, NEW a \in Actors, HandleMessage(a)
  PROVE  SoundInv'
<1>1. TypeOK /\ ActorsSound /\ (\A b \in Actors : Feasible(b)) /\ (\A v \in Workers : JobSound(v))
  BY DEF SoundInv
<1>2. /\ owner[a] \in Players /\ online[owner[a]] = a /\ changes < MaxChange
      /\ changes' = changes + 1
      /\ UNCHANGED <<rows, online, owner, memory, job, round, logins, ledger>>
  BY DEF HandleMessage
<1>3. memory[a] \in Stock
  BY <1>1 DEF TypeOK
<1>4. PICK m :
        /\ work' = [work EXCEPT ![a] = m]
        /\ dirty' \in [Actors -> BOOLEAN]
        /\ \/ \E o \in Op : m = <<o>> /\ (o.act = "take" => memory[a][o.table][o.item] > 0)
           \/ \E o, r \in Op :
                /\ m = <<o, r>> /\ o.act = "take" /\ r.act = "put" /\ o.marked /\ r.marked
                /\ memory[a][o.table][o.item] > 0
  <2>1. CASE \E m \in MarkedMessage(memory[a]) :
               work' = [work EXCEPT ![a] = m] /\ dirty' = [dirty EXCEPT ![a] = TRUE]
    <3>1. PICK m \in MarkedMessage(memory[a]) :
            work' = [work EXCEPT ![a] = m] /\ dirty' = [dirty EXCEPT ![a] = TRUE]
      BY <2>1
    <3>2. dirty' \in [Actors -> BOOLEAN]
      BY <1>1, <3>1 DEF TypeOK
    <3>3. \E o, r \in Op :
            /\ m = <<o>> \/ m = <<o, r>>
            /\ o.act = "take" /\ r.act = "put" /\ o.marked /\ r.marked
            /\ memory[a][o.table][o.item] > 0
      BY <1>3, MessageTyped
    <3> QED BY <3>1, <3>2, <3>3
  <2>2. CASE \E m \in Grant : work' = [work EXCEPT ![a] = m] /\ UNCHANGED dirty
    <3>1. PICK m \in Grant : work' = [work EXCEPT ![a] = m] /\ UNCHANGED dirty
      BY <2>2
    <3>2. \E o \in Op : m = <<o>> /\ o.act = "put" /\ ~ o.marked
      BY <1>3, MessageTyped
    <3>3. \E o \in Op : m = <<o>> /\ (o.act = "take" => memory[a][o.table][o.item] > 0)
      BY <3>2
    <3> QED BY <1>1, <3>1, <3>3 DEF TypeOK
  <2> QED BY <2>1, <2>2 DEF HandleMessage
<1>5. work'[a] = m /\ \A b \in Actors \ {a} : work'[b] = work[b]
  BY <1>1, <1>4 DEF TypeOK
<1>6. m \in Seq(Op) /\ work' \in [Actors -> Seq(Op)]
  <2>1. \A o, r \in Op : <<o>> \in Seq(Op) /\ <<o, r>> \in Seq(Op)
    OBVIOUS
  <2>2. m \in Seq(Op)
    BY <1>4, <2>1
  <2> QED BY <1>1, <1>4, <2>2 DEF TypeOK
<1>7. changes' \in 0 .. MaxChange
  BY <1>1, <1>2 DEF TypeOK
<1>8. TypeOK'
  BY <1>1, <1>2, <1>4, <1>6, <1>7 DEF TypeOK
<1>9. ActorsSound'
  BY <1>1, <1>2, <1>5 DEF ActorsSound
<1>10. ASSUME NEW b \in Actors PROVE Feasible(b)'
  <2>1. CASE b = a
    BY <1>2, <1>4, <1>5, <2>1 DEF Feasible
  <2>2. CASE b # a
    BY <1>1, <1>2, <1>5, <2>2 DEF Feasible
  <2> QED BY <2>1, <2>2
<1>11. ASSUME NEW v \in Workers PROVE JobSound(v)'
  <2>1. Loading(v) => job[v].actor # a /\ job[v].actor \in Actors
    <3>1. Loading(v) => job[v] \in Job /\ JobSound(v)
      BY <1>1 DEF Loading, TypeOK, Busy
    <3> QED BY <1>1, <1>2, <3>1, JobTyped DEF JobSound, Loading
  <2> QED BY <1>1, <1>2, <1>5, <2>1 DEF JobSound, Loading, Busy
<1> QED BY <1>8, <1>9, <1>10, <1>11 DEF SoundInv

\* What is left of a message after its next change.
LEMMA ChangeTakes ==
  ASSUME SoundInv, NEW a \in Actors, work[a] # <<>>
  PROVE  /\ Head(work[a]) \in Op /\ Tail(work[a]) \in Seq(Op)
         /\ Head(work[a]).act = "take" => memory[a][Head(work[a]).table][Head(work[a]).item] > 0
         /\ \/ Tail(work[a]) = <<>>
            \/ \E r \in Op : Tail(work[a]) = <<r>> /\ r.act = "put"
<1>1. Feasible(a) /\ work[a] \in Seq(Op)
  BY DEF SoundInv, TypeOK
<1>2. CASE \E o \in Op : work[a] = <<o>> /\ (o.act = "take" => memory[a][o.table][o.item] > 0)
  <2>1. PICK o \in Op : work[a] = <<o>> /\ (o.act = "take" => memory[a][o.table][o.item] > 0)
    BY <1>2
  <2>2. Head(<<o>>) = o /\ Tail(<<o>>) = <<>>
    OBVIOUS
  <2> QED BY <1>1, <2>1, <2>2
<1>3. CASE \E o, r \in Op :
             /\ work[a] = <<o, r>>
             /\ o.act = "take" /\ r.act = "put" /\ memory[a][o.table][o.item] > 0
  <2>1. PICK o \in Op, r \in Op :
          /\ work[a] = <<o, r>>
          /\ o.act = "take" /\ r.act = "put" /\ memory[a][o.table][o.item] > 0
    BY <1>3
  <2>2. Head(<<o, r>>) = o /\ Tail(<<o, r>>) = <<r>>
    OBVIOUS
  <2> QED BY <1>1, <2>1, <2>2
<1> QED BY <1>1, <1>2, <1>3 DEF Feasible

LEMMA ChangeSound ==
  ASSUME SoundInv, NEW a \in Actors, Change(a)
  PROVE  SoundInv'
<1> DEFINE op == Head(work[a])
           p == owner[a]
           d == When(~ op.marked, "unmarked") \union When(Late(a, op.table), "late")
<1>1. TypeOK /\ ActorsSound /\ (\A b \in Actors : Feasible(b)) /\ (\A v \in Workers : JobSound(v))
  BY DEF SoundInv
<1>2. /\ work[a] # <<>> /\ work' = [work EXCEPT ![a] = Tail(work[a])]
      /\ memory' = [memory EXCEPT ![a] = Apply(op, memory[a])]
      /\ ledger' = [ledger EXCEPT ![p] = Book(ledger[p], Apply(op, ledger[p].owned), d)]
      /\ UNCHANGED <<rows, online, owner, dirty, job, round, logins, changes>>
  BY DEF Change
<1>3. p \in Players
  BY <1>1, <1>2 DEF ActorsSound
<1>4. /\ op \in Op /\ Tail(work[a]) \in Seq(Op)
      /\ op.act = "take" => memory[a][op.table][op.item] > 0
      /\ \/ Tail(work[a]) = <<>>
         \/ \E r \in Op : Tail(work[a]) = <<r>> /\ r.act = "put"
  BY <1>2, ChangeTakes
<1> HIDE DEF op, p, d
<1>5. Apply(op, memory[a]) \in Stock
  BY <1>1, <1>4, ApplyTyped DEF TypeOK
<1>6. Apply(op, ledger[p].owned) \in [Tables -> [Items -> Int]]
  BY <1>1, <1>3, <1>4, OwnedTyped, ApplyTyped DEF TypeOK
<1>7. Book(ledger[p], Apply(op, ledger[p].owned), d) \in Account \union {Closed}
  BY <1>1, <1>3, <1>6, BookTyped DEF TypeOK
<1>8. TypeOK'
  <2>1. memory' \in [Actors -> Stock] /\ work' \in [Actors -> Seq(Op)]
    BY <1>1, <1>2, <1>4, <1>5 DEF TypeOK
  <2>2. ledger' \in [Players -> Account \union {Closed}]
    BY <1>1, <1>2, <1>7 DEF TypeOK
  <2> QED BY <1>1, <1>2, <2>1, <2>2 DEF TypeOK
<1>9. /\ work'[a] = Tail(work[a])
      /\ \A b \in Actors \ {a} : work'[b] = work[b] /\ memory'[b] = memory[b]
  BY <1>1, <1>2 DEF TypeOK
<1>10. ActorsSound'
  BY <1>1, <1>2, <1>3, <1>9 DEF ActorsSound, p
<1>11. ASSUME NEW b \in Actors PROVE Feasible(b)'
  <2>1. CASE b = a
    BY <1>4, <1>9, <2>1 DEF Feasible, Op
  <2>2. CASE b # a
    BY <1>1, <1>9, <2>2 DEF Feasible
  <2> QED BY <2>1, <2>2
<1>12. ASSUME NEW v \in Workers PROVE JobSound(v)'
  <2>1. Loading(v) => job[v].actor # a /\ job[v].actor \in Actors
    <3>1. Loading(v) => job[v] \in Job /\ JobSound(v)
      BY <1>1 DEF Loading, TypeOK, Busy
    <3> QED BY <1>1, <1>2, <3>1, JobTyped DEF JobSound, Loading
  <2> QED BY <1>1, <1>2, <1>9, <2>1 DEF JobSound, Loading, Busy
<1> QED BY <1>8, <1>10, <1>11, <1>12 DEF SoundInv

LEMMA SoundStutter ==
  ASSUME SoundInv, UNCHANGED vars
  PROVE  SoundInv'
BY DEF SoundInv, vars, TypeOK, ActorsSound, Feasible, JobSound, Loading, Busy

LEMMA SoundNext == SoundInv /\ [Next]_vars => SoundInv'
<1> SUFFICES ASSUME SoundInv, [Next]_vars PROVE SoundInv'
  OBVIOUS
<1>1. ASSUME NEW l \in Lanes, NEW p \in Players, EnterGame(l, p) \/ LeaveGame(l, p)
      PROVE  SoundInv'
  BY <1>1, EnterGameSound, LeaveGameSound
<1>2. ASSUME NEW l \in Lanes, LaneStep(l) PROVE SoundInv'
  BY <1>2, LoadTableSound, AddPlayerSound, StorePlayerSound, RemovePlayerSound DEF LaneStep
<1>3. ASSUME NEW w \in Workers, SaveStep(w) PROVE SoundInv'
  BY <1>3, ListSound, DeleteSound, StatementFailsSound, InsertSound DEF SaveStep
<1>4. ASSUME NEW a \in Actors, HandleMessage(a) \/ Change(a) PROVE SoundInv'
  BY <1>4, HandleMessageSound, ChangeSound
<1>5. CASE Sweep
  BY <1>5, TickSound, TakeSound DEF Sweep
<1>6. CASE UNCHANGED vars
  BY <1>6, SoundStutter
<1> QED BY <1>1, <1>2, <1>3, <1>4, <1>5, <1>6 DEF Next

LEMMA SoundInvariant == Spec => []SoundInv
  BY SoundInit, SoundNext, PTL DEF Spec

-----------------------------------------------------------------------------
(* What is in the rows *)

\* the exceptions of the properties are all that are known
AllExcused == Excused = Disturbances

Of(w, p) == Busy(w) /\ job[w].player = p

\* what a load has read so far is what the rows hold
Loaded(w) ==
  LET j == job[w] IN
  \A t \in Tables :
    j.step # "read" \/ (j.table = "warehouse" /\ t = "bag") =>
      memory[j.actor][t] = rows[j.player][t]

\* What a save has read so far is in the rows, or on its way.
Written(w) ==
  LET j == job[w] IN
  \A t \in Tables :
    /\ j.step = "remove" \/ (j.table = "warehouse" /\ t = "bag") =>
         rows[j.player][t] = memory[j.actor][t]
    /\ t = j.table /\ j.step = "delete" => j.left = memory[j.actor][t]
    /\ t = j.table /\ j.step = "insert" =>
         \A i \in Items :
           \/ j.left[i] = 0 /\ rows[j.player][t][i] = memory[j.actor][t][i]
           \/ j.left[i] = memory[j.actor][t][i] /\ rows[j.player][t][i] = 0

\* p is online, not marked, and has met nothing the next round would make good
Clean(p) == online[p] # 0 /\ ~ dirty[online[p]] /\ ledger[p].met = {}

\* As long as p's ledger is open a save of his has him to itself, and brings into the
\* rows what he has, unless the loop will save him once more.
OpenInv(p) ==
  ledger[p] # Closed =>
    /\ \A v, w \in Workers : Of(v, p) /\ Of(w, p) /\ job[v].kind # "load" => v = w
    /\ \A w \in Workers : Of(w, p) /\ job[w].kind = "load" => Loaded(w)
    /\ \A w \in Workers : Of(w, p) /\ job[w].kind # "load" =>
         /\ job[w].actor = online[p]
         /\ job[w].kind = "leave" \/ Clean(p) => Written(w)
    /\ online[p] = 0 => rows[p] = ledger[p].owned
    /\ online[p] # 0 => memory[online[p]] = ledger[p].owned
    /\ Clean(p) =>
         /\ \A n \in DOMAIN work[online[p]] : ~ work[online[p]][n].marked
         /\ (\A w \in Workers : Of(w, p) => job[w].kind = "load") => rows[p] = memory[online[p]]

LEMMA OpenInit ==
  ASSUME Init, NEW p \in Players
  PROVE  OpenInv(p)
<1>1. online[p] = 0 /\ ledger[p] = [owned |-> rows[p], met |-> {}]
      /\ \A w \in Workers : ~ Busy(w)
  BY DEF Init, Busy
<1> QED BY <1>1 DEF OpenInv, Of, Clean

\* whom the goroutines of p work for
LEMMA JobIs ==
  ASSUME SoundInv, NEW p \in Players, NEW w \in Workers, Of(w, p)
  PROVE  /\ job[w] \in Job /\ job[w].actor \in Actors /\ job[w].actor # 0
         /\ owner[job[w].actor] = p /\ JobSound(w)
<1>1. job[w] \in Job /\ JobSound(w)
  BY DEF SoundInv, TypeOK, Of, Busy
<1> QED BY <1>1, JobTyped DEF JobSound, Of, Actors

LEMMA OnlineIs ==
  ASSUME SoundInv, NEW p \in Players, online[p] # 0
  PROVE  online[p] \in Actors /\ owner[online[p]] = p
BY DEF SoundInv, TypeOK, ActorsSound, Actors

\* Nothing of p's is touched.
LEMMA OpenUntouched ==
  ASSUME SoundInv, NEW p \in Players, OpenInv(p),
         rows'[p] = rows[p], online'[p] = online[p], ledger'[p] = ledger[p],
         \A w \in Workers : job'[w] = job[w] \/ (~ Of(w, p) /\ ~ Of(w, p)'),
         \A a \in Actors : owner[a] = p =>
           memory'[a] = memory[a] /\ dirty'[a] = dirty[a] /\ work'[a] = work[a]
  PROVE  OpenInv(p)'
<1>1. \A w \in Workers : Of(w, p)' <=> Of(w, p)
  BY DEF Of, Busy
<1>2. \A w \in Workers : Of(w, p) =>
        job'[w] = job[w] /\ job[w].player = p /\ memory'[job[w].actor] = memory[job[w].actor]
  BY JobIs DEF Of
<1>3. online[p] # 0 => /\ memory'[online[p]] = memory[online[p]]
                       /\ dirty'[online[p]] = dirty[online[p]]
                       /\ work'[online[p]] = work[online[p]]
  BY OnlineIs
<1>4. Clean(p)' <=> Clean(p)
  BY <1>3 DEF Clean
<1>5. ASSUME NEW w \in Workers, Of(w, p)
      PROVE  (Loaded(w)' <=> Loaded(w)) /\ (Written(w)' <=> Written(w))
  <2>1. /\ job'[w] = job[w] /\ memory'[job[w].actor] = memory[job[w].actor]
        /\ rows'[job[w].player] = rows[job[w].player]
    BY <1>2, <1>5
  <2>2. Loaded(w)' <=> Loaded(w)
    BY <2>1 DEF Loaded
  <2>3. Written(w)' <=> Written(w)
    BY <2>1 DEF Written
  <2> QED BY <2>2, <2>3
<1> QED BY <1>1, <1>2, <1>3, <1>4, <1>5 DEF OpenInv, Clean

\* What a goroutine does for p is nothing to the others.
LEMMA OthersOpen ==
  ASSUME SoundInv, \A q \in Players : OpenInv(q),
         NEW p \in Players, NEW w \in Workers,
         \A v \in Workers \ {w} : job'[v] = job[v],
         Busy(w) => job[w].player = p, Busy(w)' => job'[w].player = p,
         \A q \in Players \ {p} :
           rows'[q] = rows[q] /\ online'[q] = online[q] /\ ledger'[q] = ledger[q],
         \A b \in Actors : owner[b] # p =>
           memory'[b] = memory[b] /\ dirty'[b] = dirty[b] /\ work'[b] = work[b]
  PROVE  \A q \in Players \ {p} : OpenInv(q)'
<1> SUFFICES ASSUME NEW q \in Players \ {p} PROVE OpenInv(q)'
  OBVIOUS
<1>1. \A v \in Workers : job'[v] = job[v] \/ (~ Of(v, q) /\ ~ Of(v, q)')
  BY DEF Of, Busy
<1>2. \A b \in Actors : owner[b] = q =>
        memory'[b] = memory[b] /\ dirty'[b] = dirty[b] /\ work'[b] = work[b]
  OBVIOUS
<1> QED BY <1>1, <1>2, OpenUntouched

\* A lasting disturbance closes the ledger.
LEMMA Lasts ==
  ASSUME AllExcused, SoundInv, NEW p \in Players, NEW c \in BOOLEAN,
         NEW x \in Disturbances \ Passing, Disturb(p, When(c, x))
  PROVE  /\ \A q \in Players \ {p} : ledger'[q] = ledger[q]
         /\ ledger'[p] # Closed =>
              /\ ledger[p] # Closed /\ ~ c
              /\ ledger'[p].owned = ledger[p].owned /\ ledger'[p].met = ledger[p].met
<1>1. ledger \in [Players -> Account \union {Closed}]
  BY DEF SoundInv, TypeOK
<1>2. CASE c
  <2>1. When(c, x) \intersect Excused = {x}
    BY <1>2 DEF When, AllExcused
  <2>2. ~ (When(c, x) \intersect Excused \subseteq Passing)
    BY <2>1
  <2> QED BY <1>1, <2>2, DisturbTyped
<1>3. CASE ~ c
  <2>1. When(c, x) \intersect Excused = {}
    BY <1>3 DEF When
  <2>2. ledger'[p] # Closed => ledger'[p].met = ledger[p].met \union {}
    BY <1>1, <2>1, DisturbTyped
  <2> QED BY <1>1, <1>3, <2>1, <2>2, DisturbTyped
<1> QED BY <1>2, <1>3

LEMMA EnterGameOpen ==
  ASSUME AllExcused, SoundInv, \A q \in Players : OpenInv(q),
         NEW l \in Lanes, NEW p \in Players, EnterGame(l, p)
  PROVE  \A q \in Players : OpenInv(q)'
<1> DEFINE a == logins + 1
           n == NewJob("load", a, p, "read")
<1>1. /\ ~ Busy(l) /\ online[p] = 0 /\ logins < MaxLogin
      /\ job' = [job EXCEPT ![l] = n]
      /\ Disturb(p, When(SavesOf(p) # {}, "overlap"))
      /\ UNCHANGED <<rows, online, memory, dirty, work>>
  BY DEF EnterGame
<1>2. l \in Workers /\ a \in Actors
  BY <1>1 DEF SoundInv, TypeOK, Actors, Workers
<1>3. /\ n \in Job /\ n # Idle /\ n.kind = "load" /\ n.player = p /\ n.table = "bag"
      /\ n.step = "read"
  BY <1>2, NewJobTyped, JobTyped
<1> HIDE DEF a, n
<1>4. job'[l] = n /\ \A v \in Workers \ {l} : job'[v] = job[v]
  BY <1>1, <1>2 DEF SoundInv, TypeOK
<1>5. /\ \A q \in Players \ {p} : ledger'[q] = ledger[q]
      /\ ledger'[p] # Closed =>
           /\ ledger[p] # Closed /\ SavesOf(p) = {}
           /\ ledger'[p].owned = ledger[p].owned
  <2>1. "overlap" \in Disturbances \ Passing
    BY DEF Disturbances, Passing
  <2> QED BY <1>1, <2>1, Lasts
<1>6. \A q \in Players \ {p} : OpenInv(q)'
  BY <1>1, <1>2, <1>3, <1>4, <1>5, OthersOpen DEF Busy
<1>7. ASSUME ledger'[p] # Closed PROVE OpenInv(p)'
  <2>1. \A v \in Workers : Of(v, p) => job[v].kind = "load"
    BY <1>5, <1>7 DEF SavesOf, JobsOf, Of
  <2>2. \A v \in Workers : Of(v, p)' => v = l \/ (Of(v, p) /\ job'[v] = job[v])
    BY <1>4 DEF Of, Busy
  <2>3. \A v \in Workers : Of(v, p)' => job'[v].kind = "load"
    BY <1>3, <1>4, <2>1, <2>2
  <2>4. ASSUME NEW v \in Workers, Of(v, p)' PROVE Loaded(v)'
    <3>1. CASE v = l
      BY <1>3, <1>4, <3>1 DEF Loaded
    <3>2. CASE v # l
      <4>1. Loaded(v) /\ job'[v] = job[v]
        BY <1>5, <1>7, <2>1, <2>2, <2>4, <3>2 DEF OpenInv
      <4> QED BY <1>1, <4>1 DEF Loaded
    <3> QED BY <3>1, <3>2
  <2>5. online'[p] = 0 /\ rows'[p] = ledger'[p].owned
    BY <1>1, <1>5, <1>7 DEF OpenInv
  <2> QED BY <2>3, <2>4, <2>5 DEF OpenInv, Clean
<1>8. OpenInv(p)'
  BY <1>7 DEF OpenInv
<1> QED BY <1>6, <1>8

LEMMA LoadTableOpen ==
  ASSUME AllExcused, SoundInv, \A q \in Players : OpenInv(q), NEW l \in Lanes,
         NEW p \in Players, p = job[l].player, LoadTable(l)
  PROVE  \A q \in Players : OpenInv(q)'
<1> DEFINE j == job[l]
           a == j.actor
           n == IF j.table = "bag" THEN [j EXCEPT !.table = "warehouse"]
                ELSE [j EXCEPT !.step = "add"]
<1>1. /\ Busy(l) /\ j.step = "read"
      /\ \/ memory' = [memory EXCEPT ![a][j.table] = rows[p][j.table]] /\ UNCHANGED ledger
         \/ Disturb(p, {"failed"}) /\ UNCHANGED memory
      /\ UNCHANGED <<rows, online, owner, dirty, work>>
  BY DEF LoadTable, Fails
<1>2. l \in Workers
  BY DEF Workers
<1>3. j \in Job /\ JobSound(l)
  BY <1>1, <1>2 DEF SoundInv, TypeOK, Busy
<1>4. /\ p \in Players /\ a \in Actors /\ j.table \in Tables /\ j.kind = "load"
      /\ owner[a] = p /\ online[p] # a
      /\ \A v \in Workers : Loading(v) /\ job[v].actor = a => v = l
  BY <1>1, <1>2, <1>3, JobTyped DEF JobSound
<1>5. job' = [job EXCEPT ![l] = n]
  BY <1>2 DEF LoadTable, SoundInv, TypeOK
<1>6. job'[l] = n /\ \A v \in Workers \ {l} : job'[v] = job[v]
  BY <1>2, <1>5 DEF SoundInv, TypeOK
<1>7. Of(l, p) /\ j # Idle /\ p = j.player
  BY <1>1 DEF Of, Busy
<1> HIDE DEF j
<1>8. /\ n \in Job /\ n.kind = "load" /\ n.actor = a /\ n.player = p
      /\ \/ j.table = "bag" /\ n.table = "warehouse" /\ n.step = "read"
         \/ j.table = "warehouse" /\ n.step = "add"
  BY <1>1, <1>3, <1>4, <1>7 DEF Job, Tables
<1>9. /\ \A b \in Actors \ {a} : memory'[b] = memory[b]
      /\ memory' = [memory EXCEPT ![a][j.table] = rows[p][j.table]] =>
           \A t \in Tables : memory'[a][t] = IF t = j.table THEN rows[p][t] ELSE memory[a][t]
  <2>1. rows[p][j.table] \in [Items -> Nat] /\ memory \in [Actors -> Stock]
    BY <1>4 DEF SoundInv, TypeOK, Stock
  <2>2. CASE memory' = [memory EXCEPT ![a][j.table] = rows[p][j.table]]
    <3> DEFINE k == rows[p][j.table]
    <3> HIDE DEF a, k
    <3>1. k \in [Items -> Nat] /\ a \in Actors /\ j.table \in Tables /\ memory \in [Actors -> Stock]
      BY <1>4, <2>1 DEF k
    <3>2. \A x \in Actors, u \in Tables :
            [memory EXCEPT ![a][j.table] = k][x][u] = IF x = a /\ u = j.table THEN k ELSE memory[x][u]
      BY <3>1 DEF Stock
    <3>4. memory' = [memory EXCEPT ![a][j.table] = k]
      BY <2>2 DEF k
    <3>5. \A t \in Tables : memory'[a][t] = IF t = j.table THEN rows[p][t] ELSE memory[a][t]
      BY <3>1, <3>2, <3>4 DEF k
    <3>6. \A b \in Actors \ {a} : memory'[b] = memory[b]
      BY <2>1, <3>4
    <3> QED BY <3>5, <3>6
  <2> QED BY <1>1, <2>1, <2>2
<1>10. /\ \A q \in Players \ {p} : ledger'[q] = ledger[q]
       /\ ledger'[p] # Closed => UNCHANGED ledger /\
            memory' = [memory EXCEPT ![a][j.table] = rows[p][j.table]]
  <2>1. CASE Disturb(p, {"failed"})
    <3>1. {"failed"} \intersect Excused = {"failed"} /\ "failed" \notin Passing
      BY DEF AllExcused, Disturbances, Passing
    <3>2. ledger \in [Players -> Account \union {Closed}]
      BY DEF SoundInv, TypeOK
    <3>3. ~ ({"failed"} \intersect Excused \subseteq Passing)
      BY <3>1
    <3> QED BY <1>4, <2>1, <3>2, <3>3, DisturbTyped
  <2> QED BY <1>1, <2>1
<1> HIDE DEF a, n
<1>11. job'[l] # Idle
  BY <1>6, <1>8, JobTyped
<1>12. \A q \in Players \ {p} : OpenInv(q)'
  <2>1. Busy(l) => job[l].player = p
    BY <1>7 DEF Of
  <2>2. Busy(l)' => job'[l].player = p
    BY <1>6, <1>8
  <2>3. \A q \in Players \ {p} :
          rows'[q] = rows[q] /\ online'[q] = online[q] /\ ledger'[q] = ledger[q]
    BY <1>1, <1>10
  <2>4. \A b \in Actors : owner[b] # p =>
          memory'[b] = memory[b] /\ dirty'[b] = dirty[b] /\ work'[b] = work[b]
    BY <1>1, <1>4, <1>9
  <2> QED BY <1>2, <1>4, <1>6, <2>1, <2>2, <2>3, <2>4, OthersOpen
<1>13. ASSUME ledger'[p] # Closed PROVE OpenInv(p)'
  <2>1. ledger[p] # Closed /\ ledger'[p] = ledger[p]
    BY <1>10, <1>13
  <2>2. \A v \in Workers : Of(v, p) => job[v].kind = "load"
    BY <1>2, <1>4, <1>7, <2>1 DEF OpenInv, j
  <2>3. \A v \in Workers : Of(v, p)' => Of(v, p) /\ (v # l => job'[v] = job[v])
    BY <1>6, <1>7 DEF Of, Busy
  <2>4. \A v \in Workers : Of(v, p)' => job'[v].kind = "load"
    BY <1>6, <1>8, <2>2, <2>3
  <2>5. ASSUME NEW v \in Workers, Of(v, p)' PROVE Loaded(v)'
    <3>1. Loaded(v)
      BY <1>4, <2>1, <2>2, <2>3, <2>5 DEF OpenInv
    <3>2. CASE v = l
      <4>1. \A t \in Tables : memory'[a][t] = IF t = j.table THEN rows[p][t] ELSE memory[a][t]
        BY <1>9, <1>10, <1>13
      <4>2. j.table = "warehouse" => memory[a]["bag"] = rows[p]["bag"]
        BY <3>1, <3>2 DEF Loaded, Tables, j, a
      <4> QED BY <1>1, <1>6, <1>8, <3>2, <4>1, <4>2 DEF Loaded, Tables
    <3>3. CASE v # l
      <4>1. job'[v] = job[v] /\ job[v].actor \in Actors /\ job[v].actor # a
        BY <1>4, <2>2, <2>3, <2>5, <3>3, JobIs DEF Loading, Of
      <4> QED BY <1>1, <1>9, <3>1, <4>1 DEF Loaded
    <3> QED BY <3>2, <3>3
  <2>6. online[p] # 0 => memory'[online[p]] = memory[online[p]]
    BY <1>4, <1>9, OnlineIs
  <2>7. Clean(p)' <=> Clean(p)
    BY <1>1, <2>1 DEF Clean
  <2>8. \A v \in Workers : Of(v, p) => job[v].kind = "load"
    BY <2>2
  <2> QED BY <1>1, <1>4, <2>1, <2>2, <2>4, <2>5, <2>6, <2>7 DEF OpenInv, Clean
<1>14. OpenInv(p)'
  BY <1>13 DEF OpenInv
<1> QED BY <1>12, <1>14

LEMMA AddPlayerOpen ==
  ASSUME AllExcused, SoundInv, \A q \in Players : OpenInv(q), NEW l \in Lanes,
         NEW p \in Players, p = job[l].player, AddPlayer(l)
  PROVE  \A q \in Players : OpenInv(q)'
<1>1. Busy(l) /\ job[l].step = "add" /\ UNCHANGED <<rows, online, memory, dirty, work, ledger>>
  BY DEF AddPlayer
<1>2. l \in Workers
  BY DEF Workers
<1>3. job[l] \in Job /\ job[l].kind = "load"
  <2>1. job[l] \in Job /\ JobSound(l)
    BY <1>1, <1>2 DEF SoundInv, TypeOK, Busy
  <2> QED BY <1>1, <2>1, JobTyped DEF JobSound
<1>4. /\ \A v \in Workers \ {l} : job'[v] = job[v]
      /\ \/ job'[l] = Idle
         \/ /\ job'[l].kind = "load" /\ job'[l].player = p /\ job'[l].actor = job[l].actor
            /\ job'[l].step = "store"
  BY <1>2, <1>3 DEF AddPlayer, Return, Goto, SoundInv, TypeOK, Job
<1>5. \A q \in Players \ {p} : OpenInv(q)'
  BY <1>1, <1>2, <1>4, OthersOpen DEF Busy
<1>6. ASSUME ledger[p] # Closed PROVE OpenInv(p)'
  <2>1. Of(l, p)
    BY <1>1 DEF Of
  <2>2. \A v \in Workers : Of(v, p) => job[v].kind = "load" /\ Loaded(v)
    BY <1>2, <1>3, <1>6, <2>1 DEF OpenInv
  <2>3. \A v \in Workers : Of(v, p)' => Of(v, p) /\ (v # l => job'[v] = job[v])
    BY <1>4, <2>1 DEF Of, Busy
  <2>4. \A v \in Workers : Of(v, p)' => job'[v].kind = "load"
    BY <1>4, <2>2, <2>3 DEF Of, Busy
  <2>5. ASSUME NEW v \in Workers, Of(v, p)' PROVE Loaded(v)'
    <3>1. Loaded(v)
      BY <2>2, <2>3, <2>5
    <3>2. CASE v = l
      BY <1>1, <1>4, <2>5, <3>1, <3>2 DEF Loaded, Of, Busy
    <3>3. CASE v # l
      BY <1>1, <2>3, <2>5, <3>1, <3>3 DEF Loaded
    <3> QED BY <3>2, <3>3
  <2> QED BY <1>1, <1>6, <2>2, <2>4, <2>5 DEF OpenInv, Clean
<1>7. ASSUME ledger[p] = Closed PROVE OpenInv(p)'
  <2>1. ledger'[p] = Closed
    BY <1>1, <1>7
  <2> QED BY <2>1 DEF OpenInv
<1> QED BY <1>5, <1>6, <1>7

LEMMA StorePlayerOpen ==
  ASSUME AllExcused, SoundInv, \A q \in Players : OpenInv(q), NEW l \in Lanes,
         NEW p \in Players, p = job[l].player, StorePlayer(l)
  PROVE  \A q \in Players : OpenInv(q)'
<1> DEFINE a == job[l].actor
<1>1. /\ Busy(l) /\ job[l].step = "store"
      /\ online' = [online EXCEPT ![p] = a]
      /\ Disturb(p, When(online[p] # 0, "twin"))
      /\ job' = [job EXCEPT ![l] = Idle]
      /\ UNCHANGED <<rows, memory, dirty, work>>
  BY DEF StorePlayer, Return
<1>2. l \in Workers
  BY DEF Workers
<1>3. /\ job[l].kind = "load" /\ a \in Actors /\ a # 0 /\ owner[a] = p
      /\ work[a] = <<>>
  <2>1. job[l] \in Job /\ JobSound(l)
    BY <1>1, <1>2 DEF SoundInv, TypeOK, Busy
  <2> QED BY <1>1, <2>1, JobTyped DEF JobSound, Actors
<1>4. job'[l] = Idle /\ \A v \in Workers \ {l} : job'[v] = job[v]
  BY <1>1, <1>2 DEF SoundInv, TypeOK
<1>5. online'[p] = a /\ \A q \in Players \ {p} : online'[q] = online[q]
  BY <1>1 DEF SoundInv, TypeOK
<1>6. /\ \A q \in Players \ {p} : ledger'[q] = ledger[q]
      /\ ledger'[p] # Closed =>
           /\ ledger[p] # Closed /\ online[p] = 0
           /\ ledger'[p].owned = ledger[p].owned
  <2>1. "twin" \in Disturbances \ Passing
    BY DEF Disturbances, Passing
  <2> QED BY <1>1, <2>1, Lasts
<1>7. \A q \in Players \ {p} : OpenInv(q)'
  BY <1>1, <1>2, <1>4, <1>5, <1>6, OthersOpen DEF Busy
<1>8. ASSUME ledger'[p] # Closed PROVE OpenInv(p)'
  <2>1. Of(l, p)
    BY <1>1 DEF Of
  <2>2. \A v \in Workers : Of(v, p) => job[v].kind = "load" /\ Loaded(v)
    BY <1>2, <1>3, <1>6, <1>8, <2>1 DEF OpenInv
  <2>3. \A v \in Workers : Of(v, p)' => Of(v, p) /\ job'[v] = job[v]
    BY <1>4 DEF Of, Busy
  <2>4. \A v \in Workers : Of(v, p)' => job'[v].kind = "load" /\ Loaded(v)'
    <3>1. ASSUME NEW v \in Workers, Of(v, p)' PROVE Loaded(v)'
      <4>1. Loaded(v) /\ job'[v] = job[v]
        BY <2>2, <2>3, <3>1
      <4> QED BY <1>1, <4>1 DEF Loaded
    <3> QED BY <2>2, <2>3, <3>1
  <2>5. memory[a] = rows[p]
    <3>1. memory[a] \in Stock /\ rows[p] \in Stock
      BY <1>3 DEF SoundInv, TypeOK
    <3>2. \A t \in Tables : memory[a][t] = rows[p][t]
      BY <1>1, <1>2, <2>1, <2>2 DEF Loaded
    <3> QED BY <3>1, <3>2 DEF Stock
  <2>6. rows[p] = ledger[p].owned
    BY <1>6, <1>8 DEF OpenInv
  <2>7. \A n \in DOMAIN work[a] : ~ work[a][n].marked
    BY <1>3
  <2> HIDE DEF a
  <2> QED BY <1>1, <1>3, <1>5, <1>6, <1>8, <2>4, <2>5, <2>6, <2>7 DEF OpenInv, Clean
<1> QED BY <1>7, <1>8 DEF OpenInv

LEMMA HandleMessageOpen ==
  ASSUME SoundInv, \A q \in Players : OpenInv(q), NEW a \in Actors, HandleMessage(a)
  PROVE  \A q \in Players : OpenInv(q)'
<1> SUFFICES ASSUME NEW q \in Players PROVE OpenInv(q)'
  OBVIOUS
<1>1. /\ online[owner[a]] = a /\ owner[a] \in Players
      /\ \/ \E m \in MarkedMessage(memory[a]) : work' = [work EXCEPT ![a] = m]
            /\ dirty' = [dirty EXCEPT ![a] = TRUE]
         \/ \E m \in Grant : work' = [work EXCEPT ![a] = m] /\ UNCHANGED dirty
      /\ UNCHANGED <<rows, online, memory, job, ledger>>
  BY DEF HandleMessage
<1>2. /\ dirty \in [Actors -> BOOLEAN] /\ work \in [Actors -> Seq(Op)] /\ memory[a] \in Stock
  BY DEF SoundInv, TypeOK
<1>3. \A b \in Actors \ {a} : dirty'[b] = dirty[b] /\ work'[b] = work[b]
  BY <1>1, <1>2
<1>4. CASE owner[a] # q
  <2>1. \A b \in Actors : owner[b] = q =>
          memory'[b] = memory[b] /\ dirty'[b] = dirty[b] /\ work'[b] = work[b]
    BY <1>1, <1>3, <1>4
  <2> QED BY <1>1, <2>1, OpenUntouched
<1>5. CASE owner[a] = q
  <2>1. Clean(q)' => /\ Clean(q)
                     /\ \A n \in DOMAIN work'[a] : ~ work'[a][n].marked
    <3>1. CASE \E m \in MarkedMessage(memory[a]) : work' = [work EXCEPT ![a] = m]
               /\ dirty' = [dirty EXCEPT ![a] = TRUE]
      BY <1>1, <1>2, <1>5, <3>1 DEF Clean
    <3>2. CASE \E m \in Grant : work' = [work EXCEPT ![a] = m] /\ UNCHANGED dirty
      <4>1. PICK m \in Grant : work' = [work EXCEPT ![a] = m] /\ UNCHANGED dirty
        BY <3>2
      <4>2. PICK o \in Op : m = <<o>> /\ ~ o.marked
        BY <1>2, MessageTyped
      <4>3. work'[a] = <<o>>
        BY <1>2, <4>1, <4>2
      <4> QED BY <1>1, <4>1, <4>2, <4>3 DEF Clean
    <3> QED BY <1>1, <3>1, <3>2
  <2>2. \A v \in Workers : (Of(v, q)' <=> Of(v, q)) /\ (Loaded(v)' <=> Loaded(v))
                           /\ (Written(v)' <=> Written(v))
    BY <1>1 DEF Of, Busy, Loaded, Written
  <2> QED BY <1>1, <1>5, <2>1, <2>2 DEF OpenInv
<1> QED BY <1>4, <1>5

LEMMA ChangeOpen ==
  ASSUME AllExcused, SoundInv, \A q \in Players : OpenInv(q),
         NEW a \in Actors, Change(a)
  PROVE  \A q \in Players : OpenInv(q)'
<1> SUFFICES ASSUME NEW q \in Players PROVE OpenInv(q)'
  OBVIOUS
<1> DEFINE op == Head(work[a])
           p == owner[a]
           d == When(~ op.marked, "unmarked") \union When(Late(a, op.table), "late")
<1>1. /\ work[a] # <<>> /\ work' = [work EXCEPT ![a] = Tail(work[a])]
      /\ memory' = [memory EXCEPT ![a] = Apply(op, memory[a])]
      /\ ledger' = [ledger EXCEPT ![p] = Book(ledger[p], Apply(op, ledger[p].owned), d)]
      /\ UNCHANGED <<rows, online, owner, dirty, job>>
  BY DEF Change
<1>2. /\ p \in Players /\ TypeOK
  BY <1>1 DEF SoundInv, ActorsSound
<1>3. op \in Op /\ (op.act = "take" => memory[a][op.table][op.item] > 0)
  BY <1>1, ChangeTakes
<1>4. /\ memory'[a] = Apply(op, memory[a])
      /\ \A b \in Actors \ {a} : memory'[b] = memory[b] /\ work'[b] = work[b]
  BY <1>1, <1>2 DEF TypeOK
<1>5. CASE p # q
  <2>1. ledger'[q] = ledger[q]
    BY <1>1, <1>2, <1>5 DEF TypeOK
  <2>2. \A b \in Actors : owner[b] = q =>
          memory'[b] = memory[b] /\ dirty'[b] = dirty[b] /\ work'[b] = work[b]
    BY <1>1, <1>4, <1>5
  <2> QED BY <1>1, <2>1, <2>2, OpenUntouched
<1>6. ASSUME p = q, ledger'[q] # Closed PROVE OpenInv(q)'
  <2> HIDE DEF op, d
  <2>1. /\ ledger[q] # Closed /\ d \intersect Excused \subseteq Passing
        /\ ledger'[q].owned = Apply(op, ledger[q].owned)
        /\ ledger'[q].met = ledger[q].met \union (d \intersect Excused)
    <3>1. ledger'[q] = Book(ledger[q], Apply(op, ledger[q].owned), d)
      BY <1>1, <1>2, <1>6 DEF TypeOK
    <3>2. ledger[q] \in Account \union {Closed}
      BY <1>2 DEF TypeOK
    <3>3. Apply(op, ledger[q].owned) \in [Tables -> [Items -> Int]]
      BY <1>3, <3>2, OwnedTyped, ApplyTyped
    <3> QED BY <1>6, <3>1, <3>2, <3>3, BookTyped
  <2>2. ~ Late(a, op.table)
    <3>1. "late" \in Excused /\ "late" \notin Passing
      BY DEF AllExcused, Disturbances, Passing
    <3>2. Late(a, op.table) => "late" \in d
      BY DEF d, When
    <3> QED BY <2>1, <3>1, <3>2
  <2>3. ~ op.marked => ledger'[q].met # {}
    <3>1. "unmarked" \in Excused
      BY DEF AllExcused, Disturbances
    <3>2. ~ op.marked => "unmarked" \in d
      BY DEF d, When
    <3> QED BY <2>1, <3>1, <3>2
  <2>4. online[q] = a /\ a # 0
    BY <1>6, <2>2 DEF Late, Actors
  <2>5. memory'[a] = ledger'[q].owned
    BY <1>4, <2>1, <2>4 DEF OpenInv
  <2>6. ~ Clean(q)'
    <3>1. SUFFICES ASSUME Clean(q)' PROVE FALSE
      OBVIOUS
    <3>2. Clean(q) /\ op.marked
      BY <1>1, <2>1, <2>3, <3>1 DEF Clean
    <3>3. \A n \in DOMAIN work[a] : ~ work[a][n].marked
      BY <2>1, <2>4, <3>2 DEF OpenInv
    <3>4. 1 \in DOMAIN work[a] /\ work[a][1] = op
      BY <1>1, <1>2 DEF TypeOK, op
    <3> QED BY <3>2, <3>3, <3>4
  <2>7. \A v \in Workers : Of(v, q)' <=> Of(v, q)
    BY <1>1 DEF Of, Busy
  <2>8. ASSUME NEW v \in Workers, Of(v, q), job[v].kind = "load"
        PROVE  Loaded(v)'
    <3>1. Loaded(v) /\ job[v].actor \in Actors /\ job[v].actor # a
      BY <2>1, <2>4, <2>8, JobIs DEF OpenInv, JobSound, Of
    <3> QED BY <1>1, <1>4, <3>1 DEF Loaded
  <2>9. ASSUME NEW v \in Workers, Of(v, q), job[v].kind = "leave"
        PROVE  Written(v)'
    <3>1. Written(v) /\ job[v].actor = a
      BY <2>1, <2>4, <2>8, <2>9 DEF OpenInv
    <3>2. v \in Lanes
      BY <2>9, JobIs DEF JobSound, Of, Workers
    <3>3. ~ Passed(job[v], op.table)
      BY <2>2, <2>9, <3>1, <3>2 DEF Late, Of
    <3>4. \A t \in Tables : Passed(job[v], t) => memory'[a][t] = memory[a][t]
      <4>1. memory[a] \in Stock
        BY <1>2 DEF TypeOK
      <4> QED BY <1>3, <1>4, <3>3, <4>1, ApplyTyped
    <3> QED BY <1>1, <3>1, <3>4 DEF Written, Passed
  <2> QED BY <1>1, <2>1, <2>4, <2>5, <2>6, <2>7, <2>8, <2>9 DEF OpenInv
<1>7. ASSUME ledger'[q] = Closed PROVE OpenInv(q)'
  BY <1>7 DEF OpenInv
<1> QED BY <1>5, <1>6, <1>7

LEMMA TickOpen ==
  ASSUME SoundInv, \A q \in Players : OpenInv(q), Tick
  PROVE  \A q \in Players : OpenInv(q)'
<1>1. UNCHANGED <<rows, online, memory, dirty, work, job, ledger>>
  BY DEF Tick
<1> QED BY <1>1, OpenUntouched

LEMMA TakeOpen ==
  ASSUME AllExcused, SoundInv, \A q \in Players : OpenInv(q), NEW a \in round, Take(a)
  PROVE  \A q \in Players : OpenInv(q)'
<1> DEFINE n == NewJob("sweep", a, owner[a], "list")
<1>1. /\ ~ Busy("loop") /\ dirty' = [dirty EXCEPT ![a] = FALSE]
      /\ UNCHANGED <<rows, online, memory, work>>
      /\ dirty[a] => job' = [job EXCEPT !["loop"] = n]
      /\ ~ dirty[a] => UNCHANGED <<job, ledger>>
  BY DEF Take
<1>2. a \in Actors /\ owner[a] \in Players /\ "loop" \in Workers /\ TypeOK
  BY DEF SoundInv, TypeOK, ActorsSound, Workers
<1>3. CASE ~ dirty[a]
  <2>1. dirty' = dirty
    BY <1>1, <1>2, <1>3 DEF TypeOK
  <2> QED BY <1>1, <1>3, <2>1, OpenUntouched
<1>4. CASE dirty[a]
  <2>1. PICK p \in Players : p = owner[a]
    BY <1>2
  <2>2. n.kind = "sweep" /\ n.actor = a /\ n.player = p /\ n.step = "list" /\ n.table = "bag"
        /\ n # Idle
    BY <1>2, <2>1, NewJobTyped, JobTyped
  <2> HIDE DEF n
  <2>3. job'["loop"] = n /\ \A v \in Workers \ {"loop"} : job'[v] = job[v]
    BY <1>1, <1>2, <1>4 DEF TypeOK
  <2>4. /\ \A q \in Players \ {p} : ledger'[q] = ledger[q]
        /\ ledger'[p] # Closed =>
             /\ ledger[p] # Closed
             /\ MetByTake(a) \intersect Excused \subseteq Passing
             /\ ledger'[p].owned = ledger[p].owned
             /\ MetByTake(a) \intersect Excused \subseteq ledger'[p].met
    BY <1>2, <1>4, <2>1, TakeBooks
  <2>5. \A q \in Players \ {p} : OpenInv(q)'
    <3>1. \A b \in Actors : owner[b] # p => dirty'[b] = dirty[b]
      BY <1>1, <1>2, <2>1 DEF TypeOK
    <3>2. Busy("loop")' => job'["loop"].player = p
      BY <2>2, <2>3
    <3>3. /\ \A q \in Players \ {p} :
               rows'[q] = rows[q] /\ online'[q] = online[q] /\ ledger'[q] = ledger[q]
          /\ \A b \in Actors : owner[b] # p =>
               memory'[b] = memory[b] /\ dirty'[b] = dirty[b] /\ work'[b] = work[b]
      BY <1>1, <2>4, <3>1
    <3> QED BY <1>1, <1>2, <2>3, <3>2, <3>3, OthersOpen
  <2>6. ASSUME ledger'[p] # Closed PROVE OpenInv(p)'
    <3>1. JobsOf(p) = {} /\ online[p] = a
      <4>1. {"overlap", "stale"} \subseteq Excused \ Passing
        BY DEF AllExcused, Disturbances, Passing
      <4>2. /\ JobsOf(p) # {} => "overlap" \in MetByTake(a)
            /\ online[p] # a => "stale" \in MetByTake(a)
        BY <2>1 DEF MetByTake, When
      <4> QED BY <2>4, <2>6, <4>1, <4>2
    <3>2. ledger'[p].met = {} => work[a] = <<>>
      <4>1. "raced" \in Excused
        BY DEF AllExcused, Disturbances
      <4>2. work[a] # <<>> => "raced" \in MetByTake(a)
        BY DEF MetByTake, When
      <4> QED BY <2>4, <2>6, <4>1, <4>2
    <3>3. \A v \in Workers : Of(v, p)' <=> v = "loop"
      BY <1>2, <2>2, <2>3, <3>1 DEF Of, Busy, JobsOf
    <3>4. Written("loop")'
      BY <2>2, <2>3 DEF Written
    <3>5. a # 0
      BY <1>2 DEF Actors
    <3> QED BY <1>1, <1>2, <2>2, <2>3, <2>4, <2>6, <3>1, <3>2, <3>3, <3>4, <3>5 DEF OpenInv, Clean
  <2> QED BY <2>5, <2>6 DEF OpenInv
<1> QED BY <1>3, <1>4

LEMMA LeaveGameOpen ==
  ASSUME AllExcused, SoundInv, \A q \in Players : OpenInv(q),
         NEW l \in Lanes, NEW p \in Players, LeaveGame(l, p)
  PROVE  \A q \in Players : OpenInv(q)'
<1> DEFINE n == NewJob("leave", online[p], p, "list")
<1>1. /\ ~ Busy(l) /\ online[p] # 0 /\ job' = [job EXCEPT ![l] = n]
      /\ Disturb(p, When(JobsOf(p) # {}, "overlap"))
      /\ UNCHANGED <<rows, online, memory, dirty, work>>
  BY DEF LeaveGame
<1>2. l \in Workers /\ online[p] \in Actors
  BY <1>1, OnlineIs DEF Workers
<1>3. /\ n.kind = "leave" /\ n.actor = online[p] /\ n.player = p /\ n.step = "list"
      /\ n.table = "bag" /\ n # Idle
  BY <1>2, NewJobTyped, JobTyped
<1> HIDE DEF n
<1>4. job'[l] = n /\ \A v \in Workers \ {l} : job'[v] = job[v]
  BY <1>1, <1>2 DEF SoundInv, TypeOK
<1>5. /\ \A q \in Players \ {p} : ledger'[q] = ledger[q]
      /\ ledger'[p] # Closed =>
           /\ ledger[p] # Closed /\ JobsOf(p) = {}
           /\ ledger'[p].owned = ledger[p].owned /\ ledger'[p].met = ledger[p].met
  <2>1. "overlap" \in Disturbances \ Passing
    BY DEF Disturbances, Passing
  <2> QED BY <1>1, <2>1, Lasts
<1>6. \A q \in Players \ {p} : OpenInv(q)'
  <2>1. Busy(l)' => job'[l].player = p
    BY <1>3, <1>4
  <2>2. /\ \A q \in Players \ {p} :
             rows'[q] = rows[q] /\ online'[q] = online[q] /\ ledger'[q] = ledger[q]
        /\ \A b \in Actors : owner[b] # p =>
             memory'[b] = memory[b] /\ dirty'[b] = dirty[b] /\ work'[b] = work[b]
    BY <1>1, <1>5
  <2> QED BY <1>1, <1>2, <1>4, <2>1, <2>2, OthersOpen
<1>7. ASSUME ledger'[p] # Closed PROVE OpenInv(p)'
  <2>1. \A v \in Workers : Of(v, p)' <=> v = l
    BY <1>2, <1>3, <1>4, <1>5, <1>7 DEF Of, Busy, JobsOf
  <2>2. Written(l)'
    BY <1>3, <1>4 DEF Written
  <2>3. Clean(p)' => Clean(p)
    BY <1>1, <1>5, <1>7 DEF Clean
  <2> QED BY <1>1, <1>2, <1>3, <1>4, <1>5, <1>7, <2>1, <2>2, <2>3, SMTT(30) DEF OpenInv
<1> QED BY <1>6, <1>7 DEF OpenInv

LEMMA RemovePlayerOpen ==
  ASSUME AllExcused, SoundInv, \A q \in Players : OpenInv(q), NEW l \in Lanes,
         NEW p \in Players, p = job[l].player, RemovePlayer(l)
  PROVE  \A q \in Players : OpenInv(q)'
<1> DEFINE a == job[l].actor
<1>1. /\ Busy(l) /\ job[l].step = "remove"
      /\ online' = [online EXCEPT ![p] = 0]
      /\ Disturb(p, When(online[p] \notin {0, a}, "evicted"))
      /\ job' = [job EXCEPT ![l] = Idle]
      /\ UNCHANGED <<rows, memory, dirty, work>>
  BY DEF RemovePlayer, Return
<1>2. l \in Workers
  BY DEF Workers
<1>3. job[l].kind = "leave" /\ a \in Actors /\ a # 0
  <2>1. job[l] \in Job /\ JobSound(l)
    BY <1>1, <1>2 DEF SoundInv, TypeOK, Busy
  <2> QED BY <1>1, <2>1, JobTyped DEF JobSound, Actors
<1>4. job'[l] = Idle /\ \A v \in Workers \ {l} : job'[v] = job[v]
  BY <1>1, <1>2 DEF SoundInv, TypeOK
<1>5. online'[p] = 0 /\ \A q \in Players \ {p} : online'[q] = online[q]
  BY <1>1 DEF SoundInv, TypeOK
<1>6. /\ \A q \in Players \ {p} : ledger'[q] = ledger[q]
      /\ ledger'[p] # Closed =>
           /\ ledger[p] # Closed /\ ledger'[p].owned = ledger[p].owned
  <2>1. "evicted" \in Disturbances \ Passing
    BY DEF Disturbances, Passing
  <2> QED BY <1>1, <2>1, Lasts
<1>7. \A q \in Players \ {p} : OpenInv(q)'
  <2>1. Busy(l) => job[l].player = p
    OBVIOUS
  <2>2. ~ Busy(l)'
    BY <1>4 DEF Busy
  <2>3. /\ \A q \in Players \ {p} :
             rows'[q] = rows[q] /\ online'[q] = online[q] /\ ledger'[q] = ledger[q]
        /\ \A b \in Actors : owner[b] # p =>
             memory'[b] = memory[b] /\ dirty'[b] = dirty[b] /\ work'[b] = work[b]
    BY <1>1, <1>5, <1>6
  <2> QED BY <1>2, <1>4, <2>1, <2>2, <2>3, OthersOpen
<1>8. ASSUME ledger'[p] # Closed PROVE OpenInv(p)'
  <2>1. Of(l, p)
    BY <1>1 DEF Of
  <2>2. Written(l) /\ a = online[p]
    BY <1>2, <1>3, <1>6, <1>8, <2>1 DEF OpenInv
  <2>3. rows[p] = memory[a]
    <3>1. memory[a] \in Stock /\ rows[p] \in Stock
      BY <1>3 DEF SoundInv, TypeOK
    <3>2. \A t \in Tables : rows[p][t] = memory[a][t]
      BY <1>1, <2>2 DEF Written
    <3> QED BY <3>1, <3>2 DEF Stock
  <2>4. memory[a] = ledger[p].owned
    BY <1>3, <1>6, <1>8, <2>2 DEF OpenInv
  <2>5. \A v \in Workers : ~ Of(v, p)'
    <3>1. \A v \in Workers : Of(v, p) => v = l
      BY <1>2, <1>3, <1>6, <1>8, <2>1 DEF OpenInv
    <3> QED BY <1>4, <3>1 DEF Of, Busy
  <2> QED BY <1>1, <1>5, <1>6, <1>8, <2>3, <2>4, <2>5 DEF OpenInv, Clean
<1> QED BY <1>7, <1>8 DEF OpenInv

\* A save goes on, or ends: it is enough to follow what it has written.
LEMMA SaveGoesOn ==
  ASSUME SoundInv, \A q \in Players : OpenInv(q),
         NEW w \in Workers, Busy(w), job[w].kind # "load",
         NEW p \in Players, p = job[w].player,
         NEW n, job' = [job EXCEPT ![w] = n],
         \/ n = Idle /\ (Written(w) => rows'[p] = memory[job[w].actor])
         \/ /\ n # Idle /\ n.kind = job[w].kind /\ n.actor = job[w].actor /\ n.player = p
            /\ Written(w) => Written(w)',
         \A q \in Players \ {p} : rows'[q] = rows[q],
         UNCHANGED <<online, memory, dirty, work, ledger>>
  PROVE  \A q \in Players : OpenInv(q)'
<1>1. job'[w] = n /\ \A v \in Workers \ {w} : job'[v] = job[v]
  BY DEF SoundInv, TypeOK
<1>2. \A q \in Players \ {p} : OpenInv(q)'
  <2>1. Busy(w)' => job'[w].player = p
    BY <1>1 DEF Busy
  <2> QED BY <1>1, <2>1, OthersOpen
<1>3. ASSUME ledger[p] # Closed PROVE OpenInv(p)'
  <2>1. Of(w, p) /\ job[w].actor \in Actors
    BY JobIs DEF Of
  <2>2. /\ \A v \in Workers : Of(v, p) => v = w
        /\ job[w].actor = online[p] /\ (job[w].kind = "leave" \/ Clean(p) => Written(w))
        /\ memory[online[p]] = ledger[p].owned
        /\ Clean(p) => \A k \in DOMAIN work[online[p]] : ~ work[online[p]][k].marked
    BY <1>3, <2>1, SMTT(30) DEF OpenInv, Actors
  <2>3. \A v \in Workers : Of(v, p)' => v = w /\ n # Idle
    BY <1>1, <2>2 DEF Of, Busy
  <2>4. Clean(p)' <=> Clean(p)
    BY DEF Clean
  <2>5. online[p] # 0
    BY <2>1, <2>2 DEF Actors
  <2>6. CASE n = Idle
    BY <2>2, <2>3, <2>4, <2>5, <2>6 DEF OpenInv
  <2>7. CASE n # Idle
    <3>1. Of(w, p)'
      BY <1>1, <2>7 DEF Of, Busy
    <3> QED BY <1>1, <2>2, <2>3, <2>4, <2>5, <2>7, <3>1, SMTT(30) DEF OpenInv
  <2> QED BY <2>6, <2>7
<1>4. ASSUME ledger[p] = Closed PROVE OpenInv(p)'
  BY <1>4 DEF OpenInv
<1> QED BY <1>2, <1>3, <1>4

LEMMA ListOpen ==
  ASSUME SoundInv, \A q \in Players : OpenInv(q), NEW w \in Workers, List(w)
  PROVE  \A q \in Players : OpenInv(q)'
<1> DEFINE j == job[w]
           n == [j EXCEPT !.left = memory[j.actor][j.table], !.step = "delete"]
<1>1. /\ Busy(w) /\ j.step = "list" /\ job' = [job EXCEPT ![w] = n]
      /\ UNCHANGED <<rows, online, memory, dirty, work, ledger>>
  BY DEF List
<1>2. j \in Job /\ j.kind # "load" /\ j.player \in Players
  BY <1>1, Saving, JobTyped
<1>3. job'[w] = n
  BY <1>1 DEF SoundInv, TypeOK
<1>4. memory[j.actor][j.table] \in [Items -> Nat]
  BY <1>2, JobTyped DEF SoundInv, TypeOK, Stock
<1> HIDE DEF j
<1>5. /\ n \in Job /\ n.kind = j.kind /\ n.actor = j.actor /\ n.player = j.player
      /\ n.table = j.table /\ n.step = "delete" /\ n.left = memory[j.actor][j.table]
  BY <1>2, <1>4 DEF Job
<1> HIDE DEF n
<1>6. n # Idle
  BY <1>5, JobTyped
<1>7. Written(w) => Written(w)'
  BY <1>1, <1>3, <1>5 DEF Written, j
<1> QED BY <1>1, <1>2, <1>5, <1>6, <1>7, SaveGoesOn DEF j

\* The save of a table ends with the table written.
LEMMA TableEnds ==
  ASSUME SoundInv, NEW w \in Workers, Busy(w), job[w].step \in {"delete", "insert"},
         job' = [job EXCEPT ![w] = TableDone(job[w])], UNCHANGED memory,
         rows' \in [Players -> Stock],
         \A t \in Tables \ {job[w].table} : rows'[job[w].player][t] = rows[job[w].player][t],
         Written(w) =>
           rows'[job[w].player][job[w].table] = memory[job[w].actor][job[w].table],
         NEW n, n = TableDone(job[w])
  PROVE  \/ n = Idle /\ (Written(w) => rows'[job[w].player] = memory[job[w].actor])
         \/ /\ n # Idle /\ n.kind = job[w].kind /\ n.actor = job[w].actor
            /\ n.player = job[w].player
            /\ Written(w) => Written(w)'
<1> DEFINE j == job[w]
<1>1. j \in Job /\ j.kind # "load"
  BY Saving
<1>2. j.player \in Players /\ j.table \in Tables /\ j.actor \in Actors
  BY <1>1, JobTyped
<1>3. job'[w] = n
  BY DEF SoundInv, TypeOK
<1>4. Written(w) => /\ rows'[j.player][j.table] = memory[j.actor][j.table]
                    /\ j.table = "warehouse" => rows'[j.player]["bag"] = memory[j.actor]["bag"]
  BY DEF Written, Tables
<1>5. rows'[j.player] \in Stock /\ memory[j.actor] \in Stock
  BY <1>2 DEF SoundInv, TypeOK
<1> HIDE DEF j
<1>6. CASE n = Idle /\ j.table # "bag"
  <2>1. j.table = "warehouse"
    BY <1>2, <1>6 DEF Tables
  <2>2. Written(w) => rows'[j.player] = memory[j.actor]
    <3>1. Written(w) => \A t \in Tables : rows'[j.player][t] = memory[j.actor][t]
      BY <1>4, <2>1 DEF Tables
    <3> QED BY <1>5, <3>1 DEF Stock
  <2> QED BY <1>6, <2>2 DEF j
<1>7. CASE /\ n \in Job
           /\ n.kind = j.kind /\ n.actor = j.actor /\ n.player = j.player
           /\ n.table = "warehouse" /\ n.left = None
           /\ \/ j.table = "bag" /\ n.step = "list"
              \/ j.table = "warehouse" /\ j.kind = "leave" /\ n.step = "remove"
  <2>1. n # Idle
    BY <1>7, JobTyped
  <2>2. Written(w) => Written(w)'
    <3>1. SUFFICES ASSUME Written(w), NEW t \in Tables
                   PROVE  /\ n.step = "remove" \/ (n.table = "warehouse" /\ t = "bag") =>
                               rows'[n.player][t] = memory[n.actor][t]
                          /\ n.step \notin {"delete", "insert"}
      BY <1>3 DEF Written
    <3> QED BY <1>4, <1>7, <3>1 DEF Tables
  <2> QED BY <1>7, <2>1, <2>2 DEF j
<1> QED BY <1>1, <1>6, <1>7, TableDoneIs DEF j

LEMMA DeleteOpen ==
  ASSUME SoundInv, \A q \in Players : OpenInv(q), NEW w \in Workers, Delete(w)
  PROVE  \A q \in Players : OpenInv(q)'
<1> DEFINE j == job[w]
           n == IF j.left = None THEN TableDone(j) ELSE [j EXCEPT !.step = "insert"]
<1>1. /\ Busy(w) /\ j.step = "delete" /\ job' = [job EXCEPT ![w] = n]
      /\ rows' = [rows EXCEPT ![j.player][j.table] = None]
      /\ UNCHANGED <<online, memory, dirty, work, ledger>>
  BY DEF Delete
<1>2. j \in Job /\ j.kind # "load"
  BY <1>1, Saving
<1>3. j.player \in Players /\ j.table \in Tables /\ j.actor \in Actors
  BY <1>2, JobTyped
<1>4. /\ rows' \in [Players -> Stock]
      /\ rows'[j.player][j.table] = None
      /\ \A t \in Tables \ {j.table} : rows'[j.player][t] = rows[j.player][t]
      /\ \A q \in Players \ {j.player} : rows'[q] = rows[q]
  <2>1. rows \in [Players -> Stock]
    BY DEF SoundInv, TypeOK
  <2> HIDE DEF j
  <2>2. rows' \in [Players -> Stock]
    BY <1>1, <1>3, <2>1, NoneTyped, TablePut
  <2> QED BY <1>1, <1>3, <2>1, <2>2, NoneTyped DEF Stock
<1>5. job'[w] = n
  BY <1>1 DEF SoundInv, TypeOK
<1>6. Written(w) => j.left = memory[j.actor][j.table]
  BY <1>1, <1>3 DEF Written
<1>7. CASE j.left = None
  <2>1. n = TableDone(j)
    BY <1>7
  <2>2. job' = [job EXCEPT ![w] = TableDone(job[w])] /\ UNCHANGED memory /\ n = TableDone(job[w])
        /\ job[w].step \in {"delete", "insert"}
    BY <1>1, <2>1
  <2>3. Written(w) => rows'[j.player][j.table] = memory[j.actor][j.table]
    BY <1>4, <1>6, <1>7
  <2> HIDE DEF n
  <2>4. \/ n = Idle /\ (Written(w) => rows'[j.player] = memory[j.actor])
        \/ /\ n # Idle /\ n.kind = j.kind /\ n.actor = j.actor /\ n.player = j.player
           /\ Written(w) => Written(w)'
    BY <1>1, <1>4, <2>2, <2>3, TableEnds
  <2> QED BY <1>1, <1>2, <1>3, <1>4, <2>4, SaveGoesOn
<1>8. CASE j.left # None
  <2>1. n = [j EXCEPT !.step = "insert"]
    BY <1>8
  <2> HIDE DEF j, n
  <2>2. /\ n \in Job /\ n.kind = j.kind /\ n.actor = j.actor /\ n.player = j.player
        /\ n.table = j.table /\ n.left = j.left /\ n.step = "insert"
    BY <1>2, <2>1 DEF Job
  <2>3. n # Idle
    BY <2>2, JobTyped
  <2>4. ASSUME Written(w) PROVE Written(w)'
    <3>1. \A i \in Items : n.left[i] = memory[j.actor][j.table][i] /\ rows'[j.player][j.table][i] = 0
      BY <1>4, <1>6, <2>2, <2>4 DEF None
    <3>2. \A t \in Tables : n.table = "warehouse" /\ t = "bag" =>
            rows'[j.player][t] = memory[j.actor][t]
      BY <1>4, <2>2, <2>4 DEF Written, j
    <3> QED BY <1>1, <1>5, <2>2, <3>1, <3>2 DEF Written
  <2> QED BY <1>1, <1>2, <1>3, <1>4, <2>2, <2>3, <2>4, SaveGoesOn DEF j
<1> QED BY <1>7, <1>8

LEMMA InsertOpen ==
  ASSUME SoundInv, \A q \in Players : OpenInv(q), NEW w \in Workers, NEW i \in Items,
         Insert(w, i)
  PROVE  \A q \in Players : OpenInv(q)'
<1> DEFINE j == job[w]
           left == [j.left EXCEPT ![i] = 0]
           n == IF left = None THEN TableDone(j) ELSE [j EXCEPT !.left = left]
           k == rows[j.player][j.table][i] + j.left[i]
           had == rows[j.player][j.table]
           has == memory[j.actor][j.table]
<1>1. /\ Busy(w) /\ j.step = "insert" /\ j.left[i] > 0 /\ job' = [job EXCEPT ![w] = n]
      /\ rows' = [rows EXCEPT ![j.player][j.table][i] = k]
      /\ UNCHANGED <<online, memory, dirty, work, ledger>>
  BY DEF Insert
<1>2. j \in Job /\ j.kind # "load"
  BY <1>1, Saving
<1>3. j.player \in Players /\ j.table \in Tables /\ j.actor \in Actors /\ j.left \in [Items -> Nat]
  BY <1>2, JobTyped
<1>4. had \in [Items -> Nat] /\ has \in [Items -> Nat] /\ k \in Nat
  BY <1>3, SMTT(30) DEF SoundInv, TypeOK, Stock
<1>5. /\ rows' \in [Players -> Stock]
      /\ rows'[j.player][j.table] = [had EXCEPT ![i] = k]
      /\ \A t \in Tables \ {j.table} : rows'[j.player][t] = rows[j.player][t]
      /\ \A q \in Players \ {j.player} : rows'[q] = rows[q]
  <2>1. rows \in [Players -> Stock] /\ j.player \in Players /\ j.table \in Tables
    BY <1>3 DEF SoundInv, TypeOK
  <2> HIDE DEF j, k, left, n, had, has
  <2>2. rows' = [rows EXCEPT ![j.player][j.table][i] = k] /\ k \in Nat
    BY <1>1, <1>4
  <2>3. [rows EXCEPT ![j.player][j.table][i] = k] \in [Players -> Stock]
    BY <2>1, <2>2, ItemPut, SMTT(30)
  <2> QED BY <1>3, <1>4, <2>1, <2>2, <2>3 DEF Stock, had
<1>6. job'[w] = n
  BY <1>1 DEF SoundInv, TypeOK
<1>7. ASSUME Written(w), NEW m \in Items
      PROVE  \/ left[m] = 0 /\ rows'[j.player][j.table][m] = has[m]
             \/ left[m] = has[m] /\ rows'[j.player][j.table][m] = 0
  <2>1. \A x \in Items : \/ j.left[x] = 0 /\ had[x] = has[x]
                         \/ j.left[x] = has[x] /\ had[x] = 0
    BY <1>1, <1>3, <1>7 DEF Written
  <2> HIDE DEF j, had, has
  <2>2. CASE m = i
    <3>1. j.left[i] = has[i] /\ had[i] = 0
      BY <1>1, <2>1
    <3>2. rows'[j.player][j.table][i] = k /\ left[i] = 0
      BY <1>3, <1>4, <1>5
    <3>3. k = has[i]
      BY <1>3, <1>4, <3>1 DEF had
    <3> QED BY <2>2, <3>2, <3>3
  <2>3. CASE m # i
    <3>1. rows'[j.player][j.table][m] = had[m] /\ left[m] = j.left[m]
      BY <1>3, <1>4, <1>5, <2>3
    <3> QED BY <2>1, <3>1
  <2> QED BY <2>2, <2>3
<1>8. CASE left = None
  <2>1. n = TableDone(j)
    BY <1>8
  <2>2. job' = [job EXCEPT ![w] = TableDone(job[w])] /\ UNCHANGED memory /\ n = TableDone(job[w])
        /\ job[w].step \in {"delete", "insert"}
    BY <1>1, <2>1
  <2>3. Written(w) => rows'[j.player][j.table] = has
    <3>1. ASSUME Written(w) PROVE \A m \in Items : rows'[j.player][j.table][m] = has[m]
      <4>1. \A m \in Items : left[m] = 0
        BY <1>8 DEF None
      <4> HIDE DEF left, has, j
      <4> QED BY <1>7, <3>1, <4>1
    <3>2. [had EXCEPT ![i] = k] \in [Items -> Nat]
      <4> HIDE DEF had, k
      <4> QED BY <1>4
    <3> HIDE DEF had, has, k, j
    <3> QED BY <1>4, <1>5, <3>1, <3>2
  <2> HIDE DEF n
  <2>4. \/ n = Idle /\ (Written(w) => rows'[j.player] = memory[j.actor])
        \/ /\ n # Idle /\ n.kind = j.kind /\ n.actor = j.actor /\ n.player = j.player
           /\ Written(w) => Written(w)'
    BY <1>1, <1>5, <2>2, <2>3, TableEnds, ZenonT(30)
  <2> QED BY <1>1, <1>2, <1>3, <1>5, <2>4, SaveGoesOn
<1>9. CASE left # None
  <2>1. n = [j EXCEPT !.left = left]
    BY <1>9
  <2>2. left \in [Items -> Nat]
    BY <1>3
  <2> HIDE DEF j, n, left, k, had
  <2>3. /\ n \in Job /\ n.kind = j.kind /\ n.actor = j.actor /\ n.player = j.player
        /\ n.table = j.table /\ n.left = left /\ n.step = "insert"
    BY <1>1, <1>2, <2>1, <2>2 DEF Job
  <2>4. n # Idle
    BY <2>3, JobTyped
  <2>5. ASSUME Written(w) PROVE Written(w)'
    <3>1. \A t \in Tables : n.table = "warehouse" /\ t = "bag" =>
            rows'[j.player][t] = memory[j.actor][t]
      BY <1>5, <2>3, <2>5 DEF Written, j
    <3> QED BY <1>1, <1>6, <1>7, <2>3, <2>5, <3>1, SMTT(30) DEF Written
  <2> QED BY <1>1, <1>2, <1>3, <1>5, <2>3, <2>4, <2>5, SaveGoesOn DEF j
<1> QED BY <1>8, <1>9

LEMMA StatementFailsOpen ==
  ASSUME AllExcused, SoundInv, \A q \in Players : OpenInv(q),
         NEW w \in Workers, NEW p \in Players, p = job[w].player, StatementFails(w)
  PROVE  \A q \in Players : OpenInv(q)'
<1> DEFINE n == TableDone(job[w])
<1>1. /\ Busy(w) /\ job[w].step \in {"delete", "insert"} /\ job' = [job EXCEPT ![w] = n]
      /\ Disturb(p, {"failed"})
      /\ UNCHANGED <<rows, online, memory, dirty, work>>
  BY DEF StatementFails, Fails
<1>2. job[w] \in Job
  BY <1>1, Saving
<1>3. job'[w] = n /\ \A v \in Workers \ {w} : job'[v] = job[v]
  BY <1>1 DEF SoundInv, TypeOK
<1>4. n = Idle \/ n.player = p
  BY <1>2, TableDoneIs
<1> HIDE DEF n
<1>5. (\A q \in Players \ {p} : ledger'[q] = ledger[q]) /\ ledger'[p] = Closed
  <2>1. "failed" \in Excused /\ "failed" \notin Passing
    BY DEF AllExcused, Disturbances, Passing
  <2>2. ~ ({"failed"} \intersect Excused \subseteq Passing)
    BY <2>1
  <2>3. ledger \in [Players -> Account \union {Closed}]
    BY DEF SoundInv, TypeOK
  <2> QED BY <1>1, <2>2, <2>3, DisturbTyped
<1>6. \A q \in Players \ {p} : OpenInv(q)'
  <2>1. Busy(w)' => job'[w].player = p
    BY <1>3, <1>4 DEF Busy
  <2> QED BY <1>1, <1>3, <1>5, <2>1, OthersOpen
<1>7. OpenInv(p)'
  BY <1>5 DEF OpenInv
<1> QED BY <1>6, <1>7

LEMMA OpenStutter ==
  ASSUME SoundInv, \A q \in Players : OpenInv(q), UNCHANGED vars
  PROVE  \A q \in Players : OpenInv(q)'
<1>1. UNCHANGED <<rows, online, memory, dirty, work, job, ledger>>
  BY DEF vars
<1> QED BY <1>1, OpenUntouched

LEMMA OpenNext ==
  ASSUME AllExcused, SoundInv, \A q \in Players : OpenInv(q), [Next]_vars
  PROVE  \A q \in Players : OpenInv(q)'
<1>1. ASSUME NEW w \in Workers, Busy(w)
      PROVE  \E p \in Players : p = job[w].player
  BY <1>1, JobTyped DEF SoundInv, TypeOK, Busy
<1>2. ASSUME NEW l \in Lanes, NEW p \in Players, EnterGame(l, p) \/ LeaveGame(l, p)
      PROVE  \A q \in Players : OpenInv(q)'
  BY <1>2, EnterGameOpen, LeaveGameOpen
<1>3. ASSUME NEW l \in Lanes, LaneStep(l)
      PROVE  \A q \in Players : OpenInv(q)'
  <2>1. l \in Workers /\ Busy(l)
    BY <1>3 DEF LaneStep, LoadTable, AddPlayer, StorePlayer, RemovePlayer, Workers
  <2>2. PICK p \in Players : p = job[l].player
    BY <1>1, <2>1
  <2> QED BY <1>3, <2>2, LoadTableOpen, AddPlayerOpen, StorePlayerOpen, RemovePlayerOpen
          DEF LaneStep
<1>4. ASSUME NEW w \in Workers, SaveStep(w)
      PROVE  \A q \in Players : OpenInv(q)'
  <2>1. CASE StatementFails(w)
    <3>1. PICK p \in Players : p = job[w].player
      BY <1>1, <2>1 DEF StatementFails
    <3> QED BY <2>1, <3>1, StatementFailsOpen
  <2> QED BY <1>4, <2>1, ListOpen, DeleteOpen, InsertOpen DEF SaveStep
<1>5. ASSUME NEW a \in Actors, HandleMessage(a) \/ Change(a)
      PROVE  \A q \in Players : OpenInv(q)'
  BY <1>5, HandleMessageOpen, ChangeOpen
<1>6. CASE Sweep
  BY <1>6, TickOpen, TakeOpen DEF Sweep
<1>7. CASE UNCHANGED vars
  BY <1>7, OpenStutter
<1> QED BY <1>2, <1>3, <1>4, <1>5, <1>6, <1>7 DEF Next

\* Both halves.
AssetsInv == SoundInv /\ \A p \in Players : OpenInv(p)

LEMMA AssetsInvariant ==
  ASSUME AllExcused
  PROVE  Spec => []AssetsInv
<1>1. Init => AssetsInv
  BY SoundInit, OpenInit DEF AssetsInv
<1>2. AssetsInv /\ [Next]_vars => AssetsInv'
  <2> SUFFICES ASSUME AssetsInv, [Next]_vars PROVE AssetsInv'
    OBVIOUS
  <2>1. SoundInv'
    BY SoundNext DEF AssetsInv
  <2>2. \A p \in Players : OpenInv(p)'
    BY OpenNext DEF AssetsInv
  <2> QED BY <2>1, <2>2 DEF AssetsInv
<1> QED BY <1>1, <1>2, PTL DEF Spec

-----------------------------------------------------------------------------
(* What the rows are worth *)

\* Rows, actors, goroutines and the loop's round keep their types through every
\* interleaving of logins, messages and saves, failed statements included.
THEOREM AssetsTyped == Spec => []TypeOK
<1>1. SoundInv => TypeOK
  BY DEF SoundInv
<1> QED BY <1>1, SoundInvariant, PTL

\* player_assets_dirty.go:49-52 for every number of players, lanes, actors and items:
\* at rest, an online player who is not marked is in the database as he is, unless he
\* met one of the eight disturbances.
THEOREM CleanIsSaved ==
  ASSUME Excused = Disturbances
  PROVE  Spec => []CleanMeansSaved
<1>1. AllExcused
  BY DEF AllExcused
<1>2. ASSUME AssetsInv PROVE CleanMeansSaved
  <2> SUFFICES ASSUME NEW p \in Players, online[p] # 0, AtRest(p), ~ dirty[online[p]],
                      ledger[p].met = {}
               PROVE  rows[p] = memory[online[p]] /\ memory[online[p]] = ledger[p].owned
    BY DEF CleanMeansSaved
  <2>1. ledger[p] # Closed
    BY ClosedIsClosed DEF Disturbances
  <2>2. \A w \in Workers : ~ Of(w, p)
    BY DEF AtRest, JobsOf, Of
  <2> QED BY <1>2, <2>1, <2>2 DEF AssetsInv, OpenInv, Clean
<1>3. Spec => []AssetsInv
  BY <1>1, AssetsInvariant
<1> QED BY <1>2, <1>3, PTL

\* LeaveGame (login_service.go) for every number of players, lanes, actors and items: a
\* player who has left finds all that he owned and nothing twice, also when the loop took
\* his mark too early or a message set none.
THEOREM OfflineIsSaved ==
  ASSUME Excused = Disturbances
  PROVE  Spec => []OfflineMeansSaved
<1>1. AllExcused
  BY DEF AllExcused
<1>2. ASSUME AssetsInv PROVE OfflineMeansSaved
  <2> SUFFICES ASSUME NEW p \in Players, online[p] = 0, ledger[p].met \subseteq Passing
               PROVE  rows[p] = ledger[p].owned
    BY DEF OfflineMeansSaved
  <2>1. ledger[p] # Closed
    BY ClosedIsClosed DEF Disturbances, Passing
  <2> QED BY <1>2, <2>1 DEF AssetsInv, OpenInv
<1>3. Spec => []AssetsInv
  BY <1>1, AssetsInvariant
<1> QED BY <1>2, <1>3, PTL

=============================================================================
