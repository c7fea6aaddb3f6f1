------------------------- MODULE CrossActivityProofs -------------------------
(***************************************************************************)
(* CrossActivity for any number of players, GameServers, MapServers,       *)
(* instances and passes of the reapers: types, one instance per MapServer  *)
(* and one MapServer as long as the allocation stands (Together), and      *)
(* connections that last as long as the players they were made for         *)
(* (KeptConnected).                                                        *)
(***************************************************************************)
EXTENDS CrossActivity, TLAPS

-----------------------------------------------------------------------------
(* Types *)

\* A job that has been answered has a server.
HostKnown ==
  \A p \in Players :
    job[p].at \in {"answer", "connect", "ensure", "attach"} => job[p].host \in Hosts

TypeInv == TypeOK /\ HostKnown

LEMMA NestedFunction ==
  ASSUME NEW A, NEW B, NEW C, NEW f \in [A -> [B -> C]],
         NEW a \in A, NEW b \in B, NEW v \in C
  PROVE  /\ [f EXCEPT ![a][b] = v] \in [A -> [B -> C]]
         /\ \A x \in A, y \in B :
              [f EXCEPT ![a][b] = v][x][y] = IF x = a /\ y = b THEN v ELSE f[x][y]
  OBVIOUS

LEMMA TypeInit == Init => TypeInv
<1> SUFFICES ASSUME Init PROVE TypeInv
  OBVIOUS
<1> USE CrossAssumption DEF Init
<1>1. round \in [GameServers -> [step: {"idle", "listing", "closing"},
                                inUse: SUBSET Hosts, closing: SUBSET Hosts]]
  BY DEF NoRound
<1>2. inside \in [Hosts -> [Players -> 0 .. MaxInstance]]
  OBVIOUS
<1>3. conn \in [GameServers -> [Hosts -> {"none", "fresh", "old"}]]
  OBVIOUS
<1>4. HostKnown
  BY DEF HostKnown, NoJob
<1>5. /\ bound \in [Hosts -> 0 .. MaxInstance] /\ made \in [Hosts -> 0 .. MaxInstance]
      /\ moves \in 0 .. MaxMove /\ enters \in 0 .. MaxEnter /\ rounds \in 0 .. MaxRound
  OBVIOUS
<1>6. job \in [Players -> Job \union {NoJob}]
  OBVIOUS
<1> QED BY <1>1, <1>2, <1>3, <1>4, <1>5, <1>6 DEF TypeInv, TypeOK

\* What is changed of a job in progress.
LEMMA JobInProgress ==
  ASSUME TypeInv, NEW p \in Players, job[p].at # "none"
  PROVE  job[p] \in Job
  BY DEF TypeInv, TypeOK, NoJob

\* One job is changed to another that has its type.
LEMMA JobChanged ==
  ASSUME TypeInv, NEW p \in Players, NEW j \in Job \union {NoJob},
         j.at \in {"answer", "connect", "ensure", "attach"} => j.host \in Hosts,
         job' = [job EXCEPT ![p] = j]
  PROVE  job' \in [Players -> Job \union {NoJob}] /\ HostKnown'
  BY DEF TypeInv, TypeOK, HostKnown

\* Another attempt, or none.
LEMMA FailedAttempt ==
  ASSUME TypeInv, NEW p \in Players, job[p] \in Job, AttemptFails(p)
  PROVE  /\ job' \in [Players -> Job \union {NoJob}] /\ HostKnown'
         /\ cache' \in [GameServers -> Hosts \union {Nobody}]
<1> DEFINE j == IF Retries(p) THEN NewAttempt(job[p].attempt + 1) ELSE NoJob
<1>1. j \in Job \union {NoJob} /\ j.at \in {"allocate", "none"}
  BY CrossAssumption DEF Retries, NewAttempt, Job, NoJob
<1>2. job' = [job EXCEPT ![p] = j]
  BY DEF AttemptFails, TypeInv, TypeOK
<1> HIDE DEF j
<1>3. job' \in [Players -> Job \union {NoJob}] /\ HostKnown'
  BY <1>1, <1>2, JobChanged
<1> QED BY <1>3 DEF AttemptFails, TypeInv, TypeOK

LEMMA EnsureTyped ==
  ASSUME TypeInv, NEW h \in Hosts, Ensure(h)
  PROVE  /\ bound' \in [Hosts -> 0 .. MaxInstance]
         /\ alive' \in [Hosts -> SUBSET Instances]
         /\ made' \in [Hosts -> 0 .. MaxInstance]
         /\ bound'[h] \in Instances
<1>1. CASE HasInstance(h) /\ UNCHANGED <<bound, alive, made>>
  BY <1>1 DEF HasInstance, TypeInv, TypeOK
<1>2. CASE /\ made[h] < MaxInstance
           /\ made' = [made EXCEPT ![h] = @ + 1]
           /\ alive' = [alive EXCEPT ![h] = @ \union {made[h] + 1}]
           /\ bound' = [bound EXCEPT ![h] = made[h] + 1]
  <2>1. made[h] + 1 \in Instances
    BY <1>2, CrossAssumption DEF TypeInv, TypeOK, Instances
  <2>2. Instances \subseteq 0 .. MaxInstance
    BY CrossAssumption DEF Instances
  <2> QED BY <1>2, <2>1, <2>2 DEF TypeInv, TypeOK
<1> QED BY <1>1, <1>2 DEF Ensure

\* What a request changes of who is where.
LEMMA EnterChanges ==
  ASSUME TypeInv, NEW h \in Hosts, NEW p \in Players, NEW i \in 0 .. MaxInstance,
         Request(p, h, HandleEnter(h, p, i))
  PROVE  /\ inside' \in [Hosts -> [Players -> 0 .. MaxInstance]]
         /\ \A k \in Hosts, q \in Players :
              \/ inside'[k][q] = inside[k][q]
              \/ k = h /\ q = p /\ i \in alive[h] /\ inside'[k][q] = i
<1>1. CASE UNCHANGED inside
  BY <1>1 DEF TypeInv, TypeOK
<1>2. CASE inside' = [inside EXCEPT ![h][p] = IF i \in alive[h] THEN i ELSE @]
  <2> DEFINE v == IF i \in alive[h] THEN i ELSE inside[h][p]
  <2>1. v \in 0 .. MaxInstance /\ inside \in [Hosts -> [Players -> 0 .. MaxInstance]]
    BY DEF TypeInv, TypeOK
  <2>2. inside' = [inside EXCEPT ![h][p] = v]
    BY <1>2
  <2>3. /\ inside' \in [Hosts -> [Players -> 0 .. MaxInstance]]
        /\ \A k \in Hosts, q \in Players :
             inside'[k][q] = IF k = h /\ q = p THEN v ELSE inside[k][q]
    <3> HIDE DEF v
    <3> QED BY <2>1, <2>2, NestedFunction
  <2> QED BY <2>3
<1> QED BY <1>1, <1>2 DEF Request, HandleEnter

LEMMA LeaveChanges ==
  ASSUME TypeInv, NEW h \in Hosts, NEW p \in Players, Request(p, h, HandleLeave(h, p))
  PROVE  /\ inside' \in [Hosts -> [Players -> 0 .. MaxInstance]]
         /\ \A k \in Hosts, q \in Players : inside'[k][q] \in {0, inside[k][q]}
<1>1. CASE UNCHANGED inside
  BY <1>1 DEF TypeInv, TypeOK
<1>2. CASE inside' = [inside EXCEPT ![h][p] = IF @ \in alive[h] THEN 0 ELSE @]
  <2> DEFINE v == IF inside[h][p] \in alive[h] THEN 0 ELSE inside[h][p]
  <2>1. v \in 0 .. MaxInstance /\ inside \in [Hosts -> [Players -> 0 .. MaxInstance]]
    BY CrossAssumption DEF TypeInv, TypeOK
  <2>2. inside' = [inside EXCEPT ![h][p] = v]
    BY <1>2
  <2>3. /\ inside' \in [Hosts -> [Players -> 0 .. MaxInstance]]
        /\ \A k \in Hosts, q \in Players :
             inside'[k][q] = IF k = h /\ q = p THEN v ELSE inside[k][q]
    <3> HIDE DEF v
    <3> QED BY <2>1, <2>2, NestedFunction
  <2> QED BY <2>3
<1> QED BY <1>1, <1>2 DEF Request, HandleLeave

LEMMA TypeStep == TypeInv /\ [Next]_vars => TypeInv'
<1> SUFFICES ASSUME TypeInv, [Next]_vars PROVE TypeInv'
  OBVIOUS
<1> USE CrossAssumption DEF TypeInv, TypeOK, HostKnown, globalVars, linkVars, hostVars
<1>1. ASSUME NEW p \in Players, CrossEnter(p) PROVE TypeInv'
  BY <1>1 DEF CrossEnter, NewAttempt, Job, NoJob
<1>2. ASSUME NEW p \in Players, UseCache(p) PROVE TypeInv'
  <2>1. job[p] \in Job
    BY <1>2, JobInProgress DEF UseCache, At
  <2> QED BY <1>2, <2>1 DEF UseCache, At, Job
<1>3. ASSUME NEW p \in Players, Discover(p) PROVE TypeInv'
  <2>1. job[p] \in Job
    BY <1>3, JobInProgress DEF Discover, At
  <2> QED BY <1>3, <2>1 DEF Discover, At, Job
<1>4. ASSUME NEW p \in Players, Allocate(p) PROVE TypeInv'
  <2>1. job[p] \in Job
    BY <1>4, JobInProgress DEF Allocate, At
  <2>2. PICK h \in Candidates(job[p].seen) :
          /\ allocation' = h
          /\ moved' = (moved \/ allocation \notin job[p].seen \union {Nobody})
          /\ job' = [job EXCEPT ![p].at = "answer", ![p].host = h]
    BY <1>4 DEF Allocate
  <2>3. h \in Hosts
    BY <2>1 DEF Candidates, Job
  <2> DEFINE j == [job[p] EXCEPT !.at = "answer", !.host = h]
  <2>4. j \in Job /\ j.host \in Hosts
    BY <2>1, <2>3 DEF Job
  <2>5. job' = [job EXCEPT ![p] = j]
    BY <2>2
  <2> HIDE DEF j
  <2>6. job' \in [Players -> Job \union {NoJob}] /\ HostKnown'
    BY <2>4, <2>5, JobChanged
  <2> QED BY <1>4, <2>2, <2>3, <2>6 DEF Allocate
<1>5. ASSUME NEW p \in Players, AllocateFails(p) PROVE TypeInv'
  BY <1>5 DEF AllocateFails, Return, NoJob
<1>6. ASSUME NEW p \in Players, CacheAnswer(p) PROVE TypeInv'
  <2>1. job[p] \in Job
    BY <1>6, JobInProgress DEF CacheAnswer, At
  <2> QED BY <1>6, <2>1 DEF CacheAnswer, Goto, At, Job
<1>7. ASSUME NEW p \in Players, Connect(p) PROVE TypeInv'
  <2>1. job[p] \in Job /\ job[p].host \in Hosts
    BY <1>7, JobInProgress DEF Connect, At
  <2> DEFINE h == job[p].host
             on == [job[p] EXCEPT !.at = "ensure"]
             dial == [job[p] EXCEPT !.at = "ensure", !.dialled = TRUE]
  <2>2. /\ on \in Job /\ on.host \in Hosts
        /\ dial \in Job /\ dial.host \in Hosts
    BY <2>1 DEF Job
  <2>3. conn' \in [GameServers -> [Hosts -> {"none", "fresh", "old"}]]
    <3>1. Home[p] \in GameServers /\ h \in Hosts
      BY <2>1
    <3>2. [conn EXCEPT ![Home[p]][h] = "fresh"]
            \in [GameServers -> [Hosts -> {"none", "fresh", "old"}]]
      BY <3>1, NestedFunction
    <3> QED BY <1>7, <3>2 DEF Connect
  <2>4. CASE Goto(p, "ensure") /\ UNCHANGED cache
    <3>1. job' = [job EXCEPT ![p] = on]
      BY <2>4 DEF Goto
    <3> QED BY <1>7, <2>2, <2>3, <2>4, <3>1, JobChanged DEF Connect
  <2>5. CASE /\ job' = [job EXCEPT ![p].at = "ensure", ![p].dialled = TRUE]
             /\ UNCHANGED cache
    <3>1. job' = [job EXCEPT ![p] = dial]
      BY <2>5
    <3> QED BY <1>7, <2>2, <2>3, <2>5, <3>1, JobChanged DEF Connect
  <2>6. CASE AttemptFails(p)
    BY <1>7, <2>1, <2>3, <2>6, FailedAttempt DEF Connect
  <2> QED BY <1>7, <2>4, <2>5, <2>6 DEF Connect
<1>8. ASSUME NEW p \in Players, EnsureAnswered(p) PROVE TypeInv'
  <2>1. job[p] \in Job /\ job[p].host \in Hosts
    BY <1>8, JobInProgress DEF EnsureAnswered, At
  <2>2. /\ bound' \in [Hosts -> 0 .. MaxInstance]
        /\ alive' \in [Hosts -> SUBSET Instances]
        /\ made' \in [Hosts -> 0 .. MaxInstance]
        /\ bound'[job[p].host] \in Instances
    BY <1>8, <2>1, EnsureTyped DEF EnsureAnswered
  <2> DEFINE j == [job[p] EXCEPT !.at = "attach", !.map = bound'[job[p].host]]
  <2>3. j \in Job /\ j.host \in Hosts
    BY <2>1, <2>2 DEF Job, Instances
  <2>4. job' = [job EXCEPT ![p] = j]
    BY <1>8 DEF EnsureAnswered
  <2> HIDE DEF j
  <2>5. job' \in [Players -> Job \union {NoJob}] /\ HostKnown'
    BY <2>3, <2>4, JobChanged
  <2> QED BY <1>8, <2>2, <2>5 DEF EnsureAnswered
<1>9. ASSUME NEW p \in Players, EnsureTimesOut(p) PROVE TypeInv'
  <2>1. job[p] \in Job /\ job[p].host \in Hosts
    BY <1>9, JobInProgress DEF EnsureTimesOut, At
  <2>2. /\ bound' \in [Hosts -> 0 .. MaxInstance]
        /\ alive' \in [Hosts -> SUBSET Instances]
        /\ made' \in [Hosts -> 0 .. MaxInstance]
    BY <1>9, <2>1, EnsureTyped DEF EnsureTimesOut
  <2>3. /\ job' \in [Players -> Job \union {NoJob}] /\ HostKnown'
        /\ cache' \in [GameServers -> Hosts \union {Nobody}]
    BY <1>9, <2>1, FailedAttempt DEF EnsureTimesOut
  <2> QED BY <1>9, <2>2, <2>3 DEF EnsureTimesOut
<1>10. ASSUME NEW p \in Players, Attach(p) PROVE TypeInv'
  <2>1. job[p] \in Job /\ job[p].host \in Hosts
    BY <1>10, JobInProgress DEF Attach, At
  <2>2. job' \in [Players -> Job \union {NoJob}] /\ HostKnown'
    BY <1>10 DEF Attach, Return, NoJob
  <2>3. inside' \in [Hosts -> [Players -> 0 .. MaxInstance]]
    <3>1. job[p].map \in 0 .. MaxInstance
      BY <2>1 DEF Job
    <3> QED BY <1>10, <2>1, <3>1, EnterChanges DEF Attach
  <2>4. own' \in [Players -> BOOLEAN]
    BY <1>10, <2>1 DEF Attach, Job
  <2> QED BY <1>10, <2>1, <2>2, <2>3, <2>4 DEF Attach
<1>11. ASSUME NEW p \in Players, Leave(p) PROVE TypeInv'
  <2>1. inside' \in [Hosts -> [Players -> 0 .. MaxInstance]]
    <3>1. binding[p] \in Hosts
      BY <1>11 DEF Leave
    <3> QED BY <1>11, <3>1, LeaveChanges DEF Leave
  <2> QED BY <1>11, <2>1 DEF Leave
<1>12. ASSUME NEW h \in Hosts, NEW i \in Instances, Judge(h, i) PROVE TypeInv'
  BY <1>12 DEF Judge
<1>13. ASSUME NEW h \in Hosts, NEW i \in Instances, Reap(h, i) PROVE TypeInv'
  BY <1>13 DEF Reap
<1>14. ASSUME NEW h \in Hosts, ReapBinding(h) PROVE TypeInv'
  BY <1>14 DEF ReapBinding
<1>15. ASSUME NEW h \in Hosts, Unlist(h) \/ List(h) PROVE TypeInv'
  BY <1>15 DEF Unlist, List, Moves
<1>16. ASSUME NEW h \in Hosts, Restart(h) PROVE TypeInv'
  BY <1>16 DEF Restart, Moves
<1>17. ASSUME NEW g \in GameServers, Expire(g) PROVE TypeInv'
  BY <1>17 DEF Expire
<1>18. ASSUME NEW g \in GameServers, NEW h \in Hosts, Age(g, h) PROVE TypeInv'
  BY <1>18 DEF Age
<1>19. ASSUME NEW g \in GameServers, CollectInUse(g) PROVE TypeInv'
  BY <1>19 DEF CollectInUse, BoundHosts
<1>20. ASSUME NEW g \in GameServers, ListIdle(g) PROVE TypeInv'
  BY <1>20 DEF ListIdle, IdleCrossRealm, Closing, NoRound
<1>21. ASSUME NEW g \in GameServers, NEW h \in Hosts, CloseIdle(g, h) PROVE TypeInv'
  BY <1>21 DEF CloseIdle, Closing, NoRound
<1>22. CASE Cleanup
  BY <1>22 DEF Cleanup, Moves
<1>23. CASE UNCHANGED vars
  BY <1>23 DEF vars
<1> QED
  BY <1>1, <1>2, <1>3, <1>4, <1>5, <1>6, <1>7, <1>8, <1>9, <1>10, <1>11, <1>12, <1>13,
     <1>14, <1>15, <1>16, <1>17, <1>18, <1>19, <1>20, <1>21, <1>22, <1>23
  DEF Next, ResolveStep, HostStep, ReaperStep

\* Every state has its type: no job has a third attempt, and no MapServer an instance
\* it has not made.
THEOREM CrossTyped == Spec => []TypeOK
<1>1. TypeInv => TypeOK
  BY DEF TypeInv
<1> QED BY TypeInit, TypeStep, <1>1, PTL DEF Spec

-----------------------------------------------------------------------------
(* One instance of a MapServer, one MapServer *)

\* The instance the activity is bound to is the only one there is: no other is made
\* while it lives.
OneInstance == \A h \in Hosts : alive[h] \subseteq {bound[h]}

\* While the allocation stands, nobody has another answer or is anywhere else.
OneServer ==
  ~ moved =>
    /\ \A g \in GameServers : cache[g] \in {Nobody, allocation}
    /\ \A p \in Players : job[p] # NoJob => job[p].host \in {Nobody, allocation}
    /\ \A h \in Hosts, p \in Players : inside[h][p] # 0 => h = allocation

TogetherInv == TypeInv /\ OneInstance /\ OneServer

LEMMA TogetherInit == Init => TogetherInv
<1> SUFFICES ASSUME Init PROVE TogetherInv
  OBVIOUS
<1>1. OneInstance /\ OneServer
  BY DEF Init, OneInstance, OneServer
<1> QED BY <1>1, TypeInit DEF TogetherInv

LEMMA EnsureOne ==
  ASSUME TypeInv, OneInstance, NEW h \in Hosts, Ensure(h)
  PROVE  OneInstance'
<1>1. CASE UNCHANGED <<bound, alive, made>>
  BY <1>1 DEF OneInstance
<1>2. CASE /\ ~ HasInstance(h)
           /\ alive' = [alive EXCEPT ![h] = @ \union {made[h] + 1}]
           /\ bound' = [bound EXCEPT ![h] = made[h] + 1]
  <2>1. alive[h] = {}
    BY <1>2 DEF HasInstance, OneInstance
  <2> QED BY <1>2, <2>1 DEF OneInstance, TypeInv, TypeOK
<1> QED BY <1>1, <1>2 DEF Ensure

LEMMA FailedAttemptOne ==
  ASSUME TypeInv, OneServer, NEW p \in Players, AttemptFails(p), UNCHANGED <<globalVars, inside>>
  PROVE  OneServer'
<1> SUFFICES ASSUME ~ moved PROVE OneServer'
  BY DEF OneServer, globalVars
<1>1. job'[p] = NoJob \/ job'[p].host = Nobody
  BY DEF AttemptFails, NewAttempt, TypeInv, TypeOK
<1>2. \A q \in Players \ {p} : job'[q] = job[q]
  BY DEF AttemptFails, TypeInv, TypeOK
<1>3. \A g \in GameServers : cache'[g] \in {Nobody, cache[g]}
  BY DEF AttemptFails, TypeInv, TypeOK
<1> QED BY <1>1, <1>2, <1>3 DEF OneServer, globalVars

LEMMA TogetherStep == TogetherInv /\ [Next]_vars => TogetherInv'
<1> SUFFICES ASSUME TogetherInv, [Next]_vars PROVE OneInstance' /\ OneServer'
  BY TypeStep DEF TogetherInv
<1> USE CrossAssumption DEF TogetherInv, OneInstance, OneServer, globalVars, linkVars, hostVars
<1>0. TypeOK /\ HostKnown
  BY DEF TypeInv
<1>1. ASSUME NEW p \in Players, CrossEnter(p) PROVE OneInstance' /\ OneServer'
  BY <1>0, <1>1 DEF CrossEnter, NewAttempt, TypeOK
<1>2. ASSUME NEW p \in Players, UseCache(p) PROVE OneInstance' /\ OneServer'
  BY <1>0, <1>2, JobInProgress DEF UseCache, At, TypeOK, Job
<1>3. ASSUME NEW p \in Players, Discover(p) PROVE OneInstance' /\ OneServer'
  BY <1>0, <1>3, JobInProgress DEF Discover, At, TypeOK, Job, NoJob
<1>4. ASSUME NEW p \in Players, Allocate(p) PROVE OneInstance' /\ OneServer'
  <2>1. job[p] \in Job /\ job[p] # NoJob
    BY <1>4, JobInProgress DEF Allocate, At, NoJob
  <2>2. PICK h \in Candidates(job[p].seen) :
          /\ allocation' = h
          /\ moved' = (moved \/ allocation \notin job[p].seen \union {Nobody})
          /\ job' = [job EXCEPT ![p].at = "answer", ![p].host = h]
    BY <1>4 DEF Allocate
  <2>3. job'[p].host = h /\ \A q \in Players \ {p} : job'[q] = job[q]
    BY <2>1, <2>2, <1>0 DEF TypeOK, Job
  <2>4. UNCHANGED <<bound, alive, cache, inside>>
    BY <1>4 DEF Allocate
  <2>5. CASE moved'
    BY <2>4, <2>5
  <2>6. CASE ~ moved' /\ allocation = h
    BY <2>1, <2>2, <2>3, <2>4, <2>6
  <2>7. CASE ~ moved' /\ allocation # h
    <3>1. ~ moved /\ allocation = Nobody
      BY <2>2, <2>7 DEF Candidates
    <3>2. /\ \A k \in Hosts, q \in Players : inside[k][q] = 0
          /\ \A g \in GameServers : cache[g] = Nobody
          /\ \A q \in Players : job[q] # NoJob => job[q].host = Nobody
      BY <3>1
    <3> QED BY <2>2, <2>3, <2>4, <3>2
  <2> QED BY <2>5, <2>6, <2>7
<1>5. ASSUME NEW p \in Players, AllocateFails(p) PROVE OneInstance' /\ OneServer'
  BY <1>0, <1>5 DEF AllocateFails, Return, TypeOK
<1>6. ASSUME NEW p \in Players, CacheAnswer(p) PROVE OneInstance' /\ OneServer'
  <2>1. job[p] \in Job /\ job[p] # NoJob
    BY <1>6, JobInProgress DEF CacheAnswer, At, NoJob
  <2> QED BY <1>0, <1>6, <2>1 DEF CacheAnswer, Goto, TypeOK, Job
<1>7. ASSUME NEW p \in Players, Connect(p) PROVE OneInstance' /\ OneServer'
  <2>1. job[p] \in Job /\ job[p] # NoJob
    BY <1>7, JobInProgress DEF Connect, At, NoJob
  <2>2. CASE AttemptFails(p)
    BY <1>7, <2>2, FailedAttemptOne DEF Connect
  <2>3. CASE /\ \/ Goto(p, "ensure")
                \/ job' = [job EXCEPT ![p].at = "ensure", ![p].dialled = TRUE]
             /\ UNCHANGED cache
    <3>1. job'[p].host = job[p].host
      BY <1>0, <2>1, <2>3 DEF Goto, TypeOK, Job
    <3>2. \A q \in Players \ {p} : job'[q] = job[q]
      BY <1>0, <2>3 DEF Goto, TypeOK
    <3>3. UNCHANGED <<bound, alive, inside, moved, allocation>>
      BY <1>7 DEF Connect
    <3> QED BY <2>1, <2>3, <3>1, <3>2, <3>3
  <2> QED BY <1>7, <2>2, <2>3 DEF Connect
<1>8. ASSUME NEW p \in Players, EnsureAnswered(p) PROVE OneInstance' /\ OneServer'
  <2>1. job[p] \in Job /\ job[p] # NoJob /\ job[p].host \in Hosts
    BY <1>0, <1>8, JobInProgress DEF EnsureAnswered, At, NoJob, HostKnown
  <2>2. OneInstance'
    BY <1>8, <2>1, EnsureOne DEF EnsureAnswered
  <2>3. OneServer'
    BY <1>0, <1>8, <2>1 DEF EnsureAnswered, TypeOK, Job
  <2> QED BY <2>2, <2>3
<1>9. ASSUME NEW p \in Players, EnsureTimesOut(p) PROVE OneInstance' /\ OneServer'
  <2>1. job[p].host \in Hosts
    BY <1>0, <1>9 DEF EnsureTimesOut, At, HostKnown
  <2>2. OneInstance'
    BY <1>9, <2>1, EnsureOne DEF EnsureTimesOut
  <2>3. OneServer'
    BY <1>9, FailedAttemptOne DEF EnsureTimesOut
  <2> QED BY <2>2, <2>3
<1>10. ASSUME NEW p \in Players, Attach(p) PROVE OneInstance' /\ OneServer'
  <2>1. job[p] \in Job /\ job[p] # NoJob /\ job[p].host \in Hosts
    BY <1>0, <1>10, JobInProgress DEF Attach, At, NoJob, HostKnown
  <2>2. job[p].map \in 0 .. MaxInstance
    BY <2>1 DEF Job
  <2>3. \A k \in Hosts, q \in Players :
          inside'[k][q] = inside[k][q] \/ k = job[p].host
    BY <1>10, <2>1, <2>2, EnterChanges DEF Attach
  <2>4. job[p].host = allocation \/ moved
    BY <2>1
  <2>5. job' = [job EXCEPT ![p] = NoJob]
    BY <1>10 DEF Attach, Return
  <2> QED BY <1>0, <1>10, <2>3, <2>4, <2>5 DEF Attach, TypeOK
<1>11. ASSUME NEW p \in Players, Leave(p) PROVE OneInstance' /\ OneServer'
  <2>1. binding[p] \in Hosts
    BY <1>0, <1>11 DEF Leave, TypeOK
  <2>2. \A k \in Hosts, q \in Players : inside'[k][q] \in {0, inside[k][q]}
    BY <1>11, <2>1, LeaveChanges DEF Leave
  <2> QED BY <1>11, <2>2 DEF Leave
<1>12. ASSUME NEW h \in Hosts, NEW i \in Instances, Judge(h, i)
       PROVE  OneInstance' /\ OneServer'
  BY <1>12 DEF Judge
<1>13. ASSUME NEW h \in Hosts, NEW i \in Instances, Reap(h, i)
       PROVE  OneInstance' /\ OneServer'
  BY <1>0, <1>13 DEF Reap, TypeOK
<1>14. ASSUME NEW h \in Hosts, ReapBinding(h) PROVE OneInstance' /\ OneServer'
  <2>1. alive[h] = {}
    BY <1>14 DEF ReapBinding, HasInstance
  <2> QED BY <1>0, <1>14, <2>1 DEF ReapBinding, TypeOK
<1>15. ASSUME NEW h \in Hosts, Unlist(h) \/ List(h) PROVE OneInstance' /\ OneServer'
  BY <1>15 DEF Unlist, List
<1>16. ASSUME NEW h \in Hosts, Restart(h) PROVE OneInstance' /\ OneServer'
  <2>1. \A k \in Hosts, q \in Players : inside'[k][q] \in {0, inside[k][q]}
    <3>1. inside' = [inside EXCEPT ![h] = [p \in Players |-> 0]]
      BY <1>16 DEF Restart
    <3>2. inside \in [Hosts -> [Players -> 0 .. MaxInstance]]
      BY <1>0 DEF TypeOK
    <3> QED BY <3>1, <3>2
  <2>2. \A k \in Hosts : alive'[k] = {} \/ (alive'[k] = alive[k] /\ bound'[k] = bound[k])
    <3>1. alive' = [alive EXCEPT ![h] = {}] /\ bound' = [bound EXCEPT ![h] = 0]
      BY <1>16 DEF Restart
    <3>2. alive \in [Hosts -> SUBSET Instances] /\ bound \in [Hosts -> 0 .. MaxInstance]
      BY <1>0 DEF TypeOK
    <3> QED BY <3>1, <3>2
  <2> QED BY <1>16, <2>1, <2>2 DEF Restart
<1>17. ASSUME NEW g \in GameServers, Expire(g) PROVE OneInstance' /\ OneServer'
  BY <1>0, <1>17 DEF Expire, TypeOK
<1>18. ASSUME NEW g \in GameServers, NEW h \in Hosts, Age(g, h) \/ CloseIdle(g, h)
       PROVE  OneInstance' /\ OneServer'
  BY <1>18 DEF Age, CloseIdle
<1>19. ASSUME NEW g \in GameServers, CollectInUse(g) \/ ListIdle(g)
       PROVE  OneInstance' /\ OneServer'
  BY <1>19 DEF CollectInUse, ListIdle
<1>20. CASE Cleanup
  BY <1>20 DEF Cleanup
<1>21. CASE UNCHANGED vars
  BY <1>21 DEF vars
<1> QED
  BY <1>1, <1>2, <1>3, <1>4, <1>5, <1>6, <1>7, <1>8, <1>9, <1>10, <1>11, <1>12, <1>13,
     <1>14, <1>15, <1>16, <1>17, <1>18, <1>19, <1>20, <1>21
  DEF Next, ResolveStep, HostStep, ReaperStep

\* However many realms ask, and whenever: whoever is in the activity on one MapServer is
\* in the same instance, and on the same MapServer while the allocation stands.
THEOREM AlwaysTogether == Spec => []Together
<1>1. TogetherInv => Together
  <2> SUFFICES ASSUME TogetherInv, NEW h \in Hosts, NEW k \in Hosts,
                      NEW p \in Players, NEW q \in Players, In(h, p), In(k, q)
               PROVE  /\ ~ moved => h = k
                      /\ h = k => inside[h][p] = inside[h][q]
    BY DEF Together
  <2>1. inside[h][p] # 0 /\ inside[k][q] # 0
    BY CrossAssumption DEF In, TogetherInv, TypeInv, TypeOK, Instances
  <2>2. ~ moved => h = k
    BY <2>1 DEF TogetherInv, OneServer
  <2>3. h = k => inside[h][p] = inside[h][q]
    BY DEF In, TogetherInv, OneInstance
  <2> QED BY <2>2, <2>3
<1> QED BY TogetherInit, TogetherStep, <1>1, PTL DEF Spec

-----------------------------------------------------------------------------
(* Connections *)

\* A job that has dialled holds a young connection.
Dialled ==
  \A p \in Players :
    job[p] # NoJob /\ job[p].dialled =>
      job[p].at \in {"ensure", "attach"} /\ conn[Home[p]][job[p].host] = "fresh"

\* The pass closes only old connections.
ClosingOld ==
  \A g \in GameServers, h \in Hosts : h \in round[g].closing => conn[g][h] = "old"

\* The connection p's GameServer has dialled for him: young, or known to the pass.
Kept(p) ==
  LET g == Home[p]
      h == binding[p]
  IN /\ h \in Hosts
     /\ \/ conn[g][h] = "fresh"
        \/ /\ conn[g][h] = "old"
           /\ round[g].step = "listing" => h \in round[g].inUse
           /\ h \notin round[g].closing

OwnKept == \A p \in Players : own[p] => Kept(p)

Conns == Dialled /\ ClosingOld /\ OwnKept

KeptInv == TypeInv /\ Conns

LEMMA KeptInit == Init => KeptInv
<1> SUFFICES ASSUME Init PROVE KeptInv
  OBVIOUS
<1>1. Conns
  BY DEF Init, Conns, Dialled, ClosingOld, OwnKept, NoRound
<1> QED BY <1>1, TypeInit DEF KeptInv

\* A job that has not dialled may do what it likes, and one that has may go on or end.
LEMMA KeptJob ==
  ASSUME KeptInv, NEW p \in Players, UNCHANGED <<linkVars, binding>>,
         \A q \in Players \ {p} : job'[q] = job[q],
         \/ job'[p] = NoJob
         \/ ~ job'[p].dialled
         \/ /\ job[p] # NoJob /\ job[p].dialled /\ job'[p].host = job[p].host
            /\ job'[p].at = "attach"
  PROVE  Conns'
<1>1. Dialled'
  BY DEF KeptInv, Conns, Dialled, linkVars
<1>2. ClosingOld' /\ OwnKept'
  BY DEF KeptInv, Conns, ClosingOld, OwnKept, Kept, linkVars
<1> QED BY <1>1, <1>2 DEF Conns

LEMMA FailedAttemptKept ==
  ASSUME KeptInv, NEW p \in Players, AttemptFails(p), UNCHANGED <<linkVars, binding>>
  PROVE  Conns'
<1>1. job'[p] = NoJob \/ ~ job'[p].dialled
  BY DEF AttemptFails, NewAttempt, KeptInv, TypeInv, TypeOK
<1>2. \A q \in Players \ {p} : job'[q] = job[q]
  BY DEF AttemptFails, KeptInv, TypeInv, TypeOK
<1> QED BY <1>1, <1>2, KeptJob

\* Nothing of this is changed by other components.
LEMMA KeptSame ==
  ASSUME KeptInv, UNCHANGED <<linkVars, binding, job>>
  PROVE  Conns'
  BY DEF KeptInv, Conns, Dialled, ClosingOld, OwnKept, Kept, linkVars

LEMMA KeptStep == KeptInv /\ [Next]_vars => KeptInv'
<1> SUFFICES ASSUME KeptInv, [Next]_vars PROVE Conns'
  BY TypeStep DEF KeptInv
<1> USE CrossAssumption
<1>0. TypeInv /\ TypeOK /\ HostKnown /\ Dialled /\ ClosingOld /\ OwnKept
  BY DEF KeptInv, Conns, TypeInv
<1>1. ASSUME NEW p \in Players, CrossEnter(p) PROVE Conns'
  <2>1. ~ job'[p].dialled /\ \A q \in Players \ {p} : job'[q] = job[q]
    BY <1>0, <1>1 DEF CrossEnter, NewAttempt, TypeOK
  <2> QED BY <1>1, <2>1, KeptJob DEF CrossEnter
<1>2. ASSUME NEW p \in Players,
             UseCache(p) \/ Discover(p) \/ Allocate(p) \/ CacheAnswer(p)
      PROVE  Conns'
  <2>1. job[p] \in Job /\ job[p] # NoJob /\ ~ job[p].dialled
    BY <1>0, <1>2, JobInProgress
    DEF UseCache, Discover, Allocate, CacheAnswer, At, NoJob, Dialled, Job
  <2>2. \A q \in Players \ {p} : job'[q] = job[q]
    BY <1>0, <1>2 DEF UseCache, Discover, Allocate, CacheAnswer, Goto, TypeOK
  <2>3. UNCHANGED <<linkVars, binding>>
    BY <1>2 DEF UseCache, Discover, Allocate, CacheAnswer
  <2>4. job'[p].dialled = job[p].dialled
    BY <1>0, <1>2, <2>1 DEF UseCache, Discover, Allocate, CacheAnswer, Goto, TypeOK, Job
  <2> QED BY <2>1, <2>2, <2>3, <2>4, KeptJob
<1>3. ASSUME NEW p \in Players, AllocateFails(p) PROVE Conns'
  <2>1. job'[p] = NoJob /\ \A q \in Players \ {p} : job'[q] = job[q]
    BY <1>0, <1>3 DEF AllocateFails, Return, TypeOK
  <2> QED BY <1>3, <2>1, KeptJob DEF AllocateFails
<1>4. ASSUME NEW p \in Players, Connect(p) PROVE Conns'
  <2> DEFINE g == Home[p]
             h == job[p].host
  <2>1. job[p] \in Job /\ job[p] # NoJob /\ ~ job[p].dialled /\ h \in Hosts /\ g \in GameServers
    BY <1>0, <1>4, JobInProgress DEF Connect, At, NoJob, Dialled, HostKnown, Job
  <2>2. CASE Goto(p, "ensure") /\ UNCHANGED conn
    <3>1. ~ job'[p].dialled /\ \A q \in Players \ {p} : job'[q] = job[q]
      BY <1>0, <2>1, <2>2 DEF Goto, TypeOK, Job
    <3> QED BY <1>4, <2>2, <3>1, KeptJob DEF Connect, linkVars
  <2>3. CASE AttemptFails(p) /\ UNCHANGED conn
    BY <1>4, <2>3, FailedAttemptKept DEF Connect, linkVars
  <2>4. CASE /\ conn[g][h] = "none"
             /\ conn' = [conn EXCEPT ![g][h] = "fresh"]
             /\ job' = [job EXCEPT ![p].at = "ensure", ![p].dialled = TRUE]
    <3>1. \A d \in GameServers, k \in Hosts :
            conn'[d][k] = IF d = g /\ k = h THEN "fresh" ELSE conn[d][k]
      <4>1. conn \in [GameServers -> [Hosts -> {"none", "fresh", "old"}]]
        BY <1>0 DEF TypeOK
      <4> HIDE DEF g, h
      <4> QED BY <2>1, <2>4, <4>1, NestedFunction
    <3>2. /\ job'[p].at = "ensure" /\ job'[p].host = h
          /\ \A q \in Players \ {p} : job'[q] = job[q]
      BY <1>0, <2>1, <2>4 DEF TypeOK, Job
    <3>3. UNCHANGED <<round, own, binding>>
      BY <1>4 DEF Connect
    <3>4. \A q \in Players : Home[q] \in GameServers
      OBVIOUS
    <3>5. Dialled'
      <4> SUFFICES ASSUME NEW q \in Players, job'[q] # NoJob, job'[q].dialled
                   PROVE  job'[q].at \in {"ensure", "attach"} /\ conn'[Home[q]][job'[q].host] = "fresh"
        BY DEF Dialled
      <4>1. CASE q = p
        BY <2>1, <3>1, <3>2, <4>1
      <4>2. CASE q # p
        <5>1. job[q].at \in {"ensure", "attach"} /\ conn[Home[q]][job[q].host] = "fresh"
          BY <1>0, <3>2, <4>2 DEF Dialled
        <5>2. job[q].host \in Hosts
          BY <1>0, <5>1 DEF HostKnown
        <5> QED BY <3>1, <3>2, <3>4, <4>2, <5>1, <5>2
      <4> QED BY <4>1, <4>2
    <3>6. ClosingOld'
      BY <1>0, <2>4, <3>1, <3>3 DEF ClosingOld
    <3>7. OwnKept'
      BY <1>0, <2>4, <3>1, <3>3, <3>4 DEF OwnKept, Kept
    <3> QED BY <3>5, <3>6, <3>7 DEF Conns
  <2> QED BY <1>4, <2>2, <2>3, <2>4 DEF Connect
<1>5. ASSUME NEW p \in Players, EnsureAnswered(p) PROVE Conns'
  <2>1. job[p] \in Job /\ job[p] # NoJob
    BY <1>0, <1>5, JobInProgress DEF EnsureAnswered, At, NoJob
  <2>2. /\ job'[p].at = "attach" /\ job'[p].host = job[p].host /\ job'[p].dialled = job[p].dialled
        /\ \A q \in Players \ {p} : job'[q] = job[q]
    BY <1>0, <1>5, <2>1 DEF EnsureAnswered, TypeOK, Job
  <2> QED BY <1>5, <2>1, <2>2, KeptJob DEF EnsureAnswered
<1>6. ASSUME NEW p \in Players, EnsureTimesOut(p) PROVE Conns'
  BY <1>6, FailedAttemptKept DEF EnsureTimesOut
<1>7. ASSUME NEW p \in Players, Attach(p) PROVE Conns'
  <2> DEFINE sent == conn[Home[p]][job[p].host] # "none"
  <2>1. job[p] \in Job /\ job[p] # NoJob /\ job[p].host \in Hosts
    BY <1>0, <1>7, JobInProgress DEF Attach, At, NoJob, HostKnown
  <2>2. job'[p] = NoJob /\ \A q \in Players \ {p} : job'[q] = job[q]
    BY <1>0, <1>7 DEF Attach, Return, TypeOK
  <2>3. /\ own'[p] = (sent /\ job[p].dialled)
        /\ \A q \in Players \ {p} : own'[q] = own[q] /\ binding'[q] = binding[q]
        /\ sent => binding'[p] = job[p].host
    BY <1>0, <1>7 DEF Attach, TypeOK
  <2>4. UNCHANGED <<conn, round>>
    BY <1>7 DEF Attach
  <2>5. Dialled'
    BY <1>0, <2>2, <2>4 DEF Dialled
  <2>6. ClosingOld'
    BY <1>0, <2>4 DEF ClosingOld
  <2>7. OwnKept'
    <3> SUFFICES ASSUME NEW q \in Players, own'[q] PROVE Kept(q)'
      BY DEF OwnKept
    <3>1. CASE q = p
      <4>1. binding'[p] = job[p].host /\ conn[Home[p]][job[p].host] = "fresh"
        BY <1>0, <2>1, <2>3, <3>1 DEF Dialled
      <4> QED BY <2>1, <2>4, <3>1, <4>1 DEF Kept
    <3>2. CASE q # p
      BY <1>0, <2>3, <2>4, <3>2 DEF OwnKept, Kept
    <3> QED BY <3>1, <3>2
  <2> QED BY <2>5, <2>6, <2>7 DEF Conns
<1>8. ASSUME NEW p \in Players, Leave(p) PROVE Conns'
  <2>1. /\ ~ own'[p]
        /\ \A q \in Players \ {p} : own'[q] = own[q] /\ binding'[q] = binding[q]
    BY <1>0, <1>8 DEF Leave, TypeOK
  <2>2. UNCHANGED <<conn, round, job>>
    BY <1>8 DEF Leave
  <2>3. Dialled' /\ ClosingOld'
    BY <1>0, <2>2 DEF Dialled, ClosingOld
  <2>4. OwnKept'
    BY <1>0, <2>1, <2>2 DEF OwnKept, Kept
  <2> QED BY <2>3, <2>4 DEF Conns
<1>9. ASSUME NEW h \in Hosts, HostStep(h) \/ Unlist(h) \/ List(h) \/ Restart(h) PROVE Conns'
  BY <1>9, KeptSame DEF HostStep, Judge, Reap, ReapBinding, Unlist, List, Restart
<1>10. ASSUME NEW g \in GameServers, Expire(g) PROVE Conns'
  BY <1>10, KeptSame DEF Expire
<1>11. ASSUME NEW g \in GameServers, NEW h \in Hosts, Age(g, h) PROVE Conns'
  <2>1. \A d \in GameServers, k \in Hosts :
          conn'[d][k] = IF d = g /\ k = h THEN "old" ELSE conn[d][k]
    <3>1. conn \in [GameServers -> [Hosts -> {"none", "fresh", "old"}]]
      BY <1>0 DEF TypeOK
    <3>2. conn' = [conn EXCEPT ![g][h] = "old"]
      BY <1>11 DEF Age
    <3> QED BY <3>1, <3>2, NestedFunction
  <2>2. UNCHANGED <<round, own, binding, job>> /\ round[g] = NoRound
    BY <1>11 DEF Age
  <2>3. Dialled'
    <3> SUFFICES ASSUME NEW q \in Players, job[q] # NoJob, job[q].dialled
                 PROVE  job[q].at \in {"ensure", "attach"} /\ conn'[Home[q]][job[q].host] = "fresh"
      BY <2>2 DEF Dialled
    <3>1. job[q].at \in {"ensure", "attach"} /\ conn[Home[q]][job[q].host] = "fresh"
      BY <1>0 DEF Dialled
    <3>2. job[q].host \in Hosts /\ Home[q] \in GameServers
      BY <1>0, <3>1 DEF HostKnown
    <3>3. ~ (Home[q] = g /\ job[q].host = h)
      BY <1>11 DEF Age
    <3> QED BY <2>1, <3>1, <3>2, <3>3
  <2>4. ClosingOld'
    BY <1>0, <2>1, <2>2 DEF ClosingOld
  <2>5. OwnKept'
    <3> SUFFICES ASSUME NEW q \in Players, own[q] PROVE Kept(q)'
      BY <2>2 DEF OwnKept
    <3>1. Kept(q) /\ Home[q] \in GameServers
      BY <1>0 DEF OwnKept
    <3>2. CASE Home[q] = g /\ binding[q] = h
      <4>1. conn'[g][h] = "old" /\ round'[g].step = "idle" /\ round'[g].closing = {}
        BY <2>1, <2>2 DEF NoRound
      <4> QED BY <2>2, <3>2, <4>1 DEF Kept
    <3>3. CASE ~ (Home[q] = g /\ binding[q] = h)
      BY <2>1, <2>2, <3>1, <3>3 DEF Kept
    <3> QED BY <3>2, <3>3
  <2> QED BY <2>3, <2>4, <2>5 DEF Conns
<1>12. ASSUME NEW g \in GameServers, CollectInUse(g) PROVE Conns'
  <2>1. /\ round' = [round EXCEPT ![g] = [step |-> "listing", inUse |-> BoundHosts(g), closing |-> {}]]
        /\ UNCHANGED <<conn, own, binding, job>>
    BY <1>12 DEF CollectInUse
  <2>2. /\ round'[g].inUse = BoundHosts(g) /\ round'[g].closing = {}
        /\ \A d \in GameServers \ {g} : round'[d] = round[d]
    BY <1>0, <2>1 DEF TypeOK
  <2>3. Dialled'
    BY <1>0, <2>1 DEF Dialled
  <2>4. ClosingOld'
    BY <1>0, <2>1, <2>2 DEF ClosingOld
  <2>5. OwnKept'
    <3> SUFFICES ASSUME NEW q \in Players, own[q] PROVE Kept(q)'
      BY <2>1 DEF OwnKept
    <3>1. Kept(q) /\ Home[q] \in GameServers
      BY <1>0 DEF OwnKept
    <3>2. CASE Home[q] = g
      <4>1. binding[q] \in BoundHosts(g)
        BY <3>1, <3>2 DEF BoundHosts, Kept
      <4> QED BY <2>1, <2>2, <3>1, <3>2, <4>1 DEF Kept
    <3>3. CASE Home[q] # g
      BY <2>1, <2>2, <3>1, <3>3 DEF Kept
    <3> QED BY <3>2, <3>3
  <2> QED BY <2>3, <2>4, <2>5 DEF Conns
<1>13. ASSUME NEW g \in GameServers, ListIdle(g) PROVE Conns'
  <2>1. /\ round[g].step = "listing"
        /\ round' = [round EXCEPT ![g] = Closing(IdleCrossRealm(g))]
        /\ UNCHANGED <<conn, own, binding, job>>
    BY <1>13 DEF ListIdle
  <2>2. /\ round'[g].closing = IdleCrossRealm(g) /\ round'[g].step # "listing"
        /\ \A d \in GameServers \ {g} : round'[d] = round[d]
    BY <1>0, <2>1 DEF TypeOK, Closing, NoRound
  <2>3. Dialled'
    BY <1>0, <2>1 DEF Dialled
  <2>4. ClosingOld'
    BY <1>0, <2>1, <2>2 DEF ClosingOld, IdleCrossRealm
  <2>5. OwnKept'
    <3> SUFFICES ASSUME NEW q \in Players, own[q] PROVE Kept(q)'
      BY <2>1 DEF OwnKept
    <3>1. Kept(q) /\ Home[q] \in GameServers
      BY <1>0 DEF OwnKept
    <3>2. CASE Home[q] = g
      BY <2>1, <2>2, <3>1, <3>2 DEF Kept, IdleCrossRealm
    <3>3. CASE Home[q] # g
      BY <2>1, <2>2, <3>1, <3>3 DEF Kept
    <3> QED BY <3>2, <3>3
  <2> QED BY <2>3, <2>4, <2>5 DEF Conns
<1>14. ASSUME NEW g \in GameServers, NEW h \in Hosts, CloseIdle(g, h) PROVE Conns'
  <2>1. /\ h \in round[g].closing
        /\ round[g].step = "closing"
        /\ round' = [round EXCEPT ![g] = Closing(@.closing \ {h})]
        /\ conn' = [conn EXCEPT ![g][h] = "none"]
        /\ UNCHANGED <<own, binding, job>>
    BY <1>14 DEF CloseIdle
  <2>2. /\ round'[g].closing = round[g].closing \ {h} /\ round'[g].step # "listing"
        /\ \A d \in GameServers \ {g} : round'[d] = round[d]
    BY <1>0, <2>1 DEF TypeOK, Closing, NoRound
  <2>3. \A d \in GameServers, k \in Hosts :
          conn'[d][k] = IF d = g /\ k = h THEN "none" ELSE conn[d][k]
    <3>1. conn \in [GameServers -> [Hosts -> {"none", "fresh", "old"}]]
      BY <1>0 DEF TypeOK
    <3> QED BY <2>1, <3>1, NestedFunction
  <2>4. conn[g][h] = "old"
    BY <1>0, <2>1 DEF ClosingOld
  <2>5. Dialled'
    <3> SUFFICES ASSUME NEW q \in Players, job[q] # NoJob, job[q].dialled
                 PROVE  job[q].at \in {"ensure", "attach"} /\ conn'[Home[q]][job[q].host] = "fresh"
      BY <2>1 DEF Dialled
    <3>1. job[q].at \in {"ensure", "attach"} /\ conn[Home[q]][job[q].host] = "fresh"
      BY <1>0 DEF Dialled
    <3>2. job[q].host \in Hosts /\ Home[q] \in GameServers
      BY <1>0, <3>1 DEF HostKnown
    <3> QED BY <2>3, <2>4, <3>1, <3>2
  <2>6. ClosingOld'
    BY <1>0, <2>2, <2>3 DEF ClosingOld
  <2>7. OwnKept'
    <3> SUFFICES ASSUME NEW q \in Players, own[q] PROVE Kept(q)'
      BY <2>1 DEF OwnKept
    <3>1. Kept(q) /\ Home[q] \in GameServers
      BY <1>0 DEF OwnKept
    <3>2. CASE Home[q] = g
      <4>1. binding[q] # h
        BY <2>1, <2>4, <3>1, <3>2 DEF Kept
      <4>2. binding[q] \in Hosts /\ conn'[Home[q]][binding[q]] = conn[Home[q]][binding[q]]
        BY <2>3, <3>1, <4>1 DEF Kept
      <4>3. binding[q] \notin round'[g].closing \/ conn[Home[q]][binding[q]] = "fresh"
        BY <2>2, <3>1, <3>2 DEF Kept
      <4> QED BY <2>1, <2>2, <3>1, <3>2, <4>2, <4>3 DEF Kept
    <3>3. CASE Home[q] # g
      BY <2>1, <2>2, <2>3, <3>1, <3>3 DEF Kept
    <3> QED BY <3>2, <3>3
  <2> QED BY <2>5, <2>6, <2>7 DEF Conns
<1>15. CASE Cleanup
  BY <1>15, KeptSame DEF Cleanup
<1>16. CASE UNCHANGED vars
  BY <1>16, KeptSame DEF vars, linkVars
<1> QED
  BY <1>1, <1>2, <1>3, <1>4, <1>5, <1>6, <1>7, <1>8, <1>9, <1>10, <1>11, <1>12, <1>13,
     <1>14, <1>15, <1>16
  DEF Next, ResolveStep, ReaperStep

\* No pass of the reaper, however it falls between the dial, the binding and the leave,
\* closes a connection under the player it was dialled for.
THEOREM AlwaysConnected == Spec => []KeptConnected
<1>1. KeptInv => KeptConnected
  BY DEF KeptInv, Conns, OwnKept, Kept, KeptConnected
<1> QED BY KeptInit, KeptStep, <1>1, PTL DEF Spec
=============================================================================
