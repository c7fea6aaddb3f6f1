--------------------------- MODULE PlayerGoldProofs ---------------------------
(***************************************************************************)
(* For any number of players, lanes, mails and actors: the gold of a       *)
(* player survives logins and logouts (GoldKept), a crash costs at most    *)
(* the last two intervals of saveLoop (LossBounded), and a mail pays once  *)
(* (MailSettled).  The invariant has one part for each; all three meet in  *)
(* what is said of the copies saveLoop has under way (OwnCopies).          *)
(***************************************************************************)
EXTENDS PlayerGold, FiniteSetTheorems, TLAPS

USE LaneAssumption, PlayerGoldAssumption DEF LaneAssumption, PlayerGoldAssumption

-----------------------------------------------------------------------------
(* The inductive invariant *)

\* PlayerManager knows every player under an actor of his, and saveLoop only copies
\* actors of players, during a tick.
ActorsOwned ==
  /\ \A p \in Players : Online(p) => owner[current[p]] = p
  /\ \A a \in todo : owner[a] \in Players
  /\ reading.actor # 0 => owner[reading.actor] \in Players
  /\ ~ ticking => todo = {} /\ reading.actor = 0

\* What saveLoop still has to copy for p is his current gold.
OwnCopies(p) ==
  /\ \A a \in todo : owner[a] = p => a = current[p]
  /\ reading.actor # 0 /\ owner[reading.actor] = p =>
       reading.actor = current[p] /\ reading.gold = gold[current[p]]

Moving(l) == job[l].at \in Entering \union Departing

\* As long as p is undisturbed one lane at most logs him in or out, and each step of it
\* finds what the step before has left.
KeptInv(p) ==
  ledger[p] # Nobody =>
    /\ Online(p) => gold[current[p]] = ledger[p]
    /\ ~ Online(p) => row[p] = ledger[p] /\ cache[p] = Nobody
    /\ \A k, l \in Lanes :
         Owner[k] = p /\ Owner[l] = p /\ Moving(k) /\ Moving(l) => k = l
    /\ \A l \in Lanes : Owner[l] = p =>
         /\ job[l].at = "load" => ~ Online(p)
         /\ job[l].at \in {"add", "store"} => ~ Online(p) /\ job[l].seen = row[p]
         /\ job[l].at = "enlist" => Online(p)
         /\ job[l].at \in Departing =>
              /\ Online(p)
              /\ job[l].actor = current[p]
              /\ job[l].seen = gold[current[p]]
              /\ OwnCopies(p)
         /\ job[l].at \in {"hooks", "save"} /\ cache[p] # Nobody => cache[p].gold = job[l].seen
         /\ job[l].at = "remove" => cache[p] = Nobody /\ row[p] = job[l].seen

Leaving(p) == \E l \in Lanes : Owner[l] = p /\ job[l].at \in Departing

\* How far the last change of p's gold has come towards his row.
BoundedInv(p) ==
  /\ quiet[p] \in {1, 3} => ticking
  /\ quiet[p] = 2 => ~ ticking
  /\ Online(p) /\ ~ Leaving(p) /\ quiet[p] # 0 =>
       /\ OwnCopies(p)
       /\ cache[p] # Nobody =>
            /\ quiet[p] = 1 => /\ cache[p].age > 0
                               /\ \/ cache[p].gold = gold[current[p]]
                                  \/ current[p] \in todo
                                  \/ reading.actor = current[p]
            /\ quiet[p] > 1 => cache[p].gold = gold[current[p]]
            /\ quiet[p] = 2 => row[p] = gold[current[p]] \/ cache[p].age > 0
            /\ quiet[p] = 3 => row[p] = gold[current[p]] \/ cache[p].age = 2
            /\ quiet[p] = 4 => row[p] = gold[current[p]]

Claiming == {"read", "pay", "unclaim"}

\* One lane at most is claiming a mail, which is marked and has not paid.
MailInv ==
  /\ \A l \in Lanes : job[l].mail # Nobody <=> job[l].at \in Claiming
  /\ \A l \in Lanes : job[l].mail # Nobody =>
       mail[job[l].mail] = "claimed" /\ paid[job[l].mail] = 0
  /\ \A k, l \in Lanes : job[k].mail = job[l].mail /\ job[l].mail # Nobody => k = l
  /\ MailSettled

GoldInv ==
  /\ GoldTypeOK
  /\ ActorsOwned
  /\ \A p \in Players : KeptInv(p)
  /\ \A p \in Players : BoundedInv(p)
  /\ MailInv

\* The job of a lane that has none.
LEMMA FreeJob ==
  /\ Free \in Job
  /\ Free.at = "idle" /\ Free.actor = 0 /\ Free.seen = 0 /\ Free.mail = Nobody
  BY DEF Free, Job, Points

LEMMA GotoTyped ==
  ASSUME job \in [Lanes -> Job], NEW l \in Lanes, NEW at \in Points, Goto(l, at)
  PROVE  job' \in [Lanes -> Job]
  BY DEF Goto, Job

LEMMA ReturnTyped ==
  ASSUME job \in [Lanes -> Job], NEW l \in Lanes, Return(l)
  PROVE  job' \in [Lanes -> Job]
  BY FreeJob DEF Return

LEMMA SyncEntryTyped ==
  ASSUME cache \in [Players -> Entry \union {Nobody}], NEW p, NEW n \in Nat, SyncEntry(p, n)
  PROVE  cache' \in [Players -> Entry \union {Nobody}]
  BY DEF SyncEntry, Entry

\* A step that touches no mail and no claim keeps what is said of them.
LEMMA MailUntouched ==
  ASSUME MailInv, UNCHANGED <<mail, paid>>, failures' = 0 => failures = 0,
         \A k \in Lanes : /\ job'[k].mail = job[k].mail
                          /\ job'[k].at \in Claiming <=> job[k].at \in Claiming
  PROVE  MailInv'
<1>1. MailSettled'
  BY DEF MailInv, MailSettled
<1> QED BY <1>1 DEF MailInv

\* A step of a lane that is about nobody's gold, and takes no logout to its end, keeps both
\* parts that are about gold.
LEMMA KeptUntouched ==
  ASSUME NEW p \in Players, KeptInv(p),
         UNCHANGED <<row, current, owner, gold, cache, todo, reading, ledger>>,
         \A k \in Lanes : (Moving(k)' => Moving(k)) /\ (job'[k] = job[k] \/ ~ Moving(k)')
  PROVE  KeptInv(p)'
BY DEF KeptInv, OwnCopies, Online, Moving, Entering, Departing

LEMMA BoundedUntouched ==
  ASSUME NEW p \in Players, BoundedInv(p),
         UNCHANGED <<row, current, owner, gold, cache, todo, reading, ticking, quiet>>,
         Leaving(p) => Leaving(p)'
  PROVE  BoundedInv(p)'
BY DEF BoundedInv, OwnCopies, Online

LEMMA GoldInvInit == GoldInit => GoldInv
<1> SUFFICES ASSUME GoldInit PROVE GoldInv
  OBVIOUS
<1> USE FreeJob DEF GoldInit
<1>1. GoldTypeOK
  <2>1. 0 \in 0 .. MaxLogin /\ 0 \in 0 .. MaxEarn /\ 0 \in 0 .. MaxFail
    OBVIOUS
  <2>2. reading \in [actor: 0 .. MaxLogin, gold: Nat]
    BY <2>1
  <2>3. todo \subseteq Actors /\ cache \in [Players -> Entry \union {Nobody}]
    OBVIOUS
  <2>4. ticking \in BOOLEAN
    OBVIOUS
  <2>5. mail \in [Mails -> {"open", "claimed"}] /\ paid \in [Mails -> Nat]
    OBVIOUS
  <2>6. quiet \in [Players -> 0 .. 4] /\ current \in [Players -> 0 .. MaxLogin]
    BY <2>1
  <2> QED BY <2>1, <2>2, <2>3, <2>4, <2>5, <2>6 DEF GoldTypeOK
<1>2. ActorsOwned
  BY DEF ActorsOwned, Online
<1>3. ASSUME NEW p \in Players PROVE KeptInv(p) /\ BoundedInv(p)
  BY DEF KeptInv, BoundedInv, Online, Moving, Entering, Departing
<1>4. MailInv
  BY DEF MailInv, MailSettled, Claiming
<1> QED BY <1>1, <1>2, <1>3, <1>4 DEF GoldInv

-----------------------------------------------------------------------------
(* Every step preserves it *)

LEMMA LoginBeginInv ==
  ASSUME GoldInv, NEW l \in Lanes, LoginBegin(l)
  PROVE  GoldInv'
<1> USE FreeJob DEF GoldInv, GoldTypeOK, LoginBegin, Goto, Disturb, Job, Points
<1>1. GoldTypeOK'
  OBVIOUS
<1>2. ActorsOwned'
  BY DEF ActorsOwned, Online
<1>3. ASSUME NEW p \in Players PROVE KeptInv(p)'
  BY <1>3 DEF KeptInv, OwnCopies, Online, Moving, Entering, Departing, Rivals
<1>4. ASSUME NEW p \in Players PROVE BoundedInv(p)'
  <2>1. /\ BoundedInv(p)
        /\ UNCHANGED <<row, current, owner, gold, cache, todo, reading, ticking, quiet>>
    OBVIOUS
  <2>2. Leaving(p) => Leaving(p)'
    BY DEF Leaving, Departing
  <2> QED BY <2>1, <2>2, BoundedUntouched
<1>5. MailInv'
  BY DEF MailInv, MailSettled, Claiming
<1> QED BY <1>1, <1>2, <1>3, <1>4, <1>5

LEMMA LoginReadInv ==
  ASSUME GoldInv, NEW l \in Lanes, LoginRead(l)
  PROVE  GoldInv'
<1> USE FreeJob DEF GoldInv, GoldTypeOK, LoginRead, Job, Points
<1>1. GoldTypeOK'
  OBVIOUS
<1>2. ActorsOwned'
  BY DEF ActorsOwned, Online
<1>3. ASSUME NEW p \in Players PROVE KeptInv(p)'
  BY <1>3 DEF KeptInv, OwnCopies, Online, Moving, Entering, Departing, Rivals
<1>4. ASSUME NEW p \in Players PROVE BoundedInv(p)'
  <2>1. /\ BoundedInv(p)
        /\ UNCHANGED <<row, current, owner, gold, cache, todo, reading, ticking, quiet>>
    OBVIOUS
  <2>2. Leaving(p) => Leaving(p)'
    BY DEF Leaving, Departing
  <2> QED BY <2>1, <2>2, BoundedUntouched
<1>5. MailInv'
  BY DEF MailInv, MailSettled, Claiming
<1> QED BY <1>1, <1>2, <1>3, <1>4, <1>5

LEMMA LoginAddInv ==
  ASSUME GoldInv, NEW l \in Lanes, LoginAdd(l)
  PROVE  GoldInv'
<1> USE FreeJob DEF GoldInv, GoldTypeOK, Job, Points
<1>1. /\ job[l].at = "add"
      /\ Return(l) \/ (~ Online(Owner[l]) /\ Goto(l, "store"))
      /\ UNCHANGED <<row, current, owner, gold, cache, todo, reading, ticking, mail, paid,
                     earned, failures, quiet, ledger>>
  BY DEF LoginAdd
<1>2. GoldTypeOK'
  <2>1. job' \in [Lanes -> Job]
    BY <1>1, ReturnTyped, GotoTyped
  <2> QED BY <1>1, <2>1
<1>3. ActorsOwned'
  BY <1>1 DEF ActorsOwned, Online
<1>4. /\ \A k \in Lanes : k # l => job'[k] = job[k]
      /\ job'[l].mail \in {job[l].mail, Nobody}
      /\ \/ job'[l].at = "idle"
         \/ job'[l].at = "store" /\ job'[l].seen = job[l].seen /\ ~ Online(Owner[l])
  BY <1>1 DEF Return, Goto
<1>5. ASSUME NEW p \in Players PROVE KeptInv(p)'
  <2>1. \A k \in Lanes : Moving(k)' => Moving(k)
    BY <1>1, <1>4 DEF Moving, Entering, Departing
  <2>2. UNCHANGED <<Online(p), OwnCopies(p), ledger[p], cache[p], row[p]>>
    BY <1>1 DEF Online, OwnCopies
  <2>3. \A k \in Lanes \ {l} : job'[k] = job[k]
    BY <1>4
  <2>4. Owner[l] = p => job'[l].at = "idle" \/ (/\ job[l].at = "add" /\ job'[l].at = "store"
                                               /\ job'[l].seen = job[l].seen)
    BY <1>1, <1>4
  <2>5. job'[l].at \notin Departing
    BY <1>4 DEF Departing
  <2>6. SUFFICES ASSUME ledger[p] # Nobody, KeptInv(p)
                 PROVE  KeptInv(p)'
    BY <2>2 DEF KeptInv
  <2>7. \A k, m \in Lanes : Owner[k] = p /\ Owner[m] = p /\ Moving(k)' /\ Moving(m)' => k = m
    BY <2>1, <2>6 DEF KeptInv
  <2>8. Owner[l] = p /\ job[l].at = "add" => ~ Online(p) /\ job[l].seen = row[p]
    BY <2>6 DEF KeptInv
  <2> DEFINE Step(k) ==
        /\ job[k].at = "load" => ~ Online(p)
        /\ job[k].at \in {"add", "store"} => ~ Online(p) /\ job[k].seen = row[p]
        /\ job[k].at = "enlist" => Online(p)
        /\ job[k].at \in Departing =>
             /\ Online(p)
             /\ job[k].actor = current[p]
             /\ job[k].seen = gold[current[p]]
             /\ OwnCopies(p)
        /\ job[k].at \in {"hooks", "save"} /\ cache[p] # Nobody => cache[p].gold = job[k].seen
        /\ job[k].at = "remove" => cache[p] = Nobody /\ row[p] = job[k].seen
  <2>9. Owner[l] = p => Step(l)'
    BY <1>1, <2>2, <2>4, <2>5, <2>8
  <2>10. \A k \in Lanes \ {l} : Owner[k] = p => Step(k)'
    BY <1>1, <2>2, <2>3, <2>6 DEF KeptInv
  <2>11. \A k \in Lanes : Owner[k] = p => Step(k)'
    BY <2>9, <2>10
  <2> QED BY <1>1, <2>2, <2>6, <2>7, <2>11 DEF KeptInv
<1>6. ASSUME NEW p \in Players PROVE BoundedInv(p)'
  <2>1. Leaving(p) => Leaving(p)'
    BY <1>1, <1>4 DEF Leaving, Departing
  <2> QED BY <1>1, <2>1, BoundedUntouched
<1>7. MailInv'
  <2>1. job[l].mail = Nobody
    BY <1>1 DEF MailInv, Claiming
  <2> QED BY <1>1, <1>4, <2>1, MailUntouched DEF Claiming
<1> QED BY <1>2, <1>3, <1>5, <1>6, <1>7

LEMMA LoginStoreInv ==
  ASSUME GoldInv, NEW l \in Lanes, LoginStore(l)
  PROVE  GoldInv'
<1> USE FreeJob DEF GoldInv, GoldTypeOK, Job, Points
<1> DEFINE q == Owner[l]
<1>1. PICK a \in Actors :
        /\ owner[a] = Nobody
        /\ owner' = [owner EXCEPT ![a] = q]
        /\ gold' = [gold EXCEPT ![a] = job[l].seen]
        /\ current' = [current EXCEPT ![q] = a]
        /\ job' = [job EXCEPT ![l].at = "enlist", ![l].actor = a]
  BY DEF LoginStore, Loaded
<1>2. /\ job[l].at = "store"
      /\ quiet' = [quiet EXCEPT ![q] = 0]
      /\ UNCHANGED <<row, cache, todo, reading, ticking, mail, paid, earned, failures, ledger>>
  BY DEF LoginStore
<1>3. q \in Players /\ a \in 0 .. MaxLogin /\ a # 0
  BY DEF Actors
<1>4. job'[l] = [job[l] EXCEPT !.at = "enlist", !.actor = a] /\ job'[l] \in Job
  BY <1>1, <1>3
<1>5. \A k \in Lanes : k # l => job'[k] = job[k]
  BY <1>1
<1>6. /\ job'[l].at = "enlist" /\ job'[l].actor = a
      /\ job'[l].seen = job[l].seen /\ job'[l].mail = job[l].mail
  BY <1>4
<1>7. GoldTypeOK'
  BY <1>1, <1>2, <1>3, <1>4
<1>8. ActorsOwned'
  BY <1>1, <1>2, <1>3, SMTT(30) DEF ActorsOwned, Online, Actors
<1>o. \A p \in Players \ {q} :
        /\ current'[p] = current[p]
        /\ Online(p) => gold'[current[p]] = gold[current[p]]
        /\ OwnCopies(p) => OwnCopies(p)'
  <2>1. a \notin todo /\ reading.actor # a /\ \A p \in Players : current[p] # a
    BY <1>1, <1>3 DEF ActorsOwned, Online
  <2>2. /\ \A x \in todo : owner'[x] = owner[x]
        /\ reading.actor # 0 => owner'[reading.actor] = owner[reading.actor]
    BY <1>1, <2>1
  <2>3. \A p \in Players \ {q} :
          current'[p] = current[p] /\ (Online(p) => gold'[current[p]] = gold[current[p]])
    BY <1>1, <2>1 DEF Online
  <2>4. reading.actor # 0 => gold'[reading.actor] = gold[reading.actor]
    BY <1>1, <2>1
  <2> QED BY <1>2, <2>2, <2>3, <2>4 DEF OwnCopies
<1>9. ASSUME NEW p \in Players PROVE KeptInv(p)'
  <2>1. CASE p = q
    BY <1>1, <1>2, <1>3, <1>5, <1>6, <2>1
    DEF KeptInv, Online, Moving, Entering, Departing
  <2>2. CASE p # q
    <3>1. KeptInv(p) /\ Owner[l] # p
      BY <2>2
    <3>2. /\ current'[p] = current[p] /\ (Online(p) => gold'[current[p]] = gold[current[p]])
          /\ OwnCopies(p) => OwnCopies(p)'
      BY <1>o, <2>2
    <3> HIDE DEF GoldInv, GoldTypeOK
    <3> QED BY <1>2, <1>5, <3>1, <3>2 DEF KeptInv, Online, Moving
  <2> QED BY <2>1, <2>2
<1>10. ASSUME NEW p \in Players PROVE BoundedInv(p)'
  <2>1. CASE p = q
    BY <1>2, <2>1 DEF BoundedInv
  <2>2. CASE p # q
    <3>1. BoundedInv(p) /\ Owner[l] # p
      BY <2>2
    <3>2. /\ current'[p] = current[p] /\ (Online(p) => gold'[current[p]] = gold[current[p]])
          /\ OwnCopies(p) => OwnCopies(p)'
          /\ quiet'[p] = quiet[p]
      BY <1>2, <1>o, <2>2
    <3> HIDE DEF GoldInv, GoldTypeOK
    <3> QED BY <1>2, <1>5, <3>1, <3>2 DEF BoundedInv, Online, Leaving
  <2> QED BY <2>1, <2>2
<1>11. MailInv'
  BY <1>1, <1>2, <1>5, <1>6, MailUntouched DEF Claiming
<1> QED BY <1>7, <1>8, <1>9, <1>10, <1>11

LEMMA LoginEnlistInv ==
  ASSUME GoldInv, NEW l \in Lanes, LoginEnlist(l)
  PROVE  GoldInv'
<1> USE FreeJob DEF GoldInv, GoldTypeOK, LoginEnlist, Return, Entry, Job, Points
<1>1. GoldTypeOK'
  <2>1. job' \in [Lanes -> Job]
    BY ReturnTyped
  <2>2. cache' \in [Players -> Entry \union {Nobody}]
    OBVIOUS
  <2> QED BY <2>1, <2>2
<1>2. ActorsOwned'
  BY DEF ActorsOwned, Online
<1>3. ASSUME NEW p \in Players PROVE KeptInv(p)'
  BY <1>3 DEF KeptInv, OwnCopies, Online, Moving, Entering, Departing
<1>4. ASSUME NEW p \in Players PROVE BoundedInv(p)'
  BY <1>4 DEF BoundedInv, OwnCopies, Online, Leaving, Departing
<1>5. MailInv'
  BY DEF MailInv, MailSettled, Claiming
<1> QED BY <1>1, <1>2, <1>3, <1>4, <1>5

LEMMA LogoutReadInv ==
  ASSUME GoldInv, NEW l \in Lanes, LogoutRead(l)
  PROVE  GoldInv'
<1> USE FreeJob DEF GoldInv, GoldTypeOK, LogoutRead, Disturb, Job, Points
<1>1. GoldTypeOK'
  <2>1. current[Owner[l]] \in Actors /\ gold[current[Owner[l]]] \in Nat
    BY DEF Actors
  <2>2. job' \in [Lanes -> Job]
    <3> DEFINE read == [Free EXCEPT !.at = "sync", !.actor = current[Owner[l]],
                                  !.seen = gold[current[Owner[l]]]]
    <3>1. job' = [job EXCEPT ![l] = read]
      OBVIOUS
    <3>2. read \in Job
      BY <2>1 DEF Free
    <3> QED BY ONLY <3>1, <3>2, job \in [Lanes -> Job]
  <2>3. ledger' \in [Players -> Nat \union {Nobody}]
    OBVIOUS
  <2> QED BY <2>2, <2>3
<1>2. ActorsOwned'
  BY DEF ActorsOwned, Online
<1>3. ASSUME NEW p \in Players PROVE KeptInv(p)'
  BY <1>3 DEF KeptInv, OwnCopies, Online, Moving, Entering, Departing, Rivals, Copying
<1>4. ASSUME NEW p \in Players PROVE BoundedInv(p)'
  <2>1. /\ BoundedInv(p)
        /\ UNCHANGED <<row, current, owner, gold, cache, todo, reading, ticking, quiet>>
    OBVIOUS
  <2>2. Leaving(p) => Leaving(p)'
    BY DEF Leaving, Departing
  <2> QED BY <2>1, <2>2, BoundedUntouched
<1>5. MailInv'
  BY SMTT(30) DEF MailInv, MailSettled, Claiming
<1> QED BY <1>1, <1>2, <1>3, <1>4, <1>5

LEMMA LogoutSyncInv ==
  ASSUME GoldInv, NEW l \in Lanes, LogoutSync(l)
  PROVE  GoldInv'
<1> USE FreeJob DEF GoldInv, GoldTypeOK, LogoutSync, SyncEntry, Goto, Entry, Job, Points
<1>1. GoldTypeOK'
  <2>1. job' \in [Lanes -> Job]
    BY GotoTyped
  <2>2. job[l].seen \in Nat
    OBVIOUS
  <2>3. cache' \in [Players -> Entry \union {Nobody}]
    BY SyncEntryTyped, <2>2
  <2> QED BY <2>1, <2>2, <2>3
<1>2. ActorsOwned'
  BY DEF ActorsOwned, Online
<1>3. ASSUME NEW p \in Players PROVE KeptInv(p)'
  BY <1>3 DEF KeptInv, OwnCopies, Online, Moving, Entering, Departing
<1>4. ASSUME NEW p \in Players PROVE BoundedInv(p)'
  BY <1>4 DEF BoundedInv, OwnCopies, Online, Leaving, Departing
<1>5. MailInv'
  BY DEF MailInv, MailSettled, Claiming
<1> QED BY <1>1, <1>2, <1>3, <1>4, <1>5

LEMMA LogoutHooksInv ==
  ASSUME GoldInv, NEW l \in Lanes, LogoutHooks(l)
  PROVE  GoldInv'
<1> USE FreeJob DEF GoldInv, GoldTypeOK, LogoutHooks, Goto, Job, Points
<1>1. GoldTypeOK'
  <2>1. job' \in [Lanes -> Job]
    BY GotoTyped
  <2> QED BY <2>1
<1>2. ActorsOwned'
  BY DEF ActorsOwned, Online
<1>3. ASSUME NEW p \in Players PROVE KeptInv(p)'
  BY <1>3 DEF KeptInv, OwnCopies, Online, Moving, Entering, Departing
<1>4. ASSUME NEW p \in Players PROVE BoundedInv(p)'
  <2>1. /\ BoundedInv(p)
        /\ UNCHANGED <<row, current, owner, gold, cache, todo, reading, ticking, quiet>>
    OBVIOUS
  <2>2. Leaving(p) => Leaving(p)'
    BY DEF Leaving, Departing
  <2> QED BY <2>1, <2>2, BoundedUntouched
<1>5. MailInv'
  BY DEF MailInv, MailSettled, Claiming
<1> QED BY <1>1, <1>2, <1>3, <1>4, <1>5

LEMMA LogoutSaveInv ==
  ASSUME GoldInv, NEW l \in Lanes, LogoutSave(l)
  PROVE  GoldInv'
<1> USE FreeJob DEF GoldInv, GoldTypeOK, LogoutSave, Goto, Disturb, Entry, Job, Points
<1>1. GoldTypeOK'
  <2>1. job' \in [Lanes -> Job]
    BY GotoTyped
  <2>2. failures' \in 0 .. MaxFail
    OBVIOUS
  <2>3. row' \in [Players -> Nat]
    OBVIOUS
  <2> QED BY <2>1, <2>2, <2>3
<1>2. ActorsOwned'
  BY DEF ActorsOwned, Online
<1>3. ASSUME NEW p \in Players PROVE KeptInv(p)'
  BY <1>3 DEF KeptInv, OwnCopies, Online, Moving, Entering, Departing
<1>4. ASSUME NEW p \in Players PROVE BoundedInv(p)'
  BY <1>4 DEF BoundedInv, OwnCopies, Online, Leaving, Departing
<1>5. MailInv'
  BY DEF MailInv, MailSettled, Claiming
<1> QED BY <1>1, <1>2, <1>3, <1>4, <1>5

LEMMA LogoutRemoveInv ==
  ASSUME GoldInv, NEW l \in Lanes, LogoutRemove(l)
  PROVE  GoldInv'
<1> USE FreeJob DEF GoldInv, GoldTypeOK, LogoutRemove, Return, Job, Points
<1>1. GoldTypeOK'
  <2>1. job' \in [Lanes -> Job]
    BY ReturnTyped
  <2>2. current' \in [Players -> 0 .. MaxLogin]
    OBVIOUS
  <2> QED BY <2>1, <2>2
<1>2. ActorsOwned'
  BY DEF ActorsOwned, Online
<1>3. ASSUME NEW p \in Players PROVE KeptInv(p)'
  BY <1>3 DEF KeptInv, OwnCopies, Online, Moving, Entering, Departing
<1>4. ASSUME NEW p \in Players PROVE BoundedInv(p)'
  BY <1>4 DEF BoundedInv, OwnCopies, Online, Leaving, Departing
<1>5. MailInv'
  BY DEF MailInv, MailSettled, Claiming
<1> QED BY <1>1, <1>2, <1>3, <1>4, <1>5

LEMMA ClaimMarkInv ==
  ASSUME GoldInv, NEW l \in Lanes, NEW m \in Mails, ClaimMark(l, m)
  PROVE  GoldInv'
<1> USE FreeJob DEF GoldInv, GoldTypeOK, ClaimMark, Unclaimed, Job, Points
<1>1. GoldTypeOK'
  <2>1. job' \in [Lanes -> Job]
    OBVIOUS
  <2>2. mail' \in [Mails -> {"open", "claimed"}]
    OBVIOUS
  <2> QED BY <2>1, <2>2
<1>2. ActorsOwned'
  BY DEF ActorsOwned, Online
<1>3. ASSUME NEW p \in Players PROVE KeptInv(p)'
  <2>1. KeptInv(p) /\ UNCHANGED <<row, current, owner, gold, cache, todo, reading, ledger>>
    OBVIOUS
  <2>2. \A k \in Lanes : (Moving(k)' => Moving(k)) /\ (job'[k] = job[k] \/ ~ Moving(k)')
    BY DEF Moving, Entering, Departing
  <2> QED BY <2>1, <2>2, KeptUntouched
<1>4. ASSUME NEW p \in Players PROVE BoundedInv(p)'
  <2>1. /\ BoundedInv(p)
        /\ UNCHANGED <<row, current, owner, gold, cache, todo, reading, ticking, quiet>>
    OBVIOUS
  <2>2. Leaving(p) => Leaving(p)'
    BY DEF Leaving, Departing
  <2> QED BY <2>1, <2>2, BoundedUntouched
<1>5. MailInv'
  <2>1. /\ job'[l].mail = m /\ job'[l].at = "read" /\ m # Nobody
        /\ \A k \in Lanes \ {l} : job'[k] = job[k]
    OBVIOUS
  <2>2. /\ mail' = [mail EXCEPT ![m] = "claimed"] /\ mail[m] = "open"
        /\ UNCHANGED <<paid, failures>>
    OBVIOUS
  <2>3. /\ paid[m] = 0 /\ job[l].mail = Nobody
        /\ \A k \in Lanes : job[k].mail # m
    <3>1. \A k \in Lanes : job[k].mail # m
      BY <2>2 DEF MailInv
    <3>2. paid[m] = 0
      <4>1. paid[m] \in Nat /\ MailSettled
        BY DEF MailInv
      <4> HIDE DEF GoldInv, GoldTypeOK, ClaimMark
      <4> QED BY <2>2, <4>1 DEF MailSettled
    <3> QED BY <3>1, <3>2 DEF MailInv, Claiming
  <2>4. /\ \A k \in Lanes : job'[k].mail # Nobody <=> job'[k].at \in Claiming
        /\ \A k, n \in Lanes : job'[k].mail = job'[n].mail /\ job'[n].mail # Nobody => k = n
    BY <2>1, <2>3 DEF MailInv, Claiming
  <2>5. \A k \in Lanes : job'[k].mail # Nobody =>
          mail'[job'[k].mail] = "claimed" /\ paid[job'[k].mail] = 0
    BY <2>1, <2>2, <2>3 DEF MailInv
  <2>6. MailSettled'
    BY <2>1, <2>2, <2>3 DEF MailInv, MailSettled
  <2> QED BY <2>2, <2>4, <2>5, <2>6 DEF MailInv
<1> QED BY <1>1, <1>2, <1>3, <1>4, <1>5

LEMMA ClaimReadInv ==
  ASSUME GoldInv, NEW l \in Lanes, ClaimRead(l)
  PROVE  GoldInv'
<1> USE FreeJob DEF GoldInv, GoldTypeOK, ClaimRead, Goto, Return, Job, Points
<1>1. GoldTypeOK'
  <2>1. job' \in [Lanes -> Job]
    BY GotoTyped, ReturnTyped
  <2>2. failures' \in 0 .. MaxFail
    OBVIOUS
  <2> QED BY <2>1, <2>2
<1>2. ActorsOwned'
  BY DEF ActorsOwned, Online
<1>3. ASSUME NEW p \in Players PROVE KeptInv(p)'
  <2>1. KeptInv(p) /\ UNCHANGED <<row, current, owner, gold, cache, todo, reading, ledger>>
    OBVIOUS
  <2>2. \A k \in Lanes : (Moving(k)' => Moving(k)) /\ (job'[k] = job[k] \/ ~ Moving(k)')
    BY DEF Moving, Entering, Departing
  <2> QED BY <2>1, <2>2, KeptUntouched
<1>4. ASSUME NEW p \in Players PROVE BoundedInv(p)'
  <2>1. /\ BoundedInv(p)
        /\ UNCHANGED <<row, current, owner, gold, cache, todo, reading, ticking, quiet>>
    OBVIOUS
  <2>2. Leaving(p) => Leaving(p)'
    BY DEF Leaving, Departing
  <2> QED BY <2>1, <2>2, BoundedUntouched
<1>5. MailInv'
  <2>1. CASE Goto(l, "pay") /\ UNCHANGED failures
    BY <2>1, MailUntouched DEF Claiming
  <2>2. CASE failures' = failures + 1 /\ Return(l)
    <3>1. /\ job'[l].mail = Nobody /\ job'[l].at = "idle"
          /\ \A k \in Lanes \ {l} : job'[k] = job[k]
      BY <2>2
    <3>2. UNCHANGED <<mail, paid>> /\ failures' # 0
      BY <2>2
    <3>3. MailSettled'
      BY <3>2 DEF MailInv, MailSettled
    <3>4. MailInv
      OBVIOUS
    <3> HIDE DEF GoldInv, GoldTypeOK, ClaimRead
    <3> QED BY <3>1, <3>2, <3>3, <3>4 DEF MailInv, Claiming
  <2> QED BY <2>1, <2>2
<1> QED BY <1>1, <1>2, <1>3, <1>4, <1>5

LEMMA UnclaimInv ==
  ASSUME GoldInv, NEW l \in Lanes, Unclaim(l)
  PROVE  GoldInv'
<1> USE FreeJob DEF GoldInv, GoldTypeOK, Unclaim, Return, Job, Points
<1>1. GoldTypeOK'
  <2>1. job' \in [Lanes -> Job]
    BY ReturnTyped
  <2>2. failures' \in 0 .. MaxFail
    OBVIOUS
  <2>3. mail' \in [Mails -> {"open", "claimed"}]
    OBVIOUS
  <2> QED BY <2>1, <2>2, <2>3
<1>2. ActorsOwned'
  BY DEF ActorsOwned, Online
<1>3. ASSUME NEW p \in Players PROVE KeptInv(p)'
  <2>1. KeptInv(p) /\ UNCHANGED <<row, current, owner, gold, cache, todo, reading, ledger>>
    OBVIOUS
  <2>2. \A k \in Lanes : (Moving(k)' => Moving(k)) /\ (job'[k] = job[k] \/ ~ Moving(k)')
    BY DEF Moving, Entering, Departing
  <2> QED BY <2>1, <2>2, KeptUntouched
<1>4. ASSUME NEW p \in Players PROVE BoundedInv(p)'
  <2>1. /\ BoundedInv(p)
        /\ UNCHANGED <<row, current, owner, gold, cache, todo, reading, ticking, quiet>>
    OBVIOUS
  <2>2. Leaving(p) => Leaving(p)'
    BY DEF Leaving, Departing
  <2> QED BY <2>1, <2>2, BoundedUntouched
<1>5. MailInv'
  BY DEF MailInv, MailSettled, Claiming
<1> QED BY <1>1, <1>2, <1>3, <1>4, <1>5

LEMMA TickInv ==
  ASSUME GoldInv, Tick
  PROVE  GoldInv'
<1> USE FreeJob DEF GoldInv, GoldTypeOK, Tick, Entry, AllPlayers, Job, Points
<1>1. GoldTypeOK'
  <2>1. AllPlayers \subseteq Actors
    BY DEF Online, Actors
  <2>2. cache' \in [Players -> Entry \union {Nobody}]
    <3> SUFFICES ASSUME NEW p \in Players PROVE cache'[p] \in Entry \union {Nobody}
      OBVIOUS
    <3>1. cache[p] # Nobody => cache[p] \in Entry /\ cache[p].age \in 0 .. 2
      OBVIOUS
    <3>2. cache[p] # Nobody => cache'[p] = [cache[p] EXCEPT !.age = IF @ < 2 THEN @ + 1 ELSE 2]
      OBVIOUS
    <3>3. ASSUME NEW e \in Entry PROVE [e EXCEPT !.age = IF @ < 2 THEN @ + 1 ELSE 2] \in Entry
      <4>1. (IF e.age < 2 THEN e.age + 1 ELSE 2) \in 0 .. 2
        OBVIOUS
      <4> QED BY <4>1
    <3>4. cache[p] # Nobody => cache'[p] \in Entry
      BY <3>1, <3>2, <3>3
    <3> QED BY <3>4
  <2>3. quiet' \in [Players -> 0 .. 4]
    OBVIOUS
  <2>4. ticking' \in BOOLEAN
    OBVIOUS
  <2> QED BY <2>1, <2>2, <2>3, <2>4
<1>2. ActorsOwned'
  BY DEF ActorsOwned, Online
<1>3. ASSUME NEW p \in Players PROVE KeptInv(p)'
  BY <1>3 DEF KeptInv, OwnCopies, Online, Moving, Entering, Departing, ActorsOwned
<1>4. ASSUME NEW p \in Players PROVE BoundedInv(p)'
  <2>1. cache[p] # Nobody => /\ cache[p] \in Entry
                            /\ cache'[p] = [cache[p] EXCEPT !.age = IF @ < 2 THEN @ + 1 ELSE 2]
    OBVIOUS
  <2>2. /\ cache'[p] # Nobody => cache[p] # Nobody
        /\ cache[p] # Nobody => /\ cache'[p].gold = cache[p].gold
                                /\ cache'[p].age > 0
                                /\ cache[p].age > 0 => cache'[p].age = 2
    BY <2>1
  <2>3. /\ quiet[p] \in {0, 2, 4}
        /\ quiet'[p] = IF quiet[p] = 4 THEN 4 ELSE quiet[p] + 1
    BY <1>4 DEF BoundedInv
  <2>4. /\ UNCHANGED <<current, gold, row, job, owner, reading>> /\ ticking' = TRUE
        /\ reading.actor = 0
        /\ \A a \in todo' : owner[a] = p => a = current[p]
        /\ Online(p) => current[p] \in todo'
    BY DEF ActorsOwned, Online
  <2> QED BY <2>2, <2>3, <2>4 DEF BoundedInv, OwnCopies, Online, Leaving
<1>5. MailInv'
  BY DEF MailInv, MailSettled, Claiming
<1> QED BY <1>1, <1>2, <1>3, <1>4, <1>5

LEMMA TickReadInv ==
  ASSUME GoldInv, NEW a \in Actors, TickRead(a)
  PROVE  GoldInv'
<1> USE FreeJob DEF GoldInv, GoldTypeOK, TickRead, Job, Points
<1>1. GoldTypeOK'
  <2>1. reading' \in [actor: 0 .. MaxLogin, gold: Nat]
    BY DEF Actors
  <2> QED BY <2>1
<1>2. ActorsOwned'
  BY DEF ActorsOwned, Online
<1>3. ASSUME NEW p \in Players PROVE KeptInv(p)'
  BY <1>3 DEF KeptInv, OwnCopies, Online, Moving, Entering, Departing
<1>4. ASSUME NEW p \in Players PROVE BoundedInv(p)'
  BY <1>4 DEF BoundedInv, OwnCopies, Online, Leaving, Departing
<1>5. MailInv'
  BY DEF MailInv, MailSettled, Claiming
<1> QED BY <1>1, <1>2, <1>3, <1>4, <1>5

LEMMA TickSyncInv ==
  ASSUME GoldInv, TickSync
  PROVE  GoldInv'
<1> USE FreeJob DEF GoldInv, GoldTypeOK, TickSync, SyncEntry, Entry, Job, Points
<1>1. GoldTypeOK'
  <2>1. reading' \in [actor: 0 .. MaxLogin, gold: Nat]
    OBVIOUS
  <2>2. cache' \in [Players -> Entry \union {Nobody}]
    BY SyncEntryTyped
  <2> QED BY <2>1, <2>2
<1>2. ActorsOwned'
  BY DEF ActorsOwned, Online
<1>3. ASSUME NEW p \in Players PROVE KeptInv(p)'
  BY <1>3 DEF KeptInv, OwnCopies, Online, Moving, Entering, Departing
<1>4. ASSUME NEW p \in Players PROVE BoundedInv(p)'
  <2>1. cache[p] # Nobody => cache[p] \in Entry
    OBVIOUS
  <2>2. cache'[p] # Nobody => /\ cache[p] # Nobody /\ cache'[p].age = cache[p].age
                             /\ cache'[p].gold = IF owner[reading.actor] = p THEN reading.gold
                                                ELSE cache[p].gold
    BY <2>1, NoEntry
  <2>3. UNCHANGED <<current, gold, row, job, owner, ticking, todo, quiet>> /\ reading'.actor = 0
    OBVIOUS
  <2>4. BoundedInv(p) /\ reading.actor # 0
    OBVIOUS
  <2>5. ActorsOwned
    OBVIOUS
  <2> HIDE DEF GoldInv, GoldTypeOK, TickSync
  <2>6. OwnCopies(p) => OwnCopies(p)'
    BY <2>3 DEF OwnCopies
  <2>7. (Leaving(p)' <=> Leaving(p)) /\ (Online(p)' <=> Online(p))
    BY <2>3 DEF Leaving, Online
  <2>8. CASE owner[reading.actor] = p
    <3>1. OwnCopies(p) => reading.gold = gold[current[p]]
      BY <2>4, <2>8 DEF OwnCopies
    <3> QED BY <2>2, <2>3, <2>4, <2>6, <2>7, <2>8, <3>1 DEF BoundedInv
  <2>9. CASE owner[reading.actor] # p
    <3>1. ASSUME Online(p), ~ Leaving(p), quiet[p] = 1, reading.actor = current[p]
          PROVE  FALSE
      BY <2>9, <2>5, <3>1 DEF ActorsOwned
    <3> QED BY <2>2, <2>3, <2>4, <2>6, <2>7, <2>9, <3>1 DEF BoundedInv
  <2> QED BY <2>8, <2>9
<1>5. MailInv'
  BY DEF MailInv, MailSettled, Claiming
<1> QED BY <1>1, <1>2, <1>3, <1>4, <1>5

LEMMA TickSaveInv ==
  ASSUME GoldInv, TickSave
  PROVE  GoldInv'
<1> USE DEF GoldInv, GoldTypeOK
<1>1. PICK saved \in SUBSET Players, broken \in SUBSET Players :
        /\ \A p \in saved : p \notin broken /\ cache[p] # Nobody
        /\ \A p \in Players : cache[p] # Nobody /\ cache[p].age = 2 => p \in saved \union broken
        /\ failures' = failures + Cardinality(broken)
        /\ failures' <= MaxFail
        /\ row' = [p \in Players |-> IF p \in saved THEN cache[p].gold ELSE row[p]]
        /\ cache' = [p \in Players |->
             IF p \in saved THEN [cache[p] EXCEPT !.age = 0] ELSE cache[p]]
        /\ quiet' = [p \in Players |->
             CASE p \in broken -> 0
               [] p \notin broken /\ quiet[p] \in {1, 3} -> quiet[p] + 1
               [] OTHER -> quiet[p]]
  <2>1. PICK chosen \in SUBSET {p \in Players : Young(p)}, broken \in SUBSET Players :
          LET tried == chosen \union {p \in Players : Due(p)}
              saved == tried \ broken
          IN /\ broken \subseteq tried
             /\ failures' = failures + Cardinality(broken)
             /\ failures' <= MaxFail
             /\ row' = [p \in Players |-> IF p \in saved THEN cache[p].gold ELSE row[p]]
             /\ cache' = [p \in Players |->
                  IF p \in saved THEN [cache[p] EXCEPT !.age = 0] ELSE cache[p]]
             /\ quiet' = [p \in Players |->
                  CASE p \in broken -> 0
                    [] p \notin broken /\ quiet[p] \in {1, 3} -> quiet[p] + 1
                    [] OTHER -> quiet[p]]
    BY DEF TickSave
  <2> DEFINE saved == (chosen \union {p \in Players : Due(p)}) \ broken
  <2>2. saved \in SUBSET Players
    OBVIOUS
  <2>3. \A p \in saved : p \notin broken /\ cache[p] # Nobody
    BY DEF Due, Young
  <2>4. \A p \in Players : cache[p] # Nobody /\ cache[p].age = 2 => p \in saved \union broken
    BY DEF Due
  <2> QED BY <2>1, <2>2, <2>3, <2>4, ZenonT(30)
<1>2. /\ ticking /\ todo = {} /\ reading.actor = 0
      /\ ticking' = FALSE
      /\ UNCHANGED <<current, owner, gold, job, todo, reading, mail, paid, earned, ledger>>
  BY DEF TickSave
<1>3. Cardinality(broken) \in Nat
  BY FS_Subset, FS_CardinalityType
<1>e. \A p \in Players : cache[p] # Nobody => cache[p] \in Entry
  OBVIOUS
<1>4. /\ \A p \in Players : cache[p] # Nobody =>
             cache[p].gold \in Nat /\ cache[p].age \in 0 .. 2 /\ cache'[p] # Nobody
             /\ cache'[p].gold = cache[p].gold
             /\ cache'[p].age = IF p \in saved THEN 0 ELSE cache[p].age
      /\ \A p \in Players : cache[p] = Nobody => cache'[p] = Nobody
  <2>1. ASSUME NEW p \in Players, cache[p] # Nobody
        PROVE  /\ cache[p].gold \in Nat /\ cache[p].age \in 0 .. 2 /\ cache'[p] \in Entry
               /\ cache'[p].gold = cache[p].gold
               /\ cache'[p].age = IF p \in saved THEN 0 ELSE cache[p].age
    <3>1. cache'[p] = IF p \in saved THEN [cache[p] EXCEPT !.age = 0] ELSE cache[p]
      BY <1>1
    <3> QED BY <1>e, <2>1, <3>1 DEF Entry
  <2> QED BY <1>1, <2>1, NoEntry
<1>5. GoldTypeOK'
  <2>1. row' \in [Players -> Nat]
    BY <1>1, <1>4
  <2>2. cache' \in [Players -> Entry \union {Nobody}]
    BY <1>1 DEF Entry
  <2>3. quiet' \in [Players -> 0 .. 4]
    BY <1>1
  <2>4. failures' \in 0 .. MaxFail
    BY <1>1, <1>3
  <2> QED BY <1>2, <2>1, <2>2, <2>3, <2>4
<1>6. ActorsOwned'
  BY <1>2 DEF ActorsOwned, Online
<1>7. ASSUME NEW p \in Players PROVE KeptInv(p)'
  BY <1>1, <1>2, <1>4 DEF KeptInv, OwnCopies, Online, Moving, Entering, Departing
<1>8. ASSUME NEW p \in Players PROVE BoundedInv(p)'
  BY <1>1, <1>2, <1>4 DEF BoundedInv, OwnCopies, Online, Leaving, Departing
<1>9. MailInv'
  BY <1>1, <1>2, <1>3 DEF MailInv, MailSettled, Claiming
<1> QED BY <1>5, <1>6, <1>7, <1>8, <1>9

\* A payment, or a charge, whoever makes it: as long as the player is undisturbed it
\* reaches the actor that counts, and no copy of his gold is held elsewhere.
LEMMA PayKeeps ==
  ASSUME GoldInv, NEW a \in Actors, owner[a] \in Players,
         NEW amount \in Int, gold[a] + amount \in Nat, Pay(a, amount),
         UNCHANGED <<row, current, owner, cache, todo, reading, ticking>>,
         \A k \in Lanes : job'[k] = job[k] \/ (~ Moving(k) /\ ~ Moving(k)')
  PROVE  /\ gold' \in [Actors -> Nat]
         /\ ledger' \in [Players -> Nat \union {Nobody}]
         /\ quiet' \in [Players -> 0 .. 4]
         /\ ActorsOwned'
         /\ \A p \in Players : KeptInv(p)' /\ BoundedInv(p)'
<1> DEFINE q == owner[a]
<1>1. /\ gold \in [Actors -> Nat] /\ quiet \in [Players -> 0 .. 4]
      /\ ledger \in [Players -> Nat \union {Nobody}]
      /\ current \in [Players -> 0 .. MaxLogin]
      /\ ActorsOwned /\ \A p \in Players : KeptInv(p) /\ BoundedInv(p)
  BY DEF GoldInv, GoldTypeOK
<1> HIDE DEF GoldInv
<1>2. /\ gold' = [gold EXCEPT ![a] = @ + amount]
      /\ quiet' = [quiet EXCEPT ![q] = 0]
      /\ ledger' = [ledger EXCEPT ![q] = IF @ = Nobody \/ Gone(a) THEN Nobody ELSE @ + amount]
  BY DEF Pay
<1>3. /\ gold'[a] = gold[a] + amount /\ \A b \in Actors \ {a} : gold'[b] = gold[b]
      /\ \A p \in Players \ {q} : quiet'[p] = quiet[p] /\ ledger'[p] = ledger[p]
      /\ quiet'[q] = 0
      /\ ledger'[q] = IF ledger[q] = Nobody \/ Gone(a) THEN Nobody ELSE ledger[q] + amount
  BY <1>1, <1>2
<1>4. \A k \in Lanes : /\ job'[k] = job[k] \/ ~ Moving(k)'
                       /\ Moving(k)' <=> Moving(k)
  BY DEF Moving
<1>5. ~ Gone(a) => /\ current[q] = a
                   /\ \A k \in Lanes : job[k].at \in Departing => job[k].actor # a
  BY DEF Gone
<1>6. ledger[q] # Nobody /\ ~ Gone(a) =>
        /\ Online(q) /\ ledger[q] = gold[a]
        /\ \A k \in Lanes : Owner[k] = q => job[k].at \notin Departing
  <2> SUFFICES ASSUME ledger[q] # Nobody, ~ Gone(a)
               PROVE  /\ Online(q) /\ ledger[q] = gold[a]
                      /\ \A k \in Lanes : Owner[k] = q => job[k].at \notin Departing
    OBVIOUS
  <2>1. KeptInv(q)
    BY <1>1
  <2>2. Online(q) /\ current[q] = a
    BY <1>5 DEF Online, Actors
  <2>3. \A k \in Lanes : job[k].at \in Departing => Moving(k)
    BY DEF Moving
  <2> QED BY <1>5, <2>1, <2>2, <2>3 DEF KeptInv
<1>7. \A p \in Players \ {q} :
        /\ Online(p) => gold'[current[p]] = gold[current[p]]
        /\ OwnCopies(p) => OwnCopies(p)'
  <2>1. \A p \in Players \ {q} : Online(p) => gold'[current[p]] = gold[current[p]]
    BY <1>1, <1>3 DEF ActorsOwned, Online, Actors
  <2>2. \A p \in Players \ {q} :
          reading.actor # 0 /\ owner[reading.actor] = p /\ reading.actor = current[p] => Online(p)
    BY DEF Online
  <2> QED BY <2>1, <2>2 DEF OwnCopies
<1>8. gold' \in [Actors -> Nat]
  BY <1>1, <1>2
<1>9. ledger' \in [Players -> Nat \union {Nobody}]
  <2>1. ledger'[q] \in Nat \union {Nobody}
    BY <1>1, <1>3, <1>6
  <2>2. ledger' = [ledger EXCEPT ![q] = ledger'[q]]
    BY <1>1, <1>2
  <2> QED BY <1>1, <2>1, <2>2
<1>10. quiet' \in [Players -> 0 .. 4]
  BY <1>1, <1>2
<1>11. ActorsOwned'
  BY <1>1 DEF ActorsOwned, Online
<1>12. ASSUME NEW p \in Players PROVE KeptInv(p)'
  <2>1. CASE p = q
    <3> SUFFICES ASSUME ledger'[q] # Nobody PROVE KeptInv(q)'
      BY <2>1 DEF KeptInv
    <3>1. ledger[q] # Nobody /\ ~ Gone(a) /\ ledger'[q] = gold'[current[q]]
      BY <1>3, <1>5, <1>6
    <3>2. Online(q) /\ \A k \in Lanes : Owner[k] = q => job[k].at \notin Departing
      BY <1>6, <3>1
    <3>3. KeptInv(q)
      BY <1>1
    <3> QED BY <1>4, <3>1, <3>2, <3>3 DEF KeptInv, Online, Moving, Entering, Departing
  <2>2. CASE p # q
    <3>1. KeptInv(p) /\ ledger'[p] = ledger[p]
      BY <1>1, <1>3, <2>2
    <3>2. (Online(p) => gold'[current[p]] = gold[current[p]]) /\ (OwnCopies(p) => OwnCopies(p)')
      BY <1>7, <2>2
    <3> QED BY <1>4, <3>1, <3>2 DEF KeptInv, Online, Moving, Entering, Departing
  <2> QED BY <2>1, <2>2
<1>13. ASSUME NEW p \in Players PROVE BoundedInv(p)'
  <2>1. CASE p = q
    BY <1>3, <2>1 DEF BoundedInv
  <2>2. CASE p # q
    <3>1. BoundedInv(p) /\ quiet'[p] = quiet[p]
      BY <1>1, <1>3, <2>2
    <3>2. (Online(p) => gold'[current[p]] = gold[current[p]]) /\ (OwnCopies(p) => OwnCopies(p)')
      BY <1>7, <2>2
    <3>3. Leaving(p)' <=> Leaving(p)
      BY <1>4 DEF Leaving, Moving, Departing
    <3> QED BY <3>1, <3>2, <3>3 DEF BoundedInv, Online
  <2> QED BY <2>1, <2>2
<1> QED BY <1>8, <1>9, <1>10, <1>11, <1>12, <1>13

\* A payment that is no claim of a mail.
LEMMA PayInv ==
  ASSUME GoldInv, NEW a \in Actors, owner[a] \in Players,
         NEW amount \in Int, gold[a] + amount \in Nat, Pay(a, amount),
         UNCHANGED <<row, current, owner, cache, job, todo, reading, ticking, mail, paid, failures>>,
         earned' \in 0 .. MaxEarn
  PROVE  GoldInv'
<1>1. GoldTypeOK /\ MailInv
  BY DEF GoldInv
<1>2. /\ gold' \in [Actors -> Nat]
      /\ ledger' \in [Players -> Nat \union {Nobody}]
      /\ quiet' \in [Players -> 0 .. 4]
      /\ ActorsOwned'
      /\ \A p \in Players : KeptInv(p)' /\ BoundedInv(p)'
  BY PayKeeps
<1>3. GoldTypeOK'
  BY <1>1, <1>2 DEF GoldTypeOK
<1>4. MailInv'
  BY <1>1, MailUntouched
<1> QED BY <1>2, <1>3, <1>4 DEF GoldInv

LEMMA ClaimPayInv ==
  ASSUME GoldInv, NEW l \in Lanes, ClaimPay(l)
  PROVE  GoldInv'
<1> DEFINE a == current[Owner[l]]
           m == job[l].mail
<1>1. /\ GoldTypeOK /\ ActorsOwned /\ MailInv
      /\ \A p \in Players : KeptInv(p) /\ BoundedInv(p)
  BY DEF GoldInv
<1>2. /\ job[l].at = "pay"
      /\ UNCHANGED <<row, current, owner, cache, todo, reading, ticking, mail, earned, failures>>
  BY DEF ClaimPay
<1>3. m \in Mails /\ paid[m] = 0 /\ mail[m] = "claimed"
  <2>1. m # Nobody /\ m \in Mails \union {Nobody}
    BY <1>1, <1>2 DEF MailInv, Claiming, GoldTypeOK, Job
  <2> QED BY <1>1, <2>1 DEF MailInv
<1>4. CASE a # 0
  <2>1. /\ Pay(a, 1) /\ Return(l)
        /\ paid' = [paid EXCEPT ![m] = @ + 1]
    BY <1>4 DEF ClaimPay
  <2>2. /\ a \in Actors /\ owner[a] \in Players /\ gold[a] + 1 \in Nat
    BY <1>1, <1>4 DEF ActorsOwned, Online, GoldTypeOK, Actors
  <2>3. job' \in [Lanes -> Job]
    BY <1>1, <2>1, ReturnTyped DEF GoldTypeOK
  <2>4. /\ job'[l].mail = Nobody /\ job'[l].at = "idle"
        /\ \A k \in Lanes \ {l} : job'[k] = job[k]
    BY <1>1, <2>1, FreeJob DEF Return, GoldTypeOK
  <2>5. \A k \in Lanes : job'[k] = job[k] \/ (~ Moving(k) /\ ~ Moving(k)')
    BY <1>2, <2>4 DEF Moving, Entering, Departing
  <2>6. /\ gold' \in [Actors -> Nat]
        /\ ledger' \in [Players -> Nat \union {Nobody}]
        /\ quiet' \in [Players -> 0 .. 4]
        /\ ActorsOwned'
        /\ \A p \in Players : KeptInv(p)' /\ BoundedInv(p)'
    BY <1>2, <2>1, <2>2, <2>5, PayKeeps
  <2>7. /\ paid' \in [Mails -> Nat] /\ paid'[m] = 1
        /\ \A n \in Mails \ {m} : paid'[n] = paid[n]
    BY <1>1, <1>3, <2>1 DEF GoldTypeOK
  <2>8. GoldTypeOK'
    BY <1>1, <1>2, <2>3, <2>6, <2>7 DEF GoldTypeOK
  <2>9. MailInv'
    <3>1. \A k \in Lanes \ {l} : job[k].mail # m
      BY <1>1, <1>3 DEF MailInv
    <3>2. MailSettled'
      BY <1>1, <1>2, <1>3, <2>4, <2>7 DEF MailInv, MailSettled
    <3>3. \A k \in Lanes : job'[k].mail # Nobody =>
            mail'[job'[k].mail] = "claimed" /\ paid'[job'[k].mail] = 0
      <4> SUFFICES ASSUME NEW k \in Lanes, job'[k].mail # Nobody
                   PROVE  mail[job'[k].mail] = "claimed" /\ paid'[job'[k].mail] = 0
        BY <1>2
      <4>1. k # l /\ job'[k] = job[k] /\ job[k].mail # m
        BY <2>4, <3>1
      <4>2. job[k].mail \in Mails
        BY <1>1, <4>1 DEF GoldTypeOK, Job
      <4> QED BY <1>1, <2>7, <4>1, <4>2 DEF MailInv
    <3> QED BY <1>1, <2>4, <3>2, <3>3 DEF MailInv, Claiming
  <2> QED BY <2>6, <2>8, <2>9 DEF GoldInv
<1>5. CASE a = 0
  <2>1. Goto(l, "unclaim") /\ UNCHANGED <<gold, ledger, quiet, paid>>
    BY <1>5 DEF ClaimPay
  <2>2. job' \in [Lanes -> Job]
    BY <1>1, <2>1, GotoTyped DEF GoldTypeOK, Points
  <2>3. /\ job'[l].at = "unclaim" /\ job'[l].mail = m
        /\ \A k \in Lanes \ {l} : job'[k] = job[k]
    BY <1>1, <2>1 DEF Goto, GoldTypeOK, Job
  <2>4. \A k \in Lanes : job'[k] = job[k] \/ (~ Moving(k) /\ ~ Moving(k)')
    BY <1>2, <2>3 DEF Moving, Entering, Departing
  <2>5. GoldTypeOK'
    BY <1>1, <1>2, <2>1, <2>2 DEF GoldTypeOK
  <2>6. ActorsOwned'
    BY <1>1, <1>2 DEF ActorsOwned, Online
  <2>7. ASSUME NEW p \in Players PROVE KeptInv(p)'
    BY <1>1, <1>2, <2>1, <2>4, <2>7
    DEF KeptInv, OwnCopies, Online, Moving, Entering, Departing
  <2>8. ASSUME NEW p \in Players PROVE BoundedInv(p)'
    BY <1>1, <1>2, <2>1, <2>4, <2>8
    DEF BoundedInv, OwnCopies, Online, Leaving, Moving, Departing
  <2>9. MailInv'
    BY <1>1, <1>2, <2>1, <2>3, MailUntouched DEF Claiming
  <2> QED BY <2>5, <2>6, <2>7, <2>8, <2>9 DEF GoldInv
<1> QED BY <1>4, <1>5

LEMMA EarnInv ==
  ASSUME GoldInv, NEW p \in Players, Earn(p)
  PROVE  GoldInv'
<1> DEFINE a == current[p]
<1>1. GoldTypeOK /\ ActorsOwned
  BY DEF GoldInv
<1>2. /\ Online(p) /\ Pay(a, 1) /\ earned < MaxEarn /\ earned' = earned + 1
      /\ UNCHANGED <<row, current, owner, cache, job, todo, reading, ticking, mail, paid, failures>>
  BY DEF Earn
<1>3. a \in Actors /\ owner[a] \in Players /\ gold[a] + 1 \in Nat
  BY <1>1, <1>2 DEF ActorsOwned, Online, GoldTypeOK, Actors
<1>4. earned' \in 0 .. MaxEarn
  BY <1>1, <1>2 DEF GoldTypeOK
<1> QED BY <1>2, <1>3, <1>4, PayInv

-----------------------------------------------------------------------------
(* Theorems *)

LEMMA LaneStepInv ==
  ASSUME GoldInv, NEW l \in Lanes, LaneStep(l)
  PROVE  GoldInv'
BY LoginBeginInv, LoginReadInv, LoginAddInv, LoginStoreInv, LoginEnlistInv,
   LogoutReadInv, LogoutSyncInv, LogoutHooksInv, LogoutSaveInv, LogoutRemoveInv, ClaimMarkInv,
   ClaimReadInv, ClaimPayInv, UnclaimInv
DEF LaneStep

LEMMA GoldInvStutter ==
  ASSUME GoldInv, UNCHANGED goldVars
  PROVE  GoldInv'
BY DEF GoldInv, goldVars, GoldTypeOK, ActorsOwned, KeptInv, BoundedInv, OwnCopies, Online, Moving,
       Leaving, MailInv, MailSettled

LEMMA GoldInvNext == GoldInv /\ [GoldNext]_goldVars => GoldInv'
<1> SUFFICES ASSUME GoldInv, [GoldNext]_goldVars PROVE GoldInv'
  OBVIOUS
<1>1. CASE \E l \in Lanes : LaneStep(l)
  BY <1>1, LaneStepInv
<1>2. CASE \E p \in Players : Earn(p)
  BY <1>2, EarnInv
<1>3. CASE LoopStep
  BY <1>3, TickInv, TickReadInv, TickSyncInv, TickSaveInv DEF LoopStep
<1>4. CASE UNCHANGED goldVars
  BY <1>4, GoldInvStutter
<1> QED BY <1>1, <1>2, <1>3, <1>4 DEF GoldNext

LEMMA GoldInvariant == GoldSpec => []GoldInv
  BY GoldInvInit, GoldInvNext, PTL DEF GoldSpec

\* What the invariant says at any moment of a player, as the run checks it.
LEMMA GoldInvKept == GoldInv => GoldKept
<1> SUFFICES ASSUME GoldInv PROVE GoldKept
  OBVIOUS
<1>1. \A p \in Players : KeptInv(p)
  BY DEF GoldInv
<1> QED BY <1>1 DEF KeptInv, GoldKept

LEMMA GoldInvBounded == GoldInv => LossBounded
<1> SUFFICES ASSUME GoldInv PROVE LossBounded
  OBVIOUS
<1>1. \A p \in Players : BoundedInv(p)
  BY DEF GoldInv
<1> QED BY <1>1 DEF BoundedInv, LossBounded, Leaving

\* Rows, actors, entries and jobs stay what they are meant to be; in particular no
\* reward or claim takes gold below zero.  (LoginService, PlayerService, MailHandler)
THEOREM GoldTyped == GoldSpec => []GoldTypeOK
  BY GoldInvariant, PTL DEF GoldInv

\* What a player owns survives his logout and is found by his next login, unless he
\* was disturbed.  (EnterGame, LeaveGame, PlayerLogout, saveLoop)
THEOREM GoldSurvives == GoldSpec => []GoldKept
  BY GoldInvariant, GoldInvKept, PTL

\* Two whole ticks of saveLoop after the gold of an online player has last changed his
\* row is up to date.  (saveLoop, syncAllOnline)
THEOREM LossIsBounded == GoldSpec => []LossBounded
  BY GoldInvariant, GoldInvBounded, PTL

\* The gold of a mail is added at most once, and a mail marked claimed with no claim
\* under way has paid, unless a statement failed.  (ClaimMail, UnclaimMail, MAIL_CLAIM)
THEOREM MailPaysOnce == GoldSpec => []MailSettled
  BY GoldInvariant, PTL DEF GoldInv, MailInv
=============================================================================
