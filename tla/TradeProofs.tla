----------------------------- MODULE TradeProofs -----------------------------
(***************************************************************************)
(* A swap uses terms that both parties have confirmed (SwapAsAgreed), and  *)
(* a session is swapped at most once (SwappedOnce), for any number of      *)
(* players, lanes, offers and trades: for the trades alone (TradeSpec) and *)
(* for trades that move gold while their players log in and out (Spec of   *)
(* TradeGold), of which the former is an abstraction.  Trades neither make *)
(* nor destroy gold (GoldConserved).                                       *)
(*                                                                         *)
(* The key is Session.completing: it is set by the one confirmation that   *)
(* goes on to swap, never taken back, and freezes offers and               *)
(* confirmations.  For the gold it is the sum of what the players own and  *)
(* what is on the way, which every step changes in one or two of its terms *)
(* (TotalChange).                                                          *)
(***************************************************************************)
EXTENDS TradeGold, PlayerGoldProofs, WellFoundedInduction

-----------------------------------------------------------------------------
(* Sums *)

\* A set of naturals has a least one.
LEMMA LeastNatural ==
  ASSUME NEW T \in SUBSET Nat, T # {}
  PROVE  \E n \in T : \A m \in T : n <= m
<1> DEFINE R == OpToRel(<, Nat)
<1>1. \A m, n \in Nat : m < n => <<m, n>> \in R
  BY DEF OpToRel
<1>2. IsWellFoundedOn(R, Nat)
  BY NatLessThanWellFounded, Zenon
<1> HIDE DEF R
<1>3. PICK n \in T : \A m \in T : ~ (<<m, n>> \in R)
  BY <1>2, WFMin
<1>4. ASSUME NEW m \in T PROVE n <= m
  <2>1. ~ (m < n)
    BY <1>1, <1>3
  <2> QED BY <2>1
<1> QED BY <1>4

\* One step of a sum over a set of indices.
Part(f, g, s) ==
  IF s = {} THEN 0 ELSE LET x == CHOOSE x \in s : TRUE IN f[x] + g[s \ {x}]

\* What the sums over all sets of indices are.
SumsOf(f, g) == g = [s \in SUBSET DOMAIN f |-> Part(f, g, s)]

LEMMA TotalIsSum ==
  ASSUME NEW f
  PROVE  Total(f) = (CHOOSE g : SumsOf(f, g))[DOMAIN f]
BY DEF Total, Sums!SumFunction, Sums!SumFunctionOnSet, Sums!FoldFunctionOnSet, Sums!MapThenFoldSet, SumsOf, Part

\* They exist, by induction on the size of the sets.
LEMMA SumsExist ==
  ASSUME NEW f, IsFiniteSet(DOMAIN f)
  PROVE  \E g : SumsOf(f, g)
<1> DEFINE D == DOMAIN f
           Upto(n, g) == \A s \in SUBSET D : Cardinality(s) <= n => g[s] = Part(f, g, s)
           Good(n) == \E g : g = [s \in SUBSET D |-> g[s]] /\ Upto(n, g)
           Bad == {n \in Nat : ~ Good(n)}
<1>1. \A s \in SUBSET D : IsFiniteSet(s) /\ Cardinality(s) \in Nat /\ Cardinality(s) <= Cardinality(D)
  BY FS_Subset, FS_CardinalityType
<1>2. \A s \in SUBSET D : s # {} =>
        LET x == CHOOSE x \in s : TRUE
        IN  x \in s /\ s \ {x} \in SUBSET D /\ Cardinality(s \ {x}) = Cardinality(s) - 1
  BY <1>1, FS_RemoveElement
<1>3. \A s \in SUBSET D : Cardinality(s) <= 0 => s = {}
  BY <1>1, FS_EmptySet
<1>4. Good(0)
  <2> DEFINE z == [s \in SUBSET D |-> 0]
  <2>1. Upto(0, z)
    BY <1>3 DEF Part
  <2>2. z = [s \in SUBSET D |-> z[s]]
    OBVIOUS
  <2> QED BY <2>1, <2>2
<1>5. ASSUME NEW n \in Nat, Good(n) PROVE Good(n + 1)
  <2>1. PICK g : Upto(n, g)
    BY <1>5
  <2> DEFINE h == [s \in SUBSET D |-> IF Cardinality(s) <= n THEN g[s] ELSE Part(f, g, s)]
  <2>2. ASSUME NEW s \in SUBSET D, Cardinality(s) <= n + 1 PROVE h[s] = Part(f, h, s)
    <3>1. h[s] = Part(f, g, s)
      BY <2>1
    <3>2. CASE s = {}
      BY <3>1, <3>2 DEF Part
    <3>3. CASE s # {}
      <4> DEFINE x == CHOOSE x \in s : TRUE
      <4>1. s \ {x} \in SUBSET D /\ Cardinality(s \ {x}) <= n
        BY <1>1, <1>2, <2>2, <3>3
      <4>2. h[s \ {x}] = g[s \ {x}]
        BY <4>1
      <4> QED BY <3>1, <3>3, <4>2 DEF Part
    <3> QED BY <3>2, <3>3
  <2>3. h = [s \in SUBSET D |-> h[s]]
    OBVIOUS
  <2> HIDE DEF h
  <2> QED BY <2>2, <2>3
<1> HIDE DEF Good
<1>6. Bad = {}
  <2> SUFFICES ASSUME Bad # {} PROVE FALSE
    OBVIOUS
  <2>1. Bad \in SUBSET Nat
    OBVIOUS
  <2>2. PICK n \in Bad : \A m \in Bad : n <= m
    BY <2>1, LeastNatural
  <2>3. n # 0 /\ n \in Nat
    BY <1>4
  <2>4. n - 1 \in Nat /\ n - 1 \notin Bad
    BY <2>2, <2>3
  <2>5. Good(n - 1 + 1)
    BY <1>5, <2>4
  <2> QED BY <2>2, <2>3, <2>5
<1>7. Good(Cardinality(D))
  BY <1>1, <1>6
<1>8. PICK g : g = [s \in SUBSET D |-> g[s]] /\ Upto(Cardinality(D), g)
  BY <1>7 DEF Good
<1>9. g = [s \in SUBSET D |-> Part(f, g, s)]
  BY <1>1, <1>8
<1> QED BY <1>9 DEF SumsOf

LEMMA SumsUnfold ==
  ASSUME NEW S, IsFiniteSet(S), NEW f \in [S -> Int]
  PROVE  \E g : Total(f) = g[S] /\ \A s \in SUBSET S : g[s] = Part(f, g, s)
<1> DEFINE g == CHOOSE g : SumsOf(f, g)
<1>1. DOMAIN f = S
  OBVIOUS
<1>2. SumsOf(f, g)
  BY <1>1, SumsExist
<1>3. Total(f) = g[S]
  BY <1>1, TotalIsSum
<1> HIDE DEF g
<1>4. \A s \in SUBSET S : g[s] = Part(f, g, s)
  BY <1>1, <1>2 DEF SumsOf
<1> QED BY <1>3, <1>4

\* What holds of all sets of indices when it passes from a smaller one.
LEMMA SubsetInduction ==
  ASSUME NEW S, IsFiniteSet(S), NEW T \in SUBSET SUBSET S,
         {} \in T,
         \A s \in SUBSET S : s # {} /\ s \ {CHOOSE x \in s : TRUE} \in T => s \in T
  PROVE  S \in T
<1> DEFINE Bad == {n \in Nat : \E s \in SUBSET S : s \notin T /\ Cardinality(s) = n}
<1>1. \A s \in SUBSET S : IsFiniteSet(s) /\ Cardinality(s) \in Nat
  BY FS_Subset, FS_CardinalityType
<1> SUFFICES ASSUME S \notin T PROVE FALSE
  OBVIOUS
<1>2. Bad \in SUBSET Nat /\ Cardinality(S) \in Bad
  BY <1>1
<1>3. PICK n \in Bad : \A m \in Bad : n <= m
  BY <1>2, LeastNatural
<1>4. PICK s \in SUBSET S : s \notin T /\ Cardinality(s) = n
  BY <1>3
<1>5. s # {}
  BY <1>4
<1> DEFINE x == CHOOSE x \in s : TRUE
<1>6. x \in s /\ s \ {x} \in SUBSET S
  BY <1>5
<1>7. Cardinality(s \ {x}) = n - 1 /\ n \in Nat
  BY <1>1, <1>4, <1>6, FS_RemoveElement
<1>8. s \ {x} \notin T
  BY <1>4, <1>5
<1>9. n - 1 \in Bad
  BY <1>1, <1>6, <1>7, <1>8
<1> QED BY <1>3, <1>7, <1>9

\* A sum of integers is one.
LEMMA TotalType ==
  ASSUME NEW S, IsFiniteSet(S), NEW f \in [S -> Int]
  PROVE  Total(f) \in Int
<1>1. PICK g : Total(f) = g[S] /\ \A s \in SUBSET S : g[s] = Part(f, g, s)
  BY SumsUnfold
<1> DEFINE T == {s \in SUBSET S : g[s] \in Int}
<1>2. {} \in T
  <2>1. {} \in SUBSET S
    OBVIOUS
  <2>2. g[{}] = 0
    BY <1>1 DEF Part
  <2> QED BY <2>1, <2>2
<1>3. ASSUME NEW s \in SUBSET S, s # {}, s \ {CHOOSE x \in s : TRUE} \in T PROVE s \in T
  <2> DEFINE x == CHOOSE x \in s : TRUE
  <2>1. x \in S /\ g[s] = f[x] + g[s \ {x}]
    BY <1>1, <1>3 DEF Part
  <2> QED BY <1>3, <2>1
<1>4. S \in T
  <2>1. T \in SUBSET SUBSET S
    OBVIOUS
  <2> HIDE DEF T
  <2> QED BY <1>2, <1>3, <2>1, SubsetInduction
<1> QED BY <1>1, <1>4

LEMMA TotalOfZeros ==
  ASSUME NEW S, IsFiniteSet(S), NEW f \in [S -> Int], \A x \in S : f[x] = 0
  PROVE  Total(f) = 0
<1>1. PICK g : Total(f) = g[S] /\ \A s \in SUBSET S : g[s] = Part(f, g, s)
  BY SumsUnfold
<1> DEFINE T == {s \in SUBSET S : g[s] = 0}
<1>2. {} \in T
  <2>1. {} \in SUBSET S
    OBVIOUS
  <2>2. g[{}] = 0
    BY <1>1 DEF Part
  <2> QED BY <2>1, <2>2
<1>3. ASSUME NEW s \in SUBSET S, s # {}, s \ {CHOOSE x \in s : TRUE} \in T PROVE s \in T
  <2> DEFINE x == CHOOSE x \in s : TRUE
  <2>1. x \in S /\ g[s] = f[x] + g[s \ {x}]
    BY <1>1, <1>3 DEF Part
  <2> QED BY <1>3, <2>1
<1>4. S \in T
  <2>1. T \in SUBSET SUBSET S
    OBVIOUS
  <2> HIDE DEF T
  <2> QED BY <1>2, <1>3, <2>1, SubsetInduction
<1> QED BY <1>1, <1>4

\* A sum changes by what one of its terms does.
LEMMA TotalChange ==
  ASSUME NEW S, IsFiniteSet(S), NEW f \in [S -> Int], NEW h \in [S -> Int],
         NEW a \in S, \A x \in S : x # a => h[x] = f[x]
  PROVE  Total(h) = Total(f) + (h[a] - f[a])
<1>1. PICK g : Total(f) = g[S] /\ \A s \in SUBSET S : g[s] = Part(f, g, s)
  BY SumsUnfold
<1>2. PICK k : Total(h) = k[S] /\ \A s \in SUBSET S : k[s] = Part(h, k, s)
  BY SumsUnfold
<1> DEFINE T == {s \in SUBSET S : /\ g[s] \in Int /\ k[s] \in Int
                                 /\ k[s] = g[s] + (IF a \in s THEN h[a] - f[a] ELSE 0)}
<1>3. {} \in T
  <2>1. {} \in SUBSET S /\ a \notin {}
    OBVIOUS
  <2>2. g[{}] = 0 /\ k[{}] = 0
    BY <1>1, <1>2 DEF Part
  <2> QED BY <2>1, <2>2
<1>4. ASSUME NEW s \in SUBSET S, s # {}, s \ {CHOOSE x \in s : TRUE} \in T PROVE s \in T
  <2> DEFINE x == CHOOSE x \in s : TRUE
             r == s \ {x}
  <2>1. x \in s /\ x \in S
    BY <1>4
  <2>2. /\ g[s] = f[x] + g[r] /\ k[s] = h[x] + k[r]
        /\ g[r] \in Int /\ k[r] \in Int
        /\ k[r] = g[r] + (IF a \in r THEN h[a] - f[a] ELSE 0)
    BY <1>1, <1>2, <1>4 DEF Part
  <2>3. f[x] \in Int /\ h[x] \in Int /\ f[a] \in Int /\ h[a] \in Int
    BY <2>1
  <2>4. a \in r <=> a \in s /\ a # x
    OBVIOUS
  <2> HIDE DEF x, r
  <2>5. g[s] \in Int /\ k[s] \in Int
    BY <2>2, <2>3
  <2>6. k[s] = g[s] + (IF a \in s THEN h[a] - f[a] ELSE 0)
    <3>1. CASE x = a
      BY <2>1, <2>2, <2>3, <2>4, <3>1
    <3>2. CASE x # a
      BY <2>1, <2>2, <2>3, <2>4, <3>2
    <3> QED BY <3>1, <3>2
  <2> QED BY <2>5, <2>6
<1>5. S \in T
  <2>1. T \in SUBSET SUBSET S
    OBVIOUS
  <2> HIDE DEF T
  <2> QED BY <1>3, <1>4, <2>1, SubsetInduction
<1> QED BY <1>1, <1>2, <1>5

USE LaneAssumption, TradeAssumption, NoSession DEF LaneAssumption, TradeAssumption

-----------------------------------------------------------------------------
(* The inductive invariant *)

Started(s) == trades[s] # Nobody

\* The table names sessions that were started, for their parties.
TableOfParties ==
  \A p \in Players : table[p] # 0 => Started(table[p]) /\ p \in Parties(table[p])

\* Who is confirmed has confirmed the offers as they are.
ConfirmedAsOffered ==
  \A s \in Trades : Started(s) =>
    \A p \in trades[s].confirmed : agreed[s][p] = trades[s].offers

\* A handler works for a session both have confirmed, with its offers.
HandlersComplete ==
  \A l \in Lanes : ~ Idling(l) =>
    LET s == handler[l].trade IN
      /\ s \in Trades /\ Started(s)
      /\ trades[s].completing
      /\ trades[s].confirmed = Parties(s)
      /\ handler[l].offers = trades[s].offers

OneHandlerEach ==
  \A k, l \in Lanes :
    ~ Idling(k) /\ ~ Idling(l) /\ handler[k].trade = handler[l].trade => k = l

\* No swap has begun before its handler finishes the session.
SwapsCounted ==
  \A s \in Trades :
    /\ swaps[s] \in {0, 1}
    /\ ~ Started(s) \/ ~ trades[s].completing => swaps[s] = 0
    /\ \A l \in Lanes :
         handler[l].step \in {"lookup", "finish"} /\ handler[l].trade = s => swaps[s] = 0

TradeInv ==
  /\ TradeTypeOK /\ TableOfParties /\ ConfirmedAsOffered /\ HandlersComplete
  /\ OneHandlerEach /\ SwapsCounted

LEMMA TradeInvInit == TradeInit => TradeInv
<1> SUFFICES ASSUME TradeInit PROVE TradeInv
  OBVIOUS
<1>1. NoSnapshot \in Snapshot
  BY DEF NoSnapshot, Snapshot, Steps, Terms
<1>2. TradeTypeOK
  BY <1>1 DEF TradeInit, TradeTypeOK
<1>3. \A l \in Lanes : Idling(l)
  BY DEF TradeInit, Idling, NoSnapshot
<1> QED
  BY <1>2, <1>3
  DEF TradeInit, TradeInv, TableOfParties, ConfirmedAsOffered, HandlersComplete,
      OneHandlerEach, SwapsCounted, Started, Idling, NoSnapshot

\* A session that was started, as a record.
LEMMA StartedSession ==
  ASSUME TradeInv, NEW s \in Trades, Started(s)
  PROVE  /\ trades[s] \in Session
         /\ trades[s] = [a |-> trades[s].a, b |-> trades[s].b, offers |-> trades[s].offers,
                         confirmed |-> trades[s].confirmed,
                         completing |-> trades[s].completing]
         /\ trades[s].offers \in Terms /\ trades[s].confirmed \subseteq Players
         /\ trades[s].completing \in BOOLEAN
  BY DEF TradeInv, TradeTypeOK, Started, Session

-----------------------------------------------------------------------------
(* The operations of the manager *)

LEMMA StartInv ==
  ASSUME TradeInv, NEW l \in Lanes, NEW other \in Players, Start(l, other)
  PROVE  TradeInv'
<1> DEFINE p == Owner[l]
<1>1. PICK s \in Trades :
        /\ trades[s] = Nobody
        /\ trades' = [trades EXCEPT ![s] =
             [a |-> p, b |-> other, offers |-> <<0, 0>>, confirmed |-> {},
              completing |-> FALSE]]
        /\ table' = [table EXCEPT ![p] = s, ![other] = s]
  BY DEF Start
<1>2. p \in Players /\ UNCHANGED <<handler, agreed, swaps>> /\ s \in 1 .. MaxTrade
  BY DEF Start, Trades
<1> DEFINE new == [a |-> p, b |-> other, offers |-> <<0, 0>>, confirmed |-> {},
                   completing |-> FALSE]
<1>3. new \in Session /\ new # Nobody
  <2>1. <<0, 0>> \in Terms
    BY DEF Terms
  <2>2. new \in Session
    BY <1>2, <2>1 DEF Session
  <2> QED BY <2>2
<1>4. trades' \in [Trades -> Session \union {Nobody}]
  BY <1>1, <1>3 DEF TradeInv, TradeTypeOK
<1>5. /\ trades'[s] = new
      /\ \A r \in Trades : r # s => trades'[r] = trades[r]
  BY <1>1 DEF TradeInv, TradeTypeOK
<1>6. /\ new.a = p /\ new.b = other /\ new.confirmed = {} /\ new.completing = FALSE
  OBVIOUS
<1> HIDE DEF new, p
<1>7. TradeTypeOK'
  BY <1>1, <1>2, <1>4 DEF TradeInv, TradeTypeOK
<1>8. TableOfParties'
  <2> SUFFICES ASSUME NEW x \in Players, table'[x] # 0
               PROVE  trades'[table'[x]] # Nobody
                      /\ x \in {trades'[table'[x]].a, trades'[table'[x]].b}
    BY DEF TableOfParties, Started, Parties
  <2>1. CASE x = p \/ x = other
    BY <1>1, <1>2, <1>3, <1>5, <1>6, <2>1 DEF TradeInv, TradeTypeOK
  <2>2. CASE x # p /\ x # other
    <3>1. table'[x] = table[x]
      BY <1>1, <1>2, <2>2 DEF TradeInv, TradeTypeOK
    <3>2. /\ table[x] \in Trades /\ trades[table[x]] # Nobody
          /\ x \in {trades[table[x]].a, trades[table[x]].b}
      BY <3>1 DEF TradeInv, TradeTypeOK, TableOfParties, Started, Parties, Trades
    <3>3. table[x] # s
      BY <1>1, <3>2
    <3> QED BY <1>5, <3>1, <3>2, <3>3
  <2> QED BY <2>1, <2>2
<1>9. ConfirmedAsOffered'
  BY <1>2, <1>5, <1>6 DEF TradeInv, ConfirmedAsOffered, Started
<1>10. \A k \in Lanes : ~ Idling(k) => handler[k].trade # s
  BY <1>1 DEF TradeInv, HandlersComplete, Started
<1>11. HandlersComplete' /\ OneHandlerEach'
  BY <1>2, <1>5, <1>10
  DEF TradeInv, HandlersComplete, OneHandlerEach, Started, Parties, Idling
<1>12. SwapsCounted'
  BY <1>1, <1>2, <1>5, <1>6 DEF TradeInv, SwapsCounted, Started
<1> QED BY <1>7, <1>8, <1>9, <1>11, <1>12 DEF TradeInv

LEMMA SetGoldInv ==
  ASSUME TradeInv, NEW l \in Lanes, NEW amount \in Offers, SetGold(l, amount)
  PROVE  TradeInv'
<1> DEFINE p == Owner[l]
           s == table[p]
<1>1. /\ s # 0 /\ ~ trades[s].completing
      /\ trades' = [trades EXCEPT ![s].offers = Offering(s, p, amount),
                                  ![s].confirmed = {}]
      /\ UNCHANGED <<table, handler, agreed, swaps>>
  BY DEF SetGold, StillConfirmed
<1>2. p \in Players /\ s \in Trades /\ Started(s)
  BY <1>1 DEF TradeInv, TradeTypeOK, TableOfParties, Trades
<1> HIDE DEF s, p
<1>3. /\ trades[s] \in Session /\ trades[s].offers \in Terms
  BY <1>2, StartedSession
<1>4. Offering(s, p, amount) \in Terms
  BY <1>3 DEF Offering, Terms
<1>5. /\ trades' \in [Trades -> Session \union {Nobody}]
      /\ trades'[s] # Nobody /\ trades'[s].confirmed = {}
      /\ trades'[s].a = trades[s].a /\ trades'[s].b = trades[s].b
      /\ trades'[s].completing = trades[s].completing
      /\ \A r \in Trades : r # s => trades'[r] = trades[r]
  <2>1. [trades[s] EXCEPT !.offers = Offering(s, p, amount), !.confirmed = {}] \in Session
    BY <1>3, <1>4 DEF Session
  <2>2. trades'[s] = [trades[s] EXCEPT !.offers = Offering(s, p, amount), !.confirmed = {}]
    BY <1>1, <1>2 DEF TradeInv, TradeTypeOK
  <2>3. /\ trades' \in [Trades -> Session \union {Nobody}]
        /\ \A r \in Trades : r # s => trades'[r] = trades[r]
    BY <1>1, <1>2, <2>1 DEF TradeInv, TradeTypeOK
  <2> QED BY <1>3, <2>1, <2>2, <2>3 DEF Session
<1>6. TradeTypeOK'
  BY <1>1, <1>5 DEF TradeInv, TradeTypeOK
<1>7. \A r \in Trades : Started(r) => Started(r)' /\ Parties(r)' = Parties(r)
  BY <1>2, <1>5 DEF Started, Parties
<1>8. TableOfParties'
  BY <1>1, <1>7 DEF TradeInv, TradeTypeOK, TableOfParties, Trades
<1>9. ConfirmedAsOffered'
  BY <1>1, <1>5 DEF TradeInv, ConfirmedAsOffered, Started
<1>10. \A k \in Lanes : ~ Idling(k) => handler[k].trade # s
  BY <1>1 DEF TradeInv, HandlersComplete
<1>11. HandlersComplete' /\ OneHandlerEach'
  BY <1>1, <1>5, <1>10
  DEF TradeInv, HandlersComplete, OneHandlerEach, Started, Parties, Idling
<1>12. SwapsCounted'
  BY <1>1, <1>2, <1>5 DEF TradeInv, SwapsCounted, Started
<1> QED BY <1>6, <1>8, <1>9, <1>11, <1>12 DEF TradeInv

LEMMA ConfirmInv ==
  ASSUME TradeInv, NEW l \in Lanes, Confirm(l)
  PROVE  TradeInv'
<1> DEFINE p == Owner[l]
           s == table[p]
           ready == trades[s].confirmed \union {p} = Parties(s) /\ FirstTime(s)
           snapshot == [step |-> "lookup", trade |-> s, offers |-> trades[s].offers]
<1>1. /\ Idling(l) /\ s # 0
      /\ trades' = [trades EXCEPT ![s].confirmed = @ \union {p},
                                  ![s].completing = @ \/ ready]
      /\ agreed' = [agreed EXCEPT ![s][p] = trades[s].offers]
      /\ handler' = IF ready THEN [handler EXCEPT ![l] = snapshot] ELSE handler
      /\ UNCHANGED <<table, swaps>>
  BY DEF Confirm
<1>2. p \in Players /\ s \in Trades /\ Started(s) /\ p \in Parties(s)
  BY <1>1 DEF TradeInv, TradeTypeOK, TableOfParties, Trades
<1>3. ready \in BOOLEAN
  OBVIOUS
<1>4. ready => ~ trades[s].completing /\ trades[s].confirmed \union {p} = Parties(s)
  BY DEF FirstTime
<1>5. /\ trades[s] \in Session /\ trades[s].confirmed \subseteq Players
      /\ trades[s].offers \in Terms /\ trades[s].completing \in BOOLEAN
  BY <1>2, StartedSession
<1>6. s \in 0 .. MaxTrade
  BY <1>2 DEF Trades
<1>7. /\ snapshot \in Snapshot /\ snapshot.step = "lookup" /\ snapshot.trade = s
      /\ snapshot.offers = trades[s].offers
  BY <1>5, <1>6 DEF Snapshot, Steps
<1> DEFINE new == [trades[s] EXCEPT !.confirmed = @ \union {p}, !.completing = @ \/ ready]
<1>8. /\ new \in Session
      /\ new.a = trades[s].a /\ new.b = trades[s].b /\ new.offers = trades[s].offers
      /\ new.confirmed = trades[s].confirmed \union {p}
      /\ new.completing = (trades[s].completing \/ ready)
  <2> HIDE DEF p, s, ready
  <2> QED BY <1>2, <1>3, <1>5 DEF Session
<1>9. /\ trades' \in [Trades -> Session \union {Nobody}]
      /\ trades'[s] = new
      /\ \A r \in Trades : r # s => trades'[r] = trades[r]
  <2> HIDE DEF p, s, ready
  <2>1. trades' = [trades EXCEPT ![s] = new]
    BY <1>1
  <2> HIDE DEF new
  <2> QED BY <1>2, <1>8, <2>1 DEF TradeInv, TradeTypeOK
<1> HIDE DEF p, s, ready, snapshot, new
<1>10. /\ trades' \in [Trades -> Session \union {Nobody}]
       /\ trades'[s] # Nobody
       /\ trades'[s].a = trades[s].a /\ trades'[s].b = trades[s].b
       /\ trades'[s].offers = trades[s].offers
       /\ trades'[s].confirmed = trades[s].confirmed \union {p}
       /\ trades'[s].completing = (trades[s].completing \/ ready)
       /\ \A r \in Trades : r # s => trades'[r] = trades[r]
  BY <1>8, <1>9
<1>11. trades[s].completing => trades'[s].completing
  BY <1>3, <1>5, <1>10
<1>12. /\ agreed' \in [Trades -> [Players -> Terms \union {Nobody}]]
       /\ agreed'[s][p] = trades[s].offers
       /\ \A q \in Players : q # p => agreed'[s][q] = agreed[s][q]
       /\ \A r \in Trades : r # s => agreed'[r] = agreed[r]
  BY <1>1, <1>2, <1>5 DEF TradeInv, TradeTypeOK
<1>13. handler' \in [Lanes -> Snapshot]
  BY <1>1, <1>7 DEF TradeInv, TradeTypeOK
<1>14. TradeTypeOK'
  BY <1>1, <1>10, <1>12, <1>13 DEF TradeInv, TradeTypeOK
<1>15. \A r \in Trades : (Started(r)' <=> Started(r)) /\ (Started(r) => Parties(r)' = Parties(r))
  BY <1>2, <1>10 DEF Started, Parties
<1>16. TableOfParties'
  BY <1>1, <1>14, <1>15 DEF TradeInv, TradeTypeOK, TableOfParties, Trades
<1>17. ConfirmedAsOffered'
  <2> SUFFICES ASSUME NEW r \in Trades, Started(r), NEW q \in trades'[r].confirmed
               PROVE  agreed'[r][q] = trades'[r].offers
    BY <1>15 DEF ConfirmedAsOffered
  <2>1. CASE r # s
    <3>1. trades'[r] = trades[r] /\ agreed'[r] = agreed[r]
      BY <1>10, <1>12, <2>1
    <3> QED BY <3>1 DEF TradeInv, ConfirmedAsOffered
  <2>2. CASE r = s
    <3>1. q \in Players
      BY <1>2, <1>5, <1>10, <2>2
    <3> QED BY <1>10, <1>12, <2>2, <3>1 DEF TradeInv, ConfirmedAsOffered
  <2> QED BY <2>1, <2>2
\* once completing, the parties are all confirmed
<1>18. \A k \in Lanes : ~ Idling(k) /\ handler[k].trade = s => ~ ready
  BY <1>4 DEF TradeInv, HandlersComplete
<1>19. \A k \in Lanes : k # l \/ ~ ready => handler'[k] = handler[k]
  BY <1>1 DEF TradeInv, TradeTypeOK
<1>20. ready => handler'[l] = snapshot
  BY <1>1 DEF TradeInv, TradeTypeOK
<1>21. HandlersComplete'
  <2> SUFFICES ASSUME NEW k \in Lanes, handler'[k].step # "idle",
                      NEW r, r = handler'[k].trade
               PROVE  /\ r \in Trades /\ trades'[r] # Nobody
                      /\ trades'[r].completing
                      /\ trades'[r].confirmed = {trades'[r].a, trades'[r].b}
                      /\ handler'[k].offers = trades'[r].offers
    BY Zenon DEF HandlersComplete, Idling, Started, Parties
  <2>1. CASE k = l /\ ready
    <3>1. r = s /\ handler'[k].offers = trades[s].offers
      BY <1>7, <1>20, <2>1
    <3>2. trades[s].confirmed \union {p} = {trades[s].a, trades[s].b}
      BY <1>4, <2>1 DEF Parties
    <3> QED BY <1>2, <1>10, <2>1, <3>1, <3>2
  <2>2. CASE ~ (k = l /\ ready)
    <3>1. handler'[k] = handler[k] /\ ~ Idling(k)
      BY <1>19, <2>2 DEF Idling
    <3>2. /\ r \in Trades /\ trades[r] # Nobody
          /\ trades[r].completing
          /\ trades[r].confirmed = {trades[r].a, trades[r].b}
          /\ handler[k].offers = trades[r].offers
      BY <3>1 DEF TradeInv, HandlersComplete, Started, Parties
    <3>3. r = s => trades[s].confirmed \union {p} = {trades[s].a, trades[s].b}
      BY <1>2, <3>2 DEF Parties
    <3>4. CASE r = s
      BY <1>10, <1>11, <3>1, <3>2, <3>3, <3>4
    <3>5. CASE r # s
      BY <1>10, <3>1, <3>2, <3>5
    <3> QED BY <3>4, <3>5
  <2> QED BY <2>1, <2>2
<1>22. OneHandlerEach'
  BY <1>1, <1>7, <1>18, <1>19, <1>20 DEF TradeInv, OneHandlerEach, Idling
<1>23. SwapsCounted'
  BY <1>1, <1>2, <1>4, <1>5, <1>7, <1>10, <1>15, <1>19, <1>20
  DEF TradeInv, TradeTypeOK, SwapsCounted
<1> QED BY <1>14, <1>16, <1>17, <1>21, <1>22, <1>23 DEF TradeInv

LEMMA CancelInv ==
  ASSUME TradeInv, NEW p \in Players, Cancel(p)
  PROVE  TradeInv'
<1>1. /\ UNCHANGED <<trades, handler, agreed, swaps>>
      /\ table' \in [Players -> 0 .. MaxTrade]
      /\ \A x \in Players : table'[x] \in {0, table[x]}
  BY DEF Cancel, TradeInv, TradeTypeOK
<1> QED
  BY <1>1
  DEF TradeInv, TradeTypeOK, TableOfParties, ConfirmedAsOffered, HandlersComplete,
      OneHandlerEach, SwapsCounted, Started, Parties, Idling

-----------------------------------------------------------------------------
(* The handler *)

\* A handler that goes on, or is done, and has not finished before.
LEMMA HandlerMoves ==
  ASSUME TradeInv, NEW l \in Lanes, ~ Idling(l), NEW step \in Steps, step # "lookup",
         Step(l, step) \/ Done(l), UNCHANGED <<trades, agreed>>,
         table' \in [Players -> 0 .. MaxTrade],
         \A x \in Players : table'[x] \in {0, table[x]},
         \/ UNCHANGED swaps /\ (step = "finish" => handler[l].step = "lookup")
         \/ /\ handler[l].step = "finish" /\ step # "finish"
            /\ swaps' = [swaps EXCEPT ![handler[l].trade] = @ + 1]
  PROVE  TradeInv'
<1> DEFINE s == handler[l].trade
<1>1. s \in Trades /\ Started(s) /\ trades[s].completing /\ handler[l] \in Snapshot
  BY DEF TradeInv, TradeTypeOK, HandlersComplete
<1>2. [handler[l] EXCEPT !.step = step] \in Snapshot /\ NoSnapshot \in Snapshot
  BY <1>1 DEF Snapshot, NoSnapshot, Steps, Terms
<1>3. handler' \in [Lanes -> Snapshot]
  BY <1>2 DEF Step, Done, TradeInv, TradeTypeOK
<1>4. \A k \in Lanes : k # l => handler'[k] = handler[k]
  BY DEF Step, Done, TradeInv, TradeTypeOK
<1>5. \/ handler'[l].step = "idle"
      \/ /\ handler'[l].step = step
         /\ handler'[l].trade = s /\ handler'[l].offers = handler[l].offers
  BY <1>1 DEF Step, Done, NoSnapshot, Snapshot, TradeInv, TradeTypeOK
<1> HIDE DEF s
<1>6. swaps' \in [Trades -> Nat]
  BY <1>1 DEF s, TradeInv, TradeTypeOK
<1>7. TradeTypeOK'
  BY <1>3, <1>6 DEF TradeInv, TradeTypeOK
<1>8. TableOfParties' /\ ConfirmedAsOffered'
  BY DEF TradeInv, TableOfParties, ConfirmedAsOffered, Started, Parties
<1>9. HandlersComplete' /\ OneHandlerEach'
  BY <1>4, <1>5
  DEF s, TradeInv, HandlersComplete, OneHandlerEach, Started, Parties, Idling
<1>10. SwapsCounted'
  <2>1. CASE UNCHANGED swaps /\ (step = "finish" => handler[l].step = "lookup")
    BY <1>1, <1>4, <1>5, <2>1 DEF s, TradeInv, SwapsCounted, Started
  <2>2. CASE /\ handler[l].step = "finish" /\ step # "finish"
             /\ swaps' = [swaps EXCEPT ![s] = @ + 1]
    <3>1. swaps[s] = 0 /\ swaps'[s] = 1
      BY <1>1, <2>2 DEF s, TradeInv, TradeTypeOK, SwapsCounted
    <3>2. \A r \in Trades : r # s => swaps'[r] = swaps[r]
      BY <2>2 DEF TradeInv, TradeTypeOK
    <3>3. \A k \in Lanes : ~ Idling(k) /\ handler[k].trade = s => k = l
      BY DEF s, TradeInv, OneHandlerEach
    <3> QED
      BY <1>1, <1>4, <1>5, <2>2, <3>1, <3>2, <3>3 DEF TradeInv, SwapsCounted, Started, Idling
  <2> QED BY <2>1, <2>2 DEF s
<1> QED BY <1>7, <1>8, <1>9, <1>10 DEF TradeInv

LEMMA SwapStepInv ==
  ASSUME TradeInv, NEW l \in Lanes, SwapStep(l)
  PROVE  TradeInv'
<1>1. table \in [Players -> 0 .. MaxTrade]
  BY DEF TradeInv, TradeTypeOK
<1>2. ASSUME Lookup(l) PROVE TradeInv'
  BY <1>1, <1>2, HandlerMoves DEF Lookup, Steps, Idling
<1>3. ASSUME NEW online \in BOOLEAN, Finish(l, online) PROVE TradeInv'
  <2>1. /\ ~ Idling(l) /\ handler[l].step = "finish"
        /\ UNCHANGED <<trades, agreed>>
        /\ table' \in [Players -> 0 .. MaxTrade]
        /\ \A x \in Players : table'[x] \in {0, table[x]}
    BY <1>1, <1>3 DEF Finish, Idling
  <2>2. \/ Step(l, "takeA") /\ swaps' = [swaps EXCEPT ![handler[l].trade] = @ + 1]
        \/ Done(l) /\ UNCHANGED swaps
    BY <1>3 DEF Finish
  <2> QED BY <2>1, <2>2, HandlerMoves DEF Steps
<1>4. ASSUME NEW ok \in BOOLEAN, TakeA(l, ok) PROVE TradeInv'
  BY <1>1, <1>4, HandlerMoves DEF TakeA, Steps, Idling
<1>5. ASSUME NEW ok \in BOOLEAN, TakeB(l, ok) PROVE TradeInv'
  BY <1>1, <1>5, HandlerMoves DEF TakeB, Steps, Idling
<1>6. ASSUME Refund(l) PROVE TradeInv'
  BY <1>1, <1>6, HandlerMoves DEF Refund, Steps, Idling
<1>7. ASSUME GiveA(l) PROVE TradeInv'
  BY <1>1, <1>7, HandlerMoves DEF GiveA, Steps, Idling
<1>8. ASSUME GiveB(l) PROVE TradeInv'
  BY <1>1, <1>8, HandlerMoves DEF GiveB, Steps, Idling
<1> QED BY <1>2, <1>3, <1>4, <1>5, <1>6, <1>7, <1>8 DEF SwapStep

LEMMA TradeInvNext ==
  ASSUME TradeInv, [TradeNext]_tradeVars
  PROVE  TradeInv'
<1>1. ASSUME NEW l \in Lanes, ManagerStep(l) PROVE TradeInv'
  <2>1. Owner[l] \in Players
    OBVIOUS
  <2>2. CASE CancelTrade(l) \/ (CancelOffline(l) /\ Cancel(Owner[l]))
    BY <2>1, <2>2, CancelInv DEF CancelTrade
  <2>3. CASE UNCHANGED tradeVars
    BY <2>3
    DEF tradeVars, TradeInv, TradeTypeOK, TableOfParties, ConfirmedAsOffered,
        HandlersComplete, OneHandlerEach, SwapsCounted, Started, Parties, Idling
  <2> QED
    BY <1>1, <2>2, <2>3, StartInv, SetGoldInv, ConfirmInv DEF ManagerStep, CancelOffline
<1>2. ASSUME NEW l \in Lanes, SwapStep(l) PROVE TradeInv'
  BY <1>2, SwapStepInv
<1>3. CASE UNCHANGED tradeVars
  BY <1>3
  DEF tradeVars, TradeInv, TradeTypeOK, TableOfParties, ConfirmedAsOffered,
      HandlersComplete, OneHandlerEach, SwapsCounted, Started, Parties, Idling
<1> QED BY <1>1, <1>2, <1>3 DEF TradeNext

LEMMA TradeInvariant == TradeSpec => []TradeInv
<1>1. TradeInit => TradeInv
  BY TradeInvInit
<1>2. TradeInv /\ [TradeNext]_tradeVars => TradeInv'
  BY TradeInvNext
<1> QED BY <1>1, <1>2, PTL DEF TradeSpec

-----------------------------------------------------------------------------
(* The properties, of the trades alone and of the trades with gold *)

LEMMA InvSwapAsAgreed == TradeInv => SwapAsAgreed
<1> SUFFICES ASSUME TradeInv, NEW l \in Lanes, handler[l].step \in Swapping,
                    NEW p \in Parties(handler[l].trade)
             PROVE  agreed[handler[l].trade][p] = handler[l].offers
  BY DEF SwapAsAgreed
<1>1. ~ Idling(l)
  BY DEF Swapping, Idling
<1> QED BY <1>1 DEF TradeInv, HandlersComplete, ConfirmedAsOffered

LEMMA InvSwappedOnce == TradeInv => SwappedOnce
  BY DEF TradeInv, SwapsCounted, OneHandlerEach, SwappedOnce, Idling

\* Every step of the composition is one of the trades, or leaves them alone.
LEMMA GoldStepTrades == [Next]_vars => [TradeNext]_tradeVars
<1> SUFFICES ASSUME [Next]_vars PROVE [TradeNext]_tradeVars
  OBVIOUS
<1>1. ASSUME NEW l \in Lanes, ManagerOnly(l) \/ LogoutAndCancel(l) PROVE TradeNext
  BY <1>1 DEF ManagerOnly, LogoutAndCancel, ManagerStep, TradeNext
<1>2. ASSUME NEW l \in Lanes,
             \/ LookupActors(l) \/ FinishTrade(l) \/ TakeFromA(l) \/ TakeFromB(l)
             \/ RefundA(l) \/ GiveToA(l) \/ GiveToB(l)
      PROVE  TradeNext
  <2>1. CASE LookupActors(l) \/ RefundA(l) \/ GiveToA(l) \/ GiveToB(l)
    BY <2>1 DEF LookupActors, RefundA, GiveToA, GiveToB, SwapStep, TradeNext
  <2>2. CASE FinishTrade(l)
    <3>1. \E online \in BOOLEAN : Finish(l, online)
      BY <2>2 DEF FinishTrade
    <3> QED BY <3>1 DEF SwapStep, TradeNext
  <2>3. CASE TakeFromA(l)
    <3> DEFINE pays == gold[pair[l][1]] >= handler[l].offers[1]
    <3>1. TakeA(l, pays)
      BY <2>3 DEF TakeFromA
    <3>2. TakeA(l, TRUE) \/ TakeA(l, FALSE)
      BY <3>1 DEF TakeA
    <3> QED BY <3>2 DEF SwapStep, TradeNext
  <2>4. CASE TakeFromB(l)
    <3> DEFINE pays == gold[pair[l][2]] >= handler[l].offers[2]
    <3>1. TakeB(l, pays)
      BY <2>4 DEF TakeFromB
    <3>2. TakeB(l, TRUE) \/ TakeB(l, FALSE)
      BY <3>1 DEF TakeB
    <3> QED BY <3>2 DEF SwapStep, TradeNext
  <2> QED BY <1>2, <2>1, <2>2, <2>3, <2>4
<1>3. ASSUME NEW l \in Lanes, GoldOnly(l) PROVE UNCHANGED tradeVars
  BY <1>3 DEF GoldOnly
<1>4. ASSUME Reward PROVE UNCHANGED tradeVars
  BY <1>4 DEF Reward
<1>5. ASSUME UNCHANGED vars PROVE UNCHANGED tradeVars
  BY <1>5 DEF vars
<1> QED BY <1>1, <1>2, <1>3, <1>4, <1>5 DEF Next

\* Trades that move gold behave as the trades alone, whatever logins, logouts and
\* rewards do to the gold.  (TradeHandler, ExecuteSwap)
THEOREM GoldImplementsTrades == Spec => TradeSpec
<1>1. Init => TradeInit
  BY DEF Init
<1> QED BY <1>1, GoldStepTrades, PTL DEF Spec, TradeSpec

\* Nobody pays a price he has not confirmed.  (SetGold, Confirm)
THEOREM TradeSwapAsAgreed == Spec => []SwapAsAgreed
  BY GoldImplementsTrades, TradeInvariant, InvSwapAsAgreed, PTL

\* No session is swapped twice, nor by two lanes.  (Session.completing)
THEOREM TradeSwappedOnce == Spec => []SwappedOnce
  BY GoldImplementsTrades, TradeInvariant, InvSwappedOnce, PTL

-----------------------------------------------------------------------------
(* The gold of players who trade *)

\* From the lookup on a handler works on actors of players, or on none at all; a swap
\* only begins with both.
PairsOwned ==
  \A l \in Lanes :
    /\ handler[l].step \in {"finish"} \union Swapping =>
         \A i \in {1, 2} : pair[l][i] # 0 => owner[pair[l][i]] \in Players
    /\ handler[l].step \in Swapping => pair[l][1] # 0 /\ pair[l][2] # 0

PairTyped == pair \in [Lanes -> (0 .. MaxLogin) \X (0 .. MaxLogin)]

ComposedInv == TradeInv /\ GoldInv /\ PairTyped /\ PairsOwned

LEMMA ComposedInvInit == Init => ComposedInv
<1> SUFFICES ASSUME Init PROVE ComposedInv
  OBVIOUS
<1>1. TradeInv /\ GoldInv
  BY TradeInvInit, GoldInvInit DEF Init
<1>2. PairTyped
  <2>1. 0 \in 0 .. MaxLogin
    BY PlayerGoldAssumption DEF PlayerGoldAssumption
  <2> QED BY <2>1 DEF Init, PairTyped
<1>3. PairsOwned
  BY DEF Init, TradeInit, PairsOwned, NoSnapshot, Swapping
<1> QED BY <1>1, <1>2, <1>3 DEF ComposedInv

\* An actor made for a player stays his.
LEMMA OwnersStay ==
  ASSUME GoldInv, NEW l \in Lanes, LaneStep(l)
  PROVE  \A a \in Actors : owner[a] \in Players => owner'[a] = owner[a]
<1>1. owner \in [Actors -> Players \union {Nobody}]
  BY DEF GoldInv, GoldTypeOK
<1>2. Nobody \notin Players
  OBVIOUS
<1>3. UNCHANGED owner \/ \E a \in Actors : owner[a] = Nobody /\ owner' = [owner EXCEPT ![a] = Owner[l]]
  BY DEF LaneStep, LoginBegin, LoginRead, LoginAdd, LoginStore, LoginEnlist, LogoutRead,
         LogoutSync, LogoutHooks, LogoutSave, LogoutRemove, ClaimMark, ClaimRead, ClaimPay, Unclaim
<1> QED BY <1>1, <1>2, <1>3

\* A handler that moves on keeps its pair good.
LEMMA PairsOwnedStay ==
  ASSUME GoldInv, PairTyped, PairsOwned, UNCHANGED pair,
         \A a \in Actors : owner[a] \in Players => owner'[a] = owner[a],
         \A l \in Lanes :
           /\ handler'[l].step \in {"finish"} \union Swapping =>
                handler[l].step \in {"finish"} \union Swapping
           /\ handler'[l].step \in Swapping =>
                handler[l].step \in Swapping \/ (pair[l][1] # 0 /\ pair[l][2] # 0)
  PROVE  PairsOwned'
<1>1. \A l \in Lanes, i \in {1, 2} : pair[l][i] # 0 => pair[l][i] \in Actors
  BY DEF PairTyped, Actors
<1> QED BY <1>1 DEF PairsOwned

\* A swap that takes or gives keeps what is said of the gold: it never takes more than
\* there is.
LEMMA SwapPays ==
  ASSUME GoldInv, NEW a \in Actors, owner[a] \in Players, NEW amount \in Nat,
         TakeGold(a, amount) \/ GiveGold(a, amount), UNCHANGED OtherGold
  PROVE  GoldInv'
<1>1. /\ gold[a] \in Nat /\ earned \in 0 .. MaxEarn
      /\ UNCHANGED <<row, current, owner, cache, job, todo, reading, ticking, mail, paid,
                     earned, failures>>
  BY DEF GoldInv, GoldTypeOK, OtherGold
<1>2. CASE UNCHANGED <<gold, ledger, quiet>>
  BY <1>1, <1>2, GoldInvStutter DEF goldVars
<1>3. CASE Pay(a, amount)
  BY <1>1, <1>3, PayInv
<1>4. CASE gold[a] >= amount /\ Pay(a, 0 - amount)
  <2>1. 0 - amount \in Int /\ gold[a] + (0 - amount) \in Nat
    BY <1>1, <1>4
  <2> HIDE DEF GoldInv
  <2> QED BY <1>1, <1>4, <2>1, PayInv
<1> QED BY <1>1, <1>2, <1>3, <1>4 DEF TakeGold, GiveGold

LEMMA ComposedInvNext == ComposedInv /\ [Next]_vars => ComposedInv'
<1> SUFFICES ASSUME ComposedInv, [Next]_vars PROVE ComposedInv'
  OBVIOUS
<1>1. TradeInv /\ GoldInv /\ PairTyped /\ PairsOwned
  BY DEF ComposedInv
<1>2. TradeInv'
  BY <1>1, GoldStepTrades, TradeInvNext
<1>3. CASE UNCHANGED vars
  <2>1. GoldInv'
    BY <1>1, <1>3, GoldInvStutter DEF vars
  <2>2. PairTyped' /\ PairsOwned'
    BY <1>1, <1>3 DEF vars, goldVars, tradeVars, PairTyped, PairsOwned
  <2> QED BY <1>2, <2>1, <2>2 DEF ComposedInv
<1>4. ASSUME Reward PROVE ComposedInv'
  <2>1. /\ \E p \in Players : Earn(p)
        /\ UNCHANGED <<owner, handler, pair>>
    BY <1>4 DEF Reward, Earn, tradeVars
  <2>2. GoldInv'
    BY <1>1, <2>1, EarnInv
  <2>3. PairTyped' /\ PairsOwned'
    BY <1>1, <2>1 DEF PairTyped, PairsOwned
  <2> QED BY <1>2, <2>2, <2>3 DEF ComposedInv
<1>5. ASSUME NEW l \in Lanes, ManagerOnly(l) PROVE ComposedInv'
  <2>1. UNCHANGED goldVars /\ UNCHANGED pair
    BY <1>5 DEF ManagerOnly
  <2>2. GoldInv'
    BY <1>1, <2>1, GoldInvStutter
  <2>3. \A k \in Lanes : handler'[k] = handler[k] \/ handler'[k].step = "lookup"
    <3>1. handler \in [Lanes -> Snapshot]
      BY <1>1 DEF TradeInv, TradeTypeOK
    <3>2. CASE UNCHANGED handler
      BY <3>2
    <3>3. CASE Confirm(l)
      BY <3>1, <3>3 DEF Confirm
    <3> QED BY <1>5, <3>2, <3>3 DEF ManagerOnly, Start, SetGold, CancelTrade, Cancel
  <2>4. PairTyped' /\ PairsOwned'
    BY <1>1, <2>1, <2>3 DEF goldVars, PairTyped, PairsOwned, Swapping
  <2> QED BY <1>2, <2>2, <2>4 DEF ComposedInv
<1>6. ASSUME NEW l \in Lanes, GoldOnly(l) \/ LogoutAndCancel(l) PROVE ComposedInv'
  <2>1. LaneStep(l) /\ UNCHANGED <<handler, pair>>
    BY <1>6 DEF GoldOnly, LogoutAndCancel, LaneStep, CancelOffline, Cancel, tradeVars
  <2>2. GoldInv'
    BY <1>1, <2>1, LaneStepInv
  <2>3. \A a \in Actors : owner[a] \in Players => owner'[a] = owner[a]
    BY <1>1, <2>1, OwnersStay
  <2>4. PairsOwned'
    BY <1>1, <2>1, <2>3, PairsOwnedStay
  <2>5. PairTyped'
    BY <1>1, <2>1 DEF PairTyped
  <2> QED BY <1>2, <2>2, <2>4, <2>5 DEF ComposedInv
<1>7. ASSUME NEW l \in Lanes, LookupActors(l) PROVE ComposedInv'
  <2> DEFINE s == handler[l].trade
             x == trades[s].a
             y == trades[s].b
  <2>1. /\ handler[l].step = "lookup" /\ Step(l, "finish")
        /\ pair' = [pair EXCEPT ![l] = <<current[x], current[y]>>]
        /\ UNCHANGED goldVars
    BY <1>7 DEF LookupActors, Lookup
  <2>2. x \in Players /\ y \in Players
    <3>1. s \in Trades /\ Started(s)
      BY <1>1, <2>1 DEF TradeInv, HandlersComplete, Idling
    <3> QED BY <1>1, <3>1, StartedSession DEF Session
  <2>3. GoldInv'
    BY <1>1, <2>1, GoldInvStutter
  <2>4. current[x] \in 0 .. MaxLogin /\ current[y] \in 0 .. MaxLogin
    BY <1>1, <2>2 DEF GoldInv, GoldTypeOK
  <2> HIDE DEF s, x, y
  <2>5. PairTyped'
    BY <1>1, <2>1, <2>4 DEF PairTyped
  <2>6. /\ handler'[l].step = "finish"
        /\ \A k \in Lanes \ {l} : handler'[k] = handler[k]
    BY <1>1, <2>1 DEF Step, TradeInv, TradeTypeOK, Snapshot
  <2>7. /\ pair'[l] = <<current[x], current[y]>>
        /\ \A k \in Lanes \ {l} : pair'[k] = pair[k]
    BY <1>1, <2>1 DEF PairTyped
  <2>8. \A i \in {1, 2} : pair'[l][i] # 0 => owner[pair'[l][i]] \in Players
    BY <1>1, <2>2, <2>7 DEF GoldInv, ActorsOwned, Online
  <2>9. PairsOwned'
    BY <1>1, <2>1, <2>6, <2>7, <2>8 DEF goldVars, PairsOwned, Swapping
  <2> QED BY <1>2, <2>3, <2>5, <2>9 DEF ComposedInv
<1>8. ASSUME NEW l \in Lanes,
             FinishTrade(l) \/ TakeFromA(l) \/ TakeFromB(l) \/ RefundA(l) \/ GiveToA(l) \/ GiveToB(l)
      PROVE  ComposedInv'
  <2>1. UNCHANGED <<owner, pair>>
    BY <1>8 DEF FinishTrade, TakeFromA, TakeFromB, RefundA, GiveToA, GiveToB, OtherGold, goldVars
  <2>2. /\ handler[l].step \in {"finish"} \union Swapping
        /\ (\E step \in Swapping : Step(l, step)) \/ Done(l)
        /\ handler[l].step = "finish" => Done(l) \/ (pair[l][1] # 0 /\ pair[l][2] # 0)
    BY <1>8
    DEF FinishTrade, TakeFromA, TakeFromB, RefundA, GiveToA, GiveToB, Finish, TakeA, TakeB, Refund,
        GiveA, GiveB, Swapping
  <2>3. \A k \in Lanes :
          \/ handler'[k] = handler[k]
          \/ k = l /\ handler'[l].step = "idle" /\ Done(l)
          \/ k = l /\ handler'[l].step \in Swapping
    BY <1>1, <2>2 DEF Step, Done, NoSnapshot, Swapping, TradeInv, TradeTypeOK, Snapshot
  <2>4. handler[l].step \in Swapping \/ Done(l) \/ (pair[l][1] # 0 /\ pair[l][2] # 0)
    BY <2>2
  <2>5. Done(l) => handler'[l].step = "idle"
    BY <1>1 DEF Done, NoSnapshot, TradeInv, TradeTypeOK
  <2>6. PairsOwned'
    BY <1>1, <2>1, <2>2, <2>3, <2>4, <2>5, PairsOwnedStay DEF Swapping
  <2>7. PairTyped'
    BY <1>1, <2>1 DEF PairTyped
  <2>8. GoldInv'
    <3>1. CASE FinishTrade(l)
      BY <1>1, <3>1, GoldInvStutter DEF FinishTrade
    <3>2. CASE handler[l].step \in Swapping
      <4>1. \A i \in {1, 2} : pair[l][i] \in Actors /\ owner[pair[l][i]] \in Players
        BY <1>1, <3>2 DEF PairsOwned, PairTyped, Actors
      <4>2. \A i \in {1, 2} : handler[l].offers[i] \in Nat
        BY <1>1 DEF TradeInv, TradeTypeOK, Snapshot, Terms
      <4>3. CASE TakeFromA(l)
        BY <1>1, <4>1, <4>2, <4>3, SwapPays DEF TakeFromA
      <4>4. CASE TakeFromB(l)
        BY <1>1, <4>1, <4>2, <4>4, SwapPays DEF TakeFromB
      <4>5. CASE RefundA(l)
        BY <1>1, <4>1, <4>2, <4>5, SwapPays DEF RefundA, Refunded
      <4>6. CASE GiveToA(l)
        BY <1>1, <4>1, <4>2, <4>6, SwapPays DEF GiveToA
      <4>7. CASE GiveToB(l)
        BY <1>1, <4>1, <4>2, <4>7, SwapPays DEF GiveToB
      <4>8. CASE FinishTrade(l)
        BY <3>1, <4>8
      <4> QED BY <1>8, <4>3, <4>4, <4>5, <4>6, <4>7, <4>8
    <3> QED
      BY <1>8, <3>1, <3>2
      DEF TakeFromA, TakeFromB, RefundA, GiveToA, GiveToB, TakeA, TakeB, Refund, GiveA, GiveB, Swapping
  <2> QED BY <1>2, <2>6, <2>7, <2>8 DEF ComposedInv
<1> QED BY <1>3, <1>4, <1>5, <1>6, <1>7, <1>8 DEF Next

LEMMA ComposedInvariant == Spec => []ComposedInv
  BY ComposedInvInit, ComposedInvNext, PTL DEF Spec

\* A swap works on actors there are and never takes more than they have, though they may
\* have logged out since they were looked up.  (ExecuteSwap, ReduceGold)
THEOREM TradeGoldTyped == Spec => []TypeOK
  BY ComposedInvariant, PTL DEF ComposedInv, TradeInv, GoldInv, PairTyped, TypeOK

\* Trades included, what a player owns survives his logout and is found by his next
\* login, unless he was disturbed.  (ExecuteSwap, EnterGame, LeaveGame)
THEOREM GoldSurvivesTrades == Spec => []GoldKept
  BY ComposedInvariant, GoldInvKept, PTL DEF ComposedInv

\* Mails pay once beside trades, too.  (ClaimMail, UnclaimMail, MAIL_CLAIM)
THEOREM MailPaysOnceBesideTrades == Spec => []MailSettled
  BY ComposedInvariant, PTL DEF ComposedInv, GoldInv, MailInv

-----------------------------------------------------------------------------
(* No gold is made or lost *)

\* The gold that players own, and what swaps have taken and not yet given.
Owned == Total(ledger)
OnTheWay == Total([l \in Lanes |-> Taken(l)])

Undisturbed == \A p \in Players : ledger[p] # Nobody

\* Of players who were not disturbed the ledger says what they have.
Conserved ==
  Undisturbed => Owned + OnTheWay = Total(Wealth) + Total(paid) + earned

LEMMA OffersNumbers ==
  /\ TradeInv => \A l \in Lanes, i \in {1, 2} : handler[l].offers[i] \in Int
  /\ TradeInv' => \A l \in Lanes, i \in {1, 2} : handler'[l].offers[i] \in Int
<1>1. ASSUME NEW s \in Snapshot, NEW i \in {1, 2} PROVE s.offers[i] \in Int
  <2>1. s.offers \in Offers \X Offers /\ Offers \subseteq Int
    BY DEF Snapshot, Terms
  <2> QED BY <2>1
<1>2. TradeInv => \A l \in Lanes : handler[l] \in Snapshot
  BY DEF TradeInv, TradeTypeOK
<1>3. TradeInv' => \A l \in Lanes : handler'[l] \in Snapshot
  BY DEF TradeInv, TradeTypeOK
<1> QED BY <1>1, <1>2, <1>3

\* A swap has taken a natural number.
LEMMA TakenType ==
  ASSUME TradeInv
  PROVE  [l \in Lanes |-> Taken(l)] \in [Lanes -> Int]
<1>1. \A l \in Lanes : handler[l].offers[1] \in Int /\ handler[l].offers[2] \in Int
  BY OffersNumbers
<1>2. \A l \in Lanes : Taken(l) \in Int
  BY <1>1 DEF Taken
<1> QED BY <1>2

\* What p owns changes by amount.
LEMMA LedgerChange ==
  ASSUME GoldInv, GoldInv', Undisturbed', NEW a \in Actors, owner[a] \in Players,
         NEW amount \in Int, Pay(a, amount)
  PROVE  Undisturbed /\ Owned' = Owned + amount
<1> DEFINE p == owner[a]
<1>1. /\ ledger \in [Players -> Nat \union {Nobody}]
      /\ ledger' \in [Players -> Nat \union {Nobody}]
  BY DEF GoldInv, GoldTypeOK
<1>2. /\ ledger' = [ledger EXCEPT ![p] = IF @ = Nobody \/ Gone(a) THEN Nobody ELSE @ + amount]
  BY DEF Pay
<1> HIDE DEF p
<1>3. p \in Players
  BY DEF p
<1>4. /\ ledger[p] # Nobody /\ ledger'[p] = ledger[p] + amount
      /\ \A q \in Players : q # p => ledger'[q] = ledger[q]
  BY <1>1, <1>2, <1>3 DEF Undisturbed
<1>5. Undisturbed
  BY <1>4 DEF Undisturbed
<1>6. ledger \in [Players -> Int] /\ ledger' \in [Players -> Int]
  BY <1>1, <1>5 DEF Undisturbed
<1>7. Total(ledger') = Total(ledger) + (ledger'[p] - ledger[p])
  BY <1>3, <1>4, <1>6, PlayerGoldAssumption, TotalChange DEF PlayerGoldAssumption
<1>8. ledger[p] \in Int /\ Total(ledger) \in Int
  BY <1>3, <1>6, PlayerGoldAssumption, TotalType DEF PlayerGoldAssumption
<1> QED BY <1>4, <1>5, <1>7, <1>8 DEF Owned

LEMMA TakenChange ==
  ASSUME TradeInv, TradeInv', NEW l \in Lanes,
         \A k \in Lanes \ {l} : handler'[k] = handler[k]
  PROVE  /\ OnTheWay' = OnTheWay + (Taken(l)' - Taken(l))
         /\ Taken(l) \in Int /\ Taken(l)' \in Int /\ OnTheWay \in Int
<1> DEFINE f == [k \in Lanes |-> Taken(k)]
           h == [k \in Lanes |-> Taken(k)']
<1>1. f \in [Lanes -> Int]
  BY TakenType
<1>2. h \in [Lanes -> Int]
  <2>1. \A k \in Lanes : handler'[k].offers[1] \in Int /\ handler'[k].offers[2] \in Int
    BY OffersNumbers
  <2>2. \A k \in Lanes : Taken(k)' \in Int
    BY <2>1 DEF Taken
  <2> QED BY <2>2
<1>3. \A k \in Lanes : k # l => h[k] = f[k]
  BY DEF Taken
<1>4. f[l] = Taken(l) /\ h[l] = Taken(l)'
  OBVIOUS
<1>5. OnTheWay = Total(f) /\ OnTheWay' = Total(h)
  BY DEF OnTheWay
<1> HIDE DEF f, h
<1>6. Total(h) = Total(f) + (h[l] - f[l])
  BY <1>1, <1>2, <1>3, TradeGoldAssumption, TotalChange
<1>7. Total(f) \in Int /\ f[l] \in Int /\ h[l] \in Int
  BY <1>1, <1>2, TradeGoldAssumption, TotalType
<1> QED BY <1>4, <1>5, <1>6, <1>7

\* Who is not disturbed by a login, logout or claim keeps his gold, unless the claim
\* pays.
LEMMA LaneStepOwns ==
  ASSUME GoldInv, NEW l \in Lanes, LaneStep(l), ~ ClaimPay(l), Undisturbed'
  PROVE  UNCHANGED <<ledger, paid, earned>>
<1>1. ledger \in [Players -> Nat \union {Nobody}] /\ Owner[l] \in Players
  BY DEF GoldInv, GoldTypeOK
<1>2. ~ Disturb(Owner[l])
  BY <1>1 DEF Disturb, Undisturbed
<1> QED
  BY <1>2
  DEF LaneStep, LoginBegin, LoginRead, LoginAdd, LoginStore, LoginEnlist, LogoutRead,
      LogoutSync, LogoutHooks, LogoutSave, LogoutRemove, ClaimMark, ClaimRead, Unclaim

\* A claim pays what is counted in paid.
LEMMA ClaimOwns ==
  ASSUME GoldInv, GoldInv', NEW l \in Lanes, ClaimPay(l), Undisturbed'
  PROVE  /\ Undisturbed /\ earned' = earned
         /\ \/ UNCHANGED <<ledger, paid>>
            \/ Owned' = Owned + 1 /\ Total(paid)' = Total(paid) + 1
<1> DEFINE a == current[Owner[l]]
           m == job[l].mail
<1>1. earned' = earned /\ job[l].at = "pay"
  BY DEF ClaimPay
<1>2. CASE UNCHANGED <<ledger, paid>>
  BY <1>1, <1>2 DEF Undisturbed
<1>3. CASE a # 0 /\ Pay(a, 1) /\ paid' = [paid EXCEPT ![m] = @ + 1]
  <2>1. a \in Actors /\ owner[a] \in Players
    BY <1>3, SMTT(30) DEF GoldInv, GoldTypeOK, ActorsOwned, Online, Actors
  <2>2. Undisturbed /\ Owned' = Owned + 1
    BY <1>3, <2>1, LedgerChange
  <2>3. m \in Mails
    <3>1. job[l] \in Job /\ m # Nobody
      BY <1>1 DEF GoldInv, GoldTypeOK, MailInv, Claiming
    <3> QED BY <3>1 DEF Job
  <2>4. paid \in [Mails -> Int] /\ paid' \in [Mails -> Int]
    BY DEF GoldInv, GoldTypeOK
  <2> HIDE DEF m
  <2>5. paid'[m] = paid[m] + 1 /\ \A n \in Mails : n # m => paid'[n] = paid[n]
    BY <1>3, <2>3, <2>4
  <2>6. Total(paid') = Total(paid) + (paid'[m] - paid[m])
    BY <2>3, <2>4, <2>5, TradeGoldAssumption, TotalChange
  <2>7. Total(paid) \in Int /\ paid[m] \in Int
    BY <2>3, <2>4, TradeGoldAssumption, TotalType
  <2>8. Total(paid)' = Total(paid) + 1
    BY <2>5, <2>6, <2>7
  <2> QED BY <1>1, <2>2, <2>8
<1> QED BY <1>2, <1>3 DEF ClaimPay

\* Owned is a number while no player is disturbed.
LEMMA OwnedType ==
  ASSUME GoldInv, Undisturbed
  PROVE  Owned \in Int
<1>1. ledger \in [Players -> Int]
  BY DEF GoldInv, GoldTypeOK, Undisturbed
<1> QED BY <1>1, PlayerGoldAssumption, TotalType DEF PlayerGoldAssumption, Owned

LEMMA GiveOwns ==
  ASSUME GoldInv, GoldInv', Undisturbed', NEW a \in Actors, owner[a] \in Players,
         NEW n \in Nat, GiveGold(a, n)
  PROVE  Undisturbed /\ Owned' = Owned + n
<1>1. CASE n = 0
  <2>1. UNCHANGED ledger
    BY <1>1 DEF GiveGold
  <2>2. Undisturbed /\ Owned' = Owned
    BY <2>1 DEF Undisturbed, Owned
  <2> QED BY <1>1, <2>2, OwnedType
<1>2. CASE n # 0
  BY <1>2, LedgerChange DEF GiveGold
<1> QED BY <1>1, <1>2

\* ReduceGold, or its refusal.
LEMMA TakeOwns ==
  ASSUME GoldInv, GoldInv', Undisturbed', NEW a \in Actors, owner[a] \in Players,
         NEW n \in Nat, TakeGold(a, n)
  PROVE  /\ Undisturbed /\ Owned \in Int
         /\ Owned' = IF gold[a] >= n THEN Owned - n ELSE Owned
<1>1. gold[a] \in Nat
  BY DEF GoldInv, GoldTypeOK
<1>2. CASE n = 0 \/ gold[a] < n
  <2>1. UNCHANGED ledger
    BY <1>2 DEF TakeGold
  <2>2. Undisturbed /\ Owned' = Owned
    BY <2>1 DEF Undisturbed, Owned
  <2> QED BY <1>1, <1>2, <2>2, OwnedType
<1>3. CASE ~ (n = 0 \/ gold[a] < n)
  <2>1. 0 - n \in Int /\ Pay(a, 0 - n)
    BY <1>3 DEF TakeGold
  <2>2. Undisturbed /\ Owned' = Owned + (0 - n)
    BY <2>1, LedgerChange
  <2> QED BY <1>1, <1>3, <2>2, OwnedType
<1> QED BY <1>2, <1>3

\* A step of a handler leaves the other handlers and, until it is done, its own offers.
LEMMA HandlerGoes ==
  ASSUME TradeInv, NEW l \in Lanes, NEW step \in Steps, Step(l, step) \/ Done(l)
  PROVE  /\ \A k \in Lanes \ {l} : handler'[k] = handler[k]
         /\ Step(l, step) => /\ handler'[l].step = step
                             /\ handler'[l].offers = handler[l].offers
         /\ Done(l) => handler'[l].step = "idle"
<1>1. handler \in [Lanes -> Snapshot]
  BY DEF TradeInv, TradeTypeOK
<1> QED BY <1>1 DEF Step, Done, NoSnapshot, Snapshot

\* What the swap on lane l takes or gives is on the way afterwards, or was before.
LEMMA SwapMoves ==
  ASSUME ComposedInv, ComposedInv', Undisturbed', NEW l \in Lanes,
         TakeFromA(l) \/ TakeFromB(l) \/ RefundA(l) \/ GiveToA(l) \/ GiveToB(l)
  PROVE  /\ Undisturbed /\ UNCHANGED <<paid, earned>>
         /\ Owned' + Taken(l)' = Owned + Taken(l)
         /\ \A k \in Lanes \ {l} : handler'[k] = handler[k]
<1> DEFINE x == handler[l].offers[1]
           y == handler[l].offers[2]
           a == pair[l][1]
           b == pair[l][2]
<1>1. TradeInv /\ GoldInv /\ GoldInv' /\ PairTyped /\ PairsOwned
  BY DEF ComposedInv
<1>2. UNCHANGED <<paid, earned>>
  BY DEF TakeFromA, TakeFromB, RefundA, GiveToA, GiveToB, OtherGold
<1>3. x \in Nat /\ y \in Nat
  BY <1>1 DEF TradeInv, TradeTypeOK, Snapshot, Terms
<1>4. handler[l].step \in Swapping
  BY DEF TakeFromA, TakeFromB, RefundA, GiveToA, GiveToB, TakeA, TakeB, Refund, GiveA, GiveB, Swapping
<1>5. /\ a \in Actors /\ owner[a] \in Players
      /\ b \in Actors /\ owner[b] \in Players
  BY <1>1, <1>4 DEF PairsOwned, PairTyped, Actors
<1> DEFINE ok == gold[a] >= x
           enough == gold[b] >= y
<1>6. CASE TakeFromA(l)
  <2>1. /\ handler[l].step = "takeA" /\ TakeGold(a, x)
        /\ (ok /\ Step(l, "takeB")) \/ (~ ok /\ Done(l))
    BY <1>6 DEF TakeFromA, TakeA
  <2>2. /\ Undisturbed /\ Owned \in Int
        /\ Owned' = IF ok THEN Owned - x ELSE Owned
    BY <1>1, <1>3, <1>5, <2>1, TakeOwns
  <2>3. \A k \in Lanes \ {l} : handler'[k] = handler[k]
    BY <1>1, <2>1, HandlerGoes DEF Steps
  <2>4. Taken(l) = 0 /\ Taken(l)' = IF ok THEN x ELSE 0
    <3>1. /\ ok => handler'[l].step = "takeB" /\ handler'[l].offers = handler[l].offers
          /\ ~ ok => handler'[l].step = "idle"
      BY <1>1, <2>1, HandlerGoes DEF Steps
    <3> QED BY <2>1, <3>1 DEF Taken
  <2> HIDE DEF x, a, ok
  <2> QED BY <1>2, <1>3, <2>2, <2>3, <2>4
<1>7. CASE TakeFromB(l)
  <2>1. /\ handler[l].step = "takeB" /\ TakeGold(b, y)
        /\ Step(l, IF enough THEN "giveA" ELSE "refund")
    BY <1>7 DEF TakeFromB, TakeB
  <2>2. /\ Undisturbed /\ Owned \in Int
        /\ Owned' = IF enough THEN Owned - y ELSE Owned
    BY <1>1, <1>3, <1>5, <2>1, TakeOwns
  <2>3. /\ \A k \in Lanes \ {l} : handler'[k] = handler[k]
        /\ handler'[l].step = IF enough THEN "giveA" ELSE "refund"
        /\ handler'[l].offers = handler[l].offers
    <3>1. (IF enough THEN "giveA" ELSE "refund") \in Steps
      BY DEF Steps
    <3> QED BY <1>1, <2>1, <3>1, HandlerGoes
  <2>4. Taken(l) = x /\ Taken(l)' = IF enough THEN x + y ELSE x
    BY <2>1, <2>3 DEF Taken
  <2> HIDE DEF x, y, b, enough
  <2> QED BY <1>2, <1>3, <2>2, <2>3, <2>4
<1>8. CASE RefundA(l)
  <2>1. handler[l].step = "refund" /\ GiveGold(a, x) /\ Done(l)
    BY <1>8 DEF RefundA, Refund, Refunded
  <2>2. Undisturbed /\ Owned' = Owned + x /\ Owned \in Int
    BY <1>1, <1>3, <1>5, <2>1, GiveOwns, OwnedType
  <2>3. (\A k \in Lanes \ {l} : handler'[k] = handler[k]) /\ handler'[l].step = "idle"
    BY <1>1, <2>1, HandlerGoes DEF Steps
  <2>4. Taken(l) = x /\ Taken(l)' = 0
    BY <2>1, <2>3 DEF Taken
  <2> HIDE DEF x, a
  <2> QED BY <1>2, <1>3, <2>2, <2>3, <2>4
<1>9. CASE GiveToA(l)
  <2>1. handler[l].step = "giveA" /\ GiveGold(a, y) /\ Step(l, "giveB")
    BY <1>9 DEF GiveToA, GiveA
  <2>2. Undisturbed /\ Owned' = Owned + y /\ Owned \in Int
    BY <1>1, <1>3, <1>5, <2>1, GiveOwns, OwnedType
  <2>3. /\ \A k \in Lanes \ {l} : handler'[k] = handler[k]
        /\ handler'[l].step = "giveB" /\ handler'[l].offers = handler[l].offers
    BY <1>1, <2>1, HandlerGoes DEF Steps
  <2>4. Taken(l) = x + y /\ Taken(l)' = x
    BY <2>1, <2>3 DEF Taken
  <2> HIDE DEF x, y, a
  <2> QED BY <1>2, <1>3, <2>2, <2>3, <2>4
<1>10. CASE GiveToB(l)
  <2>1. handler[l].step = "giveB" /\ GiveGold(b, x) /\ Done(l)
    BY <1>10 DEF GiveToB, GiveB
  <2>2. Undisturbed /\ Owned' = Owned + x /\ Owned \in Int
    BY <1>1, <1>3, <1>5, <2>1, GiveOwns, OwnedType
  <2>3. (\A k \in Lanes \ {l} : handler'[k] = handler[k]) /\ handler'[l].step = "idle"
    BY <1>1, <2>1, HandlerGoes DEF Steps
  <2>4. Taken(l) = x /\ Taken(l)' = 0
    BY <2>1, <2>3 DEF Taken
  <2> HIDE DEF x, b
  <2> QED BY <1>2, <1>3, <2>2, <2>3, <2>4
<1> QED BY <1>6, <1>7, <1>8, <1>9, <1>10

\* A step that leaves what every swap has taken alone leaves its sum alone.
LEMMA NothingTaken ==
  ASSUME \A l \in Lanes : Taken(l)' = Taken(l)
  PROVE  OnTheWay' = OnTheWay
<1>1. [l \in Lanes |-> Taken(l)'] = [l \in Lanes |-> Taken(l)]
  OBVIOUS
<1>2. OnTheWay' = Total([l \in Lanes |-> Taken(l)'])
  BY DEF OnTheWay
<1> QED BY <1>1, <1>2 DEF OnTheWay

LEMMA OnTheWayType ==
  ASSUME TradeInv
  PROVE  OnTheWay \in Int
BY TakenType, TradeGoldAssumption, TotalType DEF OnTheWay

LEMMA PaidType ==
  ASSUME GoldInv
  PROVE  Total(paid) \in Int /\ earned \in Int /\ Total(Wealth) \in Int
<1>1. paid \in [Mails -> Int] /\ earned \in Int
  BY DEF GoldInv, GoldTypeOK
<1>2. Wealth \in [Players -> Int] /\ IsFiniteSet(Players)
  BY PlayerGoldAssumption DEF PlayerGoldAssumption
<1> QED BY <1>1, <1>2, TradeGoldAssumption, TotalType

LEMMA ConservedNext ==
  ASSUME ComposedInv, ComposedInv', Conserved, [Next]_vars
  PROVE  Conserved'
<1> SUFFICES ASSUME Undisturbed'
             PROVE  Owned' + OnTheWay' = Total(Wealth) + Total(paid)' + earned'
  BY DEF Conserved
<1>1. TradeInv /\ TradeInv' /\ GoldInv /\ GoldInv'
  BY DEF ComposedInv
<1>2. OnTheWay \in Int /\ Total(paid) \in Int /\ earned \in Int /\ Total(Wealth) \in Int
  BY <1>1, OnTheWayType, PaidType
\* it is enough that nothing is counted anew
<1>3. ASSUME UNCHANGED <<ledger, paid, earned>>, \A k \in Lanes : Taken(k)' = Taken(k)
      PROVE  Owned' + OnTheWay' = Total(Wealth) + Total(paid)' + earned'
  <2>1. Undisturbed /\ Owned' = Owned
    BY <1>3 DEF Undisturbed, Owned
  <2>2. OnTheWay' = OnTheWay
    BY <1>3, NothingTaken
  <2> QED BY <1>3, <2>1, <2>2 DEF Conserved
<1>4. ASSUME UNCHANGED handler PROVE \A k \in Lanes : Taken(k)' = Taken(k)
  BY <1>4 DEF Taken
<1>5. CASE UNCHANGED vars
  BY <1>3, <1>4, <1>5 DEF vars, goldVars, tradeVars
<1>6. CASE Reward
  <2>1. PICK p \in Players : Earn(p)
    BY <1>6 DEF Reward
  <2>2. /\ current[p] \in Actors /\ owner[current[p]] \in Players
        /\ Pay(current[p], 1) /\ earned' = earned + 1 /\ UNCHANGED paid
    BY <1>1, <2>1 DEF Earn, GoldInv, GoldTypeOK, ActorsOwned, Online, Actors
  <2>3. Undisturbed /\ Owned' = Owned + 1 /\ Owned \in Int
    BY <1>1, <2>2, LedgerChange, OwnedType
  <2>4. OnTheWay' = OnTheWay
    BY <1>4, <1>6, NothingTaken DEF Reward, tradeVars
  <2> QED BY <1>2, <2>2, <2>3, <2>4 DEF Conserved
<1>7. ASSUME NEW l \in Lanes, ManagerOnly(l) \/ LookupActors(l) \/ FinishTrade(l)
      PROVE  Owned' + OnTheWay' = Total(Wealth) + Total(paid)' + earned'
  <2>1. UNCHANGED <<ledger, paid, earned>>
    BY <1>7 DEF ManagerOnly, LookupActors, FinishTrade, goldVars
  <2>2. CASE UNCHANGED handler
    BY <1>3, <1>4, <2>1, <2>2
  <2>3. CASE Confirm(l) \/ LookupActors(l) \/ FinishTrade(l)
    <3>1. handler \in [Lanes -> Snapshot]
      BY <1>1 DEF TradeInv, TradeTypeOK
    <3>2. \A k \in Lanes \ {l} : handler'[k] = handler[k]
      BY <2>3, <3>1
      DEF Confirm, LookupActors, Lookup, FinishTrade, Finish, Step, Done
    <3>3. /\ handler[l].step \in {"idle", "lookup", "finish"}
          /\ handler'[l].step \in {"idle", "lookup", "finish", "takeA"}
      BY <2>3, <3>1
      DEF Confirm, LookupActors, Lookup, FinishTrade, Finish, Step, Done, Idling, NoSnapshot,
          Snapshot
    <3>4. Taken(l) = 0 /\ Taken(l)' = 0
      BY <3>3 DEF Taken
    <3>5. \A k \in Lanes : Taken(k)' = Taken(k)
      BY <3>2, <3>4 DEF Taken
    <3> QED BY <1>3, <2>1, <3>5
  <2> QED
    BY <1>7, <2>2, <2>3 DEF ManagerOnly, Start, SetGold, CancelTrade, Cancel
<1>8. ASSUME NEW l \in Lanes, GoldOnly(l) \/ LogoutAndCancel(l)
      PROVE  Owned' + OnTheWay' = Total(Wealth) + Total(paid)' + earned'
  <2>1. LaneStep(l) /\ UNCHANGED handler
    BY <1>8 DEF GoldOnly, LogoutAndCancel, LaneStep, CancelOffline, Cancel, tradeVars
  <2>2. CASE ~ ClaimPay(l)
    BY <1>1, <1>3, <1>4, <2>1, <2>2, LaneStepOwns
  <2>3. CASE ClaimPay(l)
    <3>1. /\ Undisturbed /\ earned' = earned
          /\ \/ UNCHANGED <<ledger, paid>>
             \/ Owned' = Owned + 1 /\ Total(paid)' = Total(paid) + 1
      BY <1>1, <2>3, ClaimOwns
    <3>2. OnTheWay' = OnTheWay /\ Owned \in Int
      BY <1>1, <1>4, <2>1, <3>1, NothingTaken, OwnedType
    <3>3. CASE UNCHANGED <<ledger, paid>>
      BY <1>3, <1>4, <2>1, <3>1, <3>3
    <3>4. CASE Owned' = Owned + 1 /\ Total(paid)' = Total(paid) + 1
      BY <1>2, <3>1, <3>2, <3>4 DEF Conserved
    <3> QED BY <3>1, <3>3, <3>4
  <2> QED BY <2>2, <2>3
<1>9. ASSUME NEW l \in Lanes,
             TakeFromA(l) \/ TakeFromB(l) \/ RefundA(l) \/ GiveToA(l) \/ GiveToB(l)
      PROVE  Owned' + OnTheWay' = Total(Wealth) + Total(paid)' + earned'
  <2>1. /\ Undisturbed /\ UNCHANGED <<paid, earned>>
        /\ Owned' + Taken(l)' = Owned + Taken(l)
        /\ \A k \in Lanes \ {l} : handler'[k] = handler[k]
    BY <1>9, SwapMoves
  <2>2. /\ OnTheWay' = OnTheWay + (Taken(l)' - Taken(l))
        /\ Taken(l) \in Int /\ Taken(l)' \in Int
    BY <1>1, <2>1, TakenChange
  <2>3. Owned \in Int /\ Owned' \in Int
    <3>1. Owned \in Int
      BY <1>1, <2>1, OwnedType
    <3>2. ledger' \in [Players -> Int]
      BY <1>1 DEF GoldInv, GoldTypeOK, Undisturbed
    <3>3. Total(ledger') \in Int
      BY <3>2, PlayerGoldAssumption, TotalType DEF PlayerGoldAssumption
    <3> QED BY <3>1, <3>3 DEF Owned
  <2>4. Owned + OnTheWay = Total(Wealth) + Total(paid) + earned
    BY <2>1 DEF Conserved
  <2>5. Total(paid)' = Total(paid) /\ earned' = earned
    BY <2>1
  <2> QED BY <1>2, <2>1, <2>2, <2>3, <2>4, <2>5
<1> QED BY <1>5, <1>6, <1>7, <1>8, <1>9 DEF Next

LEMMA ConservedInit ==
  ASSUME Init, ComposedInv
  PROVE  Conserved
<1>1. TradeInv /\ GoldInv
  BY DEF ComposedInv
<1>2. ledger = Wealth /\ earned = 0 /\ paid = [m \in Mails |-> 0]
  BY DEF Init, GoldInit
<1>3. Total(paid) = 0
  BY <1>2, TradeGoldAssumption, TotalOfZeros
<1>4. OnTheWay = 0
  <2> DEFINE f == [l \in Lanes |-> Taken(l)]
  <2>1. f \in [Lanes -> Int]
    BY <1>1, TakenType
  <2>2. \A l \in Lanes : f[l] = 0
    BY DEF Init, TradeInit, NoSnapshot, Taken
  <2>3. OnTheWay = Total(f)
    BY DEF OnTheWay
  <2> HIDE DEF f
  <2> QED BY <2>1, <2>2, <2>3, TradeGoldAssumption, TotalOfZeros
<1>5. Total(Wealth) \in Int
  BY <1>1, PaidType
<1> QED BY <1>2, <1>3, <1>4, <1>5 DEF Conserved, Owned

\* What an undisturbed player has is what he owns, in his actor or in his row.
LEMMA WorthOwned ==
  ASSUME ComposedInv, Conserved
  PROVE  GoldConserved
<1> SUFFICES ASSUME Undisturbed
             PROVE  Total([p \in Players |-> Worth(p)]) + OnTheWay
                      = Total(Wealth) + Total(paid) + earned
  BY DEF Undisturbed, GoldConserved, OnTheWay
<1>1. GoldInv
  BY DEF ComposedInv
<1>2. \A p \in Players : Worth(p) = ledger[p]
  BY <1>1 DEF GoldInv, KeptInv, Worth, Undisturbed
<1>3. ledger \in [Players -> Nat \union {Nobody}]
  BY <1>1 DEF GoldInv, GoldTypeOK
<1>4. [p \in Players |-> Worth(p)] = ledger
  BY <1>2, <1>3
<1> QED BY <1>4 DEF Conserved, Owned

\* Trades neither make nor destroy gold, whoever logs in or out meanwhile: what a swap has
\* taken it gives to the other party or back, and nothing is given twice, unless a player
\* was disturbed.  (ExecuteSwap, LeaveGame)
THEOREM TradesConserveGold == Spec => []GoldConserved
<1>1. Init => ComposedInv /\ Conserved
  BY ComposedInvInit, ConservedInit
<1>2. ComposedInv /\ Conserved /\ [Next]_vars => (ComposedInv /\ Conserved)'
  BY ComposedInvNext, ConservedNext
<1>3. ComposedInv /\ Conserved => GoldConserved
  BY WorthOwned
<1> QED BY <1>1, <1>2, <1>3, PTL DEF Spec
=============================================================================
