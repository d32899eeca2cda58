------------------------- MODULE BrowserPoolProofs -------------------------
(* Proofs about BrowserPool for any number of fetches and tokens: tokens   *)
(* are conserved, and with as many tokens as fetches under way and calls   *)
(* of ClearBot, whoever waits for a browser with the mutex held is served. *)
EXTENDS BrowserPool, FiniteSetTheorems, SequenceTheorems, TLAPS

-----------------------------------------------------------------------------
LEMMA SetsAreFinite ==
  /\ IsFiniteSet(Holders) /\ IsFiniteSet(Clearing) /\ IsFiniteSet(UnderWay)
  /\ Cardinality(Holders) \in Nat /\ Cardinality(Clearing) \in Nat
  /\ Cardinality(UnderWay) \in Nat
<1>1. /\ Holders \subseteq Users /\ Clearing \subseteq Users
      /\ UnderWay \subseteq Users
  BY DEF Holders, Clearing, UnderWay, Users
<1> QED
  BY <1>1, PoolAssumption, FS_Subset, FS_CardinalityType

(* What a step does to the three sets the counts are of.                   *)
LEMMA GoAlone ==
  ASSUME TypeOK, NEW u \in Users, NEW place \in Places, Go(u, place)
  PROVE  /\ at' \in [Users -> Places] /\ at'[u] = place
         /\ \A v \in Users : v # u => at'[v] = at[v]
BY DEF TypeOK, Go

LEMMA InitPool == Init => PoolInv
<1> SUFFICES ASSUME Init PROVE PoolInv
  OBVIOUS
<1> USE PoolAssumption
<1>1. Tokens \in Seq(Nat) /\ Len(Tokens) = Parallelism
  <2>1. Tokens \in [1..Parallelism -> Nat]
    BY DEF Tokens
  <2> QED
    BY <2>1 DEF Tokens
<1>2. TypeOK
  BY <1>1 DEF Init, TypeOK, Places, Users
<1>3. Holders = {} /\ Clearing = {} /\ UnderWay = {}
  BY DEF Init, Holders, Clearing, UnderWay, Users
<1>4. TokensConserved
  BY <1>1, <1>3, FS_EmptySet DEF Init, TokensConserved
<1>5. WithinBounds
  BY <1>3, FS_EmptySet DEF Init, WithinBounds
<1> QED
  BY <1>2, <1>4, <1>5 DEF PoolInv

-----------------------------------------------------------------------------
LEMMA TypeStep ==
  ASSUME PoolInv, [Next]_vars
  PROVE  TypeOK'
<1> USE PoolAssumption DEF PoolInv
<1>1. CASE UNCHANGED vars
  BY <1>1 DEF TypeOK, vars, poolVars, pageVars
<1>2. ASSUME NEW f \in Fetches, Enter(f)
      PROVE  TypeOK'
  <2>1. at' \in [Users -> Places]
    BY <1>2, GoAlone DEF Enter, Users, Places
  <2> QED
    BY <1>2, <2>1 DEF Enter, TypeOK, poolVars, pageVars
<1>3. ASSUME NEW c \in Closers, ClearBot(c)
      PROVE  TypeOK'
  <2>1. at' \in [Users -> Places]
    BY <1>3, GoAlone DEF ClearBot, Users, Places
  <2>2. clears' \in Nat
    BY <1>3 DEF ClearBot, TypeOK
  <2> QED
    BY <1>3, <2>1, <2>2 DEF ClearBot, TypeOK, poolVars, pageVars
<1>4. ASSUME NEW u \in Users, GetLock(u)
      PROVE  TypeOK'
  BY <1>4, GoAlone DEF GetLock, TypeOK, Places, pageVars
<1>5. ASSUME NEW u \in Users, GetBot(u)
      PROVE  TypeOK'
  <2>1. bots' \in Seq(Nat) /\ Head(bots) \in Nat
    BY <1>5, HeadTailProperties DEF GetBot, TypeOK
  <2>2. nBots' \in Nat
    BY <1>5 DEF GetBot, TypeOK
  <2>3. bot' \in [Fetches -> Nat]
    <3>1. nBots + 1 \in Nat
      BY DEF TypeOK
    <3> QED
      BY <1>5, <2>1, <3>1 DEF GetBot, TypeOK
  <2>4. at' \in [Users -> Places]
    BY <1>5, GoAlone DEF GetBot, Places
  <2> QED
    BY <1>5, <2>1, <2>2, <2>3, <2>4 DEF GetBot, TypeOK, pageVars
<1>6. ASSUME NEW f \in Fetches, GetPage(f)
      PROVE  TypeOK'
  <2>1. pages' \in Seq(Nat) /\ Head(pages) \in Nat
    BY <1>6, HeadTailProperties DEF GetPage, TypeOK
  <2>2. nPages' \in Nat
    BY <1>6 DEF GetPage, TypeOK
  <2>3. page' \in [Fetches -> Nat]
    <3>1. nPages + 1 \in Nat
      BY DEF TypeOK
    <3> QED
      BY <1>6, <2>1, <3>1 DEF GetPage, TypeOK
  <2>4. at' \in [Users -> Places]
    BY <1>6, GoAlone DEF GetPage, Places, Users
  <2> QED
    BY <1>6, <2>1, <2>2, <2>3, <2>4 DEF GetPage, TypeOK, poolVars
<1>7. ASSUME NEW f \in Fetches, PutPage(f)
      PROVE  TypeOK'
  <2>1. pages' \in Seq(Nat)
    BY <1>7, AppendProperties DEF PutPage, Returned, TypeOK
  <2> QED
    BY <1>7, <2>1, GoAlone DEF PutPage, TypeOK, Users, Places, poolVars
<1>8. ASSUME NEW f \in Fetches, PutLock(f)
      PROVE  TypeOK'
  BY <1>8, GoAlone DEF PutLock, TypeOK, Users, Places, pageVars
<1>9. ASSUME NEW f \in Fetches, PutBot(f)
      PROVE  TypeOK'
  <2>1. bots' \in Seq(Nat)
    BY <1>9, AppendProperties DEF PutBot, WithBot, TypeOK
  <2> QED
    BY <1>9, <2>1, GoAlone DEF PutBot, TypeOK, Users, Places, pageVars
<1>10. ASSUME NEW f \in Fetches, Navigate(f)
       PROVE  TypeOK'
  BY <1>10, GoAlone DEF Navigate, TypeOK, Users, Places, poolVars, pageVars
<1>11. ASSUME NEW f \in Fetches, Leave(f)
       PROVE  TypeOK'
  BY <1>11, GoAlone DEF Leave, TypeOK, Users, Places, poolVars
<1> QED
  BY <1>1, <1>2, <1>3, <1>4, <1>5, <1>6, <1>7, <1>8, <1>9, <1>10, <1>11
     DEF Next, Starts, Queues, Proceeds

-----------------------------------------------------------------------------
(* The conservation of tokens, action by action: receiving moves a token   *)
(* from the channel to a fetch or out of the pool, Put moves it back.      *)
LEMMA ConservationStep ==
  ASSUME PoolInv, [Next]_vars
  PROVE  TokensConserved'
<1> USE PoolAssumption DEF PoolInv
<1>1. /\ Len(bots) \in Nat /\ clears \in Nat
      /\ Len(bots) + Cardinality(Holders) + clears
           = Parallelism + Cardinality(Clearing)
  BY DEF TypeOK, TokensConserved
<1>2. ASSUME UNCHANGED <<bots, clears>>, Holders' = Holders,
             Clearing' = Clearing
      PROVE  TokensConserved'
  BY <1>1, <1>2 DEF TokensConserved
<1>3. ASSUME NEW u \in Users, NEW place \in Places, Go(u, place),
             UNCHANGED <<bots, clears>>,
             u \in Holders <=> u \in Holders',
             u \in Clearing <=> u \in Clearing'
      PROVE  TokensConserved'
  <2>1. \A v \in Users : v # u => at'[v] = at[v]
    BY <1>3, GoAlone
  <2>2. Holders' = Holders /\ Clearing' = Clearing
    BY <1>3, <2>1 DEF Holders, Clearing, Users
  <2> QED
    BY <1>2, <1>3, <2>2
<1>4. CASE UNCHANGED vars
  <2>1. UNCHANGED <<at, bots, clears>>
    BY <1>4 DEF vars, poolVars
  <2>2. Holders' = Holders /\ Clearing' = Clearing
    BY <2>1 DEF Holders, Clearing
  <2> QED
    BY <1>2, <2>1, <2>2
<1>5. ASSUME NEW f \in Fetches,
             Enter(f) \/ GetPage(f) \/ PutPage(f) \/ PutLock(f) \/ Navigate(f)
               \/ Leave(f)
      PROVE  TokensConserved'
  <2>1. f \in Users /\ f \notin Closers /\ UNCHANGED <<bots, clears>>
    BY <1>5 DEF Users, Enter, GetPage, PutPage, PutLock, Navigate, Leave,
                poolVars
  <2>2. f \notin Clearing /\ f \notin Clearing'
    BY <2>1 DEF Clearing
  <2>3. ASSUME NEW place \in Places, Go(f, place),
               at[f] \in {"page", "putPage", "putBot", "send"}
                 <=> place \in {"page", "putPage", "putBot", "send"}
        PROVE  TokensConserved'
    <3>1. at'[f] = place
      BY <2>1, <2>3, GoAlone
    <3>2. f \in Holders <=> f \in Holders'
      BY <2>3, <3>1 DEF Holders
    <3> QED
      BY <1>3, <2>1, <2>2, <2>3, <3>2
  <2> QED
    BY <1>5, <2>3
       DEF Enter, GetPage, PutPage, PutLock, Navigate, Leave, Places
<1>6. ASSUME NEW u \in Users, GetLock(u)
      PROVE  TokensConserved'
  <2>1. /\ at[u] = "get" /\ at'[u] = "receive"
        /\ Go(u, "receive") /\ UNCHANGED <<bots, clears>>
    BY <1>6, GoAlone DEF GetLock, Places
  <2>2. "receive" \in Places
    BY DEF Places
  <2>3. /\ u \notin Holders /\ u \notin Holders'
        /\ u \in Clearing <=> u \in Clearing'
    BY <2>1 DEF Holders, Clearing
  <2> QED
    BY <1>3, <2>1, <2>2, <2>3
<1>7. ASSUME NEW c \in Closers, ClearBot(c)
      PROVE  TokensConserved'
  <2>1. /\ c \in Users /\ c \notin Fetches
        /\ at[c] = "idle" /\ at'[c] = "get"
        /\ \A v \in Users : v # c => at'[v] = at[v]
        /\ UNCHANGED bots /\ clears' = clears + 1
    BY <1>7, GoAlone DEF ClearBot, Users, Places, poolVars
  <2>2. Holders' = Holders /\ Clearing' = Clearing \cup {c} /\ c \notin Clearing
    BY <2>1 DEF Holders, Clearing, Users
  <2>3. Cardinality(Clearing') = Cardinality(Clearing) + 1
    BY <2>2, SetsAreFinite, FS_AddElement
  <2> QED
    BY <1>1, <2>1, <2>2, <2>3, SetsAreFinite DEF TokensConserved
<1>8. ASSUME NEW u \in Users, GetBot(u)
      PROVE  TokensConserved'
  <2>1. /\ at[u] = "receive" /\ UNCHANGED clears
        /\ \A v \in Users : v # u => at'[v] = at[v]
        /\ u \in Fetches => at'[u] = "page"
        /\ u \in Closers => at'[u] = "idle"
    BY <1>8, GoAlone DEF GetBot, Places
  <2>2. Len(bots') = Len(bots) - 1
    BY <1>8, HeadTailProperties DEF GetBot, TypeOK
  <2>3. CASE u \in Fetches
    <3>1. Holders' = Holders \cup {u} /\ u \notin Holders /\ Clearing' = Clearing
      BY <2>1, <2>3 DEF Holders, Clearing, Users
    <3>2. Cardinality(Holders') = Cardinality(Holders) + 1
      BY <3>1, SetsAreFinite, FS_AddElement
    <3> QED
      BY <1>1, <2>1, <2>2, <3>1, <3>2, SetsAreFinite DEF TokensConserved
  <2>4. CASE u \in Closers
    <3>1. Clearing' = Clearing \ {u} /\ u \in Clearing /\ Holders' = Holders
      BY <2>1, <2>4 DEF Holders, Clearing, Users
    <3>2. Cardinality(Clearing') = Cardinality(Clearing) - 1
      BY <3>1, SetsAreFinite, FS_RemoveElement
    <3> QED
      BY <1>1, <2>1, <2>2, <3>1, <3>2, SetsAreFinite DEF TokensConserved
  <2> QED
    BY <2>3, <2>4 DEF Users
<1>9. ASSUME NEW f \in Fetches, PutBot(f)
      PROVE  TokensConserved'
  <2>1. /\ f \in Users /\ f \notin Closers /\ UNCHANGED clears
        /\ at[f] = "send" /\ at'[f] = "visit"
        /\ \A v \in Users : v # f => at'[v] = at[v]
    BY <1>9, GoAlone DEF PutBot, Users, Places
  <2>2. Len(bots') = Len(bots) + 1
    BY <1>9, AppendProperties DEF PutBot, WithBot, TypeOK
  <2>3. Holders' = Holders \ {f} /\ f \in Holders /\ Clearing' = Clearing
    BY <2>1 DEF Holders, Clearing, Users
  <2>4. Cardinality(Holders') = Cardinality(Holders) - 1
    BY <2>3, SetsAreFinite, FS_RemoveElement
  <2> QED
    BY <1>1, <2>1, <2>2, <2>3, <2>4, SetsAreFinite DEF TokensConserved
<1> QED
  BY <1>4, <1>5, <1>6, <1>7, <1>8, <1>9 DEF Next, Starts, Queues, Proceeds

LEMMA BoundsStep ==
  ASSUME PoolInv, [Next]_vars
  PROVE  WithinBounds'
<1> USE PoolAssumption DEF PoolInv
<1>1. /\ Cardinality(UnderWay) <= Gate
      /\ Cardinality(Clearing) <= clears /\ clears <= MaxClears
      /\ clears \in Nat
  BY DEF WithinBounds, TypeOK
<1>2. ASSUME UNCHANGED clears, UnderWay' \subseteq UnderWay,
             Clearing' \subseteq Clearing
      PROVE  WithinBounds'
  <2>1. /\ Cardinality(UnderWay') <= Cardinality(UnderWay)
        /\ Cardinality(UnderWay') \in Nat
    BY <1>2, SetsAreFinite, FS_Subset, FS_CardinalityType
  <2>2. /\ Cardinality(Clearing') <= Cardinality(Clearing)
        /\ Cardinality(Clearing') \in Nat
    BY <1>2, SetsAreFinite, FS_Subset, FS_CardinalityType
  <2> QED
    BY <1>1, <1>2, <2>1, <2>2, SetsAreFinite DEF WithinBounds
<1>3. CASE UNCHANGED vars
  BY <1>2, <1>3 DEF vars, UnderWay, Clearing
<1>4. ASSUME NEW f \in Fetches, Enter(f)
      PROVE  WithinBounds'
  <2>1. /\ at[f] = "idle" /\ at'[f] = "get" /\ f \notin Closers
        /\ \A v \in Users : v # f => at'[v] = at[v]
        /\ Cardinality(UnderWay) < Gate /\ UNCHANGED clears
    BY <1>4, GoAlone DEF Enter, Room, Users, Places
  <2>2. UnderWay' = UnderWay \cup {f} /\ f \notin UnderWay /\ Clearing' = Clearing
    BY <2>1 DEF UnderWay, Clearing, Users
  <2>3. Cardinality(UnderWay') = Cardinality(UnderWay) + 1
    BY <2>2, SetsAreFinite, FS_AddElement
  <2> QED
    BY <1>1, <2>1, <2>2, <2>3, SetsAreFinite DEF WithinBounds
<1>5. ASSUME NEW c \in Closers, ClearBot(c)
      PROVE  WithinBounds'
  <2>1. /\ at[c] = "idle" /\ at'[c] = "get" /\ c \notin Fetches
        /\ \A v \in Users : v # c => at'[v] = at[v]
        /\ clears < MaxClears /\ clears' = clears + 1
    BY <1>5, GoAlone DEF ClearBot, Users, Places
  <2>2. UnderWay' = UnderWay /\ Clearing' = Clearing \cup {c} /\ c \notin Clearing
    BY <2>1 DEF UnderWay, Clearing, Users
  <2>3. Cardinality(Clearing') = Cardinality(Clearing) + 1
    BY <2>2, SetsAreFinite, FS_AddElement
  <2> QED
    BY <1>1, <2>1, <2>2, <2>3, SetsAreFinite DEF WithinBounds
<1>6. ASSUME NEW u \in Users, NEW place \in Places, Go(u, place),
             UNCHANGED clears, at[u] # "idle",
             place \in {"get", "receive"} => at[u] \in {"get", "receive"}
      PROVE  WithinBounds'
  <2>1. at'[u] = place /\ \A v \in Users : v # u => at'[v] = at[v]
    BY <1>6, GoAlone
  <2>2. UnderWay' \subseteq UnderWay /\ Clearing' \subseteq Clearing
    BY <1>6, <2>1 DEF UnderWay, Clearing, Users
  <2> QED
    BY <1>2, <1>6, <2>2
<1>7. ASSUME NEW u \in Users, GetLock(u) \/ GetBot(u)
      PROVE  WithinBounds'
  BY <1>6, <1>7 DEF GetLock, GetBot, Places, Users
<1>8. ASSUME NEW f \in Fetches,
             GetPage(f) \/ PutPage(f) \/ PutLock(f) \/ PutBot(f) \/ Navigate(f)
               \/ Leave(f)
      PROVE  WithinBounds'
  <2>1. f \in Users
    BY DEF Users
  <2> QED
    BY <1>6, <1>8, <2>1
       DEF GetPage, PutPage, PutLock, PutBot, Navigate, Leave, Places
<1> QED
  BY <1>3, <1>4, <1>5, <1>7, <1>8 DEF Next, Starts, Queues, Proceeds

-----------------------------------------------------------------------------
THEOREM PoolInvariant == Spec => []PoolInv
<1>1. PoolInv /\ [Next]_vars => PoolInv'
  BY TypeStep, ConservationStep, BoundsStep DEF PoolInv
<1> QED
  BY InitPool, <1>1, PTL DEF Spec

(* createPage (bot.go:116-131) returns every token it takes, in every      *)
(* interleaving of fetches and ClearBot.                                   *)
THEOREM TokensAreConserved == Spec => []TokensConserved
<1>1. PoolInv => TokensConserved
  BY DEF PoolInv
<1> QED
  BY PoolInvariant, <1>1, PTL

(* BotPoolManager.Put (botpool.go:31-35) finds room: it never blocks with  *)
(* the mutex held.                                                         *)
THEOREM PutNeverBlocks == Spec => []PutHasRoom
<1>1. PoolInv => PutHasRoom
  <2> SUFFICES ASSUME PoolInv, NEW f \in Fetches, at[f] = "send"
               PROVE  Len(bots) < Parallelism
    BY DEF PutHasRoom
  <2>1. Cardinality(Holders) # 0
    <3>1. f \in Holders
      BY DEF Holders
    <3> QED
      BY <3>1, SetsAreFinite, FS_EmptySet
  <2>2. Len(bots) \in Nat /\ clears \in Nat
    BY DEF PoolInv, TypeOK
  <2> QED
    BY <2>1, <2>2, SetsAreFinite, PoolAssumption
       DEF PoolInv, TokensConserved, WithinBounds
<1> QED
  BY PoolInvariant, <1>1, PTL

(* BotPoolManager.Get (botpool.go:23-29), which blocks with the mutex      *)
(* held, never has to, provided that fetches and ClearBot together ask for *)
(* no more browsers than the parallelism: the condition asyncFetch         *)
(* establishes with waitChan, and a queue with more threads than that      *)
(* breaks.                                                                 *)
THEOREM GetNeverBlocks ==
  ASSUME Gate + MaxClears <= Parallelism
  PROVE  Spec => []GetterIsServed
<1>1. PoolInv => GetterIsServed
  <2> SUFFICES ASSUME PoolInv, NEW u \in Users, at[u] = "receive"
               PROVE  bots # <<>>
    BY DEF GetterIsServed
  <2>1. /\ Len(bots) \in Nat /\ clears \in Nat
        /\ Len(bots) + Cardinality(Holders) + clears
             = Parallelism + Cardinality(Clearing)
        /\ Cardinality(UnderWay) <= Gate /\ clears <= MaxClears
    BY DEF PoolInv, TypeOK, TokensConserved, WithinBounds
  <2>2. Holders \subseteq UnderWay
    BY DEF Holders, UnderWay
  <2>3. Cardinality(Holders) <= Cardinality(UnderWay)
    BY <2>2, SetsAreFinite, FS_Subset
  <2>4. CASE u \in Fetches
    <3>1. u \in UnderWay /\ u \notin Holders
      BY <2>4 DEF UnderWay, Holders
    <3>2. Cardinality(Holders) # Cardinality(UnderWay)
      BY <2>2, <3>1, SetsAreFinite, FS_Subset
    <3>3. Len(bots) > 0
      BY <2>1, <2>3, <3>2, SetsAreFinite, PoolAssumption
    <3> QED
      BY <3>3
  <2>5. CASE u \in Closers
    <3>1. u \in Clearing
      BY <2>5 DEF Clearing
    <3>2. Cardinality(Clearing) # 0
      BY <3>1, SetsAreFinite, FS_EmptySet
    <3>3. Len(bots) > 0
      BY <2>1, <2>3, <3>2, SetsAreFinite, PoolAssumption
    <3> QED
      BY <3>3
  <2> QED
    BY <2>4, <2>5 DEF Users
<1> QED
  BY PoolInvariant, <1>1, PTL

-----------------------------------------------------------------------------
(* Taking the first token uses up a fresh one while there is one; putting  *)
(* a launched one behind the others leaves the fresh ones first.           *)
LEMMA TakeFirst ==
  ASSUME NEW tokens \in Seq(Nat), NEW n \in Nat,
         FreshFirst(tokens, n), tokens # <<>>
  PROVE  FreshFirst(Tail(tokens), IF Head(tokens) = 0 THEN n + 1 ELSE n)
<1> DEFINE rest == Tail(tokens)
           k == Parallelism - n
<1>1. /\ n <= Parallelism /\ k <= Len(tokens) /\ k \in Nat
      /\ \A i \in DOMAIN tokens : tokens[i] = 0 <=> i <= k
  BY PoolAssumption DEF FreshFirst
<1>2. /\ Head(tokens) = tokens[1] /\ Len(tokens) \in Nat \ {0}
      /\ DOMAIN tokens = 1..Len(tokens)
      /\ Len(rest) = Len(tokens) - 1 /\ DOMAIN rest = 1 .. Len(tokens) - 1
      /\ \A i \in 1 .. Len(tokens) - 1 : rest[i] = tokens[i + 1]
  BY HeadTailProperties
<1> HIDE DEF rest
<1>3. \A i \in DOMAIN rest : rest[i] = 0 <=> i + 1 <= k
  BY <1>1, <1>2
<1>4. CASE Head(tokens) = 0
  <2>1. 1 <= k
    BY <1>1, <1>2, <1>4
  <2>2. Parallelism - (n + 1) = k - 1 /\ n + 1 <= Parallelism
    BY <1>1, <2>1, PoolAssumption
  <2>3. \A i \in DOMAIN rest : rest[i] = 0 <=> i <= k - 1
    BY <1>1, <1>2, <1>3
  <2>4. k - 1 <= Len(rest)
    BY <1>1, <1>2
  <2> HIDE DEF k
  <2> QED
    BY <1>4, <2>2, <2>3, <2>4 DEF FreshFirst, rest
<1>5. CASE Head(tokens) # 0
  <2>1. k = 0
    BY <1>1, <1>2, <1>5
  <2>2. \A i \in DOMAIN rest : rest[i] = 0 <=> i <= k
    BY <1>2, <1>3, <2>1
  <2>3. k <= Len(rest) /\ k = Parallelism - n
    BY <1>2, <2>1
  <2> HIDE DEF k
  <2> QED
    BY <1>1, <1>5, <2>2, <2>3 DEF FreshFirst, rest
<1> QED
  BY <1>4, <1>5

LEMMA PutBehind ==
  ASSUME NEW tokens \in Seq(Nat), NEW n \in Nat, NEW t \in Nat \ {0},
         FreshFirst(tokens, n)
  PROVE  FreshFirst(Append(tokens, t), n)
<1> DEFINE more == Append(tokens, t)
           k == Parallelism - n
<1>1. /\ n <= Parallelism /\ k <= Len(tokens) /\ k \in Nat
      /\ \A i \in DOMAIN tokens : tokens[i] = 0 <=> i <= k
  BY PoolAssumption DEF FreshFirst
<1>2. /\ Len(tokens) \in Nat /\ DOMAIN tokens = 1..Len(tokens)
      /\ Len(more) = Len(tokens) + 1 /\ DOMAIN more = 1 .. Len(tokens) + 1
      /\ \A i \in 1..Len(tokens) : more[i] = tokens[i]
      /\ more[Len(tokens) + 1] = t
  BY AppendProperties
<1> HIDE DEF more
<1>3. \A i \in DOMAIN more : more[i] = 0 <=> i <= k
  <2>1. ASSUME NEW i \in 1..Len(tokens)
        PROVE  more[i] = 0 <=> i <= k
    BY <1>1, <1>2
  <2>2. more[Len(tokens) + 1] # 0 /\ ~(Len(tokens) + 1 <= k)
    BY <1>1, <1>2
  <2>3. \A i \in DOMAIN more : i \in 1..Len(tokens) \/ i = Len(tokens) + 1
    BY <1>2
  <2> QED
    BY <2>1, <2>2, <2>3
<1>4. k <= Len(more)
  BY <1>1, <1>2
<1> HIDE DEF k
<1> QED
  BY <1>1, <1>3, <1>4 DEF FreshFirst, more, k

-----------------------------------------------------------------------------
(* What the steps do to the browsers fetches hold: GetBot gives a fetch    *)
(* one, PutBot takes it away, and nothing else touches them.               *)
LEMMA HolderCases ==
  ASSUME PoolInv, [Next]_vars
  PROVE  \/ UNCHANGED <<bots, bot, nBots>> /\ Holders' = Holders
         \/ \E u \in Users : GetBot(u)
         \/ \E f \in Fetches : PutBot(f)
<1> USE DEF PoolInv
<1>1. ASSUME NEW f \in Fetches,
             Enter(f) \/ GetPage(f) \/ PutPage(f) \/ PutLock(f) \/ Navigate(f)
               \/ Leave(f)
      PROVE  UNCHANGED <<bots, bot, nBots>> /\ Holders' = Holders
  <2>1. UNCHANGED <<bots, bot, nBots>> /\ f \in Users
    BY <1>1 DEF Users, Enter, GetPage, PutPage, PutLock, Navigate, Leave,
                poolVars
  <2>2. ASSUME NEW place \in Places, Go(f, place),
               at[f] \in {"page", "putPage", "putBot", "send"}
                 <=> place \in {"page", "putPage", "putBot", "send"}
        PROVE  Holders' = Holders
    BY <2>1, <2>2, GoAlone DEF Holders, Users
  <2>3. Holders' = Holders
    BY <1>1, <2>2
       DEF Enter, GetPage, PutPage, PutLock, Navigate, Leave, Places
  <2> QED
    BY <2>1, <2>3
<1>2. ASSUME NEW u \in Users, GetLock(u) \/ (u \in Closers /\ ClearBot(u))
      PROVE  UNCHANGED <<bots, bot, nBots>> /\ Holders' = Holders
  <2>1. /\ \A v \in Users : v # u => at'[v] = at[v]
        /\ at[u] \in {"idle", "get"} /\ at'[u] \in {"get", "receive"}
    BY <1>2, GoAlone DEF GetLock, ClearBot, Places
  <2>2. Holders' = Holders
    BY <2>1 DEF Holders, Users
  <2> QED
    BY <1>2, <2>2 DEF GetLock, ClearBot, poolVars
<1>3. CASE UNCHANGED vars
  BY <1>3 DEF vars, poolVars, Holders
<1> QED
  BY <1>1, <1>2, <1>3 DEF Next, Starts, Queues, Proceeds

(* A received browser: an old one, that was nobody's, or a new one.        *)
LEMMA GetBotMoves ==
  ASSUME LaunchInv, NEW u \in Users, GetBot(u)
  PROVE  /\ bots \in Seq(Nat) /\ bots # <<>> /\ bots' = Tail(bots)
         /\ nBots' = IF Head(bots) = 0 THEN nBots + 1 ELSE nBots
         /\ Len(bots) \in Nat \ {0} /\ DOMAIN bots = 1..Len(bots)
         /\ Head(bots) = bots[1] /\ Head(bots) \in Nat
         /\ DOMAIN bots' = 1 .. Len(bots) - 1
         /\ \A i \in DOMAIN bots' : i + 1 \in DOMAIN bots /\ bots'[i] = bots[i + 1]
         /\ u \in Closers => Holders' = Holders /\ UNCHANGED bot
         /\ u \in Fetches =>
              /\ Holders' = Holders \cup {u} /\ u \notin Holders
              /\ bot'[u] = IF Head(bots) = 0 THEN nBots + 1 ELSE Head(bots)
              /\ \A f \in Holders : bot'[f] = bot[f]
<1> USE DEF LaunchInv, PoolInv
<1>1. /\ bots \in Seq(Nat) /\ bots # <<>> /\ bots' = Tail(bots)
      /\ nBots' = IF Head(bots) = 0 THEN nBots + 1 ELSE nBots
  BY DEF GetBot, TypeOK
<1>2. /\ Len(bots) \in Nat \ {0} /\ DOMAIN bots = 1..Len(bots)
      /\ Head(bots) = bots[1] /\ Head(bots) \in Nat
      /\ DOMAIN bots' = 1 .. Len(bots) - 1
      /\ \A i \in 1 .. Len(bots) - 1 : bots'[i] = bots[i + 1]
  BY <1>1, HeadTailProperties
<1>3. \A i \in DOMAIN bots' : i + 1 \in DOMAIN bots /\ bots'[i] = bots[i + 1]
  BY <1>2
<1>4. /\ at[u] = "receive" /\ \A v \in Users : v # u => at'[v] = at[v]
      /\ u \in Fetches => at'[u] = "page"
      /\ u \in Closers => at'[u] = "idle"
  BY PoolAssumption, GoAlone DEF GetBot, Places
<1>5. ASSUME u \in Closers
      PROVE  Holders' = Holders /\ UNCHANGED bot
  <2>1. Holders' = Holders
    BY <1>4, <1>5, PoolAssumption DEF Holders, Users
  <2> QED
    BY <1>5, <2>1, PoolAssumption DEF GetBot
<1>6. ASSUME u \in Fetches
      PROVE  /\ Holders' = Holders \cup {u} /\ u \notin Holders
             /\ bot'[u] = IF Head(bots) = 0 THEN nBots + 1 ELSE Head(bots)
             /\ \A f \in Holders : bot'[f] = bot[f]
  <2>1. Holders' = Holders \cup {u} /\ u \notin Holders
    BY <1>4, <1>6 DEF Holders, Users
  <2>2. bot' = [bot EXCEPT ![u] = IF Head(bots) = 0 THEN nBots + 1
                                                    ELSE Head(bots)]
    BY <1>6, PoolAssumption DEF GetBot
  <2> QED
    BY <1>6, <2>1, <2>2 DEF TypeOK, Holders
<1> QED
  BY <1>1, <1>2, <1>3, <1>5, <1>6

LEMMA PutBotMoves ==
  ASSUME LaunchInv, NEW f \in Fetches, PutBot(f)
  PROVE  /\ bots \in Seq(Nat) /\ bots' = Append(bots, bot[f])
         /\ UNCHANGED nBots
         /\ Len(bots) \in Nat /\ DOMAIN bots = 1..Len(bots)
         /\ DOMAIN bots' = 1 .. Len(bots) + 1
         /\ \A i \in 1..Len(bots) : bots'[i] = bots[i]
         /\ bots'[Len(bots) + 1] = bot[f]
         /\ f \in Holders /\ Holders' = Holders \ {f}
         /\ \A g \in Holders' : bot'[g] = bot[g]
<1> USE DEF LaunchInv, PoolInv
<1>1. bots \in Seq(Nat) /\ bots' = Append(bots, bot[f]) /\ bot[f] \in Nat
  BY DEF PutBot, WithBot, TypeOK
<1>2. /\ Len(bots) \in Nat /\ DOMAIN bots = 1..Len(bots)
      /\ DOMAIN bots' = 1 .. Len(bots) + 1
      /\ \A i \in 1..Len(bots) : bots'[i] = bots[i]
      /\ bots'[Len(bots) + 1] = bot[f]
  BY <1>1, AppendProperties
<1>3. /\ f \in Users /\ at[f] = "send" /\ at'[f] = "visit"
      /\ \A v \in Users : v # f => at'[v] = at[v]
  BY GoAlone DEF PutBot, Users, Places
<1>4. f \in Holders /\ Holders' = Holders \ {f}
  BY <1>3 DEF Holders, Users
<1>5. \A g \in Holders' : bot'[g] = bot[g]
  BY <1>4 DEF PutBot, TypeOK, Holders
<1> QED
  BY <1>1, <1>2, <1>4, <1>5 DEF PutBot

(* The pages: only GetPage and PutPage touch their channel.                *)
LEMMA PagesStep ==
  ASSUME LaunchInv, [Next]_vars
  PROVE  /\ FreshFirst(pages, nPages)'
         /\ \A f \in Fetches : at'[f] = "putPage" => page'[f] # 0
<1> USE DEF LaunchInv, PoolInv, Launched
<1>1. ASSUME UNCHANGED <<pages, nPages>>, NEW u \in Users,
             \A v \in Users : v # u => at'[v] = at[v],
             at'[u] # "putPage",
             \A f \in Fetches : f # u => page'[f] = page[f]
      PROVE  /\ FreshFirst(pages, nPages)'
             /\ \A f \in Fetches : at'[f] = "putPage" => page'[f] # 0
  BY <1>1 DEF FreshFirst, Users
<1>2. ASSUME NEW u \in Users, GetLock(u) \/ (u \in Closers /\ ClearBot(u))
                                \/ GetBot(u)
      PROVE  /\ FreshFirst(pages, nPages)'
             /\ \A f \in Fetches : at'[f] = "putPage" => page'[f] # 0
  <2>1. \A v \in Users : v # u => at'[v] = at[v]
    BY <1>2, GoAlone DEF GetLock, ClearBot, GetBot, Places
  <2>2. at'[u] # "putPage"
    BY <1>2, GoAlone DEF GetLock, ClearBot, GetBot, Places
  <2> QED
    BY <1>1, <1>2, <2>1, <2>2 DEF GetLock, ClearBot, GetBot, pageVars
<1>3. ASSUME NEW f \in Fetches,
             Enter(f) \/ PutLock(f) \/ PutBot(f) \/ Navigate(f) \/ Leave(f)
      PROVE  /\ FreshFirst(pages, nPages)'
             /\ \A g \in Fetches : at'[g] = "putPage" => page'[g] # 0
  <2>1. f \in Users
    BY DEF Users
  <2>2. at'[f] # "putPage" /\ \A v \in Users : v # f => at'[v] = at[v]
    BY <1>3, <2>1, GoAlone
       DEF Enter, PutLock, PutBot, Navigate, Leave, Places
  <2>3. /\ UNCHANGED <<pages, nPages>>
        /\ \A g \in Fetches : g # f => page'[g] = page[g]
    BY <1>3 DEF Enter, PutLock, PutBot, Navigate, Leave, pageVars, TypeOK
  <2> QED
    BY <1>1, <2>1, <2>2, <2>3
<1>4. ASSUME NEW f \in Fetches, GetPage(f)
      PROVE  /\ FreshFirst(pages, nPages)'
             /\ \A g \in Fetches : at'[g] = "putPage" => page'[g] # 0
  <2>1. pages \in Seq(Nat) /\ Head(pages) \in Nat /\ nPages \in Nat
    BY <1>4, HeadTailProperties DEF GetPage, TypeOK
  <2>2. FreshFirst(pages, nPages)'
    BY <1>4, <2>1, TakeFirst DEF GetPage, FreshFirst
  <2>3. \A v \in Users : v # f => at'[v] = at[v]
    BY <1>4, GoAlone DEF GetPage, Users, Places
  <2>4. page'[f] # 0 /\ \A g \in Fetches : g # f => page'[g] = page[g]
    BY <1>4, <2>1 DEF GetPage, TypeOK
  <2> QED
    BY <2>2, <2>3, <2>4 DEF Users
<1>5. ASSUME NEW f \in Fetches, PutPage(f)
      PROVE  /\ FreshFirst(pages, nPages)'
             /\ \A g \in Fetches : at'[g] = "putPage" => page'[g] # 0
  <2>1. pages \in Seq(Nat) /\ nPages \in Nat /\ page[f] \in Nat \ {0}
    BY <1>5 DEF PutPage, TypeOK
  <2>2. FreshFirst(pages, nPages)'
    BY <1>5, <2>1, PutBehind DEF PutPage, Returned, FreshFirst
  <2>3. at'[f] # "putPage" /\ \A v \in Users : v # f => at'[v] = at[v]
    BY <1>5, GoAlone DEF PutPage, Users, Places
  <2> QED
    BY <1>5, <2>2, <2>3 DEF PutPage, Users
<1>6. CASE UNCHANGED vars
  BY <1>6 DEF vars, pageVars, FreshFirst
<1> QED
  BY <1>2, <1>3, <1>4, <1>5, <1>6 DEF Next, Starts, Queues, Proceeds

(* The browsers, in the same way; and none comes to be in two places.      *)
LEMMA BrowsersStep ==
  ASSUME LaunchInv, [Next]_vars
  PROVE  /\ FreshFirst(bots, nBots)'
         /\ (\A f \in Holders : bot[f] \in 1..nBots)'
         /\ BrowsersApart'
<1> USE DEF LaunchInv, PoolInv, Launched
<1>1. /\ nBots \in Nat /\ FreshFirst(bots, nBots)
      /\ \A f \in Holders : bot[f] \in 1..nBots
      /\ \A i \in DOMAIN bots : bots[i] \in Nat /\ bots[i] <= nBots
      /\ \A i, j \in DOMAIN bots : bots[i] = bots[j] /\ bots[i] # 0 => i = j
      /\ \A f \in Holders, i \in DOMAIN bots : bots[i] # bot[f]
      /\ \A f, g \in Holders : bot[f] = bot[g] => f = g
  <2>1. \A i \in DOMAIN bots : bots[i] \in Nat
    BY ElementOfSeq DEF TypeOK
  <2> QED
    BY <2>1 DEF TypeOK, BrowsersApart, BrowserOfOne
<1>2. CASE UNCHANGED <<bots, bot, nBots>> /\ Holders' = Holders
  <2>1. FreshFirst(bots, nBots)'
    BY <1>1, <1>2 DEF FreshFirst
  <2>2. (\A f \in Holders : bot[f] \in 1..nBots)'
    BY <1>1, <1>2
  <2> QED
    BY <1>2, <2>1, <2>2 DEF BrowsersApart, BrowserOfOne
<1>3. ASSUME NEW u \in Users, GetBot(u)
      PROVE  /\ FreshFirst(bots, nBots)'
             /\ (\A f \in Holders : bot[f] \in 1..nBots)'
             /\ BrowsersApart'
  <2>1. /\ bots \in Seq(Nat) /\ bots # <<>> /\ bots' = Tail(bots)
        /\ nBots' = IF Head(bots) = 0 THEN nBots + 1 ELSE nBots
        /\ Head(bots) = bots[1] /\ 1 \in DOMAIN bots /\ Head(bots) \in Nat
        /\ \A i \in DOMAIN bots' : i + 1 \in DOMAIN bots
                                   /\ bots'[i] = bots[i + 1]
        /\ \A i \in DOMAIN bots' : i \in Nat \ {0}
    BY <1>3, GetBotMoves
  <2>2. FreshFirst(bots, nBots)'
    BY <1>1, <2>1, TakeFirst DEF FreshFirst
  <2>3. nBots' \in Nat /\ nBots <= nBots'
    BY <1>1, <2>1
  <2>4. \A i \in DOMAIN bots' : bots'[i] <= nBots'
    <3>1. ASSUME NEW i \in DOMAIN bots'
          PROVE  bots'[i] <= nBots'
      <4>1. bots'[i] \in Nat /\ bots'[i] <= nBots
        BY <1>1, <2>1
      <4> QED
        BY <1>1, <2>3, <4>1
    <3> QED
      BY <3>1
  <2>5. \A i, j \in DOMAIN bots' :
          bots'[i] = bots'[j] /\ bots'[i] # 0 => i = j
    <3>1. ASSUME NEW i \in DOMAIN bots', NEW j \in DOMAIN bots',
                 bots'[i] = bots'[j], bots'[i] # 0
          PROVE  i = j
      <4>1. i + 1 = j + 1
        BY <1>1, <2>1, <3>1
      <4> QED
        BY <2>1, <4>1
    <3> QED
      BY <3>1
  <2>6. CASE u \in Closers
    <3>1. Holders' = Holders /\ UNCHANGED bot
      BY <1>3, <2>6, GetBotMoves
    <3>2. \A f \in Holders' : bot'[f] \in 1..nBots'
      BY <1>1, <2>3, <3>1
    <3>3. \A f \in Holders', i \in DOMAIN bots' : bots'[i] # bot'[f]
      BY <1>1, <2>1, <3>1
    <3> QED
      BY <1>1, <2>2, <2>4, <2>5, <3>1, <3>2, <3>3 DEF BrowsersApart, BrowserOfOne
  <2>7. CASE u \in Fetches
    <3> DEFINE b == IF Head(bots) = 0 THEN nBots + 1 ELSE Head(bots)
    <3>1. /\ Holders' = Holders \cup {u} /\ u \notin Holders /\ bot'[u] = b
          /\ \A f \in Holders : bot'[f] = bot[f]
      BY <1>3, <2>7, GetBotMoves
    <3>2. b \in 1..nBots'
      BY <1>1, <2>1
    <3>3. \A f \in Holders : bot[f] # b /\ bot[f] \in 1..nBots'
      <4>1. ASSUME NEW f \in Holders
            PROVE  bot[f] # b /\ bot[f] \in 1..nBots'
        <5>1. bot[f] \in 1..nBots /\ bot[f] # Head(bots)
          BY <1>1, <2>1
        <5> QED
          BY <1>1, <2>3, <5>1
      <4> QED
        BY <4>1
    <3>4. \A i \in DOMAIN bots' : bots'[i] # b
      <4>1. ASSUME NEW i \in DOMAIN bots'
            PROVE  bots'[i] # b
        <5>1. /\ bots'[i] = bots[i + 1] /\ i + 1 \in DOMAIN bots /\ i + 1 # 1
              /\ bots[i + 1] <= nBots /\ bots[i + 1] \in Nat
          BY <1>1, <2>1
        <5>2. CASE Head(bots) = 0
          BY <1>1, <5>1, <5>2
        <5>3. CASE Head(bots) # 0
          BY <1>1, <2>1, <5>1, <5>3
        <5> QED
          BY <5>2, <5>3
      <4> QED
        BY <4>1
    <3> HIDE DEF b
    <3>5. \A f \in Holders' : bot'[f] \in 1..nBots'
      BY <3>1, <3>2, <3>3
    <3>6. \A f \in Holders', i \in DOMAIN bots' : bots'[i] # bot'[f]
      <4>1. \A f \in Holders, i \in DOMAIN bots' : bots'[i] # bot[f]
        BY <1>1, <2>1
      <4> QED
        BY <3>1, <3>4, <4>1
    <3>7. BrowserOfOne'
      BY <1>1, <3>1, <3>3 DEF BrowserOfOne
    <3> QED
      BY <2>2, <2>4, <2>5, <3>5, <3>6, <3>7 DEF BrowsersApart
  <2> QED
    BY <2>6, <2>7 DEF Users
<1>4. ASSUME NEW f \in Fetches, PutBot(f)
      PROVE  /\ FreshFirst(bots, nBots)'
             /\ (\A g \in Holders : bot[g] \in 1..nBots)'
             /\ BrowsersApart'
  <2> DEFINE n == Len(bots) + 1
  <2>1. /\ bots \in Seq(Nat) /\ bots' = Append(bots, bot[f])
        /\ UNCHANGED nBots
        /\ n \notin DOMAIN bots /\ DOMAIN bots' = DOMAIN bots \cup {n}
        /\ \A i \in DOMAIN bots : bots'[i] = bots[i]
        /\ bots'[n] = bot[f]
        /\ f \in Holders /\ Holders' = Holders \ {f}
        /\ \A g \in Holders' : bot'[g] = bot[g]
    <3>1. Len(bots) \in Nat /\ DOMAIN bots = 1..Len(bots) /\ DOMAIN bots' = 1..n
      BY <1>4, PutBotMoves
    <3>2. n \notin DOMAIN bots /\ DOMAIN bots' = DOMAIN bots \cup {n}
      BY <3>1
    <3> QED
      BY <1>4, <3>1, <3>2, PutBotMoves
  <2> HIDE DEF n
  <2>2. bot[f] \in Nat \ {0} /\ bot[f] <= nBots
    BY <1>1, <2>1
  <2>3. FreshFirst(bots, nBots)'
    BY <1>1, <2>1, <2>2, PutBehind DEF FreshFirst
  <2>4. (\A g \in Holders : bot[g] \in 1..nBots)'
    BY <1>1, <2>1
  <2>5. \A i \in DOMAIN bots' : bots'[i] <= nBots'
    BY <1>1, <2>1, <2>2
  <2>6. \A i, j \in DOMAIN bots' :
          bots'[i] = bots'[j] /\ bots'[i] # 0 => i = j
    BY <1>1, <2>1
  <2>7. \A g \in Holders', i \in DOMAIN bots' : bots'[i] # bot'[g]
    <3>1. \A g \in Holders' : g \in Holders /\ bot'[g] # bot[f]
      BY <1>1, <2>1
    <3> QED
      BY <1>1, <2>1, <3>1
  <2>8. BrowserOfOne'
    BY <1>1, <2>1 DEF BrowserOfOne
  <2> QED
    BY <2>3, <2>4, <2>5, <2>6, <2>7, <2>8 DEF BrowsersApart
<1> QED
  BY HolderCases, <1>2, <1>3, <1>4

LEMMA InitLaunch == Init => LaunchInv
<1> SUFFICES ASSUME Init PROVE LaunchInv
  OBVIOUS
<1>1. PoolInv
  BY InitPool
<1>2. FreshFirst(Tokens, 0)
  <2>1. /\ Len(Tokens) = Parallelism /\ DOMAIN Tokens = 1..Parallelism
        /\ \A i \in 1..Parallelism : Tokens[i] = 0
    BY PoolAssumption DEF Tokens
  <2> QED
    BY <2>1, PoolAssumption DEF FreshFirst
<1>3. Holders = {} /\ \A f \in Fetches : at[f] # "putPage"
  BY DEF Init, Holders, Users
<1>4. Launched
  BY <1>2, <1>3 DEF Init, Launched
<1>5. BrowsersApart
  <2>1. \A i \in DOMAIN bots : bots[i] = 0
    BY DEF Init, Tokens
  <2> QED
    BY <1>3, <2>1 DEF Init, BrowsersApart, BrowserOfOne
<1> QED
  BY <1>1, <1>4, <1>5 DEF LaunchInv

(* LaunchInv holds always, whatever order fetches and calls of ClearBot    *)
(* receive and return the tokens in.                                       *)
THEOREM LaunchInvariant == Spec => []LaunchInv
<1>1. ASSUME LaunchInv, [Next]_vars
      PROVE  LaunchInv'
  <2>1. PoolInv'
    BY <1>1, TypeStep, ConservationStep, BoundsStep DEF LaunchInv, PoolInv
  <2>2. Launched' /\ BrowsersApart'
    BY <1>1, PagesStep, BrowsersStep DEF Launched
  <2> QED
    BY <2>1, <2>2 DEF LaunchInv
<1> QED
  BY InitLaunch, <1>1, PTL DEF Spec

(* The pools (botpool.go:19-35, bot.go:116-131) launch at most Parallelism *)
(* browsers and open at most Parallelism pages, however many fetches run   *)
(* and whatever ClearBot takes out.                                        *)
THEOREM BrowsersAreBounded == Spec => []BrowsersBounded
<1>1. LaunchInv => BrowsersBounded
  BY DEF LaunchInv, Launched, FreshFirst, BrowsersBounded
<1> QED
  BY LaunchInvariant, <1>1, PTL

(* Until createPage (bot.go:116-131) returns, no other fetch has its       *)
(* browser.                                                                *)
THEOREM BrowserIsOfOne == Spec => []BrowserOfOne
<1>1. LaunchInv => BrowserOfOne
  BY DEF LaunchInv, BrowsersApart
<1> QED
  BY LaunchInvariant, <1>1, PTL

=============================================================================
