--------------------------- MODULE FileToolsProofs --------------------------
(***************************************************************************)
(* What the file tools guarantee for every number of servers, files and    *)
(* restarts, whatever the cache forgets and whoever else changes the tree. *)
(***************************************************************************)
EXTENDS FileTools, TLAPS

LEMMA OutsideIsNoProcess == \A s \in Servers : Self(s) # Outside
BY FileToolsAssumption DEF Self, Outside

LEMMA SelfIsProcess == TypeOK => \A s \in Servers : Self(s) \in Processes
BY DEF TypeOK, Self, Processes

LEMMA EmptyTierType == EmptyTier \in Tiers
BY DEF EmptyTier, Tiers

LEMMA WithReadType ==
  ASSUME NEW tier \in Tiers, NEW f \in Files, NEW c \in Contents \cup {Nothing}
  PROVE  WithRead(tier, f, c) \in Tiers
BY DEF WithRead, Tiers

LEMMA WithSearchType ==
  ASSUME NEW tier \in Tiers, NEW n \in Generations, NEW e \in Found
  PROVE  WithSearch(tier, n, e) \in Tiers
BY DEF WithSearch, Tiers

LEMMA WithoutType ==
  ASSUME NEW tier \in Tiers, NEW R, NEW N
  PROVE  Without(tier, R, N) \in Tiers
BY DEF Without, Tiers

LEMMA TypeInit == Init => TypeOK
BY FileToolsAssumption, EmptyTierType
   DEF Init, TypeOK, Unread, Generations, Replies

LEMMA NoReplyType == NoReply \in Replies
BY DEF Replies

LEMMA SmartReadType ==
  ASSUME TypeOK, NEW s \in Servers, NEW f \in Files, SmartRead(s, f)
  PROVE  TypeOK'
<1>1. /\ tree[f] \in Contents
      /\ Text[tree[f]] \in Texts
  BY DEF SmartRead, TypeOK, Trees, Texts
<1>2. CachedRead(s, f) \in Contents \cup {Nothing}
  BY DEF CachedRead, TypeOK, Tiers
<1>3. reply' \in Replies
  <2>1. Delivered(s, f) \in Replies
    BY DEF Delivered, Replies
  <2>2. \A base \in Contents : Compared(s, f, base) \in Replies
    BY DEF Compared, Replies
  <2> QED BY <1>2, <2>1, <2>2 DEF SmartRead
<1>4. rows' \in Tiers /\ mem' \in [Servers -> Tiers]
  BY <1>1, <1>2, WithReadType DEF SmartRead, Baseline, TypeOK
<1>5. given' \in [Files -> SUBSET Texts]
  BY <1>1 DEF SmartRead, TypeOK
<1>6. latest' \in [Servers -> [Files -> Texts \cup {Nothing}]]
  BY <1>1 DEF SmartRead, TypeOK
<1> QED BY <1>3, <1>4, <1>5, <1>6 DEF SmartRead, TypeOK

LEMMA ChangeType ==
  ASSUME TypeOK, NEW s \in Servers, NEW f \in Files, NEW c \in Contents, Change(s, f, c)
  PROVE  TypeOK'
BY SelfIsProcess, NoReplyType, FileToolsAssumption
   DEF Change, Written, TypeOK, Trees, Generations

LEMMA ChangeOutsideType ==
  ASSUME TypeOK, NEW f \in Files, NEW c \in Contents \cup {Nothing}, ChangeOutside(f, c)
  PROVE  TypeOK'
BY NoReplyType DEF ChangeOutside, TypeOK, Trees

LEMMA SearchType ==
  ASSUME TypeOK, NEW s \in Servers, AnswerSearch(s) \/ StartSearch(s) \/ FinishSearch(s)
  PROVE  TypeOK'
<1>1. CASE AnswerSearch(s)
  <2>1. CachedSearch(s) \in Found
    BY <1>1 DEF AnswerSearch, CachedSearch, SearchKey, TypeOK, Tiers
  <2>2. reply' \in Replies
    BY <1>1, <2>1 DEF AnswerSearch, Replies
  <2>3. mem' \in [Servers -> Tiers]
    BY <1>1, <2>1, WithSearchType DEF AnswerSearch, SearchKey, TypeOK
  <2> QED BY <1>1, <2>2, <2>3 DEF AnswerSearch, TypeOK
<1>2. CASE StartSearch(s)
  BY <1>2, NoReplyType DEF StartSearch, SearchKey, TypeOK
<1>3. CASE FinishSearch(s)
  <2>1. Result(s) \in Found
    BY SelfIsProcess DEF Result, TypeOK, Found
  <2>2. reply' \in Replies
    BY <1>3, <2>1 DEF FinishSearch, Replies
  <2>3. mem' \in [Servers -> Tiers] /\ rows' \in Tiers
    BY <1>3, <2>1, WithSearchType DEF FinishSearch, Idle, TypeOK
  <2> QED BY <1>3, <2>2, <2>3 DEF FinishSearch, TypeOK
<1> QED BY <1>1, <1>2, <1>3

LEMMA ForgettingType ==
  ASSUME TypeOK, NEW s \in Servers, NEW R, NEW N, Forget(s, R, N) \/ Expire(s, R, N)
  PROVE  TypeOK'
BY WithoutType, NoReplyType DEF Forget, Expire, TypeOK

LEMMA RestartType ==
  ASSUME TypeOK, NEW s \in Servers, Restart(s)
  PROVE  TypeOK'
<1>1. restarts' \in [Servers -> 0..MaxRestarts] /\ generation' \in [Servers -> Generations]
  BY FileToolsAssumption DEF Restart, TypeOK, Generations
<1> QED BY <1>1, EmptyTierType, NoReplyType DEF Restart, TypeOK, Unread

LEMMA TypeStep ==
  ASSUME TypeOK, [Next]_vars
  PROVE  TypeOK'
<1>1. CASE UNCHANGED vars
  BY <1>1 DEF vars, TypeOK
<1> QED BY <1>1, SmartReadType, ChangeType, ChangeOutsideType, SearchType, ForgettingType,
           RestartType DEF Next, SmartWrite, SmartEdit

\* The state of the file tools keeps its types, for any number of servers.
THEOREM FileToolsTypeCorrect == Spec => []TypeOK
<1>1. TypeOK /\ [Next]_vars => TypeOK'
  BY TypeStep
<1> QED BY <1>1, TypeInit, PTL DEF Spec

-----------------------------------------------------------------------------
(* Cached searches.  A process numbers its searches by its own writes, so  *)
(* an entry it stored under its present number saw all its writes.  That   *)
(* needs the number of a later incarnation never to be taken for the       *)
(* number of this one: no entry bears a process that is still to come.     *)

SeesWritesOf(s, n, e) ==
  e # Nothing /\ e.by = Self(s) =>
    /\ n <= generation[s]
    /\ n = generation[s] =>
         \A f \in Files : origin[f] = Self(s) => e.tree[f] = tree[f]

PastProcess(e) == e # Nothing => e.by[2] <= restarts[e.by[1]]

Sound(n, e) == PastProcess(e) /\ \A s \in Servers : SeesWritesOf(s, n, e)

StoredSearchesSound ==
  \A n \in Generations :
    /\ Sound(n, rows.grep[n])
    /\ \A t \in Servers : Sound(n, mem[t].grep[n])

SearchesKeyed == \A s \in Servers : Idle(s) \/ search[s] = generation[s]

SearchInv == TypeOK /\ StoredSearchesSound /\ SearchesKeyed

LEMMA SearchInvInit == Init => SearchInv
BY TypeInit DEF Init, SearchInv, StoredSearchesSound, SearchesKeyed, Sound, PastProcess,
   SeesWritesOf, EmptyTier, Idle

\* What an entry says stays true, whoever writes and whichever process restarts.
LEMMA SoundStep ==
  ASSUME TypeOK, NEW n \in Generations, NEW e \in Found, Sound(n, e), [Next]_vars
  PROVE  Sound(n, e)'
<1>1. PICK t \in Servers, k \in 0..MaxRestarts : e.by = <<t, k>>
  BY DEF Found, Processes
<1>2. ASSUME UNCHANGED <<tree, origin, generation, restarts>> PROVE Sound(n, e)'
  BY <1>2 DEF Sound, PastProcess, SeesWritesOf, Self
<1>3. ASSUME NEW s \in Servers, NEW f \in Files, NEW c \in Contents, Change(s, f, c)
      PROVE  Sound(n, e)'
  <2>1. /\ generation' = [generation EXCEPT ![s] = @ + 1]
        /\ tree' = [tree EXCEPT ![f] = c]
        /\ origin' = [origin EXCEPT ![f] = Self(s)]
        /\ restarts' = restarts
    BY <1>3 DEF Change, Written
  <2>2. ASSUME NEW u \in Servers, e.by = Self(u) PROVE SeesWritesOf(u, n, e)'
    <3>1. CASE u = s
      BY <2>1, <2>2, <3>1 DEF Sound, SeesWritesOf, Self, TypeOK, Generations
    <3>2. CASE u # s
      BY <2>1, <2>2, <3>2 DEF Sound, SeesWritesOf, Self, TypeOK
    <3> QED BY <3>1, <3>2
  <2> QED BY <2>1, <2>2 DEF Sound, SeesWritesOf, PastProcess, Self
<1>4. ASSUME NEW f \in Files, NEW c \in Contents \cup {Nothing}, ChangeOutside(f, c)
      PROVE  Sound(n, e)'
  <2>1. /\ tree' = [tree EXCEPT ![f] = c]
        /\ origin' = [origin EXCEPT ![f] = Outside]
        /\ generation' = generation /\ restarts' = restarts
    BY <1>4 DEF ChangeOutside
  <2>2. ASSUME NEW u \in Servers PROVE SeesWritesOf(u, n, e)'
    <3>1. Self(u) # Outside
      BY OutsideIsNoProcess
    <3>2. SeesWritesOf(u, n, e)
      BY DEF Sound
    <3>3. Self(u)' = Self(u)
      BY <2>1 DEF Self
    <3>4. \A g \in Files : origin'[g] = Self(u) => origin[g] = Self(u) /\ tree'[g] = tree[g]
      BY <2>1, <3>1 DEF TypeOK, Trees
    <3> QED BY <2>1, <3>2, <3>3, <3>4 DEF SeesWritesOf
  <2> QED BY <2>1, <2>2 DEF Sound, PastProcess
<1>5. ASSUME NEW s \in Servers, Restart(s) PROVE Sound(n, e)'
  <2>1. /\ generation' = [generation EXCEPT ![s] = 0]
        /\ restarts' = [restarts EXCEPT ![s] = @ + 1]
        /\ tree' = tree /\ origin' = origin
    BY <1>5 DEF Restart
  <2>2. PastProcess(e)'
    BY <1>1, <2>1 DEF Sound, PastProcess, TypeOK
  <2>3. ASSUME NEW u \in Servers PROVE SeesWritesOf(u, n, e)'
    <3>1. CASE u = s
      BY <1>1, <2>1, <3>1 DEF Sound, PastProcess, SeesWritesOf, Self, TypeOK
    <3>2. CASE u # s
      BY <2>1, <3>2 DEF Sound, SeesWritesOf, Self, TypeOK
    <3> QED BY <3>1, <3>2
  <2> QED BY <2>2, <2>3 DEF Sound
<1> QED
  BY <1>2, <1>3, <1>4, <1>5
     DEF Next, vars, AnswerSearch, StartSearch, FinishSearch, Forget, Expire, SmartRead,
         SmartWrite, SmartEdit

\* The result of a search is sound under the number the search was keyed with.
LEMMA ResultSound ==
  ASSUME TypeOK, SearchesKeyed, NEW s \in Servers, FinishSearch(s)
  PROVE  Sound(search[s], Result(s))
<1>1. \A u \in Servers : Self(u) = Self(s) => u = s
  BY DEF Self
<1>2. search[s] = generation[s] /\ generation[s] \in Generations
  BY DEF SearchesKeyed, FinishSearch, TypeOK
<1>3. restarts[s] <= restarts[s]
  BY FileToolsAssumption DEF TypeOK
<1> QED BY <1>1, <1>2, <1>3 DEF Sound, SeesWritesOf, PastProcess, Result, Self, Generations

\* After a step a tier holds what some tier held under that number, or the
\* result of the search that just ended.
Stored(n, e) == e = rows.grep[n] \/ \E t \in Servers : e = mem[t].grep[n]

LEMMA StoredStep ==
  ASSUME TypeOK, [Next]_vars, NEW n \in Generations, NEW e \in Found, e # Nothing,
         Stored(n, e)'
  PROVE  \/ Stored(n, e)
         \/ \E s \in Servers : FinishSearch(s) /\ n = search[s] /\ e = Result(s)
<1>2. ASSUME NEW s \in Servers, NEW f \in Files, SmartRead(s, f) PROVE Stored(n, e)
  BY <1>2 DEF SmartRead, Stored, WithRead, TypeOK
<1>3. ASSUME NEW s \in Servers, AnswerSearch(s) PROVE Stored(n, e)
  BY <1>3 DEF AnswerSearch, CachedSearch, SearchKey, Stored, WithSearch, TypeOK, Tiers
<1>4. ASSUME NEW s \in Servers, FinishSearch(s)
      PROVE  Stored(n, e) \/ (n = search[s] /\ e = Result(s))
  BY <1>4 DEF FinishSearch, Stored, WithSearch, TypeOK, Tiers
<1>5. ASSUME NEW s \in Servers, NEW R, NEW N, Forget(s, R, N) \/ Expire(s, R, N)
      PROVE  Stored(n, e)
  BY <1>5 DEF Forget, Expire, Without, Stored, TypeOK
<1>6. ASSUME NEW s \in Servers, Restart(s) PROVE Stored(n, e)
  BY <1>6 DEF Restart, EmptyTier, Stored, TypeOK
<1>7. ASSUME UNCHANGED <<rows, mem>> PROVE Stored(n, e)
  BY <1>7 DEF Stored
<1> QED
  BY <1>2, <1>3, <1>4, <1>5, <1>6, <1>7
     DEF Next, vars, StartSearch, SmartWrite, SmartEdit, Change, ChangeOutside

LEMMA SearchInvStep ==
  ASSUME SearchInv, [Next]_vars
  PROVE  SearchInv'
<1>1. TypeOK'
  BY TypeStep DEF SearchInv
<1>2. ASSUME NEW n \in Generations, NEW e \in Found, e # Nothing, Stored(n, e)'
      PROVE  Sound(n, e)'
  <2>1. Sound(n, e)
    <3>1. CASE Stored(n, e)
      BY <3>1 DEF Stored, SearchInv, StoredSearchesSound
    <3>2. ASSUME NEW s \in Servers, FinishSearch(s), n = search[s], e = Result(s)
          PROVE  Sound(n, e)
      BY <3>2, ResultSound DEF SearchInv
    <3> QED BY <1>2, <3>1, <3>2, StoredStep DEF SearchInv
  <2> QED BY <2>1, SoundStep DEF SearchInv
<1>3. StoredSearchesSound'
  <2>1. ASSUME NEW n \in Generations, NEW e \in Found \cup {Nothing}, Stored(n, e)'
        PROVE  Sound(n, e)'
    BY <1>2, <2>1 DEF Sound, PastProcess, SeesWritesOf
  <2>2. ASSUME NEW n \in Generations PROVE Sound(n, rows.grep[n])'
    <3>1. PICK e \in Found \cup {Nothing} : e = rows'.grep[n]
      BY <1>1 DEF TypeOK, Tiers
    <3> QED BY <2>1, <3>1 DEF Stored, Sound, PastProcess, SeesWritesOf
  <2>3. ASSUME NEW n \in Generations, NEW t \in Servers PROVE Sound(n, mem[t].grep[n])'
    <3>1. PICK e \in Found \cup {Nothing} : e = mem'[t].grep[n]
      BY <1>1 DEF TypeOK, Tiers
    <3> QED BY <2>1, <3>1 DEF Stored, Sound, PastProcess, SeesWritesOf
  <2> QED BY <2>2, <2>3 DEF StoredSearchesSound
<1>4. SearchesKeyed'
  <2>1. ASSUME NEW s \in Servers, StartSearch(s) \/ FinishSearch(s) \/ Restart(s)
        PROVE  SearchesKeyed'
    BY <2>1 DEF StartSearch, FinishSearch, Restart, SearchKey, SearchInv, SearchesKeyed,
                Idle, TypeOK
  <2>2. ASSUME NEW s \in Servers, NEW f \in Files, NEW c \in Contents, Idle(s), Change(s, f, c)
        PROVE  SearchesKeyed'
    BY <2>2 DEF Change, SearchInv, SearchesKeyed, Idle, TypeOK
  <2>3. ASSUME UNCHANGED <<generation, search>> PROVE SearchesKeyed'
    BY <2>3 DEF SearchInv, SearchesKeyed, Idle
  <2> QED
    BY <2>1, <2>2, <2>3
       DEF Next, vars, AnswerSearch, Forget, Expire, SmartRead, SmartWrite, SmartEdit, ChangeOutside
<1> QED BY <1>1, <1>3, <1>4 DEF SearchInv

\* A cached answer comes from under the asking process's present number.
LEMMA AnswersSeeWrites ==
  ASSUME SearchInv, SearchSeesOwnWrites, [Next]_vars
  PROVE  SearchSeesOwnWrites'
<1>1. ASSUME NEW s \in Servers, AnswerSearch(s) PROVE SearchSeesOwnWrites'
  <2>1. generation[s] \in Generations
    BY DEF SearchInv, TypeOK
  <2>2. SeesWritesOf(s, generation[s], CachedSearch(s))
    BY <2>1 DEF SearchInv, StoredSearchesSound, Sound, CachedSearch, SearchKey
  <2> QED BY <1>1, <2>1, <2>2 DEF AnswerSearch, SearchSeesOwnWrites, SeesWritesOf, Self
<1>2. ASSUME NEW s \in Servers, NEW f \in Files, SmartRead(s, f) PROVE reply'.kind # "cached"
  BY <1>2 DEF SmartRead, Delivered, Compared
<1>3. ASSUME NEW s \in Servers, FinishSearch(s) PROVE reply'.kind # "cached"
  BY <1>3 DEF FinishSearch
<1>4. ASSUME reply' = NoReply PROVE reply'.kind # "cached"
  BY <1>4 DEF NoReply
<1>5. CASE UNCHANGED vars
  BY <1>5 DEF vars, SearchSeesOwnWrites, Self
<1> QED
  BY <1>1, <1>2, <1>3, <1>4, <1>5
     DEF Next, StartSearch, Forget, Expire, Restart, SmartWrite, SmartEdit, Change, Written,
         ChangeOutside, SearchSeesOwnWrites

\* However many servers share the cache and however often they restart, a search
\* a process stored is not answered to it once it has written one of the files.
THEOREM SearchesSeeOwnWrites == Spec => []SearchSeesOwnWrites
<1>1. Init => SearchInv /\ SearchSeesOwnWrites
  BY SearchInvInit DEF Init, SearchSeesOwnWrites, NoReply
<1>2. SearchInv /\ SearchSeesOwnWrites /\ [Next]_vars => (SearchInv /\ SearchSeesOwnWrites)'
  BY SearchInvStep, AnswersSeeWrites
<1> QED BY <1>1, <1>2, PTL DEF Spec
-----------------------------------------------------------------------------
(* Baselines.  A file above chunkSize is stored as a baseline although only *)
(* a part of it was given, so the result is about files below it.           *)

AllFilesSmall == \A c \in Contents : Size[c] = "small"

IsGiven(f, c) == c # Nothing => Text[c] \in given[f]

BaselinesGiven ==
  \A f \in Files :
    /\ IsGiven(f, rows.read[f])
    /\ \A s \in Servers : IsGiven(f, mem[s].read[f])

BaselineInv == TypeOK /\ BaselinesGiven

LEMMA BaselineInvInit == Init => BaselineInv
BY TypeInit DEF Init, BaselineInv, BaselinesGiven, IsGiven, EmptyTier

LEMMA CachedReadGiven ==
  ASSUME BaselineInv, NEW s \in Servers, NEW f \in Files
  PROVE  /\ CachedRead(s, f) \in Contents \cup {Nothing}
         /\ IsGiven(f, CachedRead(s, f))
BY DEF BaselineInv, BaselinesGiven, CachedRead, TypeOK, Tiers

\* A small file that becomes a baseline is given in full by the same answer.
LEMMA SmartReadGives ==
  ASSUME AllFilesSmall, BaselineInv, NEW s \in Servers, NEW f \in Files, SmartRead(s, f)
  PROVE  BaselinesGiven'
<1>1. tree[f] \in Contents
  BY DEF SmartRead, BaselineInv, TypeOK, Trees
<1>2. reply'.kind # "part"
  BY <1>1 DEF SmartRead, Delivered, Compared, AllFilesSmall
<1>3. /\ tree' = tree
      /\ given' = [given EXCEPT ![f] = @ \cup {Text[tree[f]]}]
      /\ \A g \in Files, c \in Contents \cup {Nothing} : IsGiven(g, c) => IsGiven(g, c)'
  BY <1>2 DEF SmartRead, IsGiven, BaselineInv, TypeOK
<1>4. IsGiven(f, tree[f])'
  BY <1>3 DEF SmartRead, IsGiven, BaselineInv, TypeOK
<1>5. ASSUME NEW g \in Files PROVE IsGiven(g, rows.read[g])'
  <2>1. rows'.read[g] \in {rows.read[g], IF g = f THEN tree[f] ELSE rows.read[g]}
    BY DEF SmartRead, Baseline, WithRead, BaselineInv, TypeOK, Tiers
  <2>2. IsGiven(g, rows.read[g]) /\ rows.read[g] \in Contents \cup {Nothing}
    BY DEF BaselineInv, BaselinesGiven, TypeOK, Tiers
  <2>3. PICK c \in {rows.read[g], IF g = f THEN tree[f] ELSE rows.read[g]} : c = rows'.read[g]
    BY <2>1
  <2>4. c # Nothing => Text[c] \in given'[g]
    BY <1>3, <1>4, <2>2, <2>3 DEF IsGiven
  <2> QED BY <2>3, <2>4 DEF IsGiven
<1>6. ASSUME NEW g \in Files, NEW t \in Servers PROVE IsGiven(g, mem[t].read[g])'
  <2>1. mem'[t].read[g] \in {mem[t].read[g],
                             IF g = f THEN tree[f] ELSE mem[t].read[g],
                             IF g = f THEN CachedRead(s, f) ELSE mem[t].read[g]}
    BY DEF SmartRead, Baseline, WithRead, BaselineInv, TypeOK, Tiers
  <2>2. IsGiven(g, mem[t].read[g]) /\ mem[t].read[g] \in Contents \cup {Nothing}
    BY DEF BaselineInv, BaselinesGiven, TypeOK, Tiers
  <2>3. /\ mem[t].read[g] # Nothing => Text[mem[t].read[g]] \in given'[g]
        /\ CachedRead(s, f) # Nothing => Text[CachedRead(s, f)] \in given'[f]
        /\ tree[f] # Nothing => Text[tree[f]] \in given'[f]
    BY <1>3, <1>4, <2>2, CachedReadGiven DEF IsGiven
  <2>4. mem'[t].read[g] # Nothing => Text[mem'[t].read[g]] \in given'[g]
    BY <2>1, <2>3
  <2> QED BY <2>4 DEF IsGiven
<1> QED BY <1>5, <1>6 DEF BaselinesGiven

LEMMA BaselineInvStep ==
  ASSUME AllFilesSmall, BaselineInv, [Next]_vars
  PROVE  BaselineInv'
<1>1. ASSUME UNCHANGED given,
             \A f \in Files :
               /\ rows'.read[f] \in {Nothing, rows.read[f]}
               /\ \A t \in Servers : mem'[t].read[f] \in {Nothing, mem[t].read[f]}
      PROVE  BaselinesGiven'
  BY <1>1 DEF BaselineInv, BaselinesGiven, IsGiven
<1>2. ASSUME NEW s \in Servers, AnswerSearch(s) \/ FinishSearch(s) PROVE BaselinesGiven'
  <2>1. \A f \in Files :
          /\ rows'.read[f] = rows.read[f]
          /\ \A t \in Servers : mem'[t].read[f] = mem[t].read[f]
    <3>1. CASE AnswerSearch(s)
      BY <3>1 DEF AnswerSearch, WithSearch, BaselineInv, TypeOK
    <3>2. CASE FinishSearch(s)
      BY <3>2 DEF FinishSearch, WithSearch, BaselineInv, TypeOK
    <3> QED BY <1>2, <3>1, <3>2
  <2> QED BY <1>1, <1>2, <2>1 DEF AnswerSearch, FinishSearch
<1>3. ASSUME NEW s \in Servers, NEW R, NEW N, Forget(s, R, N) \/ Expire(s, R, N)
      PROVE  BaselinesGiven'
  <2>1. \A f \in Files :
          /\ rows'.read[f] \in {Nothing, rows.read[f]}
          /\ \A t \in Servers : mem'[t].read[f] \in {Nothing, mem[t].read[f]}
    BY <1>3 DEF Forget, Expire, Without, BaselineInv, TypeOK
  <2> QED BY <1>1, <1>3, <2>1 DEF Forget, Expire
<1>4. ASSUME NEW s \in Servers, Restart(s) PROVE BaselinesGiven'
  <2>1. \A f \in Files, t \in Servers : mem'[t].read[f] \in {Nothing, mem[t].read[f]}
    BY <1>4 DEF Restart, EmptyTier, BaselineInv, TypeOK
  <2> QED BY <1>1, <1>4, <2>1 DEF Restart
<1>5. ASSUME UNCHANGED <<rows, mem, given>> PROVE BaselinesGiven'
  BY <1>5 DEF BaselineInv, BaselinesGiven, IsGiven
<1> QED
  BY <1>2, <1>3, <1>4, <1>5, SmartReadGives, TypeStep
     DEF BaselineInv, Next, vars, StartSearch, SmartWrite, SmartEdit, Change, ChangeOutside

LEMMA AnswersFollowReads ==
  ASSUME AllFilesSmall, BaselineInv, [Next]_vars
  PROVE  BaselineGiven
<1>1. ASSUME NEW s \in Servers, NEW f \in Files, SmartRead(s, f),
             reply'.kind \in {"diff", "same"}
      PROVE  BaselineGiven
  <2>1. /\ CachedRead(s, f) # Nothing
        /\ reply' = Compared(s, f, CachedRead(s, f))
    BY <1>1 DEF SmartRead, Delivered
  <2>2. reply'.base = CachedRead(s, f) /\ reply'.file = f
    BY <1>1, <2>1 DEF Compared
  <2>3. Text[CachedRead(s, f)] \in given[f]
    BY <2>1, CachedReadGiven DEF IsGiven
  <2> QED BY <2>2, <2>3 DEF BaselineGiven
<1>2. ASSUME reply'.kind \notin {"diff", "same"} \/ reply' = reply PROVE BaselineGiven
  BY <1>2 DEF BaselineGiven
<1>3. ASSUME NEW s \in Servers, AnswerSearch(s) \/ FinishSearch(s)
      PROVE  reply'.kind \notin {"diff", "same"}
  BY <1>3 DEF AnswerSearch, FinishSearch
<1>4. ASSUME reply' = NoReply PROVE reply'.kind \notin {"diff", "same"}
  BY <1>4 DEF NoReply
<1> QED
  BY <1>1, <1>2, <1>3, <1>4
     DEF Next, vars, StartSearch, Forget, Expire, Restart, SmartWrite, SmartEdit, Change, Written,
         ChangeOutside

\* As long as no file is above chunkSize, whatever the cache forgets and whoever
\* restarts, a diff or "No changes" is about a text smart_read gave in full.
THEOREM DiffsBuildOnReads ==
  ASSUME AllFilesSmall
  PROVE  Spec => DiffsFollowReads
<1>1. Init => BaselineInv
  BY BaselineInvInit
<1>2. BaselineInv /\ [Next]_vars => BaselineInv'
  BY BaselineInvStep
<1>3. BaselineInv /\ [Next]_vars => [BaselineGiven]_vars
  BY AnswersFollowReads
<1> QED BY <1>1, <1>2, <1>3, PTL DEF Spec, DiffsFollowReads
=============================================================================
