-------------------------- MODULE TokenCacheProofs --------------------------
(***************************************************************************)
(* The double-checked lock of acquire_bearer_token, for any number of      *)
(* threads, calls and expiries, and for either behaviour of MSAL's silent  *)
(* lookup.  The inductive invariant is Inv: a thread holds _token_lock     *)
(* exactly between its second lookup and its release, so at most one       *)
(* thread can be about to ask Entra ID, and it does so on an empty cache.  *)
(* Last, why only Entra ID can keep the callers waiting.                   *)
(***************************************************************************)
EXTENDS TokenCache, TLAPS

Inv == TypeOK /\ LockGuardsRefresh /\ TokenInv /\ TokenOutlivesCallStart

LEMMA InitInv == Init => Inv
BY TokenAssumption
   DEF Init, Inv, TypeOK, LockGuardsRefresh, TokenInv,
       TokenOutlivesCallStart, InLock, None

(* The holder of the lock is alone between its second lookup and release.  *)
LEMMA OneInLock ==
    ASSUME TypeOK, LockGuardsRefresh,
           NEW s \in Threads, NEW t \in Threads, pc[s] \in InLock, pc[t] \in InLock
    PROVE  s = t
BY DEF TypeOK, LockGuardsRefresh

(* A call begins in the current epoch with no answer.                      *)
LEMMA CallStep ==
    ASSUME Inv, NEW t \in Threads, Call(t)
    PROVE  Inv'
<1> USE TokenAssumption DEF Inv, Call, Goto, None
<1>1. TypeOK'
  BY DEF TypeOK, InLock, TokenInv, LockGuardsRefresh
<1>2. LockGuardsRefresh'
  BY DEF TypeOK, LockGuardsRefresh, InLock
<1>3. TokenInv'
  BY OneInLock DEF TypeOK, TokenInv, InLock
<1>4. TokenOutlivesCallStart'
  BY DEF TypeOK, TokenOutlivesCallStart, TokenInv
<1> QED
  BY <1>1, <1>2, <1>3, <1>4

(* A hit is the token of the current epoch.                                *)
LEMMA FirstLookupStep ==
    ASSUME Inv, NEW t \in Threads, FirstLookup(t)
    PROVE  Inv'
<1> USE TokenAssumption DEF Inv, FirstLookup, Silent, Goto, None
<1>1. TypeOK'
  BY DEF TypeOK, InLock, TokenInv, LockGuardsRefresh
<1>2. LockGuardsRefresh'
  BY DEF TypeOK, LockGuardsRefresh, InLock
<1>3. TokenInv'
  BY OneInLock DEF TypeOK, TokenInv, InLock
<1>4. TokenOutlivesCallStart'
  BY DEF TypeOK, TokenOutlivesCallStart, TokenInv
<1> QED
  BY <1>1, <1>2, <1>3, <1>4

(* The lock was free: nobody else is past the second lookup.               *)
LEMMA AcquireStep ==
    ASSUME Inv, NEW t \in Threads, Acquire(t)
    PROVE  Inv'
<1> USE TokenAssumption DEF Inv, Acquire, Goto, None
<1>1. TypeOK'
  BY DEF TypeOK, InLock, TokenInv, LockGuardsRefresh
<1>2. LockGuardsRefresh'
  BY DEF TypeOK, LockGuardsRefresh, InLock
<1>3. TokenInv'
  BY OneInLock DEF TypeOK, TokenInv, InLock
<1>4. TokenOutlivesCallStart'
  BY DEF TypeOK, TokenOutlivesCallStart, TokenInv
<1> QED
  BY <1>1, <1>2, <1>3, <1>4

(* A miss under the lock: the cache is empty, and only the holder fills it. *)
LEMMA SecondLookupStep ==
    ASSUME Inv, NEW t \in Threads, SecondLookup(t)
    PROVE  Inv'
<1> USE TokenAssumption DEF Inv, SecondLookup, Silent, Goto, None
<1>1. TypeOK'
  BY DEF TypeOK, InLock, TokenInv, LockGuardsRefresh
<1>2. LockGuardsRefresh'
  BY DEF TypeOK, LockGuardsRefresh, InLock
<1>3. TokenInv'
  BY OneInLock DEF TypeOK, TokenInv, InLock
<1>4. TokenOutlivesCallStart'
  BY DEF TypeOK, TokenOutlivesCallStart, TokenInv
<1> QED
  BY <1>1, <1>2, <1>3, <1>4

(* MSAL's own lookup finds the token of the current epoch.                 *)
LEMMA GrantFromCacheStep ==
    ASSUME Inv, NEW t \in Threads, GrantFromCache(t)
    PROVE  Inv'
<1> USE TokenAssumption DEF Inv, GrantFromCache, Goto, None
<1>1. TypeOK'
  BY DEF TypeOK, InLock, TokenInv, LockGuardsRefresh
<1>2. LockGuardsRefresh'
  BY DEF TypeOK, LockGuardsRefresh, InLock
<1>3. TokenInv'
  BY OneInLock DEF TypeOK, TokenInv, InLock
<1>4. TokenOutlivesCallStart'
  BY DEF TypeOK, TokenOutlivesCallStart, TokenInv
<1> QED
  BY <1>1, <1>2, <1>3, <1>4

(* The request leaves on an empty cache.                                   *)
LEMMA AskEntraStep ==
    ASSUME Inv, NEW t \in Threads, AskEntra(t)
    PROVE  Inv'
<1> USE TokenAssumption DEF Inv, AskEntra, Goto, None
<1>1. TypeOK'
  BY DEF TypeOK, InLock, TokenInv, LockGuardsRefresh
<1>2. LockGuardsRefresh'
  BY DEF TypeOK, LockGuardsRefresh, InLock
<1>3. TokenInv'
  BY OneInLock DEF TypeOK, TokenInv, InLock
<1>4. TokenOutlivesCallStart'
  BY DEF TypeOK, TokenOutlivesCallStart, TokenInv
<1> QED
  BY <1>1, <1>2, <1>3, <1>4

(* Only the thread in "entra" fills the cache, which was empty.            *)
LEMMA EntraAnswersStep ==
    ASSUME Inv, NEW t \in Threads, EntraAnswers(t)
    PROVE  Inv'
<1> USE TokenAssumption DEF Inv, EntraAnswers, Goto, None
<1>1. TypeOK'
  BY DEF TypeOK, InLock, TokenInv, LockGuardsRefresh
<1>2. LockGuardsRefresh'
  BY DEF TypeOK, LockGuardsRefresh, InLock
<1>3. TokenInv'
  BY OneInLock DEF TypeOK, TokenInv, InLock
<1>4. TokenOutlivesCallStart'
  BY DEF TypeOK, TokenOutlivesCallStart, TokenInv
<1> QED
  BY <1>1, <1>2, <1>3, <1>4

LEMMA ReleaseStep ==
    ASSUME Inv, NEW t \in Threads, Release(t)
    PROVE  Inv'
<1> USE TokenAssumption DEF Inv, Release, Goto, None
<1>1. TypeOK'
  BY DEF TypeOK, InLock, TokenInv, LockGuardsRefresh
<1>2. LockGuardsRefresh'
  BY DEF TypeOK, LockGuardsRefresh, InLock
<1>3. TokenInv'
  BY OneInLock DEF TypeOK, TokenInv, InLock
<1>4. TokenOutlivesCallStart'
  BY DEF TypeOK, TokenOutlivesCallStart, TokenInv
<1> QED
  BY <1>1, <1>2, <1>3, <1>4

LEMMA ExamineStep ==
    ASSUME Inv, NEW t \in Threads, Examine(t)
    PROVE  Inv'
<1> USE TokenAssumption DEF Inv, Examine, Goto, None
<1>1. TypeOK'
  BY DEF TypeOK, InLock, TokenInv, LockGuardsRefresh
<1>2. LockGuardsRefresh'
  BY DEF TypeOK, LockGuardsRefresh, InLock
<1>3. TokenInv'
  BY OneInLock DEF TypeOK, TokenInv, InLock
<1>4. TokenOutlivesCallStart'
  BY DEF TypeOK, TokenOutlivesCallStart, TokenInv
<1> QED
  BY <1>1, <1>2, <1>3, <1>4

(* An expiry empties the cache and opens an epoch nothing is granted in.   *)
LEMMA ExpireStep ==
    ASSUME Inv, Expire
    PROVE  Inv'
BY TokenAssumption
   DEF Inv, Expire, TypeOK, LockGuardsRefresh, TokenInv,
       TokenOutlivesCallStart, InLock, None

LEMMA StutterStep ==
    ASSUME Inv, UNCHANGED vars
    PROVE  Inv'
BY DEF Inv, vars, TypeOK, LockGuardsRefresh, TokenInv,
       TokenOutlivesCallStart

(* What holds of every interleaving of the callers.                        *)
THEOREM TokenInvariant == Spec => []Inv
<1>1. Init => Inv
  BY InitInv
<1>2. Inv /\ [Next]_vars => Inv'
  <2> SUFFICES ASSUME Inv, [Next]_vars PROVE Inv'
    OBVIOUS
  <2>1. ASSUME NEW t \in Threads, Call(t) \/ Step(t) \/ EntraAnswers(t)
        PROVE  Inv'
    BY <2>1, CallStep, FirstLookupStep, AcquireStep, SecondLookupStep, GrantFromCacheStep,
       AskEntraStep, EntraAnswersStep, ReleaseStep, ExamineStep DEF Step
  <2>2. CASE Expire
    BY <2>2, ExpireStep
  <2>3. CASE UNCHANGED vars
    BY <2>3, StutterStep
  <2> QED
    BY <2>1, <2>2, <2>3 DEF Next, Terminated
<1> QED
  BY <1>1, <1>2, PTL DEF Spec

(* _token_lock is held exactly around the refresh, by at most one caller.  *)
THEOREM LockIsExclusive == Spec => []LockGuardsRefresh
<1>1. Inv => LockGuardsRefresh
  BY DEF Inv
<1> QED
  BY <1>1, TokenInvariant, PTL

(* Type correctness; the lock has one holder at most.                      *)
THEOREM TokenTypeOK == Spec => []TypeOK
<1>1. Inv => TypeOK
  BY DEF Inv
<1> QED
  BY <1>1, TokenInvariant, PTL

(* "Only the first to acquire the lock actually calls Entra ID".           *)
THEOREM OneGrant == Spec => []OneGrantPerExpiry
<1>1. Inv => OneGrantPerExpiry
  BY DEF Inv, TokenInv, OneGrantPerExpiry
<1> QED
  BY <1>1, TokenInvariant, PTL

(* No caller is handed a token that had expired when its call began.       *)
THEOREM TokenIsFresh == Spec => []TokenOutlivesCallStart
<1>1. Inv => TokenOutlivesCallStart
  BY DEF Inv
<1> QED
  BY <1>1, TokenInvariant, PTL

-----------------------------------------------------------------------------
(* A thread can go on: the guards of Call and Step.                        *)
CanGo(t) ==
    \/ pc[t] = "idle" /\ calls[t] < MaxCalls
    \/ pc[t] = "lock" /\ lock = {}
    \/ pc[t] \in {"silent", "recheck", "grant", "release", "examine"}

(* Waiting for the lock never ends in everybody waiting: as long as calls  *)
(* are to be made or under way, some thread can go on, or the one thread   *)
(* that holds the lock waits for Entra ID, which nothing here can force to *)
(* answer.                                                                 *)
THEOREM LockNeverBlocksAll ==
  Spec => [](~Done => \E t \in Threads : CanGo(t) \/ (pc[t] = "entra" /\ lock = {t}))
<1>1. ASSUME Inv, ~Done
      PROVE  \E t \in Threads : CanGo(t) \/ (pc[t] = "entra" /\ lock = {t})
  <2> USE DEF Inv
  <2>1. PICK t \in Threads : pc[t] # "idle" \/ calls[t] < MaxCalls
    <3>1. PICK t \in Threads : ~(pc[t] = "idle" /\ calls[t] = MaxCalls)
      BY <1>1 DEF Done
    <3>2. calls[t] \in 0..MaxCalls /\ MaxCalls \in Nat
      BY <1>1, TokenAssumption DEF TypeOK
    <3> QED
      BY <3>1, <3>2
  <2>2. CASE pc[t] = "lock" /\ lock # {}
    <3>1. PICK h \in Threads : h \in lock /\ lock = {h} /\ pc[h] \in InLock
      BY <1>1, <2>2 DEF TypeOK, LockGuardsRefresh
    <3> QED
      BY <3>1 DEF CanGo, InLock
  <2>3. CASE pc[t] = "entra"
    <3>1. lock = {t}
      BY <1>1, <2>3 DEF TypeOK, LockGuardsRefresh, InLock
    <3> QED
      BY <2>3, <3>1
  <2> QED
    BY <1>1, <2>1, <2>2, <2>3 DEF TypeOK, InLock, CanGo
<1> QED
  BY <1>1, TokenInvariant, PTL

(* What a thread has still to do, the calls it has not begun included.     *)
StepsToEnd(l) ==
    CASE l = "silent"  -> 7
      [] l = "lock"    -> 6
      [] l = "recheck" -> 5
      [] l = "grant"   -> 4
      [] l = "entra"   -> 3
      [] l = "release" -> 2
      [] l = "examine" -> 1
      [] l = "idle"    -> 0

Left(t) == 8 * (MaxCalls - calls[t]) + StepsToEnd(pc[t])

(* What a step of one thread leaves of the others.                         *)
LEMMA OnlyItsOwn ==
  ASSUME TypeOK, NEW t \in Threads, NEW l \in {"idle", "silent", "lock", "examine"} \cup InLock,
         Goto(t, l),
         \/ UNCHANGED calls /\ StepsToEnd(l) < StepsToEnd(pc[t])
         \/ pc[t] = "idle" /\ l = "silent" /\ calls[t] < MaxCalls
               /\ calls' = [calls EXCEPT ![t] = @ + 1]
  PROVE  /\ Left(t)' \in Nat /\ Left(t)' < Left(t)
         /\ \A s \in Threads \ {t} : Left(s)' = Left(s)
<1>1. /\ pc'[t] = l /\ calls[t] \in 0..MaxCalls /\ MaxCalls \in Nat
      /\ \A s \in Threads \ {t} : pc'[s] = pc[s] /\ calls'[s] = calls[s]
  BY TokenAssumption DEF TypeOK, Goto
<1>2. \A m \in {"idle", "silent", "lock", "examine"} \cup InLock : StepsToEnd(m) \in 0..7
  BY DEF StepsToEnd, InLock
<1>3. pc[t] \in {"idle", "silent", "lock", "examine"} \cup InLock
  BY DEF TypeOK
<1>4. CASE UNCHANGED calls /\ StepsToEnd(l) < StepsToEnd(pc[t])
  <2>1. StepsToEnd(l) \in 0..7 /\ StepsToEnd(pc[t]) \in 0..7
    BY <1>2, <1>3
  <2>2. Left(t)' = 8 * (MaxCalls - calls[t]) + StepsToEnd(l)
    BY <1>1, <1>4 DEF Left
  <2>3. \A s \in Threads \ {t} : Left(s)' = Left(s)
    BY <1>1 DEF Left
  <2> QED
    BY <1>1, <1>4, <2>1, <2>2, <2>3 DEF Left
<1>5. CASE pc[t] = "idle" /\ l = "silent" /\ calls[t] < MaxCalls
             /\ calls' = [calls EXCEPT ![t] = @ + 1]
  <2>1. calls'[t] = calls[t] + 1
    BY <1>5 DEF TypeOK
  <2>2. StepsToEnd(l) = 7 /\ StepsToEnd(pc[t]) = 0
    BY <1>5 DEF StepsToEnd
  <2> QED
    BY <1>1, <1>5, <2>1, <2>2 DEF Left
<1> QED
  BY <1>4, <1>5

(* acquire_bearer_token never goes round: every step of a thread brings    *)
(* that thread nearer to the end of its calls and sets no other back; an   *)
(* expiring token sets none back.                                          *)
THEOREM EveryStepNearsTheEnd ==
  Spec => [][\/ Expire /\ \A s \in Threads : Left(s)' = Left(s)
             \/ \E t \in Threads :
                   /\ Left(t)' \in Nat /\ Left(t)' < Left(t)
                   /\ \A s \in Threads \ {t} : Left(s)' = Left(s)]_vars
<1> DEFINE Nearer(t) == /\ Left(t)' \in Nat /\ Left(t)' < Left(t)
                        /\ \A s \in Threads \ {t} : Left(s)' = Left(s)
<1>1. ASSUME Inv, NEW t \in Threads, Call(t) \/ Step(t) \/ EntraAnswers(t)
      PROVE  Nearer(t)
  <2>1. TypeOK
    BY <1>1 DEF Inv
  <2>2. CASE Call(t)
    BY <2>1, <2>2, OnlyItsOwn DEF Call
  <2>3. ASSUME UNCHANGED calls,
               \E l \in {"idle", "silent", "lock", "examine"} \cup InLock :
                   Goto(t, l) /\ StepsToEnd(l) < StepsToEnd(pc[t])
        PROVE  Nearer(t)
    BY <2>1, <2>3, OnlyItsOwn
  <2> HIDE DEF Nearer
  <2>4. CASE FirstLookup(t) \/ SecondLookup(t)
    BY <2>3, <2>4 DEF FirstLookup, SecondLookup, StepsToEnd, InLock
  <2>5. CASE Acquire(t) \/ GrantFromCache(t) \/ AskEntra(t)
    BY <2>3, <2>5 DEF Acquire, GrantFromCache, AskEntra, StepsToEnd, InLock
  <2>6. CASE Release(t) \/ Examine(t) \/ EntraAnswers(t)
    BY <2>3, <2>6 DEF Release, Examine, EntraAnswers, StepsToEnd, InLock
  <2> QED
    BY <1>1, <2>2, <2>4, <2>5, <2>6 DEF Step
<1>2. ASSUME Expire
      PROVE  \A s \in Threads : Left(s)' = Left(s)
  BY <1>2 DEF Expire, Left
<1>3. Inv /\ [Next]_vars =>
        [(Expire /\ \A s \in Threads : Left(s)' = Left(s)) \/ \E t \in Threads : Nearer(t)]_vars
  BY <1>1, <1>2 DEF Next, Terminated
<1> QED
  BY <1>3, TokenInvariant, PTL DEF Spec
=============================================================================
