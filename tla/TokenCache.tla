----------------------------- MODULE TokenCache -----------------------------
(***************************************************************************)
(* DataverseClient.acquire_bearer_token: every request of every worker     *)
(* builds its headers through it. MSAL's token cache is read without a     *)
(* lock; on a miss the caller takes _token_lock, reads the cache again and *)
(* only then asks Entra ID. The grant's answer is examined after the lock  *)
(* is released. MSAL and Entra ID are external, modelled from this use.    *)
(***************************************************************************)
EXTENDS Integers, FiniteSets

CONSTANTS Threads,          \* the callers: the worker threads of one run
          MaxCalls,         \* bound on the calls each of them makes
          MaxExpiries,      \* bound on how often a cached token expires
          Answers           \* how Entra ID may answer in this instance

ASSUME TokenAssumption ==
    /\ IsFiniteSet(Threads) /\ Threads # {}
    /\ MaxCalls \in Nat /\ MaxExpiries \in Nat
    /\ Answers \subseteq {"token", "error", "unreachable"}

None == -1

VARIABLES
    silentLooksUp, \* a trait of the MSAL version: acquire_token_silent with
               \* account=None reads the cache; otherwise it returns None and
               \* acquire_token_for_client reads the cache before it asks
    pc,        \* per thread: where it is in acquire_bearer_token
    calls,     \* per thread: calls begun
    result,    \* per thread: the local variable, None or a token's epoch
    answer,    \* per thread: how its latest call ended
    lock,      \* the holders of _token_lock
    cache,     \* MSAL's cached token, None once it is due for refresh
    epoch,     \* how many tokens have expired so far
    begun,     \* history, per thread: the epoch its call began in
    granted    \* history: the tokens granted since the last expiry

vars == <<silentLooksUp, pc, calls, result, answer, lock, cache, epoch, begun, granted>>

Init ==
    /\ silentLooksUp \in BOOLEAN
    /\ pc = [t \in Threads |-> "idle"]
    /\ calls = [t \in Threads |-> 0]
    /\ result = [t \in Threads |-> None]
    /\ answer = [t \in Threads |-> "none"]
    /\ lock = {}
    /\ cache = None /\ epoch = 0
    /\ begun = [t \in Threads |-> 0]
    /\ granted = 0

Goto(t, l) == pc' = [pc EXCEPT ![t] = l]

-----------------------------------------------------------------------------
Call(t) ==
    /\ pc[t] = "idle" /\ calls[t] < MaxCalls
    /\ Goto(t, "silent")
    /\ calls' = [calls EXCEPT ![t] = @ + 1]
    /\ begun' = [begun EXCEPT ![t] = epoch]
    /\ answer' = [answer EXCEPT ![t] = "none"]
    /\ UNCHANGED <<result, lock, cache, epoch, granted, silentLooksUp>>

Silent == IF silentLooksUp THEN cache ELSE None

ReuseTokenOfLastCall(t) ==
    /\ pc[t] = "silent"
    /\ result' = [result EXCEPT ![t] = IF @ = None THEN Silent ELSE @]
    /\ Goto(t, IF result'[t] = None THEN "lock" ELSE "examine")
    /\ UNCHANGED <<calls, answer, lock, cache, epoch, begun, granted, silentLooksUp>>

(* acquire_token_silent, before the lock.                                  *)
FirstLookup(t) ==
    /\ pc[t] = "silent"
    /\ result' = [result EXCEPT ![t] = Silent]
    /\ Goto(t, IF Silent = None THEN "lock" ELSE "examine")
    /\ UNCHANGED <<calls, answer, lock, cache, epoch, begun, granted, silentLooksUp>>

AcquireUnguarded(t) ==
    /\ pc[t] = "lock"
    /\ lock' = lock \cup {t}
    /\ Goto(t, "recheck")
    /\ UNCHANGED <<calls, result, answer, cache, epoch, begun, granted, silentLooksUp>>

Acquire(t) ==
    /\ pc[t] = "lock" /\ lock = {}
    /\ lock' = {t}
    /\ Goto(t, "recheck")
    /\ UNCHANGED <<calls, result, answer, cache, epoch, begun, granted, silentLooksUp>>

NoSecondLookup(t) ==
    /\ pc[t] = "recheck"
    /\ Goto(t, "grant")
    /\ UNCHANGED <<calls, result, answer, lock, cache, epoch, begun, granted, silentLooksUp>>

(* acquire_token_silent again, under the lock.                             *)
SecondLookup(t) ==
    /\ pc[t] = "recheck"
    /\ result' = [result EXCEPT ![t] = Silent]
    /\ Goto(t, IF Silent = None THEN "grant" ELSE "release")
    /\ UNCHANGED <<calls, answer, lock, cache, epoch, begun, granted, silentLooksUp>>

(* acquire_token_for_client when MSAL itself looks in the cache first.     *)
GrantFromCache(t) ==
    /\ pc[t] = "grant" /\ ~silentLooksUp /\ cache # None
    /\ result' = [result EXCEPT ![t] = cache]
    /\ Goto(t, "release")
    /\ UNCHANGED <<calls, answer, lock, cache, epoch, begun, granted, silentLooksUp>>

(* The request to Entra ID leaves.                                         *)
AskEntra(t) ==
    /\ pc[t] = "grant" /\ (silentLooksUp \/ cache = None)
    /\ Goto(t, "entra")
    /\ UNCHANGED <<calls, result, answer, lock, cache, epoch, begun, granted, silentLooksUp>>

(* Entra ID answers: MSAL caches a token; a refusal is a result without    *)
(* one; a network error is an exception, which leaves through the with     *)
(* block (releasing the lock) and out of acquire_bearer_token.             *)
EntraAnswers(t) ==
    /\ pc[t] = "entra"
    /\ \/ /\ "token" \in Answers
          /\ cache' = epoch /\ granted' = granted + 1
          /\ result' = [result EXCEPT ![t] = epoch]
          /\ Goto(t, "release")
          /\ UNCHANGED <<answer, lock>>
       \/ /\ "error" \in Answers
          /\ Goto(t, "release")
          /\ UNCHANGED <<result, answer, lock, cache, granted>>
       \/ /\ "unreachable" \in Answers
          /\ answer' = [answer EXCEPT ![t] = "ConnectionError"]
          /\ lock' = lock \ {t}
          /\ Goto(t, "idle")
          /\ UNCHANGED <<result, cache, granted>>
    /\ UNCHANGED <<calls, epoch, begun, silentLooksUp>>

KeepLockOnRefusal(t) ==
    /\ pc[t] = "release"
    /\ lock' = IF result[t] = None THEN lock ELSE lock \ {t}
    /\ Goto(t, "examine")
    /\ UNCHANGED <<calls, result, answer, cache, epoch, begun, granted, silentLooksUp>>

Release(t) ==
    /\ pc[t] = "release"
    /\ lock' = lock \ {t}
    /\ Goto(t, "examine")
    /\ UNCHANGED <<calls, result, answer, cache, epoch, begun, granted, silentLooksUp>>

(* if not result or "access_token" not in result: raise ...                *)
Examine(t) ==
    /\ pc[t] = "examine"
    /\ answer' = [answer EXCEPT ![t] =
                    IF result[t] = None THEN "AuthenticationError" ELSE "token"]
    /\ Goto(t, "idle")
    /\ UNCHANGED <<calls, result, lock, cache, epoch, begun, granted, silentLooksUp>>

Step(t) ==
    FirstLookup(t) \/ Acquire(t) \/ SecondLookup(t) \/ GrantFromCache(t)
        \/ AskEntra(t) \/ Release(t) \/ Examine(t)

(* Time passes: MSAL no longer serves the cached token.                    *)
Expire ==
    /\ cache # None /\ epoch < MaxExpiries
    /\ cache' = None /\ epoch' = epoch + 1 /\ granted' = 0
    /\ UNCHANGED <<pc, calls, result, answer, lock, begun, silentLooksUp>>

Done == \A t \in Threads : pc[t] = "idle" /\ calls[t] = MaxCalls

Terminated == Done /\ UNCHANGED vars

Next ==
    \/ \E t \in Threads : Call(t) \/ Step(t) \/ EntraAnswers(t)
    \/ Expire \/ Terminated

Spec == Init /\ [][Next]_vars

(* Threads run; each makes finitely many calls, so the lock is free again  *)
(* and again until a waiter takes it. Nothing is assumed of Entra ID: MSAL *)
(* is built without a timeout.                                             *)
FairSpec == Spec /\ \A t \in Threads : WF_vars(Call(t)) /\ WF_vars(Step(t))

-----------------------------------------------------------------------------
InLock == {"recheck", "grant", "entra", "release"}

TypeOK ==
    /\ silentLooksUp \in BOOLEAN
    /\ pc \in [Threads -> {"idle", "silent", "lock", "examine"} \cup InLock]
    /\ calls \in [Threads -> 0..MaxCalls]
    /\ result \in [Threads -> {None} \cup 0..MaxExpiries]
    /\ answer \in [Threads -> {"none", "token", "AuthenticationError", "ConnectionError"}]
    /\ lock \subseteq Threads /\ \A s, t \in lock : s = t
    /\ cache \in {None} \cup 0..MaxExpiries
    /\ epoch \in 0..MaxExpiries
    /\ begun \in [Threads -> 0..MaxExpiries]
    /\ granted \in Nat

(* _token_lock guards the whole refresh and nothing else: its holders are  *)
(* the threads between the second lookup and the release, so neither a     *)
(* refusal nor an exception leaves it locked.                              *)
LockGuardsRefresh == lock = {t \in Threads : pc[t] \in InLock}

(* "Only the first to acquire the lock actually calls Entra ID": one token *)
(* is granted for each expiry, however many threads saw the miss.          *)
OneGrantPerExpiry == granted <= 1

(* A token handed to a caller is not one that had already expired when the *)
(* call began, however long it waited for the lock.                        *)
TokenOutlivesCallStart ==
    \A t \in Threads : answer[t] = "token" => result[t] >= begun[t]

(* What makes the two properties above inductive.                          *)
TokenInv ==
    /\ cache = None => granted = 0
    /\ cache # None => cache = epoch /\ granted = 1
    /\ \A t \in Threads :
        /\ begun[t] <= epoch
        /\ pc[t] = "entra" \/ (pc[t] = "grant" /\ silentLooksUp) => cache = None
        /\ pc[t] \in {"lock", "recheck", "grant", "entra"} => result[t] = None
        /\ pc[t] \in {"examine", "release"} => result[t] = None \/ result[t] >= begun[t]
        /\ answer[t] # "none" => pc[t] = "idle"

(* Only Entra ID can keep a caller waiting: every call ends, unless some   *)
(* thread waits for Entra ID for ever (holding the lock).                  *)
OnlyEntraBlocks == <>Done \/ <>[](\E t \in Threads : pc[t] = "entra")
=============================================================================
