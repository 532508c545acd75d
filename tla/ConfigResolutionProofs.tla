----------------------- MODULE ConfigResolutionProofs -----------------------
(***************************************************************************)
(* Where a loaded value can come from, for any set of fields, any number   *)
(* of edits, polls and runs of the scripts, and any interleaving of        *)
(* operator, scripts and load.  The properties speak of the step that ends *)
(* a load; FetchInv and OwedInv carry to it what the load read and when:   *)
(* whatever it has from the vault was held during it, it does not merge    *)
(* before it has read every secret, and what it read of .env is what the   *)
(* operator is owed.                                                       *)
(***************************************************************************)
EXTENDS ConfigResolution, TLAPS

FetchInv ==
    /\ \A f \in Vaulted :
        /\ load # "idle" => vault[f] \in during[f]
        /\ fetched[f] # "unset" => fetched[f] \in during[f]
        /\ load = "merging" /\ urlSeen => fetched[f] # "unset"
    /\ \A f \in Fields : fetched[f] # "unset" => urlSeen /\ f \in Vaulted
    /\ load = "fetching" => urlSeen

OwedInv ==
    \A f \in Fields :
        /\ script # "copying" /\ owed[f] # "any" => dotenv[f] = owed[f]
        /\ Replacing /\ owed[f] # "any" => temporary.lines[f] = owed[f]
        /\ load # "idle" /\ owedSeen[f] # "any" => dotenvSeen[f] = owedSeen[f]

Inv == TypeOK /\ FetchInv /\ OwedInv

LEMMA InitInv == Init => Inv
<1> SUFFICES ASSUME Init PROVE Inv
  OBVIOUS
<1>1. TypeOK
  <2>1. /\ Nothing \in [Fields -> {"unset"}] /\ env = Nothing /\ envSeen = Nothing
        /\ dotenvSeen = Nothing /\ fetched = Nothing /\ settings = Nothing
        /\ owedSeen = Nothing
    BY DEF Init, Nothing
  <2>2. /\ dotenv \in [Fields -> {"old", "unset"}] /\ owed = dotenv
        /\ vault \in [Vaulted -> {"unset"}]
        /\ during = Unread /\ Unread \in [Vaulted -> SUBSET Secrets]
    BY DEF Init, Unread
  <2>3. /\ tail \in Fields \cup {"none"} /\ urlLine \in {"absent", "blank", "set"}
        /\ edits \in 0..MaxEdits /\ polls \in 0..MaxAttempts
    BY ConfigAssumption DEF Init
  <2>4. temporary \in [lines : [Fields -> Held], tail : Fields \cup {"none"}]
    BY <2>1 DEF Init, NoFile, Held
  <2>5. {owed, owedSeen} \subseteq [Fields -> Texts \cup {"unset", "any"}]
    BY <2>1, <2>2 DEF Texts
  <2>6. /\ env \in [Fields -> Held] /\ envSeen \in [Fields -> Held]
        /\ dotenv \in [Fields -> Held] /\ dotenvSeen \in [Fields -> Held]
        /\ settings \in [Fields -> Held \cup {"default"}]
    BY <2>1, <2>2 DEF Held, Texts
  <2>7. /\ fetched \in [Fields -> Secrets] /\ vault \in [Vaulted -> Secrets]
    BY <2>1, <2>2 DEF Secrets, Held
  <2> QED
    BY <2>2, <2>3, <2>4, <2>5, <2>6, <2>7 DEF Init, TypeOK
<1>2. FetchInv
  BY ConfigAssumption DEF Init, FetchInv, Nothing
<1>3. OwedInv
  BY DEF Init, OwedInv, Replacing
<1> QED
  BY <1>1, <1>2, <1>3 DEF Inv

-----------------------------------------------------------------------------
(* What the operator saves is what he is owed, unless the script is        *)
(* replacing the file.                                                     *)
LEMMA OperatorStep ==
    ASSUME Inv, SetEnv \/ ExportUrl \/ EditDotenv
    PROVE  Inv'
<1>1. UNCHANGED <<loader, vault, init>>
  BY DEF SetEnv, ExportUrl, EditDotenv, azure
<1>2. TypeOK'
  <2> USE ConfigAssumption DEF Inv, TypeOK, Edit, Held, Texts, azure, init, loader
  <2>1. CASE SetEnv
    BY <2>1 DEF SetEnv
  <2>2. CASE ExportUrl
    BY <2>2 DEF ExportUrl
  <2>3. CASE EditDotenv
    BY <2>3 DEF EditDotenv
  <2> QED
    BY <2>1, <2>2, <2>3
<1>3. FetchInv'
  BY <1>1 DEF Inv, FetchInv, loader
<1>4. OwedInv'
  <2>1. CASE SetEnv \/ ExportUrl
    BY <2>1, <1>1 DEF SetEnv, ExportUrl, Inv, OwedInv, Replacing, init, loader
  <2>2. CASE EditDotenv
    BY <2>2, <1>1 DEF EditDotenv, Inv, TypeOK, OwedInv, Replacing, init, loader
  <2> QED
    BY <2>1, <2>2
<1> QED
  BY <1>2, <1>3, <1>4 DEF Inv

LEMMA ProvisionStep ==
    ASSUME Inv, StartInit \/ RolePropagates \/ Poll
    PROVE  Inv'
<1>1. /\ UNCHANGED <<loader, vault, dotenv, owed, temporary>>
      /\ Replacing' <=> Replacing
      /\ script # "copying" <=> script' # "copying"
  BY DEF StartInit, RolePropagates, Poll, operator, init, azure, Replacing
<1>2. TypeOK'
  <2> USE ConfigAssumption DEF Inv, TypeOK, Held, Texts, operator, azure, init, loader
  <2>1. CASE StartInit
    BY <2>1 DEF StartInit, Edit
  <2>2. CASE RolePropagates
    BY <2>2 DEF RolePropagates
  <2>3. CASE Poll
    BY <2>3 DEF Poll
  <2> QED
    BY <2>1, <2>2, <2>3
<1>3. FetchInv' /\ OwedInv'
  BY <1>1 DEF Inv, FetchInv, OwedInv, loader
<1> QED
  BY <1>2, <1>3 DEF Inv

(* Between the copy it makes and the rename, what the operator is owed is  *)
(* in the script's file; a copy cut short owes him nothing any more.       *)
LEMMA WriteStep ==
    ASSUME Inv, AppendUrl \/ SubstituteUrl \/ CopyPart \/ Replace \/ InitAborts
    PROVE  Inv'
<1>1. UNCHANGED <<loader, vault, role>>
  BY DEF AppendUrl, SubstituteUrl, CopyPart, Replace, InitAborts, azure
<1>2. FetchInv'
  BY <1>1 DEF Inv, FetchInv, loader
<1> USE ConfigAssumption, <1>1
        DEF Inv, TypeOK, OwedInv, Replacing, operator, init, loader, NoFile, Nothing, Anything
<1>3. CASE AppendUrl
  <2>1. TypeOK'
    BY <1>3 DEF AppendUrl, Held, Texts
  <2>2. OwedInv'
    BY <1>3 DEF AppendUrl
  <2> QED
    BY <1>2, <2>1, <2>2
<1>4. CASE SubstituteUrl
  <2>1. TypeOK'
    BY <1>4 DEF SubstituteUrl
  <2>2. OwedInv'
    BY <1>4 DEF SubstituteUrl
  <2> QED
    BY <1>2, <2>1, <2>2
<1>5. CASE CopyPart
  <2>1. dotenv' \in [Fields -> Held] /\ tail' \in Fields \cup {"none"}
    BY <1>5 DEF CopyPart, Held, Texts
  <2>2. urlLine' \in {"absent", "blank", "set"}
    BY <1>5 DEF CopyPart
  <2>3. TypeOK'
    BY <1>5, <2>1, <2>2 DEF CopyPart
  <2>4. OwedInv'
    BY <1>5 DEF CopyPart
  <2> QED
    BY <1>2, <2>3, <2>4
<1>6. CASE Replace
  <2>1. TypeOK'
    BY <1>6 DEF Replace, Held
  <2>2. OwedInv'
    BY <1>6 DEF Replace
  <2> QED
    BY <1>2, <2>1, <2>2
<1>7. CASE InitAborts
  <2>1. TypeOK'
    BY <1>7 DEF InitAborts, Held
  <2>2. OwedInv'
    BY <1>7 DEF InitAborts
  <2> QED
    BY <1>2, <2>1, <2>2
<1> QED
  BY <1>3, <1>4, <1>5, <1>6, <1>7

(* What the vault comes to hold during a load is recorded as held then.    *)
LEMMA HoldKeeps ==
    ASSUME Inv, NEW f \in Vaulted, NEW x \in Secrets, Hold(f, x),
           UNCHANGED <<env, exported, dotenv, urlLine, tail, owed>>, edits' \in 0..MaxEdits
    PROVE  Inv'
<1> USE ConfigAssumption DEF Inv, Hold
<1>1. TypeOK'
  <2>1. vault' \in [Vaulted -> Secrets]
    BY DEF TypeOK
  <2>2. during' \in [Vaulted -> SUBSET Secrets]
    BY DEF TypeOK
  <2> QED
    BY <2>1, <2>2 DEF TypeOK, init
<1>2. FetchInv'
  BY DEF TypeOK, FetchInv
<1>3. OwedInv'
  BY DEF OwedInv, Replacing, init
<1> QED
  BY <1>1, <1>2, <1>3

LEMMA VaultStep ==
    ASSUME Inv, NEW f \in Vaulted, DisableSecret(f) \/ Store(f)
    PROVE  Inv'
<1> USE ConfigAssumption
<1>1. f \in Fields
  OBVIOUS
<1>2. CASE DisableSecret(f)
  <2>1. "no value" \in Secrets
    BY DEF Secrets
  <2>2. edits \in 0..MaxEdits /\ edits < MaxEdits /\ edits' = edits + 1
    BY <1>2 DEF DisableSecret, Edit, Inv, TypeOK
  <2>3. edits' \in 0..MaxEdits
    BY <2>2
  <2> QED
    BY <1>2, <2>1, <2>3, HoldKeeps DEF DisableSecret
<1>3. CASE Store(f)
  <2>1. dotenv[f] \in Secrets /\ edits' \in 0..MaxEdits
    BY <1>1, <1>3 DEF Store, Push, Secrets, Inv, TypeOK, operator
  <2> QED
    BY <1>3, <2>1, HoldKeeps DEF Store, Push, operator
<1> QED
  BY <1>2, <1>3

-----------------------------------------------------------------------------
LEMMA BeginLoadStep ==
    ASSUME Inv, BeginLoad
    PROVE  Inv'
<1> USE ConfigAssumption DEF Inv, BeginLoad, Nothing, Anything
<1>1. TypeOK'
  <2>1. owedSeen' \in [Fields -> Texts \cup {"unset", "any"}]
    BY DEF TypeOK
  <2>2. /\ fetched' \in [Fields -> Secrets]
        /\ settings' \in [Fields -> Held \cup {"default"}]
    BY DEF Secrets, Held
  <2>3. during' \in [Vaulted -> SUBSET Secrets]
    BY DEF TypeOK
  <2> QED
    BY <2>1, <2>2, <2>3 DEF TypeOK, operator, azure, init
<1>2. FetchInv'
  BY DEF TypeOK, FetchInv, UseVault, azure
<1>3. OwedInv'
  BY DEF TypeOK, OwedInv, Replacing, operator, init
<1> QED
  BY <1>1, <1>2, <1>3

(* Nothing is left of a load that has ended but what it returned.          *)
LEMMA EndStep ==
    ASSUME Inv, NEW how \in {"loaded", "ValidationError", "ResourceNotFoundError", "AzureError"},
           NEW values \in [Fields -> Held \cup {"default"}],
           End(how, values), UNCHANGED <<operator, azure, init>>
    PROVE  Inv'
<1> USE ConfigAssumption DEF Inv, End, Nothing
<1>1. TypeOK'
  <2>1. /\ envSeen' \in [Fields -> Held] /\ dotenvSeen' \in [Fields -> Held]
        /\ fetched' \in [Fields -> Secrets] /\ during' \in [Vaulted -> SUBSET Secrets]
        /\ owedSeen' \in [Fields -> Texts \cup {"unset", "any"}]
        /\ urlSeen' \in BOOLEAN
    BY DEF Held, Secrets, Unread
  <2>2. /\ load' \in {"idle", "fetching", "merging"}
        /\ result' \in {"none", "loaded", "ValidationError", "ResourceNotFoundError",
                        "AzureError"}
        /\ settings' \in [Fields -> Held \cup {"default"}]
    OBVIOUS
  <2> QED
    BY <2>1, <2>2 DEF TypeOK, operator, azure, init
<1>2. FetchInv'
  BY DEF FetchInv
<1>3. OwedInv'
  BY DEF OwedInv, Replacing, operator, init
<1> QED
  BY <1>1, <1>2, <1>3

LEMMA FailStep ==
    ASSUME Inv, NEW error \in {"ValidationError", "ResourceNotFoundError", "AzureError"},
           Fail(error), UNCHANGED <<operator, azure, init>>
    PROVE  Inv'
<1>1. Nothing \in [Fields -> Held \cup {"default"}]
  BY DEF Nothing, Held
<1> QED
  BY <1>1, EndStep DEF Fail

(* It merges only when the secret just read was the last one to read.      *)
LEMMA FetchStep ==
    ASSUME Inv, NEW f \in Vaulted, Fetch(f)
    PROVE  Inv'
<1> USE ConfigAssumption DEF Inv
<1>1. CASE \E error \in {"ResourceNotFoundError", "AzureError"} : Fail(error)
  BY <1>1, FailStep DEF Fetch
<1>2. CASE GetSecret(f)
  <2> USE <1>2 DEF Fetch, GetSecret
  <2>1. f \in Fields /\ vault[f] \in Secrets /\ vault[f] \in during[f] /\ load = "fetching"
    BY DEF TypeOK, FetchInv
  <2>2. load' = "merging" => \A g \in Vaulted : fetched'[g] # "unset"
    <3> SUFFICES ASSUME load' = "merging", NEW g \in Vaulted PROVE fetched'[g] # "unset"
      OBVIOUS
    <3>1. Unfetched = {f}
      BY <2>1
    <3>2. g = f \/ fetched[g] # "unset"
      BY <3>1 DEF Unfetched
    <3> QED
      BY <2>1, <3>2 DEF TypeOK
  <2>3. TypeOK'
    BY <2>1 DEF TypeOK, operator, azure, init
  <2>4. FetchInv'
    BY <2>1, <2>2 DEF TypeOK, FetchInv, azure
  <2>5. OwedInv'
    BY <2>1 DEF OwedInv, Replacing, operator, init
  <2> QED
    BY <2>3, <2>4, <2>5
<1> QED
  BY <1>1, <1>2 DEF Fetch

(* What the merge makes of a field, source by source.                      *)
LEMMA ResolvedIs ==
    ASSUME Inv, NEW f \in Fields
    PROVE  /\ Resolved(f) \in Held \cup {"default"}
           /\ envSeen[f] # "unset" => Resolved(f) = envSeen[f]
           /\ envSeen[f] = "unset" /\ fetched[f] \notin {"unset", "no value"} =>
                Resolved(f) = fetched[f]
           /\ envSeen[f] = "unset" /\ fetched[f] \in {"unset", "no value"} =>
                Resolved(f) = FirstSet(dotenvSeen[f], Default(f))
<1>1. /\ envSeen[f] \in Held /\ FromVault(f) \in Held /\ dotenvSeen[f] \in Held
      /\ Default(f) \in {"unset", "default"}
  BY DEF Inv, TypeOK, Default, FromVault, Secrets, Held
<1> QED
  BY <1>1 DEF Resolved, FirstSet, FromVault, Held

LEMMA MergeStep ==
    ASSUME Inv, Merge
    PROVE  Inv'
<1>1. CASE Fail("ValidationError")
  BY <1>1, FailStep DEF Merge
<1>2. CASE End("loaded", [f \in Fields |-> Resolved(f)])
  <2>1. [f \in Fields |-> Resolved(f)] \in [Fields -> Held \cup {"default"}]
    BY ResolvedIs
  <2> QED
    BY <1>2, <2>1, EndStep DEF Merge
<1> QED
  BY <1>1, <1>2 DEF Merge

LEMMA StutterStep ==
    ASSUME Inv, UNCHANGED vars
    PROVE  Inv'
BY DEF Inv, vars, operator, azure, init, loader, TypeOK, FetchInv, OwedInv, Replacing

-----------------------------------------------------------------------------
(* What holds of every interleaving of operator, scripts and loads.        *)
THEOREM ConfigInvariant == Spec => []Inv
<1>1. Inv /\ [Next]_vars => Inv'
  <2> SUFFICES ASSUME Inv, [Next]_vars PROVE Inv'
    OBVIOUS
  <2>1. CASE SetEnv \/ ExportUrl \/ EditDotenv
    BY <2>1, OperatorStep
  <2>2. CASE StartInit \/ RolePropagates \/ Poll
    BY <2>2, ProvisionStep
  <2>3. CASE AppendUrl \/ SubstituteUrl \/ CopyPart \/ Replace \/ InitAborts
    BY <2>3, WriteStep
  <2>4. CASE \E f \in Vaulted : DisableSecret(f) \/ Store(f) \/ Fetch(f)
    BY <2>4, VaultStep, FetchStep
  <2>5. CASE BeginLoad \/ Merge
    BY <2>5, BeginLoadStep, MergeStep
  <2>6. CASE UNCHANGED vars
    BY <2>6, StutterStep
  <2> QED
    BY <2>1, <2>2, <2>3, <2>4, <2>5, <2>6 DEF Next
<1> QED
  BY <1>1, InitInv, PTL DEF Spec

(* Type correctness, for any fields and bounds.                            *)
THEOREM ConfigTypeOK == Spec => []TypeOK
<1>1. Inv => TypeOK
  BY DEF Inv
<1> QED
  BY <1>1, ConfigInvariant, PTL

-----------------------------------------------------------------------------
LEMMA LoadsResolved ==
    ASSUME Loads
    PROVE  load = "merging" /\ \A f \in Fields : settings'[f] = Resolved(f)
BY DEF Loads, Merge, Fail, End

(* With a vault configured a value comes from .env only if the vault held  *)
(* the secret without a value meanwhile; however many fields there are,    *)
(* and however often secrets are rotated or disabled during the load.      *)
THEOREM FallbackOnlyWithoutValue == Spec => FallbackNeedsNoValue
<1> DEFINE Allowed(f) ==
        \/ settings'[f] \in {envSeen[f]} \cup during[f]
        \/ /\ "no value" \in during[f] /\ envSeen[f] = "unset"
           /\ settings'[f] = dotenvSeen[f]
<1>1. Inv /\ [Next]_vars => [Loads /\ urlSeen => \A f \in Vaulted : Allowed(f)]_vars
  <2> SUFFICES ASSUME Inv, Loads, urlSeen, NEW f \in Vaulted PROVE Allowed(f)
    OBVIOUS
  <2>1. f \in Fields /\ Default(f) = "unset"
    BY ConfigAssumption DEF Default
  <2>2. load = "merging" /\ settings'[f] = Resolved(f)
    BY <2>1, LoadsResolved
  <2>3. fetched[f] # "unset" /\ fetched[f] \in during[f]
    BY <2>2 DEF Inv, FetchInv
  <2>4. FirstSet(dotenvSeen[f], Default(f)) = dotenvSeen[f]
    BY <2>1 DEF FirstSet
  <2> QED
    BY <2>1, <2>2, <2>3, <2>4, ResolvedIs
<1> QED
  BY <1>1, ConfigInvariant, PTL DEF Spec, FallbackNeedsNoValue

(* "A real environment variable always overrides".                         *)
THEOREM EnvironmentOverrides == Spec => EnvironmentWins
<1>1. Inv /\ [Next]_vars =>
        [Loads => \A f \in Fields : envSeen[f] # "unset" => settings'[f] = envSeen[f]]_vars
  BY LoadsResolved, ResolvedIs
<1> QED
  BY <1>1, ConfigInvariant, PTL DEF Spec, EnvironmentWins

(* What the vault does not supply is loaded as the operator wrote it,      *)
(* however often the scripts run, abort and run again.                     *)
THEOREM WrittenIsLoaded == Spec => LoadedAsWritten
<1> DEFINE AsWritten(f) ==
        \/ urlSeen /\ f \in Vaulted
        \/ owedSeen[f] = "any"
        \/ settings'[f] = FirstSet(envSeen[f], FirstSet(owedSeen[f], Default(f)))
<1>1. Inv /\ [Next]_vars => [Loads => \A f \in Fields : AsWritten(f)]_vars
  <2> SUFFICES ASSUME Inv, Loads, NEW f \in Fields,
                      ~(urlSeen /\ f \in Vaulted), owedSeen[f] # "any"
               PROVE  settings'[f] = FirstSet(envSeen[f], FirstSet(owedSeen[f], Default(f)))
    OBVIOUS
  <2>1. load = "merging" /\ settings'[f] = Resolved(f)
    BY LoadsResolved
  <2>2. fetched[f] = "unset" /\ dotenvSeen[f] = owedSeen[f]
    BY <2>1 DEF Inv, FetchInv, OwedInv
  <2> QED
    BY <2>1, <2>2, ResolvedIs DEF FirstSet
<1> QED
  BY <1>1, ConfigInvariant, PTL DEF Spec, LoadedAsWritten
=============================================================================
