-------------------------- MODULE ConfigResolution --------------------------
(***************************************************************************)
(* Where a run's connection settings come from, and how they get there.    *)
(* InventorySyncSettings() resolves each vault-backed field from the       *)
(* process environment, then - when that environment names a Key Vault -   *)
(* from the vault, then from .env.  The operator edits .env and the        *)
(* environment, key_vault_init.sh creates the vault and writes its URL     *)
(* into .env, key_vault_auto_pull.sh copies a value of .env into the       *)
(* vault.  Azure (the vault, the propagation of a role) is external.       *)
(* Texts are named by what tells them apart: two usable values, a blank    *)
(* one, and a malformed one, typed so, cut short, or with something        *)
(* appended to it.                                                         *)
(***************************************************************************)
EXTENDS Integers, FiniteSets

CONSTANTS Fields,      \* the settings class's fields
          Vaulted,     \* vault_secret_fields: required, without a default
          Formatted,   \* those with a validator that a malformed value fails
          MaxAttempts, \* MAX_ATTEMPTS of key_vault_init.sh
          MaxEdits     \* bound on what the operator does: edits, and runs of
                       \* key_vault_init.sh

ASSUME ConfigAssumption ==
    /\ IsFiniteSet(Fields) /\ Vaulted \subseteq Fields /\ Formatted \subseteq Fields
    /\ MaxAttempts \in Nat \ {0} /\ MaxEdits \in Nat

Texts == {"old", "new", "malformed", "blank"}
Held == Texts \cup {"unset"}

(* A secret may be missing, or be there without a value.                   *)
Secrets == (Held \ {"blank"}) \cup {"no value"}

VARIABLES
    env,       \* per field: its environment variable
    exported,  \* AZURE_KEY_VAULT_URL is set in the process environment
    dotenv,    \* per field: its line in .env
    urlLine,   \* .env's AZURE_KEY_VAULT_URL line: "absent", "blank", "set"
    tail,      \* the field of .env's last line if no newline ends it
    edits,     \* how much of that he has done
    owed,      \* history, per field: its line as the operator saved it, "any"
               \* if something has been done to the file he cannot count on
    vault,     \* per field: the secret in the vault
    role,      \* the operator's role: "none", "pending", "effective"
    script,    \* key_vault_init.sh: "off", "polling", "writing", "moving" or
               \* "copying" its temporary file over .env
    polls,     \* its attempt counter
    temporary, \* that file: the fields' lines, and the unterminated one
    load,      \* InventorySyncSettings(): "idle", "fetching", "merging"
    envSeen, dotenvSeen, urlSeen, \* what it has read of env, .env, exported
    fetched,   \* per field: what it has read from the vault
    result,    \* how the last load ended
    settings,  \* per field: the value loaded
    during,    \* history, per field: what the vault held during the last load
    owedSeen   \* history: owed as the last load began

operator == <<env, exported, dotenv, urlLine, tail, edits, owed>>
azure == <<vault, role>>
init == <<script, polls, temporary>>
loader == <<load, envSeen, dotenvSeen, urlSeen, fetched, result, settings, during, owedSeen>>
vars == <<operator, azure, init, loader>>

Nothing == [f \in Fields |-> "unset"]
Anything == [f \in Fields |-> "any"]
Unread == [f \in Vaulted |-> {}]
NoFile == [lines |-> Nothing, tail |-> "none"]

(* A .env the operator has written, possibly without a final newline.      *)
Init ==
    /\ env = Nothing /\ exported \in BOOLEAN
    /\ dotenv \in [Fields -> {"old", "unset"}]
    /\ urlLine \in {"absent", "blank"}
    /\ tail \in {"none"} \cup {f \in Fields : dotenv[f] # "unset" /\ urlLine = "absent"}
    /\ edits = 0 /\ owed = dotenv
    /\ vault = [f \in Vaulted |-> "unset"] /\ role = "none"
    /\ script = "off" /\ polls = 0 /\ temporary = NoFile
    /\ load = "idle" /\ envSeen = Nothing /\ dotenvSeen = Nothing /\ urlSeen = FALSE
    /\ fetched = Nothing /\ result = "none" /\ settings = Nothing
    /\ during = Unread /\ owedSeen = Nothing

-----------------------------------------------------------------------------
(* The operator.                                                           *)

Edit == edits < MaxEdits /\ edits' = edits + 1

SetEnv ==
    /\ Edit
    /\ \E f \in Fields, x \in Texts \cup {"unset"} :
        x # env[f] /\ env' = [env EXCEPT ![f] = x]
    /\ UNCHANGED <<exported, dotenv, urlLine, tail, owed, azure, init, loader>>

ExportUrl ==
    /\ Edit
    /\ exported' = ~exported
    /\ UNCHANGED <<env, dotenv, urlLine, tail, owed, azure, init, loader>>

Replacing == script \in {"moving", "copying"}

(* One save of the file may change several lines.  A save while the script *)
(* is replacing the file is lost.                                          *)
EditDotenv ==
    /\ Edit
    /\ \E lines \in SUBSET Fields \ {{}}, x \in Texts \cup {"unset"} :
        /\ dotenv' = [f \in Fields |-> IF f \in lines THEN x ELSE dotenv[f]]
        /\ dotenv' # dotenv
        /\ tail' = IF tail \in lines /\ x = "unset" THEN "none" ELSE tail
        /\ owed' = [f \in Fields |->
                IF f \notin lines THEN owed[f] ELSE IF Replacing THEN "any" ELSE x]
    /\ UNCHANGED <<env, exported, urlLine, azure, init, loader>>

(* What the vault holds now, also for the load that is reading it.         *)
Hold(f, x) ==
    /\ vault' = [vault EXCEPT ![f] = x]
    /\ during' = IF load = "idle" THEN during ELSE [during EXCEPT ![f] = @ \cup {x}]
    /\ UNCHANGED <<role, init, load, envSeen, dotenvSeen, urlSeen, fetched, result,
                   settings, owedSeen>>

(* "A secret can exist without a value": its version is disabled.          *)
DisableSecret(f) ==
    /\ Edit
    /\ vault[f] \notin {"unset", "no value"} /\ Hold(f, "no value")
    /\ UNCHANGED <<env, exported, dotenv, urlLine, tail, owed>>

-----------------------------------------------------------------------------
(* key_vault_init.sh: create the vault and the role, poll until a list     *)
(* call is authorized, write the URL.  A rerun finds what it created.      *)
StartInit ==
    /\ Edit
    /\ script = "off"
    /\ script' = "polling" /\ polls' = 1
    /\ role' = IF role = "none" THEN "pending" ELSE role
    /\ UNCHANGED <<env, exported, dotenv, urlLine, tail, owed, temporary, vault, loader>>

RolePropagates ==
    /\ role = "pending" /\ role' = "effective"
    /\ UNCHANGED <<operator, vault, init, loader>>

Poll ==
    /\ script = "polling"
    /\ \/ role = "effective" /\ script' = "writing" /\ polls' = 0
       \/ role # "effective" /\ polls >= MaxAttempts /\ script' = "writing" /\ polls' = 0
       \/ role # "effective" /\ polls < MaxAttempts /\ polls' = polls + 1 /\ UNCHANGED script
    /\ UNCHANGED <<operator, temporary, azure, loader>>

(* Without a line for the URL, it is appended to the file, and so to an    *)
(* unterminated last line.                                                 *)
AppendUrl ==
    /\ script = "writing" /\ script' = "off"
    /\ urlLine = "absent"
    /\ \/ tail = "none" /\ urlLine' = "set" /\ UNCHANGED <<dotenv, tail, owed>>
       \/ /\ tail # "none" /\ tail' = "none" /\ UNCHANGED urlLine
          /\ dotenv' = [dotenv EXCEPT ![tail] = "malformed"]
          /\ owed' = [owed EXCEPT ![tail] = "any"]
    /\ UNCHANGED <<env, exported, edits, polls, temporary, azure, loader>>

SubstituteInPlace ==
    /\ script = "writing" /\ script' = "moving"
    /\ urlLine # "absent"
    /\ temporary' = NoFile
    /\ UNCHANGED <<operator, polls, azure, loader>>

(* With one, sed copies the file with the line replaced to a temporary one.*)
SubstituteUrl ==
    /\ script = "writing" /\ script' = "moving"
    /\ urlLine # "absent"
    /\ temporary' = [lines |-> dotenv, tail |-> tail]
    /\ UNCHANGED <<operator, polls, azure, loader>>

(* mv to another file system (mktemp follows TMPDIR) copies: meanwhile     *)
(* .env is a piece of the new file, its last line perhaps cut.             *)
CopyPart ==
    /\ script = "moving" /\ script' = "copying"
    /\ \E there \in SUBSET Fields : \E cut \in (Fields \ there) \cup {"none"} :
        /\ \A f \in there \cup ({cut} \ {"none"}) : temporary.lines[f] # "unset"
        /\ dotenv' = [f \in Fields |-> IF f = cut THEN "malformed"
                                      ELSE IF f \in there THEN temporary.lines[f]
                                      ELSE "unset"]
        /\ tail' = cut
        /\ urlLine' \in {"absent", "set"} \cup IF cut = "none" THEN {"blank"} ELSE {}
    /\ UNCHANGED <<env, exported, edits, owed, polls, temporary, azure, loader>>

(* The rename, or the end of the copy.                                     *)
Replace ==
    /\ Replacing /\ script' = "off"
    /\ dotenv' = temporary.lines /\ tail' = temporary.tail /\ urlLine' = "set"
    /\ temporary' = NoFile
    /\ UNCHANGED <<env, exported, edits, owed, polls, azure, loader>>

(* set -e: a failing command ends the script; so does a signal, also in    *)
(* the middle of a copy.  The trap removes the temporary file.             *)
InitAborts ==
    /\ script # "off" /\ script' = "off" /\ polls' = 0 /\ temporary' = NoFile
    /\ owed' = IF script = "copying" THEN Anything ELSE owed
    /\ UNCHANGED <<env, exported, dotenv, urlLine, tail, edits, azure, loader>>

-----------------------------------------------------------------------------
Push(f) == Hold(f, dotenv[f]) /\ UNCHANGED operator

StoreAnything(f) == role = "effective" /\ dotenv[f] # "unset" /\ Push(f)

(* key_vault_auto_pull.sh: a missing or blank value, or an unauthorized    *)
(* `az keyvault secret set`, ends the script and changes nothing.          *)
Store(f) == role = "effective" /\ dotenv[f] \notin {"unset", "blank"} /\ Push(f)

-----------------------------------------------------------------------------
(* InventorySyncSettings().                                                *)

(* env_settings().get("azure_key_vault_url"): .env is not consulted.       *)
UseVault == exported

BeginLoad ==
    /\ load = "idle"
    /\ envSeen' = env /\ dotenvSeen' = dotenv /\ urlSeen' = exported
    /\ fetched' = Nothing /\ settings' = Nothing /\ result' = "none"
    /\ load' = IF UseVault /\ Vaulted # {} THEN "fetching" ELSE "merging"
    /\ during' = [f \in Vaulted |-> {vault[f]}]
    /\ owedSeen' = IF script = "copying" THEN Anything ELSE owed
    /\ UNCHANGED <<operator, azure, init>>

(* The constructor returns or raises, and its sources are gone.            *)
End(how, values) ==
    /\ load' = "idle" /\ result' = how /\ settings' = values
    /\ envSeen' = Nothing /\ dotenvSeen' = Nothing /\ urlSeen' = FALSE
    /\ fetched' = Nothing /\ during' = Unread /\ owedSeen' = Nothing

Fail(error) == End(error, Nothing)

Unfetched == {f \in Vaulted : fetched[f] = "unset"}

GetSecret(f) ==
    /\ role = "effective" /\ vault[f] # "unset"
    /\ fetched' = [fetched EXCEPT ![f] = vault[f]]
    /\ load' = IF Unfetched = {f} THEN "merging" ELSE load
    /\ UNCHANGED <<envSeen, dotenvSeen, urlSeen, during, owedSeen, result, settings>>

FetchMissingIgnored(f) ==
    /\ load = "fetching" /\ f \in Unfetched
    /\ \/ role # "effective" /\ Fail("AzureError")
       \/ /\ role = "effective" /\ vault[f] = "unset"
          /\ load' = "merging"
          /\ UNCHANGED <<envSeen, dotenvSeen, urlSeen, fetched, during, owedSeen, result, settings>>
       \/ GetSecret(f)
    /\ UNCHANGED <<operator, azure, init>>

(* get_secret for one vault-backed field, also for one the environment has *)
(* a value for; its exceptions are not caught.  A secret without a value   *)
(* is not an exception.                                                    *)
Fetch(f) ==
    /\ load = "fetching" /\ f \in Unfetched
    /\ \/ role # "effective" /\ Fail("AzureError")
       \/ /\ role = "effective" /\ vault[f] = "unset"
          /\ Fail("ResourceNotFoundError")
       \/ GetSecret(f)
    /\ UNCHANGED <<operator, azure, init>>

FirstSet(a, b) == IF a # "unset" THEN a ELSE b

(* Field(default=...) of a field that is not required.                     *)
Default(f) == IF f \in Vaulted THEN "unset" ELSE "default"

(* "if field_value is not None": what was fetched without a value is       *)
(* left out of what the vault supplies.                                    *)
FromVault(f) == IF fetched[f] = "no value" THEN "unset" ELSE fetched[f]

ResolvedVaultFirst(f) ==
    FirstSet(FromVault(f), FirstSet(envSeen[f], FirstSet(dotenvSeen[f], Default(f))))

(* First wins: environment, vault, .env, default.                          *)
Resolved(f) ==
    FirstSet(envSeen[f], FirstSet(FromVault(f), FirstSet(dotenvSeen[f], Default(f))))

(* A GUID, an https URL, a logging level.                                  *)
FitsFormat(f, x) == f \in Formatted => x # "malformed"

(* Present, not blank once stripped, and of the field's format if it has one.*)
Valid(f, x) ==
    x \notin {"unset", "blank"} /\ FitsFormat(f, x)

Merge ==
    /\ load = "merging"
    /\ \/ /\ \A f \in Fields : Valid(f, Resolved(f))
          /\ End("loaded", [f \in Fields |-> Resolved(f)])
       \/ /\ \E f \in Fields : ~Valid(f, Resolved(f))
          /\ Fail("ValidationError")
    /\ UNCHANGED <<operator, azure, init>>

-----------------------------------------------------------------------------
Next ==
    \/ SetEnv \/ ExportUrl \/ EditDotenv
    \/ StartInit \/ RolePropagates \/ Poll
    \/ AppendUrl \/ SubstituteUrl \/ CopyPart \/ Replace \/ InitAborts
    \/ \E f \in Vaulted : DisableSecret(f) \/ Store(f) \/ Fetch(f)
    \/ BeginLoad \/ Merge

Spec == Init /\ [][Next]_vars

-----------------------------------------------------------------------------
TypeOK ==
    /\ env \in [Fields -> Held] /\ exported \in BOOLEAN
    /\ dotenv \in [Fields -> Held]
    /\ urlLine \in {"absent", "blank", "set"} /\ tail \in Fields \cup {"none"}
    /\ edits \in 0..MaxEdits
    /\ {owed, owedSeen} \subseteq [Fields -> Texts \cup {"unset", "any"}]
    /\ vault \in [Vaulted -> Secrets]
    /\ role \in {"none", "pending", "effective"}
    /\ script \in {"off", "polling", "writing", "moving", "copying"}
    /\ polls \in 0..MaxAttempts
    /\ temporary \in [lines : [Fields -> Held], tail : Fields \cup {"none"}]
    /\ load \in {"idle", "fetching", "merging"}
    /\ envSeen \in [Fields -> Held] /\ dotenvSeen \in [Fields -> Held]
    /\ urlSeen \in BOOLEAN /\ fetched \in [Fields -> Secrets]
    /\ result \in {"none", "loaded", "ValidationError", "ResourceNotFoundError",
                   "AzureError"}
    /\ settings \in [Fields -> Held \cup {"default"}]
    /\ during \in [Vaulted -> SUBSET Secrets]

(* The constructor returns.                                                *)
Loads == Merge /\ result' = "loaded"

(* A field declared to come from the vault does "not fall through silently *)
(* to a possibly-stale .env value" (azure_key_vault.py): with a vault      *)
(* configured, every value loaded was the environment's or one the vault   *)
(* held while it was read.                                                 *)
NoSilentFallback ==
    [][Loads /\ urlSeen =>
        \A f \in Vaulted : settings'[f] \in {envSeen[f]} \cup during[f]]_vars

(* What the code keeps of it: the value comes from .env only if the vault  *)
(* held the secret without a value during the load and the environment has *)
(* none.  A missing secret or a refused request never lets it through, and *)
(* a rotation during the load gives values of before and of after it, but  *)
(* none from elsewhere.                                                    *)
FallbackNeedsNoValue ==
    [][Loads /\ urlSeen =>
        \A f \in Vaulted :
            \/ settings'[f] \in {envSeen[f]} \cup during[f]
            \/ /\ "no value" \in during[f] /\ envSeen[f] = "unset"
               /\ settings'[f] = dotenvSeen[f]]_vars

(* "A real environment variable always overrides": a load never returns    *)
(* another value than the environment's for a field it has a value for.    *)
EnvironmentWins ==
    [][Loads =>
        \A f \in Fields : envSeen[f] # "unset" => settings'[f] = envSeen[f]]_vars

(* What the vault does not supply is loaded as the operator wrote it: the  *)
(* environment's value, else the line of .env as he last saved it, else    *)
(* the default, whatever the scripts did to the file in between, were they *)
(* run again or aborted.  Excepted are a load during a copy to .env or     *)
(* after one cut short, a line saved while the file was being replaced,    *)
(* and the unterminated line the URL was appended to.                      *)
LoadedAsWritten ==
    [][Loads =>
        \A f \in Fields :
            \/ urlSeen /\ f \in Vaulted
            \/ owedSeen[f] = "any"
            \/ settings'[f] = FirstSet(envSeen[f], FirstSet(owedSeen[f], Default(f)))]_vars

(* .env.example: with AZURE_KEY_VAULT_URL set in .env, the four values     *)
(* "are resolved from Key Vault instead of the four values above".         *)
DotenvUrlSelectsVault ==
    [][BeginLoad /\ urlLine = "set" => load' = "fetching"]_vars
=============================================================================
