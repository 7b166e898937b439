----------------------------- MODULE Providers -----------------------------
(***************************************************************************)
(* The shop's accounts with couriers, payment and SMS gateways             *)
(* (httpapi/providers.go).  A save reads the account it changes under an   *)
(* advisory lock of that account's own, so an empty key keeps the saved    *)
(* one; switching an SMS gateway on switches the other ones off.           *)
(***************************************************************************)
EXTENDS Requests

CONSTANTS
    Providers,
    Gateways,  \* the ones that send texts
    Keys

ASSUME ProvidersAssumption == None \notin Keys \cup Providers /\ Gateways \subseteq Providers

VARIABLES
    enabled,     \* providers.enabled
    key,         \* key[p]: the secret of p, None before there is one
    providerPc,  \* providerPc[w]: what save w does next
    code,        \* code[w]: the account it saves
    typed,       \* typed[w]: the key in the form, None when it is left empty
    wantOn,      \* wantOn[w]: whether the form says on
    kept,        \* kept[w]: the key it will write
    listed,      \* listed[w]: gateways its statement found on and has yet to switch off
    disabled,    \* disabled[w]: the rows of others it has locked and switched off
    late         \* history: late[w], gateways others switched on since that statement began

providerRows == <<enabled, key>>
form == <<code, typed, wantOn>>
providerWork == <<kept, listed, disabled, late>>
providerVars == <<providerRows, providerPc, form, providerWork>>

ProviderLocked == {"reading", "writing", "listing", "disabling", "committing"}

\* Types; a save under way knows which account it saves, and an account that is on has its key.
ProviderTypeOK ==
    /\ enabled \subseteq Providers
    /\ key \in [Providers -> Keys \cup {None}]
    /\ providerPc \in [Workers -> {"idle", "locking"} \cup ProviderLocked]
    /\ code \in [Workers -> Providers \cup {None}]
    /\ typed \in [Workers -> Keys \cup {None}]
    /\ wantOn \in [Workers -> BOOLEAN]
    /\ kept \in [Workers -> Keys \cup {None}]
    /\ listed \in [Workers -> SUBSET Gateways]
    /\ disabled \in [Workers -> SUBSET Gateways]
    /\ late \in [Workers -> SUBSET Gateways]
    /\ \A w \in Workers : providerPc[w] # "idle" => code[w] \in Providers
    /\ \A p \in enabled : key[p] # None

ProviderInit ==
    /\ enabled = {}
    /\ key = [p \in Providers |-> None]
    /\ providerPc = [w \in Workers |-> "idle"]
    /\ code = [w \in Workers |-> None]
    /\ typed = [w \in Workers |-> None]
    /\ wantOn = [w \in Workers |-> FALSE]
    /\ kept = [w \in Workers |-> None]
    /\ listed = [w \in Workers |-> {}]
    /\ disabled = [w \in Workers |-> {}]
    /\ late = [w \in Workers |-> {}]

ProviderGoto(w, step) == providerPc' = [providerPc EXCEPT ![w] = step]

\* The transaction ends, which gives its locks back.
ProviderDone(w) ==
    /\ ProviderGoto(w, "idle")
    /\ code' = [code EXCEPT ![w] = None]
    /\ typed' = [typed EXCEPT ![w] = None]
    /\ wantOn' = [wantOn EXCEPT ![w] = FALSE]
    /\ kept' = [kept EXCEPT ![w] = None]
    /\ listed' = [listed EXCEPT ![w] = {}]
    /\ disabled' = [disabled EXCEPT ![w] = {}]

UpdateProvider(w, p, k, on) ==
    /\ providerPc[w] = "idle"
    /\ ProviderGoto(w, "locking")
    /\ code' = [code EXCEPT ![w] = p]
    /\ typed' = [typed EXCEPT ![w] = k]
    /\ wantOn' = [wantOn EXCEPT ![w] = on]
    /\ UNCHANGED <<providerRows, providerWork>>

\* Mutant: no lock before the account is read.
ProviderFreeAlways(w) == w \in Workers

\* No other save of the same account is past its advisory lock.
ProviderFree(w) == \A x \in Workers \ {w} : ~(providerPc[x] \in ProviderLocked /\ code[x] = code[w])

LockProvider(w) ==
    /\ providerPc[w] = "locking"
    /\ ProviderFree(w)
    /\ ProviderGoto(w, "reading")
    /\ UNCHANGED <<providerRows, form, providerWork>>

\* An empty secret keeps the saved one.
Merged(w) == IF typed[w] = None THEN key[code[w]] ELSE typed[w]

\* ProviderByCode and applyProviderInput: an account is not switched on without its key.
ReadAccount(w) ==
    /\ providerPc[w] = "reading"
    /\ IF wantOn[w] /\ Merged(w) = None
       THEN ProviderDone(w)
       ELSE /\ kept' = [kept EXCEPT ![w] = Merged(w)]
            /\ ProviderGoto(w, "writing")
            /\ UNCHANGED <<form, listed, disabled>>
    /\ UNCHANGED <<providerRows, late>>

\* Rows the open transaction of w has written or locked.
RowsOf(w) == disabled[w] \cup IF providerPc[w] \in {"listing", "disabling", "committing"} THEN {code[w]} ELSE {}

RowFree(w, p) == \A x \in Workers \ {w} : p \notin RowsOf(x)

\* Mutant: the others are switched off only when this gateway was not on before.
SwitchesOffOnChange(w) == code[w] \in Gateways /\ wantOn[w] /\ code[w] \notin enabled

SwitchesOff(w) == code[w] \in Gateways /\ wantOn[w]

UpsertProvider(w) ==
    /\ providerPc[w] = "writing"
    /\ RowFree(w, code[w])
    /\ ProviderGoto(w, IF SwitchesOff(w) THEN "listing" ELSE "committing")
    /\ UNCHANGED <<providerRows, form, providerWork>>

\* DisableProvidersExcept begins: it sees the gateways that are on as committed.
ListGateways(w) ==
    /\ providerPc[w] = "listing"
    /\ listed' = [listed EXCEPT ![w] = (enabled \cap Gateways) \ {code[w]}]
    /\ late' = [late EXCEPT ![w] = {}]
    /\ ProviderGoto(w, "disabling")
    /\ UNCHANGED <<providerRows, form, kept, disabled>>

\* It locks each of them, waiting for a transaction that has written it, and switches it off.
DisableGateway(w) ==
    /\ providerPc[w] = "disabling"
    /\ \/ \E p \in listed[w] :
            /\ RowFree(w, p)
            /\ listed' = [listed EXCEPT ![w] = @ \ {p}]
            /\ disabled' = [disabled EXCEPT ![w] = @ \cup {p}]
            /\ UNCHANGED providerPc
       \/ /\ listed[w] = {}
          /\ ProviderGoto(w, "committing")
          /\ UNCHANGED <<listed, disabled>>
    /\ UNCHANGED <<providerRows, form, kept, late>>

CommitProvider(w) ==
    /\ providerPc[w] = "committing"
    /\ key' = [key EXCEPT ![code[w]] = kept[w]]
    /\ enabled' = (IF wantOn[w] THEN enabled \cup {code[w]} ELSE enabled \ {code[w]}) \ disabled[w]
    /\ ProviderDone(w)
    /\ late' = [x \in Workers |->
           IF x # w /\ providerPc[x] \in {"disabling", "committing"}
           THEN late[x] \cup (Gateways \cap (enabled' \ enabled))
           ELSE {}]

\* The client goes away, the server stops, or the save is the victim of a deadlock.
AbortProvider(w) ==
    /\ providerPc[w] # "idle"
    /\ ProviderDone(w)
    /\ UNCHANGED <<providerRows, late>>

ProviderNext ==
    \/ \E w \in Workers, p \in Providers, k \in Keys \cup {None}, on \in BOOLEAN :
        UpdateProvider(w, p, k, on)
    \/ \E w \in Workers :
        \/ LockProvider(w) \/ ReadAccount(w) \/ UpsertProvider(w)
        \/ ListGateways(w) \/ DisableGateway(w) \/ CommitProvider(w) \/ AbortProvider(w)

ProviderSpec == ProviderInit /\ [][ProviderNext]_providerVars

-----------------------------------------------------------------------------
(* Properties. *)

\* A key changes only to one that was typed into the save that changes it: a save with the key
\* left empty never puts back the one it read before another save replaced it.
KeysKept ==
    [][\A p \in Providers : key'[p] # key[p] =>
        \E w \in Workers : /\ providerPc[w] = "committing" /\ code[w] = p
                           /\ typed[w] # None /\ key'[p] = typed[w]]_providerVars

\* When a save is about to commit a gateway as on, the others that stay on were switched on while
\* its statement that switches the others off was already running.
OthersOff ==
    \A w \in Workers : providerPc[w] = "committing" /\ code[w] \in Gateways /\ wantOn[w] =>
        (enabled \cap Gateways) \ (disabled[w] \cup {code[w]}) \subseteq late[w]
=============================================================================
