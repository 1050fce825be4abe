---------------------------- MODULE Credentials ----------------------------
(***************************************************************************)
(* Stored credentials of src/dsh/llm-pi-ai/index.js: the CredentialStore   *)
(* it gives pi-ai over the harness's credential records, the sign-ins it   *)
(* offers, and the refreshes pi-ai runs inside modify(), over a network    *)
(* round trip, while others sign in and out.  The credentials service and  *)
(* pi-ai are external: the service is assumed to run one modifyRecord or   *)
(* deleteRecord of a record at a time and to let the others wait up to a   *)
(* limit.                                                                  *)
(***************************************************************************)
EXTENDS Naturals

CONSTANTS
    Providers,    \* pi-ai provider ids and route keys
    Shipped,      \* those of the installed catalog
    Addressable,  \* isCredentialKeySegment: those a record key can hold
    LoginMethods, \* LoginMethods[p]: loginMethods, the credential types sign-in yields
    Tasks,        \* what runs at the same time: sign-ins, sign-outs, requests
    Nobody,       \* nobody is inside modifyRecord
    Missing,      \* no record, no credential, no result
    MaxIssued     \* bound on the credentials issued

ASSUME ShippedAssumption == Shipped \subseteq Providers
ASSUME AddressableAssumption == Addressable \subseteq Providers
ASSUME MethodsAssumption == LoginMethods \in [Shipped -> SUBSET {"api_key", "oauth"}]
ASSUME NobodyAssumption == Nobody \notin Tasks
ASSUME MaxIssuedAssumption == MaxIssued \in Nat

(***************************************************************************)
(* A credential carries the number it was issued under and, when a refresh *)
(* produced it, the number of the one that was presented (0: a sign-in).   *)
(***************************************************************************)
Numbers == 1..MaxIssued
PiCredentials == [type : {"api_key", "oauth"}, number : Numbers, from : 0..MaxIssued]
Records == [kind : {"api-key", "grant"}, number : Numbers, from : 0..MaxIssued]
Results == {"signed in", "signed out", "ready", "failed", "NO_CREDENTIAL_STORE",
            "UNSTORABLE_PROVIDER_ID"}
ASSUME MissingAssumption == Missing \notin PiCredentials \cup Records \cup Results

VARIABLES
    mounted,      \* ctx.get("credentials") answers a service
    record,       \* the record of each provider in this adapter's scope
    holder,       \* the task inside modifyRecord for it
    expired,      \* the credentials whose access token has expired
    issued,       \* how many credentials have been issued
    stage,        \* where a task is
    doing,        \* signIn, signOut or request
    provider,     \* for which provider
    current,      \* what modify's callback was given
    produced,     \* the credential a sign-in or refresh produced
    result,       \* how the task ended
    kept          \* history: the numbers of the credentials ever stored

storeVars == <<mounted, record, holder>>
taskVars == <<stage, doing, provider, current, produced, result>>
credentialVars == <<storeVars, expired, issued, taskVars, kept>>

Stages == {"idle", "talking", "modifying", "waiting", "inside", "refreshing"}

CredentialsInit ==
    /\ mounted \in BOOLEAN
    /\ record = [p \in Providers |-> Missing]
    /\ holder = [p \in Providers |-> Nobody]
    /\ expired = {}
    /\ issued = 0
    /\ stage = [t \in Tasks |-> "idle"]
    /\ doing = [t \in Tasks |-> "request"]
    /\ provider \in [Tasks -> Providers]
    /\ current = [t \in Tasks |-> Missing]
    /\ produced = [t \in Tasks |-> Missing]
    /\ result = [t \in Tasks |-> Missing]
    /\ kept = {}

-----------------------------------------------------------------------------
(* The store. *)

ToPiCredential(r) ==
    IF r = Missing THEN Missing
    ELSE [type |-> IF r.kind = "api-key" THEN "api_key" ELSE "oauth",
          number |-> r.number, from |-> r.from]

ToRecord(c) ==
    [kind |-> IF c.type = "api_key" THEN "api-key" ELSE "grant",
     number |-> c.number, from |-> c.from]

\* credentialStoreFrom: without a service, or under an id no record can have,
\* nothing is stored.
Read(p) == IF mounted /\ p \in Addressable THEN ToPiCredential(record[p]) ELSE Missing

Goes(t, s) == stage' = [stage EXCEPT ![t] = s]
Ends(t, r) == Goes(t, "idle") /\ result' = [result EXCEPT ![t] = r]

\* registerPiAiFlows: a sign-in for every shipped provider that has one and whose
\* record can be addressed.
Flows == {p \in Shipped \cap Addressable : LoginMethods[p] # {}}

Begins(t, what, p, s) ==
    /\ stage[t] = "idle"
    /\ Goes(t, s)
    /\ doing' = [doing EXCEPT ![t] = what]
    /\ provider' = [provider EXCEPT ![t] = p]
    /\ current' = [current EXCEPT ![t] = Missing]
    /\ produced' = [produced EXCEPT ![t] = Missing]
    /\ result' = [result EXCEPT ![t] = Missing]
    /\ UNCHANGED <<storeVars, expired, issued, kept>>

SignIn(t, p) == p \in Flows /\ Begins(t, "signIn", p, "talking")

\* What the provider issues next.
Issue(t, c) ==
    /\ issued < MaxIssued
    /\ issued' = issued + 1
    /\ produced' = [produced EXCEPT ![t] = c]

\* models.login: the human finishes, and pi-ai stores what it got.
Granted(t, type) ==
    /\ stage[t] = "talking"
    /\ type \in LoginMethods[provider[t]]
    /\ Issue(t, [type |-> type, number |-> issued + 1, from |-> 0])
    /\ Goes(t, "modifying")
    /\ UNCHANGED <<storeVars, expired, doing, provider, current, result, kept>>

Declined(t) ==
    /\ stage[t] = "talking"
    /\ Ends(t, "failed")
    /\ UNCHANGED <<storeVars, expired, issued, doing, provider, current, produced, kept>>

Stale(c) == c # Missing /\ c.type = "oauth" /\ c.number \in expired

\* A request of some route authenticates through the collection: pi-ai reads the
\* store, and refreshes an expired grant.
Request(t, p) == Stale(Read(p)) /\ Begins(t, "request", p, "modifying")

-----------------------------------------------------------------------------
(* modify and delete. *)

\* Fault: without a service there is nothing to do, so nothing to complain about.
StoresOrShrugs(t) ==
    /\ stage[t] = "modifying"
    /\ IF provider[t] \notin Addressable THEN Ends(t, "UNSTORABLE_PROVIDER_ID")
       ELSE IF mounted THEN Goes(t, "waiting") /\ UNCHANGED result
       ELSE Ends(t, IF doing[t] = "signIn" THEN "signed in" ELSE "ready")
    /\ UNCHANGED <<storeVars, expired, issued, doing, provider, current, produced, kept>>

\* writableStore, after the check of the id.
Stores(t) ==
    /\ stage[t] = "modifying"
    /\ IF provider[t] \notin Addressable THEN Ends(t, "UNSTORABLE_PROVIDER_ID")
       ELSE IF mounted THEN Goes(t, "waiting") /\ UNCHANGED result
       ELSE Ends(t, "NO_CREDENTIAL_STORE")
    /\ UNCHANGED <<storeVars, expired, issued, doing, provider, current, produced, kept>>

\* delete has nothing to remove under an id no record can have.  The code only calls
\* deleteRecord; that it waits for a modifyRecord under way is assumed of the service.
SignOut(t, p) == p \in Addressable /\ Begins(t, "signOut", p, "modifying")

\* Fault: the record is read and written without keeping others out in between.
EnterUnlocked(t) ==
    /\ stage[t] = "waiting"
    /\ Goes(t, "inside")
    /\ holder' = [holder EXCEPT ![provider[t]] = t]
    /\ current' = [current EXCEPT ![t] = ToPiCredential(record[provider[t]])]
    /\ UNCHANGED <<mounted, record, expired, issued, doing, provider, produced,
                   result, kept>>

\* modifyRecord gives the callback the record as it is under the lock.
Enter(t) ==
    /\ stage[t] = "waiting"
    /\ holder[provider[t]] = Nobody
    /\ Goes(t, "inside")
    /\ holder' = [holder EXCEPT ![provider[t]] = t]
    /\ current' = [current EXCEPT ![t] = ToPiCredential(record[provider[t]])]
    /\ UNCHANGED <<mounted, record, expired, issued, doing, provider, produced,
                   result, kept>>

\* The service's wait limit.
WaitLimit(t) ==
    /\ stage[t] = "waiting"
    /\ Ends(t, "failed")
    /\ UNCHANGED <<storeVars, expired, issued, doing, provider, current, produced, kept>>

Leaves(t, r) ==
    /\ Ends(t, r)
    /\ holder' = [holder EXCEPT ![provider[t]] = Nobody]
    /\ UNCHANGED <<mounted, expired, doing, provider, current>>

Commits(t, c) ==
    /\ record' = [record EXCEPT ![provider[t]] = ToRecord(c)]
    /\ kept' = kept \cup {c.number}

\* A sign-in replaces whatever was stored.
Store(t) ==
    /\ stage[t] = "inside" /\ doing[t] = "signIn"
    /\ Commits(t, produced[t])
    /\ Leaves(t, "signed in")
    /\ UNCHANGED <<issued, produced>>

Remove(t) ==
    /\ stage[t] = "inside" /\ doing[t] = "signOut"
    /\ record' = [record EXCEPT ![provider[t]] = Missing]
    /\ Leaves(t, "signed out")
    /\ UNCHANGED <<issued, produced, kept>>

\* Somebody else refreshed, replaced or removed it meanwhile: nothing to change.
AlreadyFresh(t) ==
    /\ stage[t] = "inside" /\ doing[t] = "request"
    /\ ~Stale(current[t])
    /\ Leaves(t, "ready")
    /\ UNCHANGED <<record, issued, produced, kept>>

\* The grant is presented to the provider; the record stays locked meanwhile.
Refresh(t) ==
    /\ stage[t] = "inside" /\ doing[t] = "request"
    /\ Stale(current[t])
    /\ Goes(t, "refreshing")
    /\ UNCHANGED <<storeVars, expired, issued, doing, provider, current, produced,
                   result, kept>>

Refreshed(t) ==
    /\ stage[t] = "refreshing"
    /\ Issue(t, [type |-> "oauth", number |-> issued + 1, from |-> current[t].number])
    /\ Commits(t, produced'[t])
    /\ Leaves(t, "ready")

RefreshFails(t) ==
    /\ stage[t] = "refreshing"
    /\ Leaves(t, "failed")
    /\ UNCHANGED <<record, issued, produced, kept>>

-----------------------------------------------------------------------------
(* The world. *)

Expire(n) ==
    /\ n \in kept \ expired
    /\ expired' = expired \cup {n}
    /\ UNCHANGED <<storeVars, issued, taskVars, kept>>

\* The service comes and goes with the composition.
Remount ==
    /\ mounted' = ~mounted
    /\ UNCHANGED <<record, holder, expired, issued, taskVars, kept>>

CredentialsNext ==
    \/ \E t \in Tasks, p \in Providers : SignIn(t, p) \/ SignOut(t, p) \/ Request(t, p)
    \/ \E t \in Tasks :
        \/ (\E type \in {"api_key", "oauth"} : Granted(t, type)) \/ Declined(t)
        \/ Stores(t) \/ Enter(t) \/ WaitLimit(t)
        \/ Store(t) \/ Remove(t) \/ AlreadyFresh(t)
        \/ Refresh(t) \/ Refreshed(t) \/ RefreshFails(t)
    \/ \E n \in Numbers : Expire(n)
    \/ Remount

CredentialsSpec == CredentialsInit /\ [][CredentialsNext]_credentialVars

-----------------------------------------------------------------------------
(* Properties. *)

CredentialsTypeOK ==
    /\ mounted \in BOOLEAN
    /\ record \in [Providers -> Records \cup {Missing}]
    /\ holder \in [Providers -> Tasks \cup {Nobody}]
    /\ expired \subseteq Numbers /\ kept \subseteq Numbers
    /\ issued \in 0..MaxIssued
    /\ stage \in [Tasks -> Stages]
    /\ doing \in [Tasks -> {"signIn", "signOut", "request"}]
    /\ provider \in [Tasks -> Providers]
    /\ current \in [Tasks -> PiCredentials \cup {Missing}]
    /\ produced \in [Tasks -> PiCredentials \cup {Missing}]
    /\ result \in [Tasks -> Results \cup {Missing}]

\* A refreshed grant takes the place of the very grant it was made from: a sign-in
\* is never overwritten by a refresh of what it replaced, a sign-out is never undone
\* by one, and no grant is spent twice.
RefreshReplacesItsGrant ==
    [][\A p \in Providers :
        record'[p] # record[p] /\ record'[p] # Missing /\ record'[p].from # 0 =>
            record[p] # Missing /\ record[p].number = record'[p].from]_credentialVars

\* A sign-in that reports success has stored what it got, and none is offered that
\* could not be stored for the sake of its id.
SignInsAreKept ==
    \A t \in Tasks :
        /\ result[t] = "signed in" => produced[t].number \in kept
        /\ doing[t] = "signIn" => result[t] # "UNSTORABLE_PROVIDER_ID"
=============================================================================
