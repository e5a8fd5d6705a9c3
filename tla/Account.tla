-------------------------------- MODULE Account --------------------------------
(***************************************************************************)
(* Who is signed in: the token session (internal/auth/session.go), the     *)
(* credentials file (store.go), the sign-in by device code (devicecode.go, *)
(* mojang.go), the auth.* handlers (internal/ipc/methods.go) and whose     *)
(* friends list the API client has cached in memory and on disk            *)
(* (internal/api/cache.go), with crashes and restarts.                     *)
(*                                                                         *)
(* A request is signIn, useMojangSession, signOut or list, which stands    *)
(* for every API call: requireAuth (EnsureFreshSilent), then Current       *)
(* (EnsureFresh), then the GET, once more after a 401.  Session.mu is held *)
(* across the calls to the services, so it is a variable.                  *)
(***************************************************************************)
EXTENDS Naturals

CONSTANTS
    Accounts,
    Requests,   \* request goroutines
    MaxCalls,   \* bound: requests
    MaxCrashes, \* bound: crashes of the process
    None

Tokens == [acct : Accounts, fresh : BOOLEAN, ms : BOOLEAN]

ASSUME NoneAssumption == None \notin Accounts \cup Requests \cup Tokens
ASSUME BoundsAssumption == MaxCalls \in Nat /\ MaxCrashes \in Nat

VARIABLES
    lock,       \* holder of Session.mu
    tokens,     \* Session.tokens: the account, fresh (not near expiry), ms (has
                \* a refresh token); None is nil
    file,       \* credentials file: absent, torn, empty, or an account's
    cache,      \* whose list is Client.friendsCache
    disk,       \* whose list is in friends-cache.json
    authRun,    \* Handlers.authRun
    pc,         \* per request: its next step
    mode,       \* per request: which caller the token steps return to
    using,      \* per request: the account a service call is about
    target,     \* per request: the account the launcher names
    retried,    \* requests whose GET was answered 401 once
    calls, crashes,
    approved,   \* history: the account the user approved last, until the
                \* credentials are removed or a crash cuts a Save off
    replaced,   \* history: tokens of another account, refreshed later, were
                \* saved over the approved ones
    clean       \* history: the last account change was seen and met no GET

sessionVars == <<lock, tokens, file>>
cacheVars == <<cache, disk>>
reqVars == <<pc, mode, using, target, retried>>
approvalVars == <<approved, replaced>>
histVars == <<approvalVars, clean>>
vars == <<sessionVars, cacheVars, authRun, reqVars, calls, crashes, histVars>>

\* ensure: EnsureFresh(Silent) reads tokens.  recheck, load, auth: wait for the
\* mutex.  refresh (expired tokens), restore (saved ones), device, early, exchange,
\* save: hold it.
\* send: Current reads the tokens after an error.  get, disk: the GET.  forced: RefreshNow.  hint: the launcher's
\* account is compared.  wipe, reset, resetApi, set: the account change.
Pcs == {"idle", "hint", "wipe", "reset", "resetApi", "set", "signOut", "ensure",
        "recheck", "load", "auth", "refresh", "restore", "device", "early", "exchange", "save",
        "send", "get", "disk", "forced"}
Modes == {"none", "signIn", "use", "silent", "current", "forced"}

TypeOK ==
    /\ lock \in Requests \cup {None}
    /\ tokens \in Tokens \cup {None}
    /\ file \in {"absent", "torn", "empty"} \cup Accounts
    /\ cache \in Accounts \cup {None} /\ disk \in Accounts \cup {None}
    /\ authRun \in BOOLEAN
    /\ pc \in [Requests -> Pcs] /\ mode \in [Requests -> Modes]
    /\ using \in [Requests -> Accounts \cup {None}]
    /\ target \in [Requests -> Accounts \cup {None}]
    /\ retried \in SUBSET Requests
    /\ calls \in 0..MaxCalls /\ crashes \in 0..MaxCrashes
    /\ approved \in Accounts \cup {None} /\ replaced \in BOOLEAN /\ clean \in BOOLEAN

Idle == [r \in Requests |-> "idle"]
Blank == [r \in Requests |-> None]

\* The process starts; the caches of an earlier run may be on disk.
Init ==
    /\ lock = None /\ tokens = None
    /\ file \in {"absent"} \cup Accounts
    /\ disk \in (IF file \in Accounts THEN {None, file} ELSE {None}) /\ cache = disk
    /\ authRun = FALSE
    /\ pc = Idle /\ mode = [r \in Requests |-> "none"]
    /\ using = Blank /\ target = Blank /\ retried = {}
    /\ calls = 0 /\ crashes = 0
    /\ approved = None /\ replaced = FALSE /\ clean = FALSE

Goes(r, p) == pc' = [pc EXCEPT ![r] = p]
As(r, m) == mode' = [mode EXCEPT ![r] = m]
Uses(r, x) == using' = [using EXCEPT ![r] = x]
Acct == IF tokens = None THEN None ELSE tokens.acct
Saved == IF file \in Accounts THEN file ELSE None
Fresh(x) == [acct |-> x, fresh |-> TRUE, ms |-> TRUE]
\* An account change, a Store.Save, a GET whose answer will be stored is under way.
Changing == \E r \in Requests : pc[r] \in {"reset", "resetApi", "set"}
Saving == \E r \in Requests : pc[r] \in {"early", "save"}
SavingEarly == \E r \in Requests : pc[r] = "early"
Fetching == \E r \in Requests : pc[r] \in {"get", "disk"}

\* The user approves with account x; there is no approval any more.
Approved(x) == approved' = x /\ replaced' = FALSE
Forget == approved' = None /\ replaced' = FALSE

\* The handler of r returns; a signIn lets the next one in.
Reply(r) ==
    /\ Goes(r, "idle") /\ As(r, "none") /\ Uses(r, None)
    /\ target' = [target EXCEPT ![r] = None]
    /\ retried' = retried \ {r}
    /\ authRun' = (authRun /\ mode[r] # "signIn")
\* r goes to p, for another caller or about another account.
Steps(r, p, m, x) ==
    /\ Goes(r, p) /\ As(r, m) /\ Uses(r, x)
    /\ UNCHANGED <<target, retried, authRun>>

\* The token functions return the tokens of x: signIn is done, requireAuth is
\* followed by Current, Current by the GET with these tokens, RefreshNow by
\* building the request again.
Granted(r, x) ==
    CASE mode[r] = "signIn" -> Reply(r)
      [] mode[r] = "current" -> Steps(r, "get", "current", x)
      [] OTHER -> Steps(r, "ensure", "current", None)
\* They return an error: Current and RefreshNow log it and go on.
Refused(r) ==
    CASE mode[r] \in {"signIn", "silent"} -> Reply(r)
      [] mode[r] = "current" -> Steps(r, "send", "current", None)
      [] OTHER -> Steps(r, "ensure", "current", None)

(***************************************************************************)
(* Requests arrive; the clock; the process.                                *)
(***************************************************************************)

Begin(r, p, m, x) ==
    /\ pc[r] = "idle"
    /\ calls < MaxCalls /\ calls' = calls + 1
    /\ Goes(r, p) /\ As(r, m)
    /\ target' = [target EXCEPT ![r] = x]
    /\ UNCHANGED <<sessionVars, cacheVars, using, retried, crashes, histVars>>

\* auth.signIn, with or without the launcher's account: one at a time.
SignIn(r, x) ==
    /\ ~authRun /\ authRun' = TRUE
    /\ Begin(r, IF x = None THEN "auth" ELSE "hint", "signIn", x)

UseMojangSession(r, x) == Begin(r, "hint", "use", x) /\ authRun' = authRun
List(r) == Begin(r, "ensure", "silent", None) /\ authRun' = authRun
SignOut(r) == Begin(r, "signOut", "none", None) /\ authRun' = authRun

\* The access token comes near its expiry.
Expire ==
    /\ tokens # None /\ tokens.fresh
    /\ tokens' = [tokens EXCEPT !.fresh = FALSE]
    /\ UNCHANGED <<lock, file, cacheVars, authRun, reqVars, calls, crashes, histVars>>

\* The process dies anywhere and starts again; LoadCacheFromDisk.  Save writes
\* the credentials in place: it may be cut off half-way, or before it has begun.
\* Any other crash leaves the approval to be kept.
Crash ==
    /\ crashes < MaxCrashes /\ crashes' = crashes + 1
    /\ lock' = None /\ tokens' = None /\ authRun' = FALSE
    /\ cache' = disk
    /\ pc' = Idle /\ mode' = [r \in Requests |-> "none"]
    /\ using' = Blank /\ target' = Blank /\ retried' = {}
    /\ file' \in {file} \cup IF Saving THEN {"torn"} ELSE {}
    /\ IF SavingEarly \/ file' = "torn" THEN Forget ELSE UNCHANGED approvalVars
    /\ clean' = FALSE
    /\ UNCHANGED <<disk, calls>>

(***************************************************************************)
(* The account change of useMojangSession and signIn, and signOut.         *)
(***************************************************************************)

\* CurrentProfileID: only an account that is known and another one counts.
Hint(r) ==
    /\ pc[r] = "hint" /\ lock = None
    /\ Goes(r, IF Acct \notin {None, target[r]} THEN "wipe"
               ELSE IF mode[r] = "use" THEN "set" ELSE "auth")
    /\ UNCHANGED <<sessionVars, cacheVars, authRun, mode, using, target, retried, calls, crashes,
                   histVars>>

\* Mutant of Wipe: friends-cache.json is not removed.
WipeKeepsCache(r) ==
    /\ pc[r] = "wipe"
    /\ file' = "absent"
    /\ Goes(r, "reset")
    /\ Forget /\ clean' = ~Fetching
    /\ UNCHANGED <<lock, tokens, cacheVars, authRun, mode, using, target, retried, calls, crashes>>

\* Both files are removed.
Wipe(r) ==
    /\ pc[r] = "wipe"
    /\ file' = "absent" /\ disk' = None
    /\ Goes(r, "reset")
    /\ Forget /\ clean' = ~Fetching
    /\ UNCHANGED <<lock, tokens, cache, authRun, mode, using, target, retried, calls, crashes>>

\* Session.ResetCache drops the tokens and saves empty ones ...
Reset(r) ==
    /\ pc[r] = "reset" /\ lock = None
    /\ tokens' = None /\ file' = "empty"
    /\ Goes(r, "resetApi")
    /\ Forget /\ clean' = (clean /\ ~Fetching)
    /\ UNCHANGED <<lock, cacheVars, authRun, mode, using, target, retried, calls, crashes>>

\* ... and Client.ResetCache the cached list.
ResetApi(r) ==
    /\ pc[r] = "resetApi"
    /\ cache' = None
    /\ Goes(r, IF mode[r] = "use" THEN "set" ELSE "auth")
    /\ clean' = (clean /\ ~Fetching)
    /\ UNCHANGED <<sessionVars, disk, authRun, mode, using, target, retried, calls, crashes, approvalVars>>

\* SetMojangSession: the launcher's token, without a refresh token.
SetMojangSession(r) ==
    /\ pc[r] = "set" /\ lock = None
    /\ tokens' = [acct |-> target[r], fresh |-> TRUE, ms |-> FALSE]
    /\ clean' = (clean /\ ~Fetching)
    /\ Reply(r)
    /\ UNCHANGED <<lock, file, cacheVars, calls, crashes, approvalVars>>

\* auth.signOut removes the file; the tokens in memory stay.
SignedOut(r) ==
    /\ pc[r] = "signOut"
    /\ file' = "absent"
    /\ Forget
    /\ Reply(r)
    /\ UNCHANGED <<lock, tokens, cacheVars, calls, crashes, clean>>

(***************************************************************************)
(* Session.                                                                *)
(***************************************************************************)

\* EnsureFresh and EnsureFreshSilent read the tokens under the mutex and let
\* it go.  Without tokens the silent one looks for saved ones only.
Ensure(r) ==
    /\ pc[r] = "ensure" /\ lock = None
    /\ IF tokens # None /\ tokens.fresh THEN Granted(r, Acct)
       ELSE Steps(r, IF tokens # None THEN "recheck"
                     ELSE IF mode[r] = "silent" THEN "load" ELSE "auth", mode[r], None)
    /\ UNCHANGED <<sessionVars, cacheVars, calls, crashes, histVars>>

\* Mutant of Recheck: the tokens are not looked at again under the mutex.
RecheckNot(r) ==
    /\ pc[r] = "recheck" /\ lock = None
    /\ IF tokens = None THEN Reply(r) /\ lock' = None
       ELSE Steps(r, "refresh", mode[r], IF tokens.ms THEN Acct ELSE None) /\ lock' = r
    /\ UNCHANGED <<tokens, file, cacheVars, calls, crashes, histVars>>

\* Expired: looked at again under the mutex.  A reset in between makes the
\* dereference panic; dispatch recovers and replies.
Recheck(r) ==
    /\ pc[r] = "recheck" /\ lock = None
    /\ IF tokens = None THEN Reply(r) /\ lock' = None
       ELSE IF tokens.fresh THEN Granted(r, Acct) /\ lock' = None
       ELSE Steps(r, "refresh", mode[r], IF tokens.ms THEN Acct ELSE None) /\ lock' = r
    /\ UNCHANGED <<tokens, file, cacheVars, calls, crashes, histVars>>

\* EnsureFreshSilent without tokens: a saved refresh token, or an error.  It
\* does not look again whether there are tokens by now.
Load(r) ==
    /\ pc[r] = "load" /\ lock = None
    /\ IF Saved = None THEN Refused(r) /\ lock' = None
       ELSE Steps(r, "restore", mode[r], Saved) /\ lock' = r
    /\ UNCHANGED <<tokens, file, cacheVars, calls, crashes, histVars>>

\* Authenticate: a saved refresh token, or a device code.
Authenticate(r) ==
    /\ pc[r] = "auth" /\ lock = None
    /\ lock' = r
    /\ Steps(r, IF Saved = None THEN "device" ELSE "restore",
             IF mode[r] = "current" THEN "current" ELSE "signIn", Saved)
    /\ UNCHANGED <<tokens, file, cacheVars, calls, crashes, histVars>>

\* RefreshNow after a 401.
RefreshNow(r) ==
    /\ pc[r] = "forced" /\ lock = None
    /\ IF tokens = None THEN Refused(r) /\ lock' = None
       ELSE Steps(r, "refresh", "forced", IF tokens.ms THEN Acct ELSE None) /\ lock' = r
    /\ UNCHANGED <<tokens, file, cacheVars, calls, crashes, histVars>>

\* SilentRefresh answers with new tokens ...
RefreshOk(r) ==
    /\ pc[r] \in {"refresh", "restore"} /\ using[r] # None
    /\ tokens' = Fresh(using[r])
    /\ clean' = (clean /\ ~Fetching /\ Acct \in {None, using[r]})
    /\ Steps(r, "save", mode[r], using[r])
    /\ UNCHANGED <<lock, file, cacheVars, calls, crashes, approvalVars>>

\* ... or fails; always without a refresh token.  Authenticate goes on to the
\* device code.
RefreshFails(r) ==
    /\ pc[r] \in {"refresh", "restore"}
    /\ IF pc[r] = "restore" /\ mode[r] # "silent" THEN Steps(r, "device", mode[r], None) /\ lock' = r
       ELSE Refused(r) /\ lock' = None
    /\ UNCHANGED <<tokens, file, cacheVars, calls, crashes, histVars>>

\* Store.Save of the new tokens, and the mutex is free.
Save(r) ==
    /\ pc[r] = "save"
    /\ file' = using[r] /\ lock' = None
    /\ replaced' = (replaced \/ approved \notin {None, using[r]})
    /\ Granted(r, using[r])
    /\ UNCHANGED <<tokens, cacheVars, calls, crashes, approved, clean>>

(***************************************************************************)
(* deviceCode, with the mutex held.                                        *)
(***************************************************************************)

\* Mutant of Approve: nothing is saved before the exchange.
ApproveUnsaved(r, x) ==
    /\ pc[r] = "device"
    /\ Approved(x)
    /\ Steps(r, "exchange", mode[r], x)
    /\ UNCHANGED <<sessionVars, cacheVars, calls, crashes, clean>>

\* The user approves the code with one of their accounts.
Approve(r, x) ==
    /\ pc[r] = "device"
    /\ Approved(x)
    /\ Steps(r, "early", mode[r], x)
    /\ UNCHANGED <<sessionVars, cacheVars, calls, crashes, clean>>

\* No code, declined, expired, or an error while polling.
Decline(r) ==
    /\ pc[r] = "device"
    /\ lock' = None
    /\ Refused(r)
    /\ UNCHANGED <<tokens, file, cacheVars, calls, crashes, histVars>>

\* The refresh token is saved before anything else is tried.
SaveEarly(r) ==
    /\ pc[r] = "early"
    /\ file' = using[r]
    /\ Goes(r, "exchange")
    /\ UNCHANGED <<lock, tokens, cacheVars, authRun, mode, using, target, retried, calls, crashes,
                   histVars>>

\* ExchangeForMojang: Xbox Live, XSTS, Mojang and the profile, or an error.
ExchangeOk(r) ==
    /\ pc[r] = "exchange"
    /\ tokens' = Fresh(using[r])
    /\ clean' = (clean /\ ~Fetching /\ Acct \in {None, using[r]})
    /\ Goes(r, "save")
    /\ UNCHANGED <<lock, file, cacheVars, authRun, mode, using, target, retried, calls, crashes,
                   approvalVars>>

ExchangeFails(r) ==
    /\ pc[r] = "exchange"
    /\ lock' = None
    /\ Refused(r)
    /\ UNCHANGED <<tokens, file, cacheVars, calls, crashes, histVars>>

(***************************************************************************)
(* GetFriends with the account's token.                                    *)
(***************************************************************************)

\* Current could not refresh: the request carries the session's token as it is.
Send(r) ==
    /\ pc[r] = "send" /\ lock = None
    /\ Steps(r, "get", "current", Acct)
    /\ UNCHANGED <<sessionVars, cacheVars, calls, crashes, histVars>>

\* Mutant of GetUnauthorized: there is no limit to the retries.
GetUnauthorizedAgain(r) ==
    /\ pc[r] = "get"
    /\ Steps(r, "forced", "forced", None)
    /\ UNCHANGED <<sessionVars, cacheVars, calls, crashes, histVars>>

\* 401: doWithRetry forces a refresh and asks again, once.
GetUnauthorized(r) ==
    /\ pc[r] = "get" /\ r \notin retried
    /\ Goes(r, "forced") /\ As(r, "forced") /\ Uses(r, None)
    /\ retried' = retried \cup {r}
    /\ UNCHANGED <<sessionVars, cacheVars, authRun, target, calls, crashes, histVars>>

\* Any other error, a 304, or an answer from the cache: nothing is stored.
GetEnds(r) ==
    /\ pc[r] = "get"
    /\ Reply(r)
    /\ UNCHANGED <<sessionVars, cacheVars, calls, crashes, histVars>>

\* A list: it is cached ...
GetOk(r) ==
    /\ pc[r] = "get" /\ using[r] # None
    /\ cache' = using[r]
    /\ Goes(r, "disk")
    /\ clean' = (clean /\ ~Changing)
    /\ UNCHANGED <<sessionVars, disk, authRun, mode, using, target, retried, calls, crashes, approvalVars>>

\* ... and SaveCacheToDisk writes what is cached by now and renames it into place.
SaveCacheToDisk(r) ==
    /\ pc[r] = "disk"
    /\ disk' = cache
    /\ Reply(r)
    /\ UNCHANGED <<sessionVars, cache, calls, crashes, histVars>>

(***************************************************************************)
(* Specification.                                                          *)
(***************************************************************************)

\* Steps that wait for Session.mu.
LockStep(r) ==
    \/ Hint(r) \/ Reset(r) \/ SetMojangSession(r)
    \/ Ensure(r) \/ Recheck(r) \/ Load(r) \/ Authenticate(r) \/ RefreshNow(r) \/ Send(r)

OtherStep(r) ==
    \/ Wipe(r) \/ ResetApi(r) \/ SignedOut(r)
    \/ RefreshOk(r) \/ RefreshFails(r) \/ Save(r)
    \/ (\E x \in Accounts : Approve(r, x)) \/ Decline(r)
    \/ SaveEarly(r) \/ ExchangeOk(r) \/ ExchangeFails(r)
    \/ GetUnauthorized(r) \/ GetEnds(r) \/ GetOk(r) \/ SaveCacheToDisk(r)

Next ==
    \/ Expire \/ Crash
    \/ \E r \in Requests :
          \/ \E x \in Accounts \cup {None} : SignIn(r, x)
          \/ \E x \in Accounts : UseMojangSession(r, x)
          \/ List(r) \/ SignOut(r)
          \/ LockStep(r) \/ OtherStep(r)

Spec == Init /\ [][Next]_vars

\* Calls to the services end (the device code expires); the mutex is fair.
Fairness == \A r \in Requests : WF_vars(OtherStep(r)) /\ SF_vars(LockStep(r))

FairSpec == Spec /\ Fairness

(***************************************************************************)
(* Properties.                                                             *)
(***************************************************************************)

\* Once the user has approved a device code, the credentials file has the
\* account's refresh token whenever nobody is inside the session: also after the
\* exchange that follows has failed, and when the process died in it or anywhere
\* but in Store.Save.  Only tokens of the account that was signed in all along
\* may have been saved over it, and then the file has those.  Until the
\* credentials are removed, the next sign-in need not ask the user again.
ApprovalNotLost ==
    (approved # None /\ lock = None) =>
        file = approved \/ (replaced /\ file \in Accounts)

\* After an account change that was noticed, and that met no GET under way, no
\* list of the earlier account is cached, in memory or on disk.
SwitchIsClean ==
    (clean /\ tokens # None /\ ~Changing) =>
        cache \in {None, Acct} /\ disk \in {None, Acct}

\* Two requests that see an expired token refresh it once: the second finds the
\* first one's result when it gets the mutex.
RefreshOnlyStale ==
    \A r \in Requests :
        (pc[r] = "refresh" /\ mode[r] \in {"silent", "current"}) =>
            tokens # None /\ ~tokens.fresh

\* Every request ends: nobody waits for Session.mu for ever, and a service that
\* keeps answering 401 is asked twice at most.
RequestsEnd == \A r \in Requests : pc[r] # "idle" ~> pc[r] = "idle"

================================================================================
