------------------------------ MODULE AccountProofs ------------------------------
(***************************************************************************)
(* Proofs about the token session for any number of accounts and requests: *)
(* an approval of the user is not lost, only an expired token is           *)
(* refreshed, and a noticed account change leaves no list of the earlier   *)
(* account.  All rest on Session.mu: a request between taking the mutex    *)
(* and letting it go is alone there.                                       *)
(***************************************************************************)
EXTENDS Account, TLAPS

\* The steps of a request that has the mutex.
Holding == {"refresh", "restore", "device", "early", "exchange", "save"}

\* pc, mode and using are functions on the requests.
FnType ==
    /\ pc = [r \in Requests |-> pc[r]]
    /\ mode = [r \in Requests |-> mode[r]]
    /\ using = [r \in Requests |-> using[r]]

MutexHeld == \A r \in Requests : pc[r] \in Holding => lock = r

\* A request that is going to save early has the approved account, unless the
\* approval has been revoked in the meantime.
AboutApproved ==
    \A r \in Requests : pc[r] = "early" /\ approved # None => using[r] = approved

\* The approved account is in the file, or another one's tokens were saved over
\* it, or a request is about to write it.
FileFollows ==
    approved # None =>
        file = approved \/ replaced \/ \E r \in Requests : pc[r] = "early"

\* The inductive invariant.
IInv == FnType /\ MutexHeld /\ AboutApproved /\ FileFollows /\ RefreshOnlyStale

\* Request r goes on; the others stay where they are.
Only(r) ==
    /\ FnType'
    /\ \A q \in Requests \ {r} : pc'[q] = pc[q] /\ mode'[q] = mode[q] /\ using'[q] = using[q]

\* It goes on without the mutex.
Out(r) == Only(r) /\ pc'[r] \notin Holding

USE DEF Holding

LEMMA ReplyOut ==
    ASSUME FnType, NEW r \in Requests, Reply(r)
    PROVE  Out(r)
BY DEF FnType, Reply, Out, Only, Goes, As, Uses

LEMMA StepsOnly ==
    ASSUME FnType, NEW r \in Requests, NEW p, NEW m, NEW x, Steps(r, p, m, x)
    PROVE  Only(r) /\ pc'[r] = p /\ mode'[r] = m /\ using'[r] = x
BY DEF FnType, Steps, Only, Goes, As, Uses

LEMMA GoesOnly ==
    ASSUME FnType, NEW r \in Requests, NEW p, Goes(r, p), UNCHANGED <<mode, using>>
    PROVE  Only(r) /\ pc'[r] = p /\ mode'[r] = mode[r] /\ using'[r] = using[r]
BY DEF FnType, Only, Goes

\* Whatever the token functions return, their caller goes on without the mutex.
LEMMA ReturnsOut ==
    ASSUME FnType, NEW r \in Requests, NEW x, Granted(r, x) \/ Refused(r)
    PROVE  Out(r)
<1>1. CASE Granted(r, x)
  <2>1. CASE Reply(r)
    BY <2>1, ReplyOut
  <2>2. CASE Steps(r, "get", "current", x)
    BY <2>2, StepsOnly DEF Out
  <2>3. CASE Steps(r, "ensure", "current", None)
    BY <2>3, StepsOnly DEF Out
  <2>4. QED
    BY <1>1, <2>1, <2>2, <2>3 DEF Granted
<1>2. CASE Refused(r)
  <2>1. CASE Reply(r)
    BY <2>1, ReplyOut
  <2>2. CASE Steps(r, "send", "current", None)
    BY <2>2, StepsOnly DEF Out
  <2>3. CASE Steps(r, "ensure", "current", None)
    BY <2>3, StepsOnly DEF Out
  <2>4. QED
    BY <1>2, <2>1, <2>2, <2>3 DEF Refused
<1>3. QED
  BY <1>1, <1>2

\* Going on without the mutex, and letting it go, keeps the invariant, unless
\* the request was about to save early.
LEMMA OutKeeps ==
    ASSUME IInv, NEW r \in Requests, Out(r),
           pc[r] # "early",
           UNCHANGED <<tokens, file, approved, replaced>>,
           lock' = lock \/ (lock \in {r, None} /\ lock' = None)
    PROVE  IInv'
BY NoneAssumption
   DEF IInv, FnType, MutexHeld, AboutApproved, FileFollows, RefreshOnlyStale, Out, Only

\* So does taking the mutex.
LEMMA InKeeps ==
    ASSUME IInv, NEW r \in Requests, Only(r),
           lock = None, lock' = r,
           pc'[r] \in {"refresh", "restore", "device"},
           pc'[r] = "refresh" /\ mode'[r] \in {"silent", "current"}
               => tokens # None /\ ~tokens.fresh,
           UNCHANGED <<tokens, file, approved, replaced>>
    PROVE  IInv'
BY NoneAssumption
   DEF IInv, FnType, MutexHeld, AboutApproved, FileFollows, RefreshOnlyStale, Only

\* The steps that wait for Session.mu.
LEMMA LockStepKeeps ==
    ASSUME IInv, NEW r \in Requests, LockStep(r)
    PROVE  IInv'
<1>0. FnType
  BY DEF IInv
<1> USE DEF sessionVars, histVars, approvalVars, Forget, Approved
<1>1. CASE Hint(r)
  <2>1. Out(r)
    BY <1>0, <1>1, GoesOnly DEF Hint, Out
  <2>2. QED
    BY <1>1, <2>1, OutKeeps DEF Hint
<1>2. CASE Reset(r)
  <2>1. Only(r) /\ pc'[r] = "resetApi"
    BY <1>0, <1>2, GoesOnly DEF Reset
  <2>2. QED
    BY <1>2, <2>1, NoneAssumption
       DEF Reset, IInv, FnType, MutexHeld, AboutApproved, FileFollows, RefreshOnlyStale, Only
<1>3. CASE SetMojangSession(r)
  <2>1. Out(r)
    BY <1>0, <1>3, ReplyOut DEF SetMojangSession
  <2>2. QED
    BY <1>3, <2>1, NoneAssumption
       DEF SetMojangSession, IInv, FnType, MutexHeld, AboutApproved, FileFollows,
           RefreshOnlyStale, Out, Only
<1>4. CASE Ensure(r)
  <2>1. Out(r)
    BY <1>0, <1>4, ReturnsOut, StepsOnly DEF Ensure, Out
  <2>2. QED
    BY <1>4, <2>1, OutKeeps DEF Ensure
<1>5. CASE Recheck(r)
  <2>1. CASE tokens = None \/ tokens.fresh
    <3>1. Out(r)
      BY <1>0, <1>5, <2>1, ReplyOut, ReturnsOut DEF Recheck
    <3>2. QED
      BY <1>5, <2>1, <3>1, OutKeeps DEF Recheck
  <2>2. CASE tokens # None /\ ~tokens.fresh
    BY <1>0, <1>5, <2>2, StepsOnly, InKeeps DEF Recheck
  <2>3. QED
    BY <2>1, <2>2
<1>6. CASE Load(r)
  <2>1. CASE Saved = None
    BY <1>0, <1>6, <2>1, ReturnsOut, OutKeeps DEF Load
  <2>2. CASE Saved # None
    BY <1>0, <1>6, <2>2, StepsOnly, InKeeps DEF Load
  <2>3. QED
    BY <2>1, <2>2
<1>7. CASE Authenticate(r)
  BY <1>0, <1>7, StepsOnly, InKeeps DEF Authenticate
<1>8. CASE RefreshNow(r)
  <2>1. CASE tokens = None
    BY <1>0, <1>8, <2>1, ReturnsOut, OutKeeps DEF RefreshNow
  <2>2. CASE tokens # None
    BY <1>0, <1>8, <2>2, StepsOnly, InKeeps DEF RefreshNow
  <2>3. QED
    BY <2>1, <2>2
<1>9. CASE Send(r)
  <2>1. Out(r)
    BY <1>0, <1>9, StepsOnly DEF Send, Out
  <2>2. QED
    BY <1>9, <2>1, OutKeeps DEF Send
<1>10. QED
  BY <1>1, <1>2, <1>3, <1>4, <1>5, <1>6, <1>7, <1>8, <1>9 DEF LockStep

\* The steps with the mutex, and the ones that need none.
LEMMA OtherStepKeeps ==
    ASSUME IInv, NEW r \in Requests, OtherStep(r)
    PROVE  IInv'
<1>0. FnType
  BY DEF IInv
<1> USE DEF sessionVars, histVars, approvalVars, Forget, Approved
<1>1. CASE Wipe(r)
  <2>1. Only(r) /\ pc'[r] = "reset"
    BY <1>0, <1>1, GoesOnly DEF Wipe
  <2>2. QED
    BY <1>1, <2>1
       DEF Wipe, IInv, FnType, MutexHeld, AboutApproved, FileFollows, RefreshOnlyStale, Only
<1>2. CASE ResetApi(r)
  <2>1. Out(r)
    BY <1>0, <1>2, GoesOnly DEF ResetApi, Out
  <2>2. QED
    BY <1>2, <2>1, OutKeeps DEF ResetApi
<1>3. CASE SignedOut(r)
  <2>1. Out(r)
    BY <1>0, <1>3, ReplyOut DEF SignedOut
  <2>2. QED
    BY <1>3, <2>1
       DEF SignedOut, IInv, FnType, MutexHeld, AboutApproved, FileFollows, RefreshOnlyStale,
           Out, Only
<1>4. CASE RefreshOk(r)
  <2>1. Only(r) /\ pc'[r] = "save" /\ using'[r] = using[r]
    BY <1>0, <1>4, StepsOnly DEF RefreshOk
  <2>2. QED
    BY <1>4, <2>1, NoneAssumption
       DEF RefreshOk, IInv, FnType, MutexHeld, AboutApproved, FileFollows, RefreshOnlyStale, Only
<1>5. CASE RefreshFails(r)
  <2>1. CASE pc[r] = "restore" /\ mode[r] # "silent"
    <3>1. Only(r) /\ pc'[r] = "device"
      BY <1>0, <1>5, <2>1, StepsOnly DEF RefreshFails
    <3>2. QED
      BY <1>5, <2>1, <3>1
         DEF RefreshFails, IInv, FnType, MutexHeld, AboutApproved, FileFollows,
             RefreshOnlyStale, Only
  <2>2. CASE ~(pc[r] = "restore" /\ mode[r] # "silent")
    <3>1. Out(r) /\ lock = r
      BY <1>0, <1>5, <2>2, ReturnsOut DEF RefreshFails, IInv, MutexHeld
    <3>2. QED
      BY <1>5, <2>2, <3>1, OutKeeps DEF RefreshFails
  <2>3. QED
    BY <2>1, <2>2
<1>6. CASE Save(r)
  <2>1. Out(r)
    BY <1>0, <1>6, ReturnsOut DEF Save
  <2>2. FnType' /\ MutexHeld' /\ RefreshOnlyStale'
    BY <1>6, <2>1 DEF Save, IInv, FnType, MutexHeld, RefreshOnlyStale, Out, Only
  <2>3. AboutApproved'
    BY <1>6, <2>1 DEF Save, IInv, MutexHeld, AboutApproved, Out, Only
  <2>4. FileFollows'
    BY <1>6, <2>1, NoneAssumption DEF Save, IInv, MutexHeld, FileFollows, Out, Only
  <2>5. QED
    BY <2>2, <2>3, <2>4 DEF IInv
<1>7. ASSUME NEW x \in Accounts, Approve(r, x)
      PROVE  IInv'
  <2>1. Only(r) /\ pc'[r] = "early" /\ using'[r] = x
    BY <1>0, <1>7, StepsOnly DEF Approve
  <2>2. QED
    BY <1>7, <2>1
       DEF Approve, IInv, FnType, MutexHeld, AboutApproved, FileFollows, RefreshOnlyStale, Only
<1>8. CASE Decline(r) \/ ExchangeFails(r)
  <2>1. Out(r) /\ lock = r
    BY <1>0, <1>8, ReturnsOut DEF Decline, ExchangeFails, IInv, MutexHeld
  <2>2. QED
    BY <1>8, <2>1, OutKeeps DEF Decline, ExchangeFails
<1>9. CASE SaveEarly(r)
  <2>1. Only(r) /\ pc'[r] = "exchange" /\ using'[r] = using[r]
    BY <1>0, <1>9, GoesOnly DEF SaveEarly
  <2>2. QED
    BY <1>9, <2>1
       DEF SaveEarly, IInv, FnType, MutexHeld, AboutApproved, FileFollows, RefreshOnlyStale, Only
<1>10. CASE ExchangeOk(r)
  <2>1. Only(r) /\ pc'[r] = "save" /\ using'[r] = using[r]
    BY <1>0, <1>10, GoesOnly DEF ExchangeOk
  <2>2. QED
    BY <1>10, <2>1
       DEF ExchangeOk, IInv, FnType, MutexHeld, AboutApproved, FileFollows, RefreshOnlyStale, Only
<1>11. CASE GetUnauthorized(r)
  <2>1. Out(r)
    BY <1>0, <1>11 DEF GetUnauthorized, FnType, Out, Only, Goes, As, Uses
  <2>2. QED
    BY <1>11, <2>1, OutKeeps DEF GetUnauthorized
<1>12. CASE GetEnds(r)
  BY <1>0, <1>12, ReplyOut, OutKeeps DEF GetEnds
<1>13. CASE GetOk(r)
  <2>1. Out(r)
    BY <1>0, <1>13, GoesOnly DEF GetOk, Out
  <2>2. QED
    BY <1>13, <2>1, OutKeeps DEF GetOk
<1>14. CASE SaveCacheToDisk(r)
  BY <1>0, <1>14, ReplyOut, OutKeeps DEF SaveCacheToDisk
<1>15. QED
  BY <1>1, <1>2, <1>3, <1>4, <1>5, <1>6, <1>7, <1>8, <1>9, <1>10, <1>11, <1>12, <1>13, <1>14
     DEF OtherStep

\* A request begins.
LEMMA BeginKeeps ==
    ASSUME IInv, NEW r \in Requests, NEW p, NEW m, NEW x, Begin(r, p, m, x), p \notin Holding
    PROVE  IInv'
<1>1. Out(r)
  BY DEF IInv, Begin, FnType, Out, Only, Goes, As
<1>2. QED
  BY <1>1, OutKeeps DEF Begin, sessionVars, histVars, approvalVars

\* The invariant is inductive.
LEMMA IInvHolds == Spec => []IInv
<1>1. Init => IInv
  BY DEF Init, Idle, Blank, IInv, FnType, MutexHeld, AboutApproved, FileFollows, RefreshOnlyStale
<1>2. IInv /\ [Next]_vars => IInv'
  <2> SUFFICES ASSUME IInv, [Next]_vars
               PROVE  IInv'
    OBVIOUS
  <2>1. CASE Expire
    BY <2>1 DEF Expire, IInv, FnType, MutexHeld, AboutApproved, FileFollows, RefreshOnlyStale,
                reqVars, histVars, approvalVars
  <2>2. CASE Crash
    BY <2>2 DEF Crash, SavingEarly, Forget, approvalVars, Idle, Blank, IInv, FnType, MutexHeld,
                AboutApproved, FileFollows, RefreshOnlyStale
  <2>3. ASSUME NEW r \in Requests,
               \/ \E x \in Accounts \cup {None} : SignIn(r, x)
               \/ \E x \in Accounts : UseMojangSession(r, x)
               \/ List(r) \/ SignOut(r)
        PROVE  IInv'
    BY <2>3, BeginKeeps DEF SignIn, UseMojangSession, List, SignOut
  <2>4. ASSUME NEW r \in Requests, LockStep(r) \/ OtherStep(r)
        PROVE  IInv'
    BY <2>4, LockStepKeeps, OtherStepKeeps
  <2>5. CASE UNCHANGED vars
    BY <2>5 DEF vars, sessionVars, reqVars, histVars, approvalVars, IInv, FnType, MutexHeld, AboutApproved,
                FileFollows, RefreshOnlyStale
  <2>6. QED
    BY <2>1, <2>2, <2>3, <2>4, <2>5 DEF Next
<1>3. QED
  BY <1>1, <1>2, PTL DEF Spec

\* EnsureFresh: a request that refreshes an expired token finds it expired
\* still, for as long as the refresh takes, whatever other requests do.
THEOREM OnlyStaleIsRefreshed == Spec => []RefreshOnlyStale
<1>1. IInv => RefreshOnlyStale
  BY DEF IInv
<1>2. QED
  BY <1>1, IInvHolds, PTL

(***************************************************************************)
(* A noticed account change is clean.                                      *)
(***************************************************************************)

\* An account change has removed the list on disk and not yet the one in memory.
Resetting == \E r \in Requests : pc[r] \in {"reset", "resetApi"}

\* A request that has an account for its call has one of Accounts.
Kinds ==
    /\ tokens \in Tokens \cup {None}
    /\ target = [r \in Requests |-> target[r]]
    /\ \A r \in Requests :
          /\ using[r] \in Accounts \cup {None}
          /\ pc[r] \in {"early", "exchange", "save"} => using[r] \in Accounts
          /\ pc[r] \in {"hint", "wipe", "reset", "resetApi", "set"} => target[r] \in Accounts

\* Under the mutex, what a request is going to save is what it has put in memory.
SavesOwn == \A r \in Requests : pc[r] = "save" => Acct = using[r]

\* A GET is about the account that is signed in.
FetchesOwn == \A r \in Requests : pc[r] \in {"get", "disk"} => using[r] \in {None, Acct}

\* Both caches are about the account signed in, and about the one that a request
\* which has not noticed a change is going to set.
CachesOwn ==
    /\ {cache, disk} \subseteq {None, Acct}
    /\ \A r \in Requests : pc[r] = "set" => {cache, disk} \subseteq {None, target[r]}

\* While the list in memory is still to be dropped, nothing brings back the file.
DiskGone == disk = None /\ \A r \in Requests : pc[r] # "disk"

\* The inductive invariant of the caches.
CInv ==
    /\ Kinds /\ SavesOwn
    /\ clean => FetchesOwn /\ IF Resetting THEN DiskGone ELSE CachesOwn

\* Request r goes on; the others stay where they are, also in what the launcher named.
Alone(r) == /\ Only(r)
            /\ target' = [q \in Requests |-> target'[q]]
            /\ \A q \in Requests \ {r} : target'[q] = target[q]

LEMMA StepsAlone ==
    ASSUME IInv, CInv, NEW r \in Requests, NEW p, NEW m, NEW x, Steps(r, p, m, x)
    PROVE  Alone(r) /\ pc'[r] = p /\ using'[r] = x /\ target' = target
BY StepsOnly DEF IInv, CInv, Kinds, Steps, Alone

LEMMA GoesAlone ==
    ASSUME IInv, CInv, NEW r \in Requests, NEW p, Goes(r, p), UNCHANGED <<mode, using, target>>
    PROVE  Alone(r) /\ pc'[r] = p /\ using'[r] = using[r]
BY GoesOnly DEF IInv, CInv, Kinds, Alone

LEMMA ReplyAlone ==
    ASSUME IInv, CInv, NEW r \in Requests, Reply(r)
    PROVE  Alone(r) /\ pc'[r] = "idle" /\ using'[r] = None
<1>1. Only(r)
  BY ReplyOut DEF IInv, Out
<1>2. QED
  BY <1>1 DEF IInv, FnType, CInv, Kinds, Reply, Alone, Goes, Uses

\* The caller of a token function goes on with x, or without tokens.
Returns(r, x) ==
    /\ Alone(r)
    /\ \/ pc'[r] \in {"idle", "ensure", "send"} /\ using'[r] = None
       \/ pc'[r] = "get" /\ using'[r] = x

LEMMA GrantedReturns ==
    ASSUME IInv, CInv, NEW r \in Requests, NEW x, Granted(r, x)
    PROVE  Returns(r, x)
<1>1. CASE Reply(r)
  BY <1>1, ReplyAlone DEF Returns
<1>2. CASE Steps(r, "get", "current", x)
  BY <1>2, StepsAlone DEF Returns
<1>3. CASE Steps(r, "ensure", "current", None)
  BY <1>3, StepsAlone DEF Returns
<1>4. QED
  BY <1>1, <1>2, <1>3 DEF Granted

LEMMA RefusedReturns ==
    ASSUME IInv, CInv, NEW r \in Requests, Refused(r)
    PROVE  Returns(r, None)
<1>1. CASE Reply(r)
  BY <1>1, ReplyAlone DEF Returns
<1>2. CASE Steps(r, "send", "current", None)
  BY <1>2, StepsAlone DEF Returns
<1>3. CASE Steps(r, "ensure", "current", None)
  BY <1>3, StepsAlone DEF Returns
<1>4. QED
  BY <1>1, <1>2, <1>3 DEF Refused

\* A step that changes no cache, no token and no part of an account change.
LEMMA PlainStep ==
    ASSUME CInv, NEW r \in Requests, Alone(r),
           UNCHANGED <<tokens, cache, disk, clean>>,
           pc[r] \notin {"reset", "resetApi"},
           pc'[r] \notin {"reset", "resetApi", "set", "disk", "save"},
           pc'[r] = "get" => using'[r] \in {None, Acct},
           using'[r] \in Accounts \cup {None},
           pc'[r] \in {"early", "exchange"} => using'[r] \in Accounts,
           pc'[r] \in {"hint", "wipe"} => target'[r] \in Accounts
    PROVE  CInv'
<1> USE DEF Alone, Only
<1>1. Kinds'
  BY DEF CInv, Kinds
<1>2. Acct' = Acct
  BY DEF Acct
<1>3. SavesOwn'
  BY <1>2 DEF CInv, SavesOwn
<1>4. Resetting' <=> Resetting
  BY DEF Resetting
<1>5. ASSUME clean'
      PROVE  FetchesOwn' /\ (Resetting' => DiskGone') /\ (~Resetting' => CachesOwn')
  <2>1. clean
    BY <1>5
  <2>2. FetchesOwn'
    BY <1>2, <2>1 DEF CInv, FetchesOwn
  <2>3. Resetting' => DiskGone'
    BY <1>4, <2>1 DEF CInv, DiskGone
  <2>4. ~Resetting' => CachesOwn'
    BY <1>2, <1>4, <2>1 DEF CInv, CachesOwn
  <2>5. QED
    BY <2>2, <2>3, <2>4
<1>6. QED
  BY <1>1, <1>3, <1>5 DEF CInv

\* What the token functions return is the account that is signed in, or nothing.
LEMMA ReturnKeepsClean ==
    ASSUME CInv, NEW r \in Requests, NEW x \in {None, Acct}, Returns(r, x),
           UNCHANGED <<tokens, cache, disk, clean>>,
           pc[r] \notin {"reset", "resetApi"}
    PROVE  CInv'
<1>1. x \in Accounts \cup {None}
  BY DEF CInv, Kinds, Acct, Tokens
<1>2. QED
  BY <1>1, PlainStep DEF Returns

\* The tokens change to those of account x, of which r is the one under the mutex:
\* neither a GET nor a cached list of another account is there.
LEMMA TokensChange ==
    ASSUME IInv, CInv, NEW r \in Requests, Alone(r), NEW x \in Accounts,
           tokens' \in Tokens, tokens'.acct = x, UNCHANGED <<cache, disk>>,
           clean' => clean /\ ~Fetching,
           pc[r] \notin {"reset", "resetApi"},
           \A q \in Requests \ {r} : pc[q] # "save",
           \/ pc'[r] = "save" /\ using'[r] = x
           \/ pc'[r] = "idle" /\ using'[r] = None,
           clean' /\ ~Resetting => {cache, disk} \subseteq {None, x}
    PROVE  CInv'
<1> USE DEF Alone, Only
<1>1. Kinds'
  BY NoneAssumption DEF CInv, Kinds
<1>2. Acct' = x
  BY NoneAssumption DEF Acct
<1>3. SavesOwn'
  BY <1>2 DEF SavesOwn
<1>4. Resetting' <=> Resetting
  BY DEF Resetting
<1>5. ASSUME clean'
      PROVE  FetchesOwn' /\ (Resetting' => DiskGone') /\ (~Resetting' => CachesOwn')
  <2>1. FetchesOwn'
    BY <1>5 DEF FetchesOwn, Fetching
  <2>2. Resetting' => DiskGone'
    BY <1>4, <1>5 DEF CInv, DiskGone
  <2>3. ~Resetting' => CachesOwn'
    BY <1>2, <1>4, <1>5 DEF CInv, CachesOwn
  <2>4. QED
    BY <2>1, <2>2, <2>3
<1>6. QED
  BY <1>1, <1>3, <1>5 DEF CInv

\* The account change.
LEMMA SwitchStepClean ==
    ASSUME IInv, CInv, NEW r \in Requests,
           Hint(r) \/ Wipe(r) \/ Reset(r) \/ ResetApi(r) \/ SetMojangSession(r)
    PROVE  CInv'
<1> USE DEF sessionVars, cacheVars, histVars
<1>1. CASE Hint(r)
  <2>1. /\ UNCHANGED <<tokens, cache, disk, clean, target>>
        /\ pc[r] = "hint"
    BY <1>1 DEF Hint
  <2>2. Alone(r) /\ using'[r] = using[r] /\ pc'[r] \in {"wipe", "set", "auth"}
    BY <1>1, GoesAlone DEF Hint
  <2>3. using[r] \in Accounts \cup {None} /\ target[r] \in Accounts
    BY <2>1 DEF CInv, Kinds
  <2>4. CASE pc'[r] # "set"
    BY <2>1, <2>2, <2>3, <2>4, PlainStep
  <2>5. CASE pc'[r] = "set"
    <3> USE DEF Alone, Only
    <3>1. Acct \in {None, target[r]}
      BY <1>1, <2>5 DEF Hint, Goes, IInv, FnType
    <3>2. Kinds'
      BY <2>1, <2>2, <2>3, <2>5 DEF CInv, Kinds
    <3>3. Acct' = Acct /\ (Resetting' <=> Resetting)
      BY <2>1, <2>2, <2>5 DEF Acct, Resetting
    <3>4. SavesOwn'
      BY <2>2, <2>5, <3>3 DEF CInv, SavesOwn
    <3>5. ASSUME clean'
          PROVE  FetchesOwn' /\ (Resetting' => DiskGone') /\ (~Resetting' => CachesOwn')
      <4>1. clean
        BY <2>1, <3>5
      <4>2. FetchesOwn'
        BY <2>2, <2>5, <3>3, <4>1 DEF CInv, FetchesOwn
      <4>3. Resetting' => DiskGone'
        BY <2>1, <2>2, <2>5, <3>3, <4>1 DEF CInv, DiskGone
      <4>4. ~Resetting' => CachesOwn'
        BY <2>1, <2>2, <3>1, <3>3, <4>1 DEF CInv, CachesOwn
      <4>5. QED
        BY <4>2, <4>3, <4>4
    <3>6. QED
      BY <3>2, <3>4, <3>5 DEF CInv
  <2>6. QED
    BY <2>4, <2>5
<1>2. CASE Wipe(r)
  <2> USE DEF Alone, Only
  <2>1. /\ UNCHANGED <<tokens, target>> /\ pc[r] = "wipe" /\ disk' = None
        /\ clean' = ~Fetching
    BY <1>2 DEF Wipe
  <2>2. Alone(r) /\ using'[r] = using[r] /\ pc'[r] = "reset"
    BY <1>2, GoesAlone DEF Wipe
  <2>3. Kinds'
    BY <2>1, <2>2 DEF CInv, Kinds
  <2>4. SavesOwn'
    BY <2>1, <2>2 DEF CInv, SavesOwn, Acct
  <2>5. Resetting'
    BY <2>2 DEF Resetting
  <2>6. ASSUME clean'
        PROVE  FetchesOwn' /\ DiskGone'
    BY <2>1, <2>2, <2>6 DEF FetchesOwn, DiskGone, Fetching
  <2>7. QED
    BY <2>3, <2>4, <2>5, <2>6 DEF CInv
<1>3. CASE Reset(r)
  <2> USE DEF Alone, Only
  <2>1. /\ UNCHANGED <<target, cache, disk>> /\ pc[r] = "reset" /\ lock = None
        /\ tokens' = None /\ clean' = (clean /\ ~Fetching)
    BY <1>3 DEF Reset
  <2>2. Alone(r) /\ using'[r] = using[r] /\ pc'[r] = "resetApi"
    BY <1>3, GoesAlone DEF Reset
  <2>3. Kinds'
    BY <2>1, <2>2 DEF CInv, Kinds
  <2>4. SavesOwn'
    BY <2>1, <2>2, NoneAssumption DEF IInv, MutexHeld, SavesOwn
  <2>5. Resetting /\ Resetting'
    BY <2>1, <2>2 DEF Resetting
  <2>6. ASSUME clean'
        PROVE  FetchesOwn' /\ DiskGone'
    BY <2>1, <2>2, <2>5, <2>6 DEF CInv, FetchesOwn, DiskGone, Fetching
  <2>7. QED
    BY <2>3, <2>4, <2>5, <2>6 DEF CInv
<1>4. CASE ResetApi(r)
  <2> USE DEF Alone, Only
  <2>1. /\ UNCHANGED <<tokens, target, disk>> /\ pc[r] = "resetApi" /\ cache' = None
        /\ clean' = (clean /\ ~Fetching)
    BY <1>4 DEF ResetApi
  <2>2. Alone(r) /\ using'[r] = using[r] /\ pc'[r] \in {"set", "auth"}
    BY <1>4, GoesAlone DEF ResetApi
  <2>3. Kinds'
    BY <2>1, <2>2 DEF CInv, Kinds
  <2>4. SavesOwn'
    BY <2>1, <2>2 DEF CInv, SavesOwn, Acct
  <2>5. Resetting
    BY <2>1 DEF Resetting
  <2>6. ASSUME clean'
        PROVE  FetchesOwn' /\ DiskGone' /\ CachesOwn'
    <3>1. FetchesOwn' /\ DiskGone'
      BY <2>1, <2>2, <2>5, <2>6 DEF CInv, FetchesOwn, DiskGone, Fetching
    <3>2. CachesOwn'
      BY <2>1, <3>1 DEF CachesOwn, DiskGone
    <3>3. QED
      BY <3>1, <3>2
  <2>7. QED
    BY <2>3, <2>4, <2>6 DEF CInv
<1>5. CASE SetMojangSession(r)
  <2>1. /\ UNCHANGED <<cache, disk>> /\ pc[r] = "set" /\ lock = None
        /\ tokens' = [acct |-> target[r], fresh |-> TRUE, ms |-> FALSE]
        /\ clean' = (clean /\ ~Fetching)
    BY <1>5 DEF SetMojangSession
  <2>2. Alone(r) /\ using'[r] = None /\ pc'[r] = "idle"
    BY <1>5, ReplyAlone DEF SetMojangSession
  <2>3. target[r] \in Accounts
    BY <2>1 DEF CInv, Kinds
  <2>4. tokens' \in Tokens /\ tokens'.acct = target[r]
    BY <2>1, <2>3 DEF Tokens
  <2>5. \A q \in Requests \ {r} : pc[q] # "save"
    BY <2>1, NoneAssumption DEF IInv, MutexHeld
  <2>6. clean' /\ ~Resetting => {cache, disk} \subseteq {None, target[r]}
    BY <2>1 DEF CInv, CachesOwn
  <2>7. QED
    BY <2>1, <2>2, <2>3, <2>4, <2>5, <2>6, TokensChange
<1>6. QED
  BY <1>1, <1>2, <1>3, <1>4, <1>5

\* Saved is an account or nothing, and so is the account signed in.
LEMMA AccountsOrNone ==
    ASSUME CInv
    PROVE  Saved \in Accounts \cup {None} /\ Acct \in Accounts \cup {None}
BY DEF CInv, Kinds, Saved, Acct, Tokens

\* The token functions up to the mutex.
LEMMA TokenStepClean ==
    ASSUME IInv, CInv, NEW r \in Requests,
           Ensure(r) \/ Recheck(r) \/ Load(r) \/ Authenticate(r) \/ RefreshNow(r) \/ Send(r)
    PROVE  CInv'
<1> USE DEF sessionVars, cacheVars, histVars
<1>0. Saved \in Accounts \cup {None} /\ Acct \in Accounts \cup {None}
  BY AccountsOrNone
<1>1. UNCHANGED <<tokens, cache, disk, clean>>
  BY DEF Ensure, Recheck, Load, Authenticate, RefreshNow, Send
<1>2. pc[r] \in {"ensure", "recheck", "load", "auth", "forced", "send"}
  BY DEF Ensure, Recheck, Load, Authenticate, RefreshNow, Send
<1>3. CASE \/ Granted(r, Acct)
           \/ Refused(r)
  BY <1>1, <1>2, <1>3, GrantedReturns, RefusedReturns, ReturnKeepsClean
<1>4. CASE Reply(r)
  BY <1>1, <1>2, <1>4, ReplyAlone, PlainStep
<1>5. CASE \E p \in {"recheck", "load", "auth", "refresh", "restore", "device"},
              m \in Modes \cup {mode[r]}, x \in Accounts \cup {None} : Steps(r, p, m, x)
  BY <1>1, <1>2, <1>5, StepsAlone, PlainStep
<1>6. CASE Steps(r, "get", "current", Acct)
  BY <1>0, <1>1, <1>2, <1>6, StepsAlone, PlainStep
<1>7. CASE Ensure(r)
  BY <1>3, <1>5, <1>7 DEF Ensure
<1>8. CASE Recheck(r)
  BY <1>0, <1>3, <1>4, <1>5, <1>8 DEF Recheck
<1>9. CASE Load(r)
  BY <1>0, <1>3, <1>5, <1>9 DEF Load
<1>10. CASE Authenticate(r)
  BY <1>0, <1>5, <1>10 DEF Authenticate, Modes
<1>11. CASE RefreshNow(r)
  BY <1>0, <1>3, <1>5, <1>11 DEF RefreshNow, Modes
<1>12. CASE Send(r)
  BY <1>6, <1>12 DEF Send
<1>13. QED
  BY <1>7, <1>8, <1>9, <1>10, <1>11, <1>12

\* The steps with the mutex.
LEMMA HeldStepClean ==
    ASSUME IInv, CInv, NEW r \in Requests,
           \/ RefreshOk(r) \/ RefreshFails(r) \/ Save(r)
           \/ (\E x \in Accounts : Approve(r, x)) \/ Decline(r)
           \/ SaveEarly(r) \/ ExchangeOk(r) \/ ExchangeFails(r)
    PROVE  CInv'
<1> USE DEF sessionVars, cacheVars, histVars
<1>1. CASE RefreshOk(r) \/ ExchangeOk(r)
  <2>1. /\ UNCHANGED <<cache, disk>> /\ pc[r] \in {"refresh", "restore", "exchange"}
        /\ tokens' = Fresh(using[r])
        /\ clean' = (clean /\ ~Fetching /\ Acct \in {None, using[r]})
    BY <1>1 DEF RefreshOk, ExchangeOk
  <2>2. Alone(r) /\ using'[r] = using[r] /\ pc'[r] = "save"
    BY <1>1, StepsAlone, GoesAlone DEF RefreshOk, ExchangeOk
  <2>3. using[r] \in Accounts
    BY <1>1 DEF RefreshOk, ExchangeOk, CInv, Kinds
  <2>4. tokens' \in Tokens /\ tokens'.acct = using[r]
    BY <2>1, <2>3 DEF Tokens, Fresh
  <2>5. \A q \in Requests \ {r} : pc[q] # "save"
    BY <2>1 DEF IInv, MutexHeld
  <2>6. clean' /\ ~Resetting => {cache, disk} \subseteq {None, using[r]}
    BY <2>1 DEF CInv, CachesOwn
  <2>7. QED
    BY <2>1, <2>2, <2>3, <2>4, <2>5, <2>6, TokensChange
<1>2. CASE RefreshFails(r) \/ Decline(r) \/ ExchangeFails(r)
  <2>1. /\ UNCHANGED <<tokens, cache, disk, clean>>
        /\ pc[r] \in {"refresh", "restore", "device", "exchange"}
        /\ Refused(r) \/ Steps(r, "device", mode[r], None)
    BY <1>2 DEF RefreshFails, Decline, ExchangeFails
  <2>2. CASE Refused(r)
    BY <2>1, <2>2, RefusedReturns, ReturnKeepsClean
  <2>3. CASE Steps(r, "device", mode[r], None)
    BY <2>1, <2>3, StepsAlone, PlainStep
  <2>4. QED
    BY <2>1, <2>2, <2>3
<1>3. CASE Save(r)
  <2>1. UNCHANGED <<tokens, cache, disk, clean>> /\ pc[r] = "save" /\ Granted(r, using[r])
    BY <1>3 DEF Save
  <2>2. using[r] = Acct
    BY <2>1 DEF CInv, SavesOwn
  <2>3. QED
    BY <2>1, <2>2, GrantedReturns, ReturnKeepsClean
<1>4. ASSUME NEW x \in Accounts, Approve(r, x)
      PROVE  CInv'
  BY <1>4, StepsAlone, PlainStep DEF Approve
<1>5. CASE SaveEarly(r)
  <2>1. /\ UNCHANGED <<tokens, cache, disk, clean, target>> /\ pc[r] = "early"
        /\ Alone(r) /\ using'[r] = using[r] /\ pc'[r] = "exchange"
    BY <1>5, GoesAlone DEF SaveEarly
  <2>2. using[r] \in Accounts
    BY <2>1 DEF CInv, Kinds
  <2>3. QED
    BY <2>1, <2>2, PlainStep
<1>6. QED
  BY <1>1, <1>2, <1>3, <1>4, <1>5

\* The GET and its answer, and signOut.
LEMMA GetStepClean ==
    ASSUME IInv, CInv, NEW r \in Requests,
           GetUnauthorized(r) \/ GetEnds(r) \/ GetOk(r) \/ SaveCacheToDisk(r) \/ SignedOut(r)
    PROVE  CInv'
<1> USE DEF sessionVars, cacheVars, histVars
<1>1. CASE GetUnauthorized(r)
  <2>1. /\ UNCHANGED <<tokens, cache, disk, clean, target>> /\ pc[r] = "get"
        /\ Alone(r) /\ using'[r] = None /\ pc'[r] = "forced"
    BY <1>1 DEF GetUnauthorized, Goes, As, Uses, IInv, FnType, CInv, Kinds, Alone, Only
  <2>2. QED
    BY <2>1, PlainStep
<1>2. CASE GetEnds(r) \/ SignedOut(r)
  <2>1. /\ UNCHANGED <<tokens, cache, disk, clean>> /\ pc[r] \in {"get", "signOut"}
        /\ Reply(r)
    BY <1>2 DEF GetEnds, SignedOut
  <2>2. QED
    BY <2>1, ReplyAlone, PlainStep
<1>3. CASE GetOk(r)
  <2> USE DEF Alone, Only
  <2>1. /\ UNCHANGED <<tokens, disk, target>> /\ pc[r] = "get" /\ cache' = using[r]
        /\ clean' = (clean /\ ~Changing)
    BY <1>3 DEF GetOk
  <2>2. Alone(r) /\ using'[r] = using[r] /\ pc'[r] = "disk"
    BY <1>3, GoesAlone DEF GetOk
  <2>3. Kinds' /\ Acct' = Acct
    BY <2>1, <2>2 DEF CInv, Kinds, Acct
  <2>4. SavesOwn'
    BY <2>2, <2>3 DEF CInv, SavesOwn
  <2>5. ASSUME clean'
        PROVE  FetchesOwn' /\ ~Resetting' /\ CachesOwn'
    <3>1. clean /\ \A q \in Requests : pc[q] \notin {"reset", "resetApi", "set"}
      BY <2>1, <2>5 DEF Changing
    <3>2. ~Resetting /\ ~Resetting' /\ \A q \in Requests : pc'[q] # "set"
      BY <2>2, <3>1 DEF Resetting
    <3>3. FetchesOwn'
      BY <2>1, <2>2, <2>3, <3>1 DEF CInv, FetchesOwn
    <3>4. CachesOwn'
      BY <2>1, <2>3, <3>1, <3>2 DEF CInv, FetchesOwn, CachesOwn
    <3>5. QED
      BY <3>2, <3>3, <3>4
  <2>6. QED
    BY <2>3, <2>4, <2>5 DEF CInv
<1>4. CASE SaveCacheToDisk(r)
  <2> USE DEF Alone, Only
  <2>1. UNCHANGED <<tokens, cache, clean>> /\ pc[r] = "disk" /\ disk' = cache
    BY <1>4 DEF SaveCacheToDisk
  <2>2. Alone(r) /\ using'[r] = None /\ pc'[r] = "idle"
    BY <1>4, ReplyAlone DEF SaveCacheToDisk
  <2>3. Kinds' /\ Acct' = Acct
    BY <2>1, <2>2 DEF CInv, Kinds, Acct
  <2>4. SavesOwn'
    BY <2>2, <2>3 DEF CInv, SavesOwn
  <2>5. ASSUME clean'
        PROVE  FetchesOwn' /\ ~Resetting' /\ CachesOwn'
    <3>1. clean /\ ~Resetting
      BY <2>1, <2>5 DEF CInv, DiskGone
    <3>2. ~Resetting'
      BY <2>2, <3>1 DEF Resetting
    <3>3. FetchesOwn'
      BY <2>2, <2>3, <3>1 DEF CInv, FetchesOwn
    <3>4. CachesOwn'
      BY <2>1, <2>2, <2>3, <3>1 DEF CInv, CachesOwn
    <3>5. QED
      BY <3>2, <3>3, <3>4
  <2>6. QED
    BY <2>3, <2>4, <2>5 DEF CInv
<1>5. QED
  BY <1>1, <1>2, <1>3, <1>4

\* A request begins.
LEMMA BeginClean ==
    ASSUME IInv, CInv, NEW r \in Requests, NEW p \in {"auth", "hint", "ensure", "signOut"},
           NEW m, NEW x, Begin(r, p, m, x), p = "hint" => x \in Accounts
    PROVE  CInv'
<1>1. /\ UNCHANGED <<tokens, cache, disk, clean, using>> /\ pc[r] = "idle"
      /\ Alone(r) /\ pc'[r] = p /\ target'[r] = x
  BY DEF Begin, Goes, As, sessionVars, cacheVars, histVars, IInv, FnType, CInv, Kinds, Alone, Only
<1>2. using'[r] \in Accounts \cup {None}
  BY <1>1 DEF CInv, Kinds
<1>3. QED
  BY <1>1, <1>2, PlainStep

\* The invariant is inductive.
LEMMA CInvHolds == Spec => []CInv
<1>1. Init => CInv
  BY DEF Init, Idle, Blank, CInv, Kinds, SavesOwn
<1>2. IInv /\ CInv /\ [Next]_vars => CInv'
  <2> SUFFICES ASSUME IInv, CInv, [Next]_vars
               PROVE  CInv'
    OBVIOUS
  <2>1. CASE Expire
    <3>1. /\ UNCHANGED <<cache, disk, clean, pc, using, target>>
          /\ tokens # None /\ tokens' = [tokens EXCEPT !.fresh = FALSE]
      BY <2>1 DEF Expire, cacheVars, reqVars, histVars
    <3>2. tokens' \in Tokens /\ tokens'.acct = tokens.acct
      BY <3>1 DEF CInv, Kinds, Tokens
    <3>3. Acct' = Acct
      BY <3>1, <3>2, NoneAssumption DEF Acct
    <3>4. Kinds'
      BY <3>1, <3>2 DEF CInv, Kinds
    <3>5. QED
      BY <3>1, <3>3, <3>4 DEF CInv, SavesOwn, FetchesOwn, Resetting, DiskGone, CachesOwn
  <2>2. CASE Crash
    BY <2>2 DEF Crash, Idle, Blank, CInv, Kinds, SavesOwn
  <2>3. ASSUME NEW r \in Requests,
               \/ \E x \in Accounts \cup {None} : SignIn(r, x)
               \/ \E x \in Accounts : UseMojangSession(r, x)
               \/ List(r) \/ SignOut(r)
        PROVE  CInv'
    BY <2>3, BeginClean DEF SignIn, UseMojangSession, List, SignOut
  <2>4. ASSUME NEW r \in Requests, LockStep(r) \/ OtherStep(r)
        PROVE  CInv'
    BY <2>4, SwitchStepClean, TokenStepClean, HeldStepClean, GetStepClean
       DEF LockStep, OtherStep
  <2>5. CASE UNCHANGED vars
    BY <2>5 DEF vars, sessionVars, cacheVars, reqVars, histVars, CInv, Kinds, SavesOwn,
                FetchesOwn, Resetting, DiskGone, CachesOwn, Acct
  <2>6. QED
    BY <2>1, <2>2, <2>3, <2>4, <2>5 DEF Next
<1>3. QED
  BY <1>1, <1>2, IInvHolds, PTL DEF Spec

\* Session.ResetCache, Client.ResetCache and the removal of the two files, however
\* many requests, refreshes and sign-ins interleave with them: after an account change
\* that was noticed and met no GET, no list of the earlier account is cached.
THEOREM SwitchesAreClean == Spec => []SwitchIsClean
<1>1. CInv => SwitchIsClean
  BY DEF CInv, CachesOwn, Resetting, Changing, SwitchIsClean
<1>2. QED
  BY <1>1, CInvHolds, PTL

(***************************************************************************)
(* An approval of the user is kept.                                        *)
(***************************************************************************)

\* Where another account's tokens were saved over the approved ones, they are
\* there still.
ReplacedWhole == replaced => file \in Accounts

\* The steps that write the file or the history write an account or forget the
\* approval.
LEMMA StepReplaces ==
    ASSUME CInv, ReplacedWhole, NEW r \in Requests, LockStep(r) \/ OtherStep(r)
    PROVE  ReplacedWhole'
<1> USE DEF sessionVars, histVars, approvalVars
<1>1. CASE Wipe(r) \/ Reset(r) \/ SignedOut(r)
  BY <1>1 DEF Wipe, Reset, SignedOut, Forget, ReplacedWhole
<1>2. CASE Save(r) \/ SaveEarly(r)
  BY <1>2 DEF Save, SaveEarly, CInv, Kinds, ReplacedWhole
<1>3. ASSUME NEW x \in Accounts, Approve(r, x)
      PROVE  ReplacedWhole'
  BY <1>3 DEF Approve, Approved, ReplacedWhole
<1>4. CASE UNCHANGED <<file, replaced>>
  BY <1>4 DEF ReplacedWhole
<1>5. CASE \/ Hint(r) \/ SetMojangSession(r) \/ Ensure(r) \/ Recheck(r) \/ Load(r)
           \/ Authenticate(r) \/ RefreshNow(r) \/ Send(r)
  BY <1>4, <1>5
     DEF Hint, SetMojangSession, Ensure, Recheck, Load, Authenticate, RefreshNow, Send
<1>6. CASE \/ ResetApi(r) \/ RefreshOk(r) \/ RefreshFails(r) \/ Decline(r)
           \/ ExchangeOk(r) \/ ExchangeFails(r)
           \/ GetUnauthorized(r) \/ GetEnds(r) \/ GetOk(r) \/ SaveCacheToDisk(r)
  BY <1>4, <1>6
     DEF ResetApi, RefreshOk, RefreshFails, Decline, ExchangeOk, ExchangeFails,
         GetUnauthorized, GetEnds, GetOk, SaveCacheToDisk
<1>7. QED
  BY <1>1, <1>2, <1>3, <1>5, <1>6 DEF LockStep, OtherStep

\* deviceCode and Store.Save: what the user approved is in the credentials file
\* whenever nobody is inside the session, whichever step after the approval failed
\* and wherever but in Save the process died; only the account that stayed signed
\* in may have been saved over it.
THEOREM ApprovalIsKept == Spec => []ApprovalNotLost
<1>1. Init => ReplacedWhole
  BY DEF Init, ReplacedWhole
<1>2. CInv /\ ReplacedWhole /\ [Next]_vars => ReplacedWhole'
  <2> SUFFICES ASSUME CInv, ReplacedWhole, [Next]_vars
               PROVE  ReplacedWhole'
    OBVIOUS
  <2>1. CASE Expire \/ UNCHANGED vars
    BY <2>1 DEF Expire, vars, sessionVars, histVars, approvalVars, ReplacedWhole
  <2>2. CASE Crash
    BY <2>2 DEF Crash, Forget, approvalVars, ReplacedWhole
  <2>3. ASSUME NEW r \in Requests,
               \/ \E x \in Accounts \cup {None} : SignIn(r, x)
               \/ \E x \in Accounts : UseMojangSession(r, x)
               \/ List(r) \/ SignOut(r)
        PROVE  ReplacedWhole'
    BY <2>3 DEF SignIn, UseMojangSession, List, SignOut, Begin, sessionVars, histVars,
                approvalVars, ReplacedWhole
  <2>4. QED
    BY <2>1, <2>2, <2>3, StepReplaces DEF Next
<1>3. IInv /\ ReplacedWhole => ApprovalNotLost
  BY NoneAssumption DEF IInv, MutexHeld, FileFollows, ReplacedWhole, ApprovalNotLost
<1>4. QED
  BY <1>1, <1>2, <1>3, IInvHolds, CInvHolds, PTL DEF Spec

=================================================================================
