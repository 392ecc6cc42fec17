------------------------------- MODULE Bindings -------------------------------
(***************************************************************************)
(* Which line an account goes out by: store.go, proxy_transactions.go,     *)
(* proxy_strict_transactions.go, proxy_versions.go, proxy_dispatch.go and  *)
(* risk_proxy_history.go.  Every writer runs whole under Store.mu.  An     *)
(* account names a line and carries a copy of its address, or carries an   *)
(* address alone, or neither (direct).  Requests copy an account when they *)
(* select it, freeze generations when they build their client and are      *)
(* admitted when they send.                                                *)
(* Left to other modules: retirement (StrictProxy), initialization         *)
(* (Initialization), how an address becomes suspect or quarantined         *)
(* (`standing' moves freely here), failed commits.  IDs are random, so a   *)
(* deleted line or account never returns.                                  *)
(***************************************************************************)
EXTENDS Integers, FiniteSets, Sequences

CONSTANTS
  Lines, Addrs, Accounts, Creds, Requests,
  None,
  Order,        \* the accounts, in the order of the store
  MaxOps,       \* bound on the calls that write
  MaxRequests   \* bound on the selections

VARIABLES
  profiles,     \* the named lines
  generation,   \* strictProxy.Generations
  account,      \* the accounts with their strictProxy entries
  failed,       \* riskProxyHistory
  standing,     \* what the observations say of an address
  new,          \* accounts added whose AutoAssignProxies is still to come
  request,      \* the requests in flight
  touched,      \* ghost: what the frozen route names has changed since
  overruled,    \* ghost: accounts an automatic path took off an explicit direct
  ops, selections

vars == <<profiles, generation, account, failed, standing, new, request, touched,
          overruled, ops, selections>>

Gone     == [addr |-> None, on |-> FALSE, keep |-> FALSE]
Profile  == [addr : Addrs, on : BOOLEAN, keep : BOOLEAN]
Intents  == {"", "auto_proxy", "auto_pending_proxy", "manual_proxy", "explicit_direct"}
Fresh    == [line |-> None, addr |-> None, cred |-> None, intent |-> "", waits |-> None,
             avoid |-> {}, credGen |-> 0, routeGen |-> 0]
Idle     == [phase |-> "idle", of |-> None, line |-> None, addr |-> None, cred |-> None,
             forced |-> FALSE, gen |-> 0, credGen |-> 0, routeGen |-> 0, pending |-> FALSE]

Live(a)  == account[a].cred # None
Listed(ps) == {l \in Lines : ps[l] # Gone}

TypeOK ==
  /\ profiles \in [Lines -> Profile \cup {Gone}] /\ generation \in [Lines -> Nat]
  /\ \A a \in Accounts :
       /\ account[a].line \in Lines \cup {None} /\ account[a].addr \in Addrs \cup {None}
       /\ account[a].cred \in Creds \cup {None} /\ account[a].intent \in Intents
       /\ account[a].waits \in Creds \cup {None} /\ account[a].avoid \subseteq Addrs
       /\ account[a].line # None => account[a].addr # None
  /\ standing \in [Addrs -> {"good", "blocked", "suspect"}]
  /\ new \subseteq Accounts /\ overruled \subseteq Accounts

(* Lines as imported; accounts still to come, just added, or bound. *)
Imported == {[addr |-> u, on |-> TRUE, keep |-> FALSE] : u \in Addrs}
Stored(ps) ==
  LET added == [Fresh EXCEPT !.cred = CHOOSE c \in Creds : TRUE, !.credGen = 1]
  IN  {Fresh} \cup {added : l \in Listed(ps)} \cup
      {[added EXCEPT !.line = l, !.addr = ps[l].addr, !.intent = "auto_proxy",
                     !.routeGen = 1] : l \in Listed(ps)}

Init ==
  /\ profiles \in [Lines -> {Gone} \cup Imported]
  /\ generation = [l \in Lines |-> IF profiles[l] = Gone THEN 0 ELSE 1]
  /\ account \in [Accounts -> Stored(profiles)]
  /\ failed = [a \in Accounts |-> {}]
  /\ standing = [u \in Addrs |-> "good"]
  /\ new = {a \in Accounts : Live(a) /\ account[a].line = None} /\ overruled = {}
  /\ request = [r \in Requests |-> Idle] /\ touched = [r \in Requests |-> FALSE]
  /\ ops = 0 /\ selections = 0

-----------------------------------------------------------------------------
(* Choosing a line *)

(* chooseProxyLocked: suspect addresses never, blocked ones only when there
   is nothing else; then the fewest bindings. Ties are left open. *)
Chosen(l, ps, from, load, judged) ==
  LET eligible == {m \in from : ps[m].on /\ judged[ps[m].addr] # "suspect"}
      allowed  == {m \in eligible : judged[ps[m].addr] # "blocked"}
      pool     == IF allowed # {} THEN allowed ELSE eligible
  IN  \/ pool = {} /\ l = None
      \/ l \in pool /\ \A m \in pool : load[l] <= load[m]

Load(accounts) == [l \in Lines |-> Cardinality({a \in Accounts : accounts[a].line = l})]

Intended(acc, intent) ==
  [acc EXCEPT !.intent = intent, !.avoid = {},
              !.waits = IF intent = "auto_pending_proxy" THEN acc.cred ELSE None]
Routed(acc, line, addr) == [acc EXCEPT !.line = line, !.addr = addr]

(* A batch goes through the accounts in order and counts the load on as it
   goes: p gives every account of the batch its line, from[a] are the lines
   that may serve a. *)
Before(a) == {b \in Accounts : \E j \in DOMAIN Order : \E i \in 1 .. j - 1 :
                                  Order[j] = a /\ Order[i] = b}
Counted(load, p, a) ==
  [l \in Lines |-> load[l] + Cardinality({b \in Before(a) \cap DOMAIN p : p[b] = l})]
Placements(batch, ps, from, load, judged) ==
  {p \in [batch -> Lines \cup {None}] :
     \A a \in batch : Chosen(p[a], ps, from[a], Counted(load, p, a), judged)}

(* reassignAccountsLocked *)
Reassigned(p, ps, avoid) ==
  [a \in Accounts |->
     IF a \notin DOMAIN p THEN account[a]
     ELSE IF p[a] = None
     THEN [Intended(Routed(account[a], None, None), "auto_pending_proxy") EXCEPT !.avoid = avoid]
     ELSE Intended(Routed(account[a], p[a], ps[p[a]].addr), "auto_proxy")]
Reassignments(batch, ps, from, judged, avoid) ==
  {Reassigned(p, ps, avoid) :
     p \in Placements(batch, ps, [a \in batch |-> from], Load(account), judged)}

(* rebindStrictPendingLocked *)
StillWaits(acc) == acc.waits = acc.cred /\ acc.intent = "auto_pending_proxy" /\ acc.addr = None
Waiters(accounts) == {a \in Accounts : accounts[a].waits # None /\ StillWaits(accounts[a])}
Rebound(p, ps, accounts) ==
  [a \in Accounts |->
     IF accounts[a].waits = None THEN accounts[a]
     ELSE IF a \notin DOMAIN p THEN [accounts[a] EXCEPT !.waits = None, !.avoid = {}]
     ELSE IF p[a] = None THEN accounts[a]
     ELSE Intended(Routed(accounts[a], p[a], ps[p[a]].addr), "auto_proxy")]
Reboundings(ps, accounts) ==
  LET batch == Waiters(accounts)
      from == [a \in batch |-> {m \in Listed(ps) : ps[m].addr \notin accounts[a].avoid}]
  IN  {Rebound(p, ps, accounts) : p \in Placements(batch, ps, from, Load(accounts), standing)}

-----------------------------------------------------------------------------
(* Commits *)

(* trackStrictAccountVersions *)
Tracked(old, acc) ==
  [acc EXCEPT
    !.credGen = IF acc.cred # old.cred THEN old.credGen + 1 ELSE old.credGen,
    !.waits = IF acc.cred # old.cred /\ acc.waits # None THEN acc.cred ELSE @,
    !.routeGen = IF <<acc.line, acc.addr>> # <<old.line, old.addr>>
                 THEN old.routeGen + 1 ELSE old.routeGen]

OpensALine(ps) ==
  \E l \in Listed(ps) : ps[l].on /\ (~profiles[l].on \/ profiles[l].addr # ps[l].addr)

(* What a request was given: the credential since it selected, the route and
   the line since its client was built. *)
Given(q, accounts, ps) ==
  IF q.phase = "idle" THEN <<>>
  ELSE IF q.forced \/ q.phase = "selected" THEN <<accounts[q.of].cred>>
  ELSE <<accounts[q.of].cred, accounts[q.of].line, accounts[q.of].addr,
         IF q.line = None THEN Gone ELSE [ps[q.line] EXCEPT !.keep = FALSE]>>

Witnessed ==
  touched' = [r \in Requests |-> touched[r] \/
    Given(request[r], account, profiles) # Given(request[r], account', profiles')]

(* commitProxyBundleStrictLocked, as it changes lines and accounts *)
Commit(ps, accounts) ==
  /\ ops < MaxOps /\ ops' = ops + 1
  /\ profiles' = ps
  /\ generation' = [l \in Lines |-> IF ps[l] \notin {Gone, profiles[l]}
                                    THEN generation[l] + 1 ELSE generation[l]]
  /\ \E bound \in IF OpensALine(ps) THEN Reboundings(ps, accounts) ELSE {accounts} :
       account' = [a \in Accounts |-> Tracked(account[a], bound[a])]
  /\ Witnessed

Writes == UNCHANGED <<request, selections>>

-----------------------------------------------------------------------------
(* The named lines *)

AddProxyProfile(l, p) ==
  /\ generation[l] = 0
  /\ Commit([profiles EXCEPT ![l] = p], account)
  /\ Writes /\ UNCHANGED <<failed, standing, new, overruled>>

NotFollowed(l, u) == account
Followed(l, u) ==
  [a \in Accounts |-> IF account[a].line = l THEN [account[a] EXCEPT !.addr = u]
                      ELSE account[a]]
UpdateProxyProfile(l, p) ==
  /\ profiles[l] # Gone
  /\ Commit([profiles EXCEPT ![l] = p], Followed(l, p.addr))
  /\ Writes /\ UNCHANGED <<failed, standing, new, overruled>>

(* removeProxiesAvoidingLocked; mode auto_retire *)
Protected(l) == \E m \in Listed(profiles) : profiles[m].keep /\ profiles[m].addr = profiles[l].addr
Removed(ids, manual) == {l \in ids \cap Listed(profiles) : manual \/ ~Protected(l)}
BoundTo(gone) == {a \in Accounts : account[a].line \in gone}
BoundToAsked(ids, gone) == {a \in Accounts : account[a].line \in ids}
Leaving(ids, gone) == BoundTo(gone)

RemoveProxies(ids, avoid, manual) ==
  LET gone == Removed(ids, manual)
      ps == [l \in Lines |-> IF l \in gone THEN Gone ELSE profiles[l]]
      from == {l \in Listed(ps) : ps[l].addr \notin avoid}
  IN  /\ gone # {}
      /\ \E accounts \in Reassignments(Leaving(ids, gone), ps, from, standing, avoid) :
           Commit(ps, accounts)
      /\ Writes /\ UNCHANGED <<failed, standing, new, overruled>>

DeleteProxyProfile(l) == RemoveProxies({l}, {}, TRUE)
PurgeProxyProfiles(ids) == RemoveProxies(ids, {}, FALSE)

(* A soft failure quarantines an address or prolongs its quarantine, whatever
   else is said of it and whether or not its lines are still on, and in the
   same section reassignOffQuarantineLocked moves the accounts of its named
   lines. *)
Quarantine(u) ==
  LET judged == [standing EXCEPT ![u] = IF @ = "suspect" THEN @ ELSE "blocked"]
      match == {a \in Accounts : account[a].line # None /\ account[a].addr = u}
  IN  /\ standing' = judged
      /\ \E accounts \in Reassignments(match, profiles, Listed(profiles), judged, {}) :
           Commit(profiles, accounts)
      /\ Writes /\ UNCHANGED <<failed, new, overruled>>

(* Evidence arrives and ages elsewhere; the gate before a new line's first check
   blocks it too. *)
Judge(u, j) ==
  /\ standing[u] # j
  /\ standing' = [standing EXCEPT ![u] = j]
  /\ ops < MaxOps /\ ops' = ops + 1
  /\ UNCHANGED <<profiles, generation, account, failed, new, touched, overruled>> /\ Writes

-----------------------------------------------------------------------------
(* The accounts; the handler that adds some calls AutoAssignProxies afterwards *)

(* One transaction each, whether for one account or for a batch: all or
   nothing.  What duplicates an account at hand is not among those `given'. *)
Enter(given) ==
  /\ \A a \in DOMAIN given : account[a].credGen = 0
  /\ Commit(profiles, [a \in Accounts |-> IF a \in DOMAIN given
                                         THEN [Fresh EXCEPT !.cred = given[a]] ELSE account[a]])
  /\ new' = new \cup DOMAIN given
  /\ Writes /\ UNCHANGED <<failed, standing, overruled>>
AddAccount(a, c) == Enter([b \in {a} |-> c])
BatchAddAccounts(given) == DOMAIN given # {} /\ Enter(given)

(* clearStrictAccountState: the versions outlive the account *)
Erased(acc) == [Fresh EXCEPT !.credGen = acc.credGen + 1, !.routeGen = acc.routeGen + 1]
Erase(gone) ==
  /\ account' = [a \in Accounts |-> IF a \in gone THEN Erased(account[a]) ELSE account[a]]
  /\ failed' = [a \in Accounts |-> IF a \in gone THEN {} ELSE failed[a]]
  /\ new' = new \ gone /\ overruled' = overruled \ gone
  /\ Writes /\ UNCHANGED <<profiles, generation, standing>>
  /\ Witnessed /\ ops < MaxOps /\ ops' = ops + 1
DeleteAccount(a) == Live(a) /\ Erase({a})
BatchRemoveAccounts(ids, missingOK) ==
  LET targets == {a \in ids : Live(a)}
  IN  targets # {} /\ (missingOK \/ targets = ids) /\ Erase(targets)

AutoAssignProxies ==
  LET ids == {a \in new : account[a].addr = None /\ account[a].intent # "explicit_direct"}
  IN  /\ new # {} /\ new' = {}
      /\ \E accounts \in Reassignments(ids, profiles, Listed(profiles), standing, {}) :
           Commit(profiles, accounts)
      /\ Writes /\ UNCHANGED <<failed, standing, overruled>>

AssignAutomaticLoginProxy(a, l) ==
  /\ a \in new /\ account[a].addr = None /\ account[a].intent # "explicit_direct"
  /\ new' = new \ {a}
  /\ IF l = None
     THEN Commit(profiles, [account EXCEPT ![a] = Intended(@, "auto_pending_proxy")])
     ELSE /\ Chosen(l, profiles, Listed(profiles) \cap {l}, [m \in Lines |-> 0], standing)
          /\ Commit(profiles, [account EXCEPT
                ![a] = Intended(Routed(@, l, profiles[l].addr), "auto_proxy")])
  /\ Writes /\ UNCHANGED <<failed, standing, overruled>>

Manual(acc) == Intended(acc, IF acc.addr = None THEN "explicit_direct" ELSE "manual_proxy")

(* The administrator decides the route: AssignProxyProfile, SetProxyURL and
   EditAccount, which keeps the line when the address is the same. *)
Decided(a, acc) ==
  /\ Live(a)
  /\ Commit(profiles, [account EXCEPT ![a] = Manual(acc)])
  /\ overruled' = overruled \ {a}
  /\ Writes /\ UNCHANGED <<failed, standing, new>>

AssignProxyProfile(a, l) ==
  \/ /\ l = None /\ Decided(a, Routed(account[a], None, None))
  \/ /\ l \in Listed(profiles) /\ Decided(a, Routed(account[a], l, profiles[l].addr))
SetProxyURL(a, u) == Decided(a, Routed(account[a], None, u))
EditProxyURL(a, u) ==
  Decided(a, Routed(account[a], IF u = account[a].addr THEN account[a].line ELSE None, u))

(* EditAccount with a new secret drops the waiting entry and leaves the
   intent; SaveOAuthAccount renews the token and the entry. *)
EditSecret(a, c) ==
  /\ Live(a)
  /\ Commit(profiles, [account EXCEPT ![a].cred = c, ![a].waits = None, ![a].avoid = {}])
  /\ Writes /\ UNCHANGED <<failed, standing, new, overruled>>
SaveOAuthAccount(a, c) ==
  /\ Live(a) /\ c # account[a].cred
  /\ Commit(profiles, [account EXCEPT ![a].cred = c])
  /\ Writes /\ UNCHANGED <<failed, standing, new, overruled>>

-----------------------------------------------------------------------------
(* The requests *)

(* The engine selects: a clone of the account. *)
Select(r, a) ==
  /\ request[r].phase = "idle" /\ Live(a)
  /\ selections < MaxRequests /\ selections' = selections + 1
  /\ request' = [request EXCEPT ![r] = [Idle EXCEPT !.phase = "selected", !.of = a,
        !.line = account[a].line, !.addr = account[a].addr,
        !.cred = account[a].cred, !.credGen = account[a].credGen]]
  /\ touched' = [touched EXCEPT ![r] = FALSE]
  /\ UNCHANGED <<profiles, generation, account, failed, standing, new, overruled, ops>>

(* clientFor: ProxyEgress puts the clone's route beside today's generations.
   forced is a ticket sent around the line. *)
Freeze(r, forced) ==
  /\ request[r].phase = "selected"
  /\ request' = [request EXCEPT ![r].phase = "frozen", ![r].forced = forced,
        ![r].routeGen = account[request[r].of].routeGen,
        ![r].gen = IF request[r].line = None THEN 0 ELSE generation[request[r].line],
        ![r].pending = account[request[r].of].intent = "auto_pending_proxy"]
  /\ UNCHANGED <<profiles, generation, account, failed, standing, new, touched, overruled,
                 ops, selections>>

SameCredential(q, acc) == acc.cred = q.cred /\ acc.credGen = q.credGen
SameBytes(q, acc) == acc.line = q.line /\ acc.addr = q.addr
SameRoute(q, acc) == SameBytes(q, acc) /\ acc.routeGen = q.routeGen
LineCurrent(q) == q.line # None => /\ profiles[q.line].on /\ profiles[q.line].addr = q.addr
                                   /\ generation[q.line] = q.gen

(* acquireProxyDispatchLocked *)
Admitted(q) ==
  LET acc == account[q.of] IN
  /\ SameCredential(q, acc)
  /\ ~q.forced => SameRoute(q, acc) /\ LineCurrent(q)

Dispatch(r) ==
  /\ request[r].phase = "frozen"
  /\ request' = [request EXCEPT ![r].phase = IF Admitted(request[r]) THEN "sent" ELSE "refused"]
  /\ UNCHANGED <<profiles, generation, account, failed, standing, new, touched, overruled,
                 ops, selections>>

Finish(r) ==
  /\ request[r].phase \in {"sent", "refused"}
  /\ request' = [request EXCEPT ![r] = Idle]
  /\ UNCHANGED <<profiles, generation, account, failed, standing, new, touched, overruled,
                 ops, selections>>

(* A risk verdict on a sent request moves the account: rotateRiskProxy and
   RotateAccountProxyAt. *)
Failures(r) ==
  LET q == request[r] IN
  failed[q.of] \cup (IF q.addr = None THEN {} ELSE {[line |-> q.line, addr |-> q.addr]})
Tainted(r, l) == \E f \in Failures(r) : f.line = l \/ f.addr = profiles[l].addr
RotateAccountProxyAt(r) ==
  LET q   == request[r]
      acc == account[q.of]
      from == {l \in Listed(profiles) : ~Tainted(r, l)}
      avoid == {profiles[m].addr : m \in Listed(profiles) \ from}
  IN  /\ q.phase = "sent" /\ ~q.forced /\ (q.addr # None \/ ~q.pending)
      /\ SameCredential(q, acc) /\ SameBytes(q, acc)
      /\ failed' = [failed EXCEPT ![q.of] = Failures(r)]
      /\ \E l \in Lines \cup {None} :
           /\ Chosen(l, profiles, from, Load(account), standing)
           /\ CASE l # None ->
                     Commit(profiles, [account EXCEPT ![q.of] = Routed(@, l, profiles[l].addr)])
                [] l = None /\ q.addr # None /\ standing[q.addr] = "suspect" ->
                     Commit(profiles, [account EXCEPT ![q.of] =
                       [Intended(Routed(@, None, None), "auto_pending_proxy") EXCEPT !.avoid = avoid]])
                [] OTHER -> Commit(profiles, account)
           /\ overruled' = IF acc.intent = "explicit_direct" /\ l # None
                           THEN overruled \cup {q.of} ELSE overruled
      /\ Writes /\ UNCHANGED <<standing, new>>

(* PurgeFailedAccountProxy: a line that keeps cutting its streams *)
PurgeFailedAccountProxy(r) ==
  LET q == request[r] IN
  /\ q.phase = "sent" /\ ~q.forced /\ q.line # None /\ Admitted(q)
  /\ RemoveProxies({q.line}, {q.addr}, FALSE)

HistoryAges(a) ==
  /\ failed[a] # {} /\ failed' = [failed EXCEPT ![a] = {}]
  /\ UNCHANGED <<profiles, generation, account, standing, new, request, touched, overruled,
                 ops, selections>>

Next ==
  \/ \E l \in Lines, p \in Profile : AddProxyProfile(l, p) \/ UpdateProxyProfile(l, p)
  \/ \E l \in Lines : DeleteProxyProfile(l)
  \/ \E ids \in SUBSET Lines : PurgeProxyProfiles(ids)
  \/ \E u \in Addrs : Quarantine(u) \/ \E j \in {"good", "blocked", "suspect"} : Judge(u, j)
  \/ \E a \in Accounts, c \in Creds : AddAccount(a, c) \/ EditSecret(a, c) \/ SaveOAuthAccount(a, c)
  \/ \E a \in Accounts : DeleteAccount(a) \/ HistoryAges(a)
  \/ \E given \in UNION {[batch -> Creds] : batch \in SUBSET Accounts} : BatchAddAccounts(given)
  \/ \E ids \in SUBSET Accounts, missingOK \in BOOLEAN : BatchRemoveAccounts(ids, missingOK)
  \/ AutoAssignProxies
  \/ \E a \in Accounts, l \in Lines \cup {None} : AssignAutomaticLoginProxy(a, l) \/ AssignProxyProfile(a, l)
  \/ \E a \in Accounts, u \in Addrs \cup {None} : SetProxyURL(a, u) \/ EditProxyURL(a, u)
  \/ \E r \in Requests, a \in Accounts : Select(r, a)
  \/ \E r \in Requests : \/ Freeze(r, TRUE) \/ Freeze(r, FALSE) \/ Dispatch(r) \/ Finish(r)
                         \/ RotateAccountProxyAt(r) \/ PurgeFailedAccountProxy(r)

Spec == Init /\ [][Next]_vars

-----------------------------------------------------------------------------
(* An account that names a line goes out by that line's address: no edit,
   removal, reassignment or rotation leaves it with a line that is gone or with
   the address the line had. *)
BoundLine ==
  \A a \in Accounts : account[a].line # None =>
    /\ profiles[account[a].line] # Gone
    /\ account[a].addr = profiles[account[a].line].addr

(* A line that may be given to an account. *)
Usable(l) == profiles[l].on /\ standing[profiles[l].addr] # "suspect"

(* Nobody takes an account off its line but the line's removal, a quarantine of
   its address, a risk verdict on that very route, or the administrator: the
   accounts of the protected lines of a purge stay.  A quarantine moves an
   account to a usable line, and off every line only when none is usable, its
   own included. *)
StaysOnItsLine ==
  [][\A a \in Accounts : account[a].line # None /\ account'[a].line # account[a].line =>
       \/ profiles'[account[a].line] = Gone
       \/ /\ Quarantine(account[a].addr)
          /\ IF \E l \in Listed(profiles) : Usable(l)
             THEN account'[a].line \in Listed(profiles) /\ Usable(account'[a].line)
             ELSE account'[a].line = None
       \/ [line |-> account[a].line, addr |-> account[a].addr] \in failed'[a]
       \/ account'[a].intent \in {"manual_proxy", "explicit_direct"}
       \/ account'[a].cred = None]_vars

(* "Where nothing else is available the binding is kept, better a slow line than
   none" (proxy_transactions.go:236-237).  It does not hold, see the README: an
   account whose only line is switched off or suspect when it is quarantined is
   left without one. *)
KeptWithoutAlternative ==
  [][\A a \in Accounts : account[a].line # None /\ Quarantine(account[a].addr)
       => account'[a].line # None]_vars

(* What is sent is what the account and the line have been ever since the
   client was built: a route or credential that changed and changed back has
   still changed. *)
DispatchIsCurrent ==
  [][\A r \in Requests : request[r].phase = "frozen" /\ request'[r].phase = "sent" =>
       ~touched[r]]_vars

(* An account the administrator sent out directly stays direct until the
   administrator says otherwise. *)
DirectIsRespected == overruled = {}
=============================================================================
