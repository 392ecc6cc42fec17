--------------------------------- MODULE Login ---------------------------------
(***************************************************************************)
(* adminapi/login.go and login_failover.go: one login session.  The          *)
(* administrator pastes the callback; the handler redeems its code, which   *)
(* the upstream takes once, over one exit after another, stores the         *)
(* credential it got, binds the account and asks for an API key.  A failed  *)
(* attempt leaves the session as it is, and the callback is pasted again.   *)
(* Handlers share the session under a lock they only try; between its steps *)
(* lines and the account are changed by everybody else.                     *)
(* Left to other modules: the route the account gets and what becomes of the *)
(* accounts of a line that is removed (Bindings), accounts under            *)
(* initialization (Initialization; its policy is off here), the first claim *)
(* (Claims).  A session is not stored: a restart ends it.                   *)
(***************************************************************************)
EXTENDS Integers, FiniteSets

CONSTANTS
  Lines, Addrs, Codes, Reqs, None,
  Spared,     \* lines an automatic removal spares
  MaxMoves       \* bound on what everybody else changes

VARIABLES
  session,       \* loginFlows[id], or None
  known, late,   \* it is in loginFlows; it is older than loginFlowTTL
  lines, suspect,\* the store: the named lines; addresses the strict rule blocks
  acct,          \* the store: the account of the user who logs in
  call,          \* the handlers of /complete
  spent,         \* the codes the upstream has taken
  made, greeted, \* ghosts: accounts this session created; finished as new
  crossed,       \* ghost: the secret was replaced before the key was asked for
  moves

vars == <<session, known, late, lines, suspect, acct, call, spent, made, greeted, crossed, moves>>

Absent == [url |-> None, on |-> FALSE, gen |-> 0]
Gone(p) == [p EXCEPT !.url = None, !.on = FALSE]     \* an ID is never used again
Quiet  == [at |-> "idle", code |-> None, gen |-> 0, again |-> FALSE, fresh |-> FALSE, seen |-> 0]
Nobody == [id |-> 0, cred |-> None, gen |-> 0, key |-> None]
Kinds  == {"auto", "line", "raw", "direct", "none"}
Opened(kind, l, u) ==
  [kind |-> kind, chosen |-> u, line |-> l, url |-> u, retry |-> kind \in {"auto", "line"},
   failed |-> {}, digest |-> None, held |-> None, account |-> 0, created |-> 0]

TypeOK ==
  /\ session # None =>
       /\ session.kind \in Kinds /\ session.line \in Lines \cup {None}
       /\ session.url \in Addrs \cup {None} /\ session.failed \subseteq Addrs
       /\ session.held \in Codes \cup {None} /\ session.digest \in Codes \cup {None}
  /\ \A r \in Reqs :
       /\ call[r].at \in {"idle", "found", "exchange", "send", "wait", "save", "bind", "key", "ask"}
       /\ call[r].at # "idle" => session # None
  /\ spent \subseteq Codes /\ suspect \subseteq Addrs
  /\ made \subseteq 1 .. acct.gen /\ acct.id \in 0 .. acct.gen

Init ==
  /\ session = None /\ known = FALSE /\ late = FALSE
  /\ lines \in [Lines -> {Absent} \cup {[url |-> u, on |-> TRUE, gen |-> 1] : u \in Addrs}]
  /\ suspect = {}
  /\ acct \in {Nobody, [Nobody EXCEPT !.id = 1, !.gen = 1]}
  /\ call = [r \in Reqs |-> Quiet]
  /\ spent = {} /\ made = {} /\ greeted = {} /\ crossed = FALSE /\ moves = 0

-----------------------------------------------------------------------------
(* The exits *)

(* chooseProxyLocked; which of the usable lines is left open *)
Picks(ls, avoid) ==
  LET usable == {l \in Lines : ls[l].on /\ ls[l].url \notin suspect \cup avoid}
  IN  IF usable = {} THEN {None} ELSE usable
Over(s, l, ls) == [s EXCEPT !.line = l, !.url = IF l = None THEN None ELSE ls[l].url]

\* Mutant: a line the administrator chose is replaced when it is gone.
RefreshedAlways(s) ==
  IF ~s.retry THEN {s}
  ELSE IF s.line # None /\ lines[s.line].on /\ lines[s.line].url \notin s.failed
  THEN {Over(s, s.line, lines)}
  ELSE {Over(s, l, lines) : l \in Picks(lines, s.failed)}

(* refreshLoginProxy *)
Refreshed(s) ==
  IF ~s.retry \/ (s.kind # "auto" /\ s.line # None) THEN {s}
  ELSE IF s.line # None /\ lines[s.line].on /\ lines[s.line].url \notin s.failed
  THEN {Over(s, s.line, lines)}
  ELSE {Over(s, l, lines) : l \in Picks(lines, s.failed)}

(* loginProxyProfile: the generation of the line at this address; 0 is none *)
Generation(s) ==
  IF s.line # None /\ lines[s.line].url = s.url THEN lines[s.line].gen ELSE 0

(* AcquireProxyProfileDispatch, AcquireRawProxyDispatch *)
Admitted(s, gen) ==
  /\ s.url \notin suspect
  /\ s.line # None => lines[s.line].on /\ gen # 0 /\ lines[s.line].gen = gen

-----------------------------------------------------------------------------
(* The session *)

(* handleLoginStart; resolveLoginProxy turns a bad choice down *)
Start(kind) ==
  /\ session = None
  /\ session' \in
       CASE kind = "auto" -> {Over(Opened(kind, None, None), l, lines) : l \in Picks(lines, {})}
         [] kind = "line" -> {Opened(kind, l, lines[l].url) : l \in Picks(lines, {}) \ {None}}
         [] kind = "raw" -> {Opened(kind, None, u) : u \in Addrs \ suspect}
         [] OTHER -> {Opened(kind, None, None)}
  /\ known' = TRUE
  /\ UNCHANGED <<late, lines, suspect, acct, call, spent, made, greeted, crossed, moves>>

(* Every request cleans up first; what it finds it keeps. *)
Enter(r) ==
  /\ session # None /\ call[r].at = "idle"
  /\ known' = (known /\ ~late)
  /\ call' = IF known' THEN [call EXCEPT ![r].at = "found"] ELSE call
  /\ UNCHANGED <<session, late, lines, suspect, acct, spent, made, greeted, crossed, moves>>

\* Mutant: nobody looks whether a callback is at work.
BusyNever == FALSE
Busy == \E r \in Reqs : call[r].at \notin {"idle", "found"}
End(r) == call' = [call EXCEPT ![r] = Quiet]
Goes(r, at) == call' = [call EXCEPT ![r].at = at]
Within == UNCHANGED <<known, late, lines, suspect, moves>>

(* TryLock, and the checks of the callback.  One that is finished is answered
   from the session; a code other than the one at work is turned down. *)
Lock(r, code) ==
  /\ call[r].at = "found"
  /\ \/ End(r) /\ UNCHANGED session
     \/ /\ ~Busy
        /\ session.held # None \/ session.account # 0 => session.digest = code
        /\ session' = [session EXCEPT !.digest = code]
        /\ IF session.account # 0 THEN End(r)
           ELSE call' = [call EXCEPT ![r].code = code,
                          ![r].at = IF session.held = None THEN "exchange" ELSE "save"]
  /\ Within /\ UNCHANGED <<acct, spent, made, greeted, crossed>>

(* The head of the loop of exchangeLoginWithFailover.  A context that is over
   ends every step that looks at it; its end is the deadline of the session or
   the client's leave. *)
Choose(r) ==
  /\ call[r].at = "exchange"
  /\ \/ End(r) /\ UNCHANGED session
     \/ /\ ~late
        /\ session' \in Refreshed(session)
        /\ call' = [call EXCEPT ![r].at = "send", ![r].gen = Generation(session')]
  /\ Within /\ UNCHANGED <<acct, spent, made, greeted, crossed>>

(* The guard of the round trip: refused without a byte sent.  Only an
   automatic session chooses once more. *)
Send(r) ==
  /\ call[r].at = "send"
  /\ IF Admitted(session, call[r].gen) THEN Goes(r, "wait") /\ UNCHANGED session
     ELSE IF session.kind = "auto" /\ ~call[r].again
     THEN /\ session' = [session EXCEPT !.failed = @ \cup {session.url}, !.line = None, !.url = None]
          /\ call' = [call EXCEPT ![r].at = "exchange", ![r].again = TRUE]
     ELSE End(r) /\ UNCHANGED session
  /\ Within /\ UNCHANGED <<acct, spent, made, greeted, crossed>>

(* The upstream takes a code once; its answer may be lost. *)
Takes(r) == spent' \in {spent, spent \cup {call[r].code}}

Redeemed(r) ==
  /\ call[r].at = "wait" /\ ~late /\ call[r].code \notin spent
  /\ spent' = spent \cup {call[r].code}
  /\ session' = [session EXCEPT !.held = call[r].code]
  /\ Goes(r, "save")
  /\ Within /\ UNCHANGED <<acct, made, greeted, crossed>>

(* An error of the upstream, a context that is over, or no exit left to blame *)
Refused(r) ==
  /\ call[r].at = "wait"
  /\ Takes(r) /\ End(r)
  /\ Within /\ UNCHANGED <<session, acct, made, greeted, crossed>>

(* IsEndpointUnreachable, on a named line: ReplaceFailedLoginProxy removes the
   line if it is still the one that failed, and gives the next one. *)
Unreachable(r) ==
  /\ call[r].at = "wait" /\ ~late /\ session.line # None
  /\ Takes(r)
  /\ LET l == session.line
         failed == session.failed \cup {session.url}
         same == lines[l].url = session.url /\ lines[l].gen = call[r].gen
     IN  /\ lines' = IF same /\ l \notin Spared THEN [lines EXCEPT ![l] = Gone(@)] ELSE lines
         /\ \E next \in Picks(lines', failed) :
              session' = Over([session EXCEPT !.failed = failed, !.retry = TRUE], next, lines')
  /\ Goes(r, "exchange")
  /\ UNCHANGED <<known, late, suspect, moves, acct, made, greeted, crossed>>

(* SaveOAuthAccount: a new account, or the one of the same user with the new
   secret.  A session that created it before still counts it as new. *)
Save(r) ==
  /\ call[r].at = "save"
  /\ \E s \in IF session.line = None THEN {session} ELSE Refreshed(session) :
       \/ End(r) /\ session' \in {session, s} /\ UNCHANGED <<acct, made, crossed>>
       \/ /\ ~late
          /\ acct' = IF acct.id = 0
                     THEN [Nobody EXCEPT !.id = acct.gen + 1, !.cred = s.held, !.gen = acct.gen + 1]
                     ELSE IF acct.cred = s.held THEN acct
                     ELSE [acct EXCEPT !.cred = s.held, !.gen = @ + 1]
          /\ made' = IF acct.id = 0 THEN made \cup {acct'.id} ELSE made
          /\ session' = IF acct.id = 0 THEN [s EXCEPT !.created = acct'.id] ELSE s
          /\ crossed' = FALSE
          /\ call' = [call EXCEPT ![r].at = "bind", ![r].seen = acct'.id,
                                  ![r].fresh = session'.created = acct'.id]
  /\ Within /\ UNCHANGED <<spent, greeted>>

(* applyLoginProxy, but not for an account an automatic session has not
   created; it fails when the store or the line does. *)
Binds(r) == IF session.kind = "auto" THEN call[r].fresh
            ELSE session.kind = "direct" \/ session.url # None
Bind(r) ==
  /\ call[r].at = "bind"
  /\ \/ Binds(r) /\ End(r)
     \/ Goes(r, "key")
  /\ Within /\ UNCHANGED <<session, acct, spent, made, greeted, crossed>>

(* FindAny reads the account again before the key is asked for. *)
Ask(r) ==
  /\ call[r].at = "key"
  /\ IF acct.id # call[r].seen THEN End(r)
     ELSE call' = [call EXCEPT ![r].at = "ask", ![r].gen = acct.gen]
  /\ Within /\ UNCHANGED <<session, acct, spent, made, greeted, crossed>>

(* UpdateForRequest: not to another credential.  Then the account is finished,
   with the first claim of a new one. *)
Finish(r) ==
  /\ call[r].at = "ask"
  /\ acct' \in {acct, IF acct.id = call[r].seen /\ acct.gen = call[r].gen
                      THEN [acct EXCEPT !.key = session.held] ELSE acct}
  /\ greeted' = IF call[r].fresh THEN greeted \cup {call[r].seen} ELSE greeted
  /\ session' = [session EXCEPT !.account = call[r].seen, !.held = None, !.created = 0]
  /\ End(r)
  /\ Within /\ UNCHANGED <<spent, made, crossed>>

-----------------------------------------------------------------------------
(* Everybody else *)

Moves(changed) ==
  /\ moves < MaxMoves /\ moves' = moves + 1
  /\ UNCHANGED <<session, known, late, call, spent, made, greeted>> /\ changed

(* a line is imported, edited, switched off or removed *)
LineChanges(l, p) ==
  Moves(/\ lines[l].gen > 0 => lines[l].url # None
        /\ lines' = [lines EXCEPT ![l] = p]
        /\ UNCHANGED <<suspect, acct, crossed>>)
Suspects(u) == Moves(suspect' = suspect \cup {u} /\ UNCHANGED <<lines, acct, crossed>>)
(* EditAccount, RemoveAccount *)
SecretReplaced ==
  Moves(/\ acct.id # 0 /\ acct' = [acct EXCEPT !.cred = None, !.gen = @ + 1]
        /\ crossed' = (crossed \/ \E r \in Reqs : call[r].at \in {"bind", "key"})
        /\ UNCHANGED <<lines, suspect>>)
AccountRemoved ==
  Moves(acct.id # 0 /\ acct' = [Nobody EXCEPT !.gen = acct.gen] /\ UNCHANGED <<lines, suspect, crossed>>)

Expires ==
  /\ session # None /\ ~late /\ late' = TRUE
  /\ UNCHANGED <<session, known, lines, suspect, acct, call, spent, made, greeted, crossed, moves>>

Others ==
  \/ \E l \in Lines, u \in Addrs, on \in BOOLEAN :
       LineChanges(l, [url |-> u, on |-> on, gen |-> lines[l].gen + 1])
  \/ \E l \in Lines : lines[l].gen > 0 /\ LineChanges(l, Gone(lines[l]))
  \/ \E u \in Addrs : Suspects(u)
  \/ SecretReplaced \/ AccountRemoved \/ Expires

Handler(r) ==
  \/ Enter(r) \/ \E code \in Codes : Lock(r, code)
  \/ Choose(r) \/ Send(r) \/ Redeemed(r) \/ Refused(r) \/ Unreachable(r)
  \/ Save(r) \/ Bind(r) \/ Ask(r) \/ Finish(r)

Next == (\E kind \in Kinds : Start(kind)) \/ (\E r \in Reqs : Handler(r)) \/ Others
Spec == Init /\ [][Next]_vars

-----------------------------------------------------------------------------
(* Properties *)

(* The code is sent by one handler at a time, and never again once its result is
   held or its account stored: a double click, a repeated callback and a failed
   save redeem once (login.go, loginSession.mu and exchanged). *)
RedeemsOnce ==
  \A r \in Reqs : call[r].at \in {"send", "wait"} =>
    /\ session.held = None /\ session.account = 0
    /\ \A q \in Reqs \ {r} : call[q].at \in {"idle", "found"}

(* Who chose the exit keeps it: a session that goes out directly never leaves
   by a line, one with an address by no other, and one with a named line leaves
   it only after that address was found unreachable, however the line is edited
   or removed; no exit is tried again after it failed (login_failover.go). *)
ExitKept ==
  [][\A r \in Reqs : call[r].at = "send" /\ call'[r].at = "wait" =>
       /\ session.kind \in {"direct", "none", "raw"} => session.url = session.chosen
       /\ session.kind = "line" => session.url = session.chosen \/ session.chosen \in session.failed
       /\ session.line # None => session.url \notin session.failed]_vars

(* The account a session ends with is finished as a new one exactly if this
   session created it, though the attempt that did may have failed afterwards
   (login.go, createdAccountID). *)
NewStaysNew ==
  /\ greeted \subseteq made
  /\ session # None /\ session.account # 0 /\ session.account \in made => session.account \in greeted

(* The key a login brings is written to the credential it brought: not to one
   that replaced it while the key was asked for (login.go; the window between
   the save and the read before the question is `crossed'). *)
KeyOfLogin == [][acct'.key \notin {acct.key, None} => acct'.key = acct'.cred \/ crossed]_vars
=============================================================================
