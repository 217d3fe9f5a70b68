---- MODULE Authentication ----
(***************************************************************************)
(* AuthMiddleware (app/core/auth_middleware.py) and the login page of the  *)
(* web administration over RateLimit, and the table of Access Keys (app/   *)
(* core/access_key_service.py).                                            *)
(*                                                                         *)
(* The middleware awaits nothing until it lets a request in or answers it, *)
(* so the event loop judges one attempt at a time. An Access Key is judged *)
(* in three transactions, though: is any key active, is this one, count    *)
(* its use. Administrators change keys between them from threads of the    *)
(* API, and the metastore may refuse any of them.                          *)
(***************************************************************************)
EXTENDS RateLimit

CONSTANTS ApiSource,      \* the sources that show Access Keys; the others show ADMIN_API_KEY
          Token,          \* what a request may show, or be created as an Access Key
          AdminKey,       \* ADMIN_API_KEY
          NonAscii,       \* tokens that have other letters than those of ASCII
          MaxKeys,        \* bound on Access Keys ever created
          MaxRequests,    \* bound on attempts
          MaxMetaFaults   \* bound on metastore failures

ASSUME AuthenticationAssumption ==
  /\ ApiSource \subseteq Source /\ NonAscii \subseteq Token /\ AdminKey \in Token \ NonAscii
  /\ MaxKeys \in Nat /\ MaxRequests \in Nat /\ MaxMetaFaults \in Nat

VARIABLES keys,      \* rows of access_keys, by id
          lastKey,   \* the last id given (AUTOINCREMENT)
          attempt,   \* the attempt that is being judged, or NoAttempt
          requests, faults,
          admitted,  \* history: requests let in, by the id of their key
          watch      \* history: the keys that were active for the token of the attempt
                     \* at some moment of it, and whether one was at every moment

keyVars == <<keys, lastKey>>
vars == <<limiterVars, keyVars, attempt, requests, faults, admitted, watch>>

NoAttempt == [at |-> "none"]
NoWatch == [seen |-> {}, steady |-> FALSE]

Init == /\ InitLimiter
        /\ keys = <<>> /\ lastKey = 0
        /\ attempt = NoAttempt
        /\ requests = 0 /\ faults = 0
        /\ admitted = [k \in 1..MaxKeys |-> 0]
        /\ watch = NoWatch

MetaFails == faults < MaxMetaFaults /\ faults' = faults + 1

-----------------------------------------------------------------------------
(* Access Keys *)

\* Mutant of Holds: a key that is not active is as good.
HoldsAny(row, token) == row.token = token

Holds(row, token) == row.token = token /\ row.active

\* validate_token: the hash of a token is unique.
Holders(table, token) == {k \in DOMAIN table : Holds(table[k], token)}

AnyActive == \E k \in DOMAIN keys : keys[k].active

\* Mutant of NextKey: the ids of removed keys are given again.
NextKeyReused == Cardinality(DOMAIN keys) + 1
NextKey == lastKey + 1

CreateKey(token, active) ==
  /\ lastKey < MaxKeys
  /\ \A k \in DOMAIN keys : keys[k].token # token
  /\ lastKey' = NextKey
  /\ keys' = [k \in DOMAIN keys \cup {NextKey} |->
                IF k = NextKey THEN [token |-> token, active |-> active, uses |-> 0] ELSE keys[k]]

\* The dialogs of the web administration write what they showed when they were opened.
UpdateKey(k, active) ==
  /\ k \in DOMAIN keys
  /\ keys' = [keys EXCEPT ![k].active = active]
  /\ UNCHANGED lastKey

DeleteKey(k) ==
  /\ k \in DOMAIN keys
  /\ keys' = [j \in DOMAIN keys \ {k} |-> keys[j]]
  /\ UNCHANGED lastKey

\* The attempt in progress was judgeable by the keys that were active meanwhile.
Watched(a, w, table) ==
  IF a = NoAttempt THEN NoWatch
  ELSE [seen |-> w.seen \cup {k \in DOMAIN table : table[k].token = a.token /\ table[k].active},
        steady |-> w.steady /\ \E k \in DOMAIN table : table[k].token = a.token /\ table[k].active]

Administer ==
  /\ \/ \E t \in Token, active \in BOOLEAN : CreateKey(t, active)
     \/ \E k \in DOMAIN keys, active \in BOOLEAN : UpdateKey(k, active)
     \/ \E k \in DOMAIN keys : DeleteKey(k)
  /\ watch' = Watched(attempt, watch, keys')
  /\ UNCHANGED <<limiterVars, attempt, requests, faults, admitted>>

-----------------------------------------------------------------------------
(* Attempts *)

\* Mutant of MayTry: a source is judged though it is blocked.
MayTryAlways(s) == TRUE

\* A blocked source gets 429 and nothing changes.
MayTry(s) == ~Blocked(s)

Asks(s) == /\ attempt = NoAttempt /\ MayTry(s)
           /\ requests < MaxRequests /\ requests' = requests + 1

\* The administrative API and the login page. hmac.compare_digest raises for a text that is
\* not ASCII: an error, and nobody registers a failure.
TryAdmin(s, t) ==
  /\ s \notin ApiSource /\ Asks(s)
  /\ \/ t = AdminKey /\ Success(s)
     \/ t \notin NonAscii \cup {AdminKey} /\ Failure(s)
     \/ t \in NonAscii /\ UNCHANGED limiterVars
  /\ UNCHANGED <<keyVars, attempt, faults, admitted, watch>>

\* Without an active key the answer is 503, which is not the source's failure.
TryKey(s, t) ==
  /\ s \in ApiSource /\ Asks(s)
  /\ \/ /\ AnyActive
        /\ attempt' = [at |-> "judging", source |-> s, token |-> t]
        /\ watch' = Watched(attempt', [seen |-> {}, steady |-> TRUE], keys)
        /\ UNCHANGED faults
     \/ ~AnyActive /\ UNCHANGED <<attempt, watch, faults>>
     \/ MetaFails /\ UNCHANGED <<attempt, watch>>
  /\ UNCHANGED <<limiterVars, keyVars, admitted>>

Ends == attempt' = NoAttempt /\ watch' = NoWatch

\* Mutant of JudgeFails: an unreachable metastore makes the token invalid.
JudgeFailsBadly(s) == MetaFails /\ Failure(s)

\* The exception leaves the middleware; nobody registers anything.
JudgeFails(s) == MetaFails /\ UNCHANGED limiterVars

Judge ==
  /\ attempt.at = "judging"
  /\ LET s == attempt.source
         holders == Holders(keys, attempt.token)
     IN  \/ /\ holders = {} /\ Failure(s) /\ Ends
            /\ UNCHANGED faults
         \/ /\ \E k \in holders :
                 attempt' = [at |-> "counting", source |-> s, token |-> attempt.token, key |-> k]
            /\ Success(s)
            /\ UNCHANGED <<faults, watch>>
         \/ JudgeFails(s) /\ Ends
  /\ UNCHANGED <<keyVars, requests, admitted>>

\* The use is counted in the row, if it is still there, and the request is let in.
CountUse ==
  /\ attempt.at = "counting" /\ Ends
  /\ \/ /\ keys' = [k \in DOMAIN keys |->
                      IF k = attempt.key THEN [keys[k] EXCEPT !.uses = @ + 1] ELSE keys[k]]
        /\ admitted' = [admitted EXCEPT ![attempt.key] = @ + 1]
        /\ UNCHANGED faults
     \/ MetaFails /\ UNCHANGED <<keys, admitted>>
  /\ UNCHANGED <<limiterVars, lastKey, requests>>

Clock == Tick /\ UNCHANGED <<keyVars, attempt, requests, faults, admitted, watch>>

Next == \/ Administer \/ Judge \/ CountUse \/ Clock
        \/ \E s \in Source, t \in Token : TryAdmin(s, t) \/ TryKey(s, t)

Spec == Init /\ [][Next]_vars

-----------------------------------------------------------------------------
(* Properties *)

\* Every variable has its type; the hash of a key is unique.
TypeOK ==
  /\ LimiterTypeOK
  /\ lastKey \in 0..MaxKeys /\ DOMAIN keys \subseteq 1..lastKey
  /\ \A k \in DOMAIN keys : /\ keys[k].token \in Token /\ keys[k].active \in BOOLEAN
                            /\ keys[k].uses \in 0..MaxRequests
                            /\ \A j \in DOMAIN keys : keys[j].token = keys[k].token => j = k
  /\ requests \in 0..MaxRequests /\ faults \in 0..MaxMetaFaults
  /\ attempt.at \in {"none", "judging", "counting"}
  /\ attempt.at = "counting" => attempt.key \in 1..lastKey

\* The dialog that removes a key says it stops authenticating at once: a request is
\* accepted under a key only if that key was active at some moment after the request
\* came, whatever administrators did in the meantime.
AcceptedWasActive == attempt.at = "counting" => attempt.key \in watch.seen

\* A failure is held against a source only when its Access Key was not active at some
\* moment of the attempt: neither a failing metastore nor other keys' changes count.
HoldersAreNotPunished ==
  [][\A s \in ApiSource : Len(judged'[s]) > Len(judged[s]) => ~watch.steady]_vars

\* The use counter of a key is the number of requests let in under it, even when keys
\* are removed and others created while their requests are being judged.
UsesAreCounted == \A k \in DOMAIN keys : keys[k].uses = admitted[k]
====
