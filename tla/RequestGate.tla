---------------------------- MODULE RequestGate ----------------------------
(***************************************************************************)
(* The gate every query and admin call passes (server/request_gate.cpp,    *)
(* server/rate_limiter.h, auth/): authentication, the role, then a token   *)
(* bucket of the principal and a global one.  The operator rewrites the    *)
(* token file and sends SIGHUP; the main loop (cli run_command.cpp) then   *)
(* reloads the file and swaps the authenticator under running calls.       *)
(*                                                                         *)
(* Time is a clock of whole ticks.  A bucket counts units, One of which    *)
(* are a request, so that a bucket can hold a fraction of a request.       *)
(***************************************************************************)
EXTENDS Integers, Sequences, FiniteSets

CONSTANTS
  Thread,     \* the server's handler threads
  Principal,  \* principal ids
  Inputs,     \* what a caller presents: [token, identity]
  TokenFile,  \* contents of the token file: a sequence of entries, or Malformed
  Modes,      \* auth.mode of the configurations: "token", "mtls", "none"
  Admins,     \* auth.admin_identities
  Malformed,  \* a file that does not parse
  NoValue,    \* an absent token or identity
  One,        \* units of one request
  Rate,       \* rate_limit_per_second, in units per tick
  Burst,      \* rate_limit_burst, in units
  Multiple,   \* kGlobalBurstMultiple
  MaxNow,     \* bound on the clock
  MaxWrites   \* bound on the rewrites of the token file

ASSUME GateAssumption ==
  /\ One \in Nat \ {0} /\ Rate \in Nat /\ Burst \in Nat /\ Multiple \in Nat \ {0}
  /\ MaxNow \in Nat /\ MaxWrites \in Nat
  /\ NoValue \notin Principal

\* The principals are whoever the configurations, token files and certificates name.
ASSUME PrincipalAssumption ==
  /\ IsFiniteSet(Principal) /\ Principal # {}
  /\ Modes \subseteq {"token", "mtls", "none"}
  /\ \A entries \in TokenFile \ {Malformed} :
       /\ Len(entries) \in Nat /\ DOMAIN entries = 1 .. Len(entries)
       /\ \A i \in DOMAIN entries : entries[i].id \in Principal
  /\ \A in \in Inputs : in.identity \in Principal \cup {NoValue}

VARIABLES
  mode,      \* auth.mode
  file,      \* the token file on disk
  writes,    \* how often it was rewritten
  auth,      \* authenticator_ of the gate: the entries it was built from
  reload,    \* the SIGHUP flag
  loop,      \* the main loop: "wait", "read" or "swap"
  loaded,    \* the entries ReloadAuth parsed
  call,      \* the call each thread is handling
  limiters,  \* limiters_: the bucket of each principal, NoBucket before the first call
  global,    \* global_
  now,       \* the clock
  since,     \* ghost: when the observed window began
  count,     \* ghost: calls admitted per principal in the window
  total,     \* ghost: calls admitted in the window
  throttled  \* ghost: the global bucket refused a call its principal could afford

authVars == <<mode, file, writes, auth, reload, loop, loaded>>
rateVars == <<limiters, global, now, since, count, total, throttled>>
vars == <<authVars, call, rateVars>>

-----------------------------------------------------------------------------
(* Token buckets.                                                          *)

Least(a, b) == IF a <= b THEN a ELSE b

NoBucket == [tokens |-> -1, last |-> 0]
NewBucket(burst) == [tokens |-> burst, last |-> now]

\* The units a bucket has now.
Refilled(b, rate, burst) == Least(burst, b.tokens + rate * (now - b.last))

\* Mutant of Acquired: last_ is not moved on.
AcquiredKeepsLast(b, rate, burst) ==
  [tokens |-> Refilled(b, rate, burst)
                - (IF Refilled(b, rate, burst) >= One THEN One ELSE 0),
   last |-> b.last]

\* RateLimiter::TryAcquire: the bucket it leaves.
Acquired(b, rate, burst) ==
  [tokens |-> Refilled(b, rate, burst)
                - (IF Refilled(b, rate, burst) >= One THEN One ELSE 0),
   last |-> now]

Affords(b, rate, burst) == Refilled(b, rate, burst) >= One

BucketOf(p) == IF limiters[p] = NoBucket THEN NewBucket(Burst) ELSE limiters[p]

-----------------------------------------------------------------------------
(* Authentication.                                                         *)

NoPrincipal == [id |-> NoValue, role |-> "none"]

\* TokenAuthenticator::Authenticate: the last entry with the token.
TokenPrincipal(entries, in) ==
  LET found == {i \in DOMAIN entries : entries[i].token = in.token} IN
  IF in.token = NoValue \/ found = {} THEN NoPrincipal
  ELSE LET i == CHOOSE i \in found : \A j \in found : j <= i
       IN  [id |-> entries[i].id, role |-> entries[i].role]

\* MtlsAuthenticator::Authenticate.
MtlsPrincipal(in) ==
  IF in.identity = NoValue THEN NoPrincipal
  ELSE [id |-> in.identity, role |-> IF in.identity \in Admins THEN "admin" ELSE "query"]

Authenticate(entries, in) ==
  CASE mode = "token" -> TokenPrincipal(entries, in)
    [] mode = "mtls"  -> MtlsPrincipal(in)
    [] mode = "none"  -> [id |-> CHOOSE p \in Principal : TRUE, role |-> "query"]

\* Authorize.
Permitted(principal, required) ==
  principal # NoPrincipal /\ (required = "admin" => principal.role = "admin")

-----------------------------------------------------------------------------

Idle == [step |-> "idle"]

Init ==
  /\ mode \in Modes
  /\ file \in TokenFile \ {Malformed} /\ auth = file /\ writes = 0
  /\ reload = FALSE /\ loop = "wait" /\ loaded = <<>>
  /\ call = [t \in Thread |-> Idle]
  /\ limiters = [p \in Principal |-> NoBucket]
  /\ global = [tokens |-> Multiple * Burst, last |-> 0]
  /\ now = 0 /\ since = 0 /\ count = [p \in Principal |-> 0] /\ total = 0
  /\ throttled = FALSE

\* A call arrives at a thread.
Arrive(t) ==
  /\ call[t].step = "idle"
  /\ \E in \in Inputs, required \in {"query", "admin"} :
       call' = [call EXCEPT ![t] = [step |-> "check", in |-> in, required |-> required,
                                    lists |-> {auth}]]
  /\ UNCHANGED <<authVars, rateVars>>

\* Mutant of Authorized: whoever authenticates may.
AuthorizedAnyRole(t, entries) == Authenticate(entries, call[t].in) # NoPrincipal

Authorized(t, entries) == Permitted(Authenticate(entries, call[t].in), call[t].required)

\* RequestGate::Check up to Admit: the authenticator of this moment decides.
Check(t) ==
  /\ call[t].step = "check"
  /\ call' = IF Authorized(t, auth)
               THEN [call EXCEPT ![t] = [step |-> "admit", in |-> @.in, required |-> @.required,
                                         lists |-> @.lists,
                                         id |-> Authenticate(auth, @.in).id]]
               ELSE [call EXCEPT ![t] = Idle]
  /\ UNCHANGED <<authVars, rateVars>>

\* Mutant of Admit: the global bucket first.
AdmitGlobalFirst(t) ==
  LET p == call[t].id
      bucket == BucketOf(p)
      anyone == Affords(global, Multiple * Rate, Multiple * Burst)
      mine == anyone /\ Affords(bucket, Rate, Burst)
  IN
  /\ call[t].step = "admit"
  /\ global' = Acquired(global, Multiple * Rate, Multiple * Burst)
  /\ limiters' = [limiters EXCEPT ![p] = IF anyone THEN Acquired(bucket, Rate, Burst) ELSE bucket]
  /\ count' = [count EXCEPT ![p] = @ + (IF mine THEN 1 ELSE 0)]
  /\ total' = total + (IF mine THEN 1 ELSE 0)
  /\ throttled' = (throttled \/ (Affords(bucket, Rate, Burst) /\ ~mine))
  /\ call' = [call EXCEPT ![t] = IF mine THEN [@ EXCEPT !.step = "handle"] ELSE Idle]
  /\ UNCHANGED <<authVars, now, since>>

\* RequestGate::Admit, under limiters_mu_: the principal's bucket, then the global.
Admit(t) ==
  LET p == call[t].id
      bucket == BucketOf(p)
      mine == Affords(bucket, Rate, Burst)
      both == mine /\ Affords(global, Multiple * Rate, Multiple * Burst)
  IN
  /\ call[t].step = "admit"
  /\ limiters' = [limiters EXCEPT ![p] = Acquired(bucket, Rate, Burst)]
  /\ global' = IF mine THEN Acquired(global, Multiple * Rate, Multiple * Burst) ELSE global
  /\ count' = [count EXCEPT ![p] = @ + (IF both THEN 1 ELSE 0)]
  /\ total' = total + (IF both THEN 1 ELSE 0)
  /\ throttled' = (throttled \/ (mine /\ ~both))
  /\ call' = [call EXCEPT ![t] = IF both THEN [@ EXCEPT !.step = "handle"] ELSE Idle]
  /\ UNCHANGED <<authVars, now, since>>

\* The handler returns.
Return(t) ==
  /\ call[t].step = "handle"
  /\ call' = [call EXCEPT ![t] = Idle]
  /\ UNCHANGED <<authVars, rateVars>>

\* Ghost: the calls in flight have seen the list that comes into force.
Seen(entries) ==
  [t \in Thread |-> IF call[t].step = "check"
                      THEN [call[t] EXCEPT !.lists = @ \cup {entries}] ELSE call[t]]

\* The operator rewrites the token file (auth_token add and remove, or an editor).
WriteFile ==
  /\ writes < MaxWrites
  /\ file' \in TokenFile
  /\ writes' = writes + 1
  /\ UNCHANGED <<mode, auth, reload, loop, loaded, call, rateVars>>

\* OnSignal(SIGHUP).
Hangup ==
  /\ reload' = TRUE
  /\ UNCHANGED <<mode, file, writes, auth, loop, loaded, call, rateVars>>

\* The main loop: reload.exchange(false).
TakeFlag ==
  /\ loop = "wait" /\ reload
  /\ reload' = FALSE /\ loop' = "read"
  /\ UNCHANGED <<mode, file, writes, auth, loaded, call, rateVars>>

\* MakeAuthenticator: a file that does not parse leaves the authenticator.
ReadTokens ==
  /\ loop = "read"
  /\ IF mode = "token" /\ file = Malformed
       THEN loop' = "wait" /\ UNCHANGED loaded
       ELSE loop' = "swap" /\ loaded' = file
  /\ UNCHANGED <<mode, file, writes, auth, reload, call, rateVars>>

\* Mutant of SetAuthenticator: the flag is cleared when the reload is over.
SetAuthenticatorClearsFlag ==
  /\ loop = "swap"
  /\ auth' = loaded /\ loop' = "wait" /\ loaded' = <<>> /\ reload' = FALSE
  /\ call' = Seen(loaded)
  /\ UNCHANGED <<mode, file, writes, rateVars>>

\* RequestGate::SetAuthenticator, under auth_mu_.
SetAuthenticator ==
  /\ loop = "swap"
  /\ auth' = loaded /\ loop' = "wait" /\ loaded' = <<>>
  /\ call' = Seen(loaded)
  /\ UNCHANGED <<mode, file, writes, reload, rateVars>>

\* Time passes.
Tick ==
  /\ now < MaxNow
  /\ now' = now + 1
  /\ UNCHANGED <<authVars, call, limiters, global, since, count, total, throttled>>

\* Ghost: the observed window begins now.
OpenWindow ==
  /\ since' = now /\ count' = [p \in Principal |-> 0] /\ total' = 0
  /\ UNCHANGED <<authVars, call, limiters, global, now, throttled>>

Next ==
  \/ \E t \in Thread : Arrive(t) \/ Check(t) \/ Admit(t) \/ Return(t)
  \/ WriteFile \/ Hangup \/ TakeFlag \/ ReadTokens \/ SetAuthenticator
  \/ Tick \/ OpenWindow

Spec == Init /\ [][Next]_vars

\* The main loop polls the flag every 100 ms and nothing in it blocks.
FairSpec ==
  /\ Spec
  /\ WF_vars(TakeFlag) /\ WF_vars(ReadTokens) /\ WF_vars(SetAuthenticator)

-----------------------------------------------------------------------------
(* Properties.                                                             *)

Bucket(burst) == [tokens: 0 .. burst, last: 0 .. now]

\* The type invariant: a bucket is never overdrawn, nor filled beyond its burst.
TypeOK ==
  /\ reload \in BOOLEAN /\ loop \in {"wait", "read", "swap"} /\ throttled \in BOOLEAN
  /\ now \in 0 .. MaxNow /\ since \in 0 .. now
  /\ limiters \in [Principal -> Bucket(Burst) \cup {NoBucket}]
  /\ global \in Bucket(Multiple * Burst)
  /\ count \in [Principal -> Nat] /\ total \in Nat

\* In every window of time a principal is admitted no more than its burst and
\* what the window refills, and all principals together no more than Multiple
\* times that, however calls fall on threads (rate_limiter.h: "It bounds how fast
\* requests are admitted").
RateBound ==
  /\ \A p \in Principal : One * count[p] <= Burst + Rate * (now - since)
  /\ One * total <= Multiple * (Burst + Rate * (now - since))

\* "each principal gets its own token bucket, so one principal flooding the node
\* cannot starve the others" (request_gate.h): among at most Multiple principals
\* the global bucket never refuses a call its principal can afford.
NotStarved == Cardinality(Principal) <= Multiple => ~throttled

\* "In-flight Check calls finish against the old strategy; subsequent calls see
\* the new one" (request_gate.h): a call that is handled was allowed, with its
\* role, by a credential list in force after it arrived, so a token removed by a
\* finished reload, or one of a lesser role, is refused.
AdmittedByList ==
  \A t \in Thread : call[t].step \in {"admit", "handle"} =>
    \E entries \in call[t].lists :
      Permitted(Authenticate(entries, call[t].in), call[t].required)

\* "SIGHUP reloads the token file so credentials rotate without a restart"
\* (run_command.cpp): after a SIGHUP a file that parses and is left alone becomes
\* the gate's, also when the signal comes in the middle of an earlier reload.
ReloadTakesEffect ==
  \A f \in TokenFile \ {Malformed} :
    (reload /\ file = f) ~> (auth = f \/ file # f)
=============================================================================
