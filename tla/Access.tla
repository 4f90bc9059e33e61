------------------------------- MODULE Access -------------------------------
(***************************************************************************)
(* Who gets at the server: the token store, the authorization and the      *)
(* loopback guard in front of the handlers, and the rate limiter in front  *)
(* of the few that need no token.                                          *)
(*                                                                         *)
(* Requests are handled concurrently.  A token is looked up under the      *)
(* store's lock; whether it has expired is asked after that.               *)
(***************************************************************************)
EXTENDS Integers, FiniteSets, Functions

CONSTANTS Sources,      \* addresses that requests come from
          Loopback,     \* those that are this machine
          Tokens,       \* secrets that may come to be
          NoToken,      \* a request without a header
          Slots,        \* requests in progress at the same time
          NoAuth, AdminLocalOnly,        \* the configuration
          rateLimitRequests, rateLimitWindow,
          DefaultExpiry,
          Asked,        \* what requests ask for as expiry_seconds, none so large
                        \* that it overflows as a time.Duration
          MaxTime       \* bound: how long the clock runs

ASSUME LoopbackAssumption == Loopback \subseteq Sources
ASSUME NoTokenAssumption == NoToken \notin Tokens
ASSUME RateAssumption == rateLimitRequests \in Nat \ {0} /\ rateLimitWindow \in Nat
ASSUME ExpiryAssumption == DefaultExpiry \in Nat \ {0} /\ Asked \subseteq Int
ASSUME TimeAssumption == MaxTime \in Nat

Never == MaxTime + 2      \* the zero ExpiresAt

VARIABLES now,
          buckets,      \* RateLimiter.buckets
          admitted,     \* history: per source, how many requests the limiter let
                        \* through in the last so many instants, up to the window's length
          store,        \* Store.tokens: when each token expires
          made,         \* the tokens there ever were, and the expiry asked for
          withdrawn,    \* tokens whose revocation has returned
          slot          \* the request in each slot

accvars == <<now, buckets, admitted, store, made, withdrawn, slot>>

Empty == [at |-> "none"]

AccessInit == /\ now = 0
              /\ buckets = [s \in {} |-> 0]
              /\ admitted = [s \in Sources |-> [age \in 0 .. rateLimitWindow |-> 0]]
              /\ store = [k \in {} |-> 0]
              /\ made = [k \in {} |-> 0]
              /\ withdrawn = {}
              /\ slot = [r \in Slots |-> Empty]

Tick == /\ now < MaxTime
        /\ now' = now + 1
        /\ admitted' = [s \in Sources |-> [age \in 0 .. rateLimitWindow |->
                                             IF age = 0 THEN 0 ELSE admitted[s][age - 1]]]
        /\ UNCHANGED <<buckets, store, made, withdrawn, slot>>

-----------------------------------------------------------------------------
(* The token store. *)

\* handleTokenCreate: no expiry asked for means a day.
Expiry(n) == IF n = 0 THEN DefaultExpiry ELSE n

\* Create: an expiry that is not positive means none.
ExpiresAt(expiry) == IF expiry > 0 THEN now + expiry ELSE Never

CreateToken(k, n) == /\ k \in Tokens \ DOMAIN made
                     /\ store' = [j \in DOMAIN store \cup {k} |->
                                    IF j = k THEN ExpiresAt(Expiry(n)) ELSE store[j]]
                     /\ made' = [j \in DOMAIN made \cup {k} |->
                                   IF j = k THEN [by |-> now, asked |-> n] ELSE made[j]]
                     /\ UNCHANGED <<now, buckets, admitted, withdrawn, slot>>

Expired(e) == e # Never /\ now > e

\* Revoke; handleTokenRevoke has closed the connections before (see Hub).
Revoke(k) == /\ k \in DOMAIN store
             /\ store' = Restrict(store, DOMAIN store \ {k})
             /\ withdrawn' = withdrawn \cup {k}
             /\ UNCHANGED <<now, buckets, admitted, made, slot>>

-----------------------------------------------------------------------------
(* A request: its source, what it carries, and what the route asks for.    *)

Routes == {"authed", "admin", "unauth", "ws"}

Arrive(r, source, token, route) ==
    /\ slot[r] = Empty
    /\ slot' = [slot EXCEPT ![r] = [at |-> "arrived", source |-> source, token |-> token,
                                    route |-> route, since |-> now,
                                    late |-> token \in withdrawn]]
    /\ UNCHANGED <<now, buckets, admitted, store, made, withdrawn>>

Move(r, at) == slot' = [slot EXCEPT ![r].at = at]

\* Allow: a window of fixed length begins with the first request after the last.
Running(s) == s \in DOMAIN buckets /\ now <= buckets[s].resetAt

Begin(s, n) == buckets' = [x \in DOMAIN buckets \cup {s} |->
                             IF x = s THEN [count |-> n, resetAt |-> now + rateLimitWindow]
                                      ELSE buckets[x]]

\* A faulty form: the request that begins a window is not counted.
Allow_OneMore(s) == \/ ~Running(s) /\ Begin(s, 0)
                    \/ /\ Running(s) /\ buckets[s].count < rateLimitRequests
                       /\ buckets' = [buckets EXCEPT ![s].count = @ + 1]

Allow(s) == \/ ~Running(s) /\ Begin(s, 1)
            \/ /\ Running(s) /\ buckets[s].count < rateLimitRequests
               /\ buckets' = [buckets EXCEPT ![s].count = @ + 1]

\* rateLimitMiddleware, in front of the routes without a token.
Limit(r) ==
    /\ slot[r].at = "arrived" /\ slot[r].route = "unauth"
    /\ \/ /\ slot[r].token # NoToken
          /\ Move(r, "served")
          /\ UNCHANGED <<buckets, admitted>>
       \/ /\ slot[r].token = NoToken
          /\ Allow(slot[r].source)
          /\ admitted' = [admitted EXCEPT ![slot[r].source] = [age \in 0 .. rateLimitWindow |-> @[age] + 1]]
          /\ Move(r, "served")
       \/ /\ slot[r].token = NoToken
          /\ Running(slot[r].source)
          /\ buckets[slot[r].source].count >= rateLimitRequests
          /\ Move(r, "refused")
          /\ UNCHANGED <<buckets, admitted>>
    /\ UNCHANGED <<now, store, made, withdrawn>>

\* loopbackOnly, in front of the admin routes.
Guard(r) == /\ slot[r].at = "arrived" /\ slot[r].route = "admin" /\ AdminLocalOnly
            /\ Move(r, IF slot[r].source \in Loopback THEN "local" ELSE "refused")
            /\ UNCHANGED <<now, buckets, admitted, store, made, withdrawn>>

Reached(r) == \/ slot[r].at = "arrived" /\ slot[r].route \in {"authed", "ws"}
              \/ slot[r].at = "arrived" /\ slot[r].route = "admin" /\ ~AdminLocalOnly
              \/ slot[r].at = "local"

\* authMiddleware, handleWS: the lookup in Verify ...
Lookup(r) == /\ Reached(r)
             /\ IF NoAuth THEN Move(r, "served")
                ELSE IF slot[r].token \in DOMAIN store
                THEN slot' = [slot EXCEPT ![r] = [f \in DOMAIN @ \cup {"expires"} |->
                                IF f = "at" THEN "found"
                                ELSE IF f = "expires" THEN store[slot[r].token] ELSE @[f]]]
                ELSE Move(r, "refused")
             /\ UNCHANGED <<now, buckets, admitted, store, made, withdrawn>>

\* A faulty form: an expired token is as good as any.
Check_NoExpiry(r) == /\ slot[r].at = "found"
                     /\ Move(r, "served")
                     /\ UNCHANGED <<now, buckets, admitted, store, made, withdrawn>>

\* ... and IsExpired on what it found.
Check(r) == /\ slot[r].at = "found"
            /\ Move(r, IF Expired(slot[r].expires) THEN "refused" ELSE "served")
            /\ UNCHANGED <<now, buckets, admitted, store, made, withdrawn>>

Answer(r) == /\ slot[r].at \in {"served", "refused"}
             /\ slot' = [slot EXCEPT ![r] = Empty]
             /\ UNCHANGED <<now, buckets, admitted, store, made, withdrawn>>

AccessNext ==
    \/ Tick
    \/ \E k \in Tokens : Revoke(k) \/ \E n \in Asked : CreateToken(k, n)
    \/ \E r \in Slots :
          \/ \E s \in Sources, k \in Tokens \cup {NoToken}, route \in Routes : Arrive(r, s, k, route)
          \/ Limit(r) \/ Guard(r) \/ Lookup(r) \/ Check(r) \/ Answer(r)

AccessSpec == AccessInit /\ [][AccessNext]_accvars

-----------------------------------------------------------------------------
Guarded(r) == slot[r].at = "served" /\ slot[r].route # "unauth" /\ ~NoAuth

\* A token opens nothing to a request that came after its revocation returned,
\* nor, if a positive expiry was asked for, after that time, however lookup, expiry
\* and revocation interleave.  What the code makes of 0 (a day) and of a negative
\* (no expiry) is not judged here.
EndedTokensRefused ==
    \A r \in Slots : Guarded(r) =>
        /\ slot[r].token \in DOMAIN made
        /\ ~slot[r].late
        /\ LET m == made[slot[r].token]
           IN  m.asked > 0 => slot[r].since <= m.by + m.asked

\* A source without a token is let through at most twice the limit, less one, within
\* any stretch of time as long as the limiter's window, however its requests fall
\* on two of them.
RateLimited == \A s \in Sources : admitted[s][rateLimitWindow] < 2 * rateLimitRequests
=============================================================================
