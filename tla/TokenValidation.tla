--------------------------- MODULE TokenValidation ---------------------------
(***************************************************************************)
(* internal/ciauth and pkg/tokens: a run of the client asks its CI service *)
(* for a token, and the server that takes a call of the run validates it   *)
(* with the issuer's keys.  Every server caches the key sets: the first    *)
(* call with a token of an issuer registers its JWKS URL, httprc fetches   *)
(* the keys in the background, at first and again from time to time, and   *)
(* issuers replace their keys at times of their own.                       *)
(*                                                                         *)
(* Calls of several runs are validated at the same time, between one step  *)
(* of a call and its next.                                                 *)
(***************************************************************************)
EXTENDS TableSetup, Providers, Integers

CONSTANTS
    Runs,      \* runs of save or restore, and of other clients of the service
    Source,    \* the token source each run is given; "other" for other clients
    MaxKey     \* bound: keys each issuer makes

ASSUME SourceAssumption == Source \in [Runs -> STRING]
ASSUME MaxKeyAssumption == MaxKey \in [Issuers -> Nat \ {0}]

VARIABLES
    published,   \* keys each issuer publishes, numbered as they are made
    registered,  \* issuers whose URL is registered with each server's cache
    keySet,      \* keys in each server's cache, by issuer; none before the first fetch
    token,       \* each run's token
    place,       \* where each run's present call is
    server       \* the server that takes it

keyVars == <<published, registered, keySet>>
callVars == <<token, place, server>>
authVars == <<keyVars, callVars>>


\* What is no JWT is treated as a token without an issuer.
NoToken == [issuer |-> "none", key |-> 0, expired |-> FALSE]
Stranger == "unknown issuer"
Tokens == [issuer : Issuers \cup {Stranger, "none"}, key : Nat, expired : BOOLEAN]

\* Places of a call inside a server; a restart ends it there.
InMiddleware == {"authenticate", "register", "ready", "verify"}
Ended == {"done", "failed", "unauthorized", "denied"}

AuthInit ==
    /\ published = [i \in Issuers |-> {1}]
    /\ registered = [s \in Servers |-> {}]
    /\ keySet = [s \in Servers |-> [i \in Issuers |-> {}]]
    /\ token = [r \in Runs |-> NoToken]
    /\ place \in [Runs -> {"token", "failed"}]   \* some runs do not come to it
    /\ server \in [Runs -> Servers]

Go(r, p) == place' = [place EXCEPT ![r] = p]

Obtain(r, issuer, key) ==
    token' = [token EXCEPT ![r] = [issuer |-> issuer, key |-> key, expired |-> FALSE]]

Newest(issuer) == {k \in published[issuer] : \A j \in published[issuer] : j <= k}

-----------------------------------------------------------------------------
(* The client *)

\* GetToken with a source that asks an issuer, which signs with its newest key.
RequestToken(r) ==
    /\ place[r] = "token"
    /\ Source[r] \in IssuingSources
    /\ LET issuer == IssuerOf(Source[r]) IN
       \E key \in Newest(issuer) : Obtain(r, issuer, key)
    /\ Go(r, "send")
    /\ UNCHANGED <<keyVars, server>>

\* No answer, an answer other than 200, no agent, or an unknown source.
RequestTokenFails(r) ==
    /\ place[r] = "token"
    /\ Source[r] \notin {"local", "other"}
    /\ Go(r, "failed")
    /\ UNCHANGED <<keyVars, token, server>>

LocalToken(r) ==
    /\ place[r] = "token"
    /\ Source[r] = "local"
    /\ Go(r, "send")
    /\ UNCHANGED <<keyVars, token, server>>

\* Other clients bring a token of any issuer, signed with a key that it publishes.
BringToken(r) ==
    /\ place[r] = "token"
    /\ Source[r] = "other"
    /\ \E issuer \in Issuers \cup {Stranger} :
       \E key \in IF issuer \in Issuers THEN published[issuer] ELSE {1} :
          Obtain(r, issuer, key)
    /\ Go(r, "send")
    /\ UNCHANGED <<keyVars, server>>

\* A run keeps its token for all of its calls; the issuers' tokens live for minutes.
Expire(r) ==
    /\ token[r].issuer # "none"
    /\ ~token[r].expired
    /\ place[r] \notin Ended
    /\ token' = [token EXCEPT ![r].expired = TRUE]
    /\ UNCHANGED <<keyVars, place, server>>

-----------------------------------------------------------------------------
(* The middleware *)

\* ValidateToken that takes the issuer's URL without looking it up.
Authenticate_AnyIssuer(r) ==
    /\ place[r] = "authenticate"
    /\ \/ /\ token[r].issuer = "none" \/ token[r].expired
          /\ Go(r, "unauthorized")
       \/ /\ token[r].issuer # "none" /\ ~token[r].expired
          /\ Go(r, IF token[r].issuer \in registered[server[r]] THEN "verify" ELSE "register")
    /\ UNCHANGED <<keyVars, token, server>>

\* registerJWKSEndpoints without asking IsRegistered.
Authenticate_AlwaysRegisters(r) ==
    /\ place[r] = "authenticate"
    /\ Go(r, IF token[r].expired \/ token[r].issuer \notin Issuers
               THEN "unauthorized" ELSE "register")
    /\ UNCHANGED <<keyVars, token, server>>

\* The middleware and ValidateToken up to IsRegistered: what can be said of the token
\* without its issuer's keys.
Authenticate(r) ==
    /\ place[r] = "authenticate"
    /\ \/ /\ token[r].expired \/ token[r].issuer \notin Issuers
          /\ Go(r, "unauthorized")
       \/ /\ ~token[r].expired /\ token[r].issuer \in Issuers
          /\ Go(r, IF token[r].issuer \in registered[server[r]] THEN "verify" ELSE "register")
    /\ UNCHANGED <<keyVars, token, server>>

\* Register, which refuses a URL that another call has registered since; the call
\* that registers it waits for the first fetch.
Register(r) ==
    /\ place[r] = "register"
    /\ \/ /\ token[r].issuer \in registered[server[r]]
          /\ Go(r, "unauthorized")
          /\ UNCHANGED registered
       \/ /\ token[r].issuer \notin registered[server[r]]
          /\ registered' = [registered EXCEPT ![server[r]] = @ \cup {token[r].issuer}]
          /\ Go(r, "ready")
    /\ UNCHANGED <<published, keySet, token, server>>

Ready(r) ==
    /\ place[r] = "ready"
    /\ token[r].issuer \in Issuers
    /\ keySet[server[r]][token[r].issuer] # {}
    /\ Go(r, "verify")
    /\ UNCHANGED <<keyVars, token, server>>

Verifies(r) ==
    /\ ~token[r].expired
    /\ token[r].key \in keySet[server[r]][token[r].issuer]
    /\ ParsesClaims(OIDCProvider(token[r].issuer))

\* The second Parse, against the cached key set, and parseClaims.
Verify(r) ==
    /\ place[r] = "verify"
    /\ \/ Verifies(r) /\ Go(r, "authorized")
       \/ ~Verifies(r) /\ Go(r, "unauthorized")
    /\ UNCHANGED <<keyVars, token, server>>

-----------------------------------------------------------------------------
(* httprc and the issuers *)

Fetch(s, issuer) ==
    /\ issuer \in registered[s]
    /\ keySet' = [keySet EXCEPT ![s][issuer] = published[issuer]]
    /\ UNCHANGED <<published, registered, callVars>>

\* A new key takes over; the ones before it are withdrawn at once or later.
Rotate(issuer) ==
    /\ \E key \in Newest(issuer), kept \in {{}, published[issuer]} :
          /\ key < MaxKey[issuer]
          /\ published' = [published EXCEPT ![issuer] = kept \cup {key + 1}]
    /\ UNCHANGED <<registered, keySet, callVars>>

\* The cache lives in the server's memory.
ForgetKeys(s) ==
    /\ registered' = [registered EXCEPT ![s] = {}]
    /\ keySet' = [keySet EXCEPT ![s] = [i \in Issuers |-> {}]]

CallStep(r) ==
    \/ RequestToken(r)
    \/ RequestTokenFails(r)
    \/ LocalToken(r)
    \/ BringToken(r)
    \/ Authenticate(r)
    \/ Register(r)
    \/ Ready(r)
    \/ Verify(r)

-----------------------------------------------------------------------------
(* Properties *)

\* Keys come from registered URLs.
AuthTypeOK ==
    /\ published \in [Issuers -> SUBSET Nat]
    /\ registered \in [Servers -> SUBSET Issuers]
    /\ keySet \in [Servers -> [Issuers -> SUBSET Nat]]
    /\ \A s \in Servers : {i \in Issuers : keySet[s][i] # {}} \subseteq registered[s]
    /\ token \in [Runs -> Tokens]
    /\ place \in [Runs -> {"token", "send", "authorized"} \cup InMiddleware \cup Ended]
    /\ server \in [Runs -> Servers]

=============================================================================
