------------------------------ MODULE OpsClient ------------------------------
(***************************************************************************)
(* OpsClient (src/forge/connectors/epo_ops/client.py): the bearer token,   *)
(* the throttle and the retries between Connector.run, or S2's searches,   *)
(* and EPO OPS.  One client object belongs to one thread; what it races    *)
(* with is time.  Time passes while the client is idle, while it sleeps    *)
(* and while a request is under way; its own code takes none.              *)
(*                                                                         *)
(* OPS and the network answer as they like: a token may be rejected before *)
(* its end, and a request may fail or take up to Timeout.                  *)
(***************************************************************************)
EXTENDS Integers

CONSTANTS
    Interval,     \* min_request_interval_seconds
    Timeout,      \* request_timeout_seconds: how long a request may take
    Skew,         \* _TOKEN_SKEW_SECONDS
    Lifetimes,    \* the expires_in that OPS grants
    MaxFormats,   \* bound: the (format, number) candidates of one reference
    MaxFetches,   \* bound: references and searches asked for
    MaxIdle,      \* bound: the time the client is idle before one of them
    None          \* no token, no earlier request, no answer

ASSUME OpsAssumption ==
    /\ Interval \in Nat
    /\ Timeout \in Nat
    /\ Skew \in Nat
    /\ Lifetimes \subseteq Nat
    /\ \A life \in Lifetimes : Skew < life
    /\ MaxFormats \in Nat
    /\ MaxFetches \in Nat
    /\ MaxIdle \in Nat
    /\ None \notin Int
    /\ None \notin [dies : Int, after : Nat \X Nat]
    /\ None \notin [at : Int, until : Int, gap : Int, dies : Int]

VARIABLES
    now,       \* the monotonic clock
    token,     \* _token: when OPS ends it; history: <<fetches, gets>> at its issue
    expiry,    \* _token_expiry
    last,      \* _last_request_at: the end of the last GET
    pc,        \* "idle", before _ensure_token, or before _get
    formats,   \* reference candidates not yet answered
    retried,   \* fetch has re-authenticated after a 401
    fetches,   \* number of references and searches asked for so far
    gets,      \* history: GETs sent for this reference
    tried,     \* history: candidates tried for this reference
    sent,      \* history: the last GET: its start and end, the distance from the
               \* one before, and when its token ends
    answer     \* how the last reference ended

clock == <<now, token, expiry>>
vars  == <<now, token, expiry, last, pc, formats, retried, fetches, gets, tried, sent, answer>>

Token == [dies : Int, after : Nat \X Nat]
Sent  == [at : Int, until : Int, gap : Int, dies : Int]

OpsTypeOK ==
    /\ now \in Nat
    /\ token \in Token \cup {None}
    /\ expiry \in Int
    /\ last \in Nat \cup {None}
    /\ pc \in {"idle", "token", "get"}
    /\ pc = "get" => token # None
    /\ formats \in 0 .. MaxFormats
    /\ retried \in BOOLEAN
    /\ fetches \in 0 .. MaxFetches
    /\ gets \in Nat
    /\ tried \in 0 .. MaxFormats
    /\ sent \in Sent \cup {None}
    /\ answer \in {"none", "found", "not_found", "unauthorised", "failed"}

Init ==
    /\ now = 0
    /\ token = None
    /\ expiry = 0
    /\ last = None
    /\ pc = "idle"
    /\ formats = 0
    /\ retried = FALSE
    /\ fetches = 0
    /\ gets = 0
    /\ tried = 0
    /\ sent = None
    /\ answer = "none"

---------------------------------------------------------------------------
\* After d seconds idle: fetch_biblio of a reference with n candidates; a search
\* is a reference with one.
Ask(n, d) ==
    /\ pc = "idle"
    /\ fetches < MaxFetches
    /\ now' = now + d
    /\ fetches' = fetches + 1
    /\ pc' = "token"
    /\ formats' = n
    /\ retried' = FALSE
    /\ gets' = 0
    /\ tried' = 1
    /\ answer' = "none"
    /\ UNCHANGED <<token, expiry, last, sent>>

\* The reference has ended with a record or an exception.
End(how) ==
    /\ pc' = "idle"
    /\ answer' = how

---------------------------------------------------------------------------
(***************************************************************************)
(* _ensure_token and _authenticate.                                        *)
(***************************************************************************)
Expired == token = None \/ now >= expiry

UseCachedToken ==
    /\ pc = "token"
    /\ ~ Expired
    /\ pc' = "get"
    /\ UNCHANGED <<clock, last, formats, retried, fetches, gets, tried, sent, answer>>

\* Mutant of Authenticate: the token is used up to its stated end.
AuthenticateWithoutSkew(before, after, life) ==
    /\ pc = "token"
    /\ Expired
    /\ now' = now + before + after
    /\ token' = [dies |-> now + before + life, after |-> <<fetches, gets>>]
    /\ expiry' = now' + life
    /\ pc' = "get"
    /\ UNCHANGED <<last, formats, retried, fetches, gets, tried, sent, answer>>

\* OPS issues the token while the request is under way, the client counts its
\* lifetime from the answer.
Authenticate(before, after, life) ==
    /\ pc = "token"
    /\ Expired
    /\ now' = now + before + after
    /\ token' = [dies |-> now + before + life, after |-> <<fetches, gets>>]
    /\ expiry' = now' + life - Skew
    /\ pc' = "get"
    /\ UNCHANGED <<last, formats, retried, fetches, gets, tried, sent, answer>>

\* Missing credentials, a status other than 200, a malformed answer, no answer.
AuthenticationFails(d) ==
    /\ pc = "token"
    /\ Expired
    /\ now' = now + d
    /\ End("failed")
    /\ UNCHANGED <<token, expiry, last, formats, retried, fetches, gets, tried, sent>>

---------------------------------------------------------------------------
(***************************************************************************)
(* _get: the throttle, the request, and the time of its end, which is also *)
(* recorded when the transport raises.                                     *)
(***************************************************************************)
\* How long _throttle sleeps.
Throttle == IF last = None THEN 0
            ELSE IF now - last < Interval THEN Interval - (now - last) ELSE 0

Request(d) ==
    LET at == now + Throttle IN
    /\ pc = "get"
    /\ now' = at + d
    /\ gets' = gets + 1
    /\ sent' = [at |-> at, until |-> now', dies |-> token.dies,
                gap |-> IF sent = None THEN Interval ELSE at - sent.until]

Get(d) ==
    /\ Request(d)
    /\ last' = now'

Found(d) ==
    /\ Get(d)
    /\ End("found")
    /\ UNCHANGED <<token, expiry, formats, retried, fetches, tried>>

\* Mutant of Rejected: the rejected token stays in the cache.
RejectedKept(d) ==
    /\ Get(d)
    /\ ~ retried
    /\ retried' = TRUE
    /\ pc' = "token"
    /\ UNCHANGED <<token, expiry, formats, fetches, tried, answer>>

\* Mutant of Rejected: re-authenticate as often as OPS says 401.
RejectedForEver(d) ==
    /\ Get(d)
    /\ token' = None
    /\ retried' = TRUE
    /\ pc' = "token"
    /\ UNCHANGED <<expiry, formats, fetches, tried, answer>>

\* The first 401: forget the token and go round once more.
Rejected(d) ==
    /\ Get(d)
    /\ ~ retried
    /\ token' = None
    /\ retried' = TRUE
    /\ pc' = "token"
    /\ UNCHANGED <<expiry, formats, fetches, tried, answer>>

\* The second one is an OpsError; the token stays in the cache.
RejectedAgain(d) ==
    /\ Get(d)
    /\ retried
    /\ End("unauthorised")
    /\ UNCHANGED <<token, expiry, formats, retried, fetches, tried>>

\* A 404: the next candidate, in a call of fetch of its own, or OpsNotFound.
Missing(d) ==
    /\ Get(d)
    /\ IF formats > 1
         THEN /\ formats' = formats - 1
              /\ tried' = tried + 1
              /\ retried' = FALSE
              /\ pc' = "token"
              /\ UNCHANGED answer
         ELSE /\ End("not_found")
              /\ UNCHANGED <<formats, tried, retried>>
    /\ UNCHANGED <<token, expiry, fetches>>

\* Mutant of Refused: without the finally clause a request that raises does not
\* count for the throttle.
RefusedUnrecorded(d) ==
    /\ Request(d)
    /\ End("failed")
    /\ UNCHANGED <<token, expiry, last, formats, retried, fetches, tried>>

\* 403, 429, any other status, or a transport that raises.
Refused(d) ==
    /\ Get(d)
    /\ End("failed")
    /\ UNCHANGED <<token, expiry, formats, retried, fetches, tried>>

---------------------------------------------------------------------------
Next ==
    \/ \E n \in 1 .. MaxFormats, d \in 0 .. MaxIdle : Ask(n, d)
    \/ UseCachedToken
    \/ \E before, after \in 0 .. Timeout, life \in Lifetimes :
         before + after <= Timeout /\ Authenticate(before, after, life)
    \/ \E d \in 0 .. Timeout :
         \/ AuthenticationFails(d)
         \/ Found(d)
         \/ Rejected(d)
         \/ RejectedAgain(d)
         \/ Missing(d)
         \/ Refused(d)

Spec == Init /\ [][Next]_vars

---------------------------------------------------------------------------
(***************************************************************************)
(* Properties.                                                             *)
(***************************************************************************)
\* "Minimum spacing between calls" (connectors.yaml): between the end of a GET and
\* the start of the next, also after a failure, a retry or a new token.
RequestsSpaced == sent # None => sent.gap >= Interval

\* "The token is cached until shortly before expiry": it is checked before the
\* throttle sleeps, and its lifetime counted from a late answer, yet a GET carries
\* a token that OPS has ended only if Skew is less than the two delays together,
\* and then by less than the difference.
TokenNotLate == sent # None => sent.at < sent.dies + (Interval + Timeout - Skew)

\* "Re-authenticates once on a 401" (fetch): the 401 that is reported was answered
\* to a token got after the first one, never to the stale token again.
RejectedTwiceWithNewToken ==
    answer = "unauthorised" => token # None /\ token.after = <<fetches, gets - 1>>

\* OPS saying 401 for ever costs a reference two GETs per candidate, no more.
FewRequests == gets <= 2 * tried

===========================================================================
