--------------------------- MODULE OpsClient_proofs ---------------------------
(***************************************************************************)
(* The properties of OpsClient for any interval, timeout, skew, lifetimes  *)
(* and any behaviour of OPS.                                               *)
(***************************************************************************)
EXTENDS OpsClient, TLAPS

\* The token's end as OPS sees it bounds the end the client reckons with, and a
\* token about to be used was alive by the client's reckoning.
TokenInv ==
    /\ token # None => expiry <= token.dies + Timeout - Skew
    /\ pc = "get" => now < token.dies + Timeout - Skew

\* The throttle knows the end of the last GET.
LastInv ==
    /\ last = None <=> sent = None
    /\ sent # None => last = sent.until /\ last <= now

\* After a 401 only a new token is used.
RetryInv ==
    /\ pc = "token" /\ retried => token = None
    /\ pc = "get" /\ retried => token.after = <<fetches, gets>>
    /\ pc # "idle" => answer = "none"

\* Two GETs for each candidate that is done with, one if it is being retried.
CountInv ==
    pc # "idle" =>
        /\ formats >= 1
        /\ tried >= 1
        /\ tried + formats <= MaxFormats + 1
        /\ gets <= 2 * (tried - 1) + (IF retried THEN 1 ELSE 0)

OpsInv ==
    /\ OpsTypeOK /\ TokenInv /\ LastInv /\ RetryInv /\ CountInv
    /\ RequestsSpaced /\ TokenNotLate /\ RejectedTwiceWithNewToken /\ FewRequests

---------------------------------------------------------------------------
\* What a GET does, whatever its answer: it leaves the throttle's record right,
\* keeps its distance and carries a token that is not late.
LEMMA GetLemma ==
    ASSUME OpsInv, NEW d \in 0 .. Timeout, Get(d)
    PROVE  /\ now' \in Nat /\ last' \in Nat /\ gets' = gets + 1 /\ sent' \in Sent
           /\ LastInv' /\ RequestsSpaced' /\ TokenNotLate'
           /\ pc = "get" /\ token \in Token /\ answer = "none"
<1> USE OpsAssumption
<1> DEFINE at == now + Throttle
<1>1. /\ pc = "get" /\ token \in Token /\ answer = "none" /\ now \in Nat
      /\ last \in Nat \cup {None} /\ sent \in Sent \cup {None} /\ d \in Nat /\ gets \in Nat
  BY DEF OpsInv, OpsTypeOK, RetryInv, Get, Request
<1>2. /\ Throttle \in 0 .. Interval
      /\ last # None => at - last >= Interval
  BY <1>1 DEF OpsInv, LastInv, Throttle
<1>3. at \in Nat /\ at <= now + Interval
  BY <1>1, <1>2
<1>4. /\ now' = at + d /\ gets' = gets + 1 /\ last' = now'
      /\ sent' = [at |-> at, until |-> now', dies |-> token.dies,
                  gap |-> IF sent = None THEN Interval ELSE at - sent.until]
  BY DEF Get, Request
<1> HIDE DEF at
<1>5. now' \in Nat /\ last' \in Nat /\ token.dies \in Int
  BY <1>1, <1>3, <1>4 DEF Token
<1>6. sent # None => sent.until \in Int /\ sent.until = last
  BY <1>1 DEF OpsInv, LastInv, Sent
<1>7. (IF sent = None THEN Interval ELSE at - sent.until) \in Int
  BY <1>3, <1>6
<1>8. sent' \in Sent
  BY <1>3, <1>4, <1>5, <1>7 DEF Sent
<1>9. sent' # None /\ last' # None
  BY <1>5, <1>8 DEF Sent
<1>10. LastInv'
  BY <1>4, <1>5, <1>9 DEF LastInv
<1>11. RequestsSpaced'
  <2>1. CASE sent = None
    BY <1>4, <2>1 DEF RequestsSpaced
  <2>2. CASE sent # None
    <3>1. last # None
      BY <2>2 DEF OpsInv, LastInv
    <3> QED BY <1>2, <1>3, <1>4, <1>6, <2>2, <3>1 DEF RequestsSpaced, at
  <2> QED BY <2>1, <2>2
<1>12. TokenNotLate'
  <2>1. now < token.dies + Timeout - Skew
    BY <1>1 DEF OpsInv, TokenInv
  <2> QED BY <1>1, <1>3, <1>4, <1>5, <2>1 DEF TokenNotLate
<1> QED BY <1>1, <1>4, <1>5, <1>8, <1>10, <1>11, <1>12

\* How a reference ends that has an answer.
LEMMA EndLemma ==
    ASSUME OpsInv, NEW d \in 0 .. Timeout, Get(d),
           NEW how \in {"found", "not_found", "unauthorised", "failed"}, End(how),
           how = "unauthorised" => retried,
           UNCHANGED <<token, expiry, formats, retried, fetches, tried>>
    PROVE  OpsInv'
<1> USE OpsAssumption
<1>1. /\ now' \in Nat /\ last' \in Nat /\ gets' = gets + 1 /\ sent' \in Sent
      /\ LastInv' /\ RequestsSpaced' /\ TokenNotLate'
      /\ pc = "get" /\ token \in Token /\ answer = "none"
  BY GetLemma
<1>2. gets \in Nat /\ tried \in Nat /\ fetches \in Nat
  BY DEF OpsInv, OpsTypeOK
<1>3. OpsTypeOK'
  BY <1>1, <1>2 DEF OpsInv, OpsTypeOK, End
<1>4. TokenInv' /\ RetryInv' /\ CountInv'
  BY <1>1 DEF OpsInv, TokenInv, RetryInv, CountInv, End
<1>5. RejectedTwiceWithNewToken'
  <2>1. CASE how = "unauthorised"
    <3>1. token.after = <<fetches, gets>>
      BY <1>1, <2>1 DEF OpsInv, RetryInv
    <3>2. token # None
      BY <1>1 DEF OpsInv, OpsTypeOK
    <3> QED BY <1>1, <1>2, <3>1, <3>2 DEF RejectedTwiceWithNewToken
  <2>2. CASE how # "unauthorised"
    BY <2>2 DEF RejectedTwiceWithNewToken, End
  <2> QED BY <2>1, <2>2
<1>6. FewRequests'
  BY <1>1, <1>2 DEF OpsInv, CountInv, FewRequests
<1> QED BY <1>1, <1>3, <1>4, <1>5, <1>6 DEF OpsInv

---------------------------------------------------------------------------
\* OpsInv is inductive, and with it every property of the client.
THEOREM OpsInvariant == Spec => []OpsInv
<1> USE OpsAssumption
<1>1. Init => OpsInv
  <2> SUFFICES ASSUME Init PROVE OpsInv
    OBVIOUS
  <2>1. OpsTypeOK
    <3>1. /\ now \in Nat /\ expiry \in Int /\ formats \in 0 .. MaxFormats
          /\ fetches \in 0 .. MaxFetches /\ gets \in Nat /\ tried \in 0 .. MaxFormats
      BY DEF Init
    <3>2. retried \in BOOLEAN
      BY DEF Init
    <3> QED BY <3>1, <3>2 DEF Init, OpsTypeOK
  <2>2. TokenInv /\ LastInv /\ RetryInv /\ CountInv
    BY DEF Init, TokenInv, LastInv, RetryInv, CountInv
  <2>3. RequestsSpaced /\ TokenNotLate /\ RejectedTwiceWithNewToken /\ FewRequests
    BY DEF Init, RequestsSpaced, TokenNotLate, RejectedTwiceWithNewToken, FewRequests
  <2> QED BY <2>1, <2>2, <2>3 DEF OpsInv
<1>2. OpsInv /\ [Next]_vars => OpsInv'
  <2> SUFFICES ASSUME OpsInv, [Next]_vars
               PROVE  OpsInv'
    OBVIOUS
  <2>1. ASSUME NEW n \in 1 .. MaxFormats, NEW d \in 0 .. MaxIdle, Ask(n, d)
        PROVE  OpsInv'
    <3>1. OpsTypeOK'
      <4>1. /\ now' = now + d /\ fetches' = fetches + 1 /\ pc' = "token" /\ formats' = n
            /\ gets' = 0 /\ tried' = 1 /\ answer' = "none" /\ fetches < MaxFetches
            /\ UNCHANGED <<token, expiry, last, sent>>
        BY <2>1 DEF Ask
      <4>2. now' \in Nat /\ fetches' \in 0 .. MaxFetches /\ gets' \in Nat
        BY <4>1 DEF OpsInv, OpsTypeOK
      <4>3. formats' \in 0 .. MaxFormats /\ tried' \in 0 .. MaxFormats
        BY <4>1
      <4>4. retried' \in BOOLEAN
        BY <2>1 DEF Ask
      <4> QED BY <4>1, <4>2, <4>3, <4>4 DEF OpsInv, OpsTypeOK
    <3>2. TokenInv' /\ RetryInv' /\ RejectedTwiceWithNewToken'
      BY <2>1 DEF Ask, OpsInv, TokenInv, RetryInv, RejectedTwiceWithNewToken
    <3>3. LastInv' /\ RequestsSpaced' /\ TokenNotLate'
      BY <2>1 DEF Ask, OpsInv, OpsTypeOK, LastInv, RequestsSpaced, TokenNotLate
    <3>4. CountInv' /\ FewRequests'
      BY <2>1 DEF Ask, CountInv, FewRequests
    <3> QED BY <3>1, <3>2, <3>3, <3>4 DEF OpsInv
  <2>2. CASE UseCachedToken
    <3>1. TokenInv'
      BY <2>2 DEF UseCachedToken, Expired, clock, OpsInv, OpsTypeOK, TokenInv, Token
    <3> QED
      BY <2>2, <3>1 DEF UseCachedToken, Expired, clock, OpsInv, OpsTypeOK, LastInv, RetryInv,
        CountInv, RequestsSpaced, TokenNotLate, RejectedTwiceWithNewToken, FewRequests
  <2>3. ASSUME NEW before \in 0 .. Timeout, NEW after \in 0 .. Timeout, NEW life \in Lifetimes,
               before + after <= Timeout, Authenticate(before, after, life)
        PROVE  OpsInv'
    <3>1. /\ now' = now + before + after /\ expiry' = now' + life - Skew
          /\ token' = [dies |-> now + before + life, after |-> <<fetches, gets>>]
          /\ pc' = "get" /\ pc = "token"
          /\ UNCHANGED <<last, formats, retried, fetches, gets, tried, sent, answer>>
      BY <2>3 DEF Authenticate
    <3>2. now \in Nat /\ fetches \in Nat /\ gets \in Nat /\ life \in Nat /\ Skew < life
      BY DEF OpsInv, OpsTypeOK
    <3>3. token' \in Token /\ token' # None
      BY <3>1, <3>2 DEF Token
    <3>4. OpsTypeOK'
      BY <3>1, <3>2, <3>3 DEF OpsInv, OpsTypeOK
    <3>5. TokenInv'
      BY <2>3, <3>1, <3>2 DEF TokenInv
    <3>6. LastInv' /\ RequestsSpaced' /\ TokenNotLate' /\ FewRequests' /\ CountInv'
      BY <3>1, <3>2 DEF OpsInv, OpsTypeOK, LastInv, RequestsSpaced, TokenNotLate, FewRequests,
                        CountInv
    <3>7. RetryInv' /\ RejectedTwiceWithNewToken'
      BY <3>1, <3>2 DEF OpsInv, RetryInv, RejectedTwiceWithNewToken
    <3> QED BY <3>4, <3>5, <3>6, <3>7 DEF OpsInv
  <2>4. ASSUME NEW d \in 0 .. Timeout, AuthenticationFails(d)
        PROVE  OpsInv'
    BY <2>4 DEF AuthenticationFails, End, OpsInv, OpsTypeOK, TokenInv, LastInv, RetryInv,
        CountInv, RequestsSpaced, TokenNotLate, RejectedTwiceWithNewToken, FewRequests
  <2>5. ASSUME NEW d \in 0 .. Timeout, Found(d) \/ RejectedAgain(d) \/ Refused(d)
        PROVE  OpsInv'
    BY <2>5, EndLemma DEF Found, RejectedAgain, Refused
  <2>6. ASSUME NEW d \in 0 .. Timeout, Rejected(d)
        PROVE  OpsInv'
    <3>1. Get(d) /\ ~ retried /\ retried' = TRUE /\ token' = None /\ pc' = "token"
          /\ UNCHANGED <<expiry, formats, fetches, tried, answer>>
      BY <2>6 DEF Rejected
    <3>2. /\ now' \in Nat /\ last' \in Nat /\ gets' = gets + 1 /\ sent' \in Sent
          /\ LastInv' /\ RequestsSpaced' /\ TokenNotLate'
          /\ pc = "get" /\ token \in Token /\ answer = "none"
      BY <3>1, GetLemma
    <3>3. OpsTypeOK'
      BY <3>1, <3>2 DEF OpsInv, OpsTypeOK
    <3>4. TokenInv' /\ RetryInv' /\ RejectedTwiceWithNewToken'
      BY <3>1, <3>2 DEF TokenInv, RetryInv, RejectedTwiceWithNewToken
    <3>5. CountInv' /\ FewRequests'
      BY <3>1, <3>2 DEF OpsInv, OpsTypeOK, CountInv, FewRequests
    <3> QED BY <3>2, <3>3, <3>4, <3>5 DEF OpsInv
  <2>7. ASSUME NEW d \in 0 .. Timeout, Missing(d)
        PROVE  OpsInv'
    <3>1. CASE formats > 1
      <4>1. /\ Get(d) /\ formats' = formats - 1 /\ tried' = tried + 1 /\ retried' = FALSE
            /\ pc' = "token" /\ UNCHANGED <<token, expiry, fetches, answer>>
        BY <2>7, <3>1 DEF Missing
      <4>2. /\ now' \in Nat /\ last' \in Nat /\ gets' = gets + 1 /\ sent' \in Sent
            /\ LastInv' /\ RequestsSpaced' /\ TokenNotLate'
            /\ pc = "get" /\ token \in Token /\ answer = "none"
        BY <4>1, GetLemma
      <4>3. /\ formats \in Nat /\ tried \in Nat /\ gets \in Nat /\ fetches \in 0 .. MaxFetches
            /\ tried >= 1 /\ tried + formats <= MaxFormats + 1
            /\ gets <= 2 * (tried - 1) + 1
        BY <4>2 DEF OpsInv, OpsTypeOK, CountInv
      <4>5. OpsTypeOK'
        <5>1. formats' \in 0 .. MaxFormats /\ tried' \in 0 .. MaxFormats
          BY <3>1, <4>1, <4>3 DEF OpsInv, OpsTypeOK
        <5>2. retried' \in BOOLEAN
          BY <4>1
        <5>3. gets' \in Nat
          BY <4>2, <4>3
        <5> QED BY <4>1, <4>2, <5>1, <5>2, <5>3 DEF OpsInv, OpsTypeOK
      <4>6. CountInv' /\ FewRequests'
        BY <3>1, <4>1, <4>2, <4>3 DEF CountInv, FewRequests
      <4>4. TokenInv' /\ RetryInv' /\ RejectedTwiceWithNewToken'
        BY <4>1, <4>2 DEF OpsInv, TokenInv, RetryInv, RejectedTwiceWithNewToken
      <4> QED BY <4>2, <4>4, <4>5, <4>6 DEF OpsInv
    <3>2. CASE ~ (formats > 1)
      BY <2>7, <3>2, EndLemma DEF Missing
    <3> QED BY <3>1, <3>2
  <2>8. CASE UNCHANGED vars
    BY <2>8 DEF vars, OpsInv, OpsTypeOK, TokenInv, LastInv, RetryInv, CountInv,
        RequestsSpaced, TokenNotLate, RejectedTwiceWithNewToken, FewRequests
  <2> QED BY <2>1, <2>2, <2>3, <2>4, <2>5, <2>6, <2>7, <2>8 DEF Next
<1> QED BY <1>1, <1>2, PTL DEF Spec

\* Type correctness of the client.
THEOREM OpsTypes == Spec => []OpsTypeOK
<1>1. OpsInv => OpsTypeOK
  BY DEF OpsInv
<1> QED BY <1>1, OpsInvariant, PTL

\* GETs keep their distance, across failures, retries and new tokens.
THEOREM OpsRequestsSpaced == Spec => []RequestsSpaced
<1>1. OpsInv => RequestsSpaced
  BY DEF OpsInv
<1> QED BY <1>1, OpsInvariant, PTL

\* How late a token can be when it is sent.
THEOREM OpsTokenNotLate == Spec => []TokenNotLate
<1>1. OpsInv => TokenNotLate
  BY DEF OpsInv
<1> QED BY <1>1, OpsInvariant, PTL

\* A 401 is reported only for a token got after the first 401.
THEOREM OpsRejectedTwice == Spec => []RejectedTwiceWithNewToken
<1>1. OpsInv => RejectedTwiceWithNewToken
  BY DEF OpsInv
<1> QED BY <1>1, OpsInvariant, PTL

\* A reference costs at most two GETs per candidate.
THEOREM OpsFewRequests == Spec => []FewRequests
<1>1. OpsInv => FewRequests
  BY DEF OpsInv
<1> QED BY <1>1, OpsInvariant, PTL

===========================================================================
