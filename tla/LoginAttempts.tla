---- MODULE LoginAttempts ----
(***************************************************************************)
(* What the authorization code flow promises, without requests, cookies,   *)
(* tokens or time: a login attempt is begun by one browser for one page,   *)
(* is redeemed at most once, by that browser, and ends in at most one      *)
(* session or fails for good.                                              *)
(***************************************************************************)
CONSTANTS Browsers, Attempts, Urls, None

VARIABLE attempts   \* by the id of the request that began it

Phases == {"unused", "open", "redeeming", "signedIn", "over"}

\* browser began the attempt, redeemer is the browser that gets its session.
Attempt == [phase : Phases, browser : Browsers \cup {None},
            url : Urls \cup {None}, redeemer : Browsers \cup {None}]

Unused == [phase |-> "unused", browser |-> None, url |-> None,
           redeemer |-> None]

LoginAttemptsTypeOK == attempts \in [Attempts -> Attempt]

LoginAttemptsInit == attempts = [a \in Attempts |-> Unused]

\* The attempt a moves on; the others, its browser and its page stay.
Move(a, from, to, redeemer) ==
    /\ attempts[a].phase = from
    /\ attempts' = [attempts EXCEPT ![a].phase = to, ![a].redeemer = redeemer]

Begin(a, b, url) ==
    /\ attempts[a] = Unused
    /\ attempts' = [attempts EXCEPT ![a] =
         [Unused EXCEPT !.phase = "open", !.browser = b, !.url = url]]

\* The stored state is used up to get tokens, by the browser that began.
Redeem(a) == Move(a, "open", "redeeming", attempts[a].browser)

\* A session is created; the tokens were not good enough for one.
SignIn(a) == Move(a, "redeeming", "signedIn", attempts[a].redeemer)
Fail(a) == Move(a, "redeeming", "over", None)

\* The state is dropped: by the store, or by a callback that reports an error
\* or comes too late.
Close(a) == Move(a, "open", "over", None)

LoginAttemptsNext == \E a \in Attempts :
    \/ \E b \in Browsers, url \in Urls : Begin(a, b, url)
    \/ Redeem(a) \/ SignIn(a) \/ Fail(a) \/ Close(a)

LoginAttemptsSpec == LoginAttemptsInit /\ [][LoginAttemptsNext]_attempts

====
