---- MODULE Subrequests ----
(***************************************************************************)
(* The two internal subrequests every token handler waits for, reduced to  *)
(* the decision the code takes on their answer: requestToken (oauth.ts)    *)
(* and validateJwtSign (jwt.ts).  Both either let the handler go on or     *)
(* throw an HttpError, whose status the callers tell apart: a 401 means    *)
(* "the grant or the token is bad", any other one "something is broken".   *)
(***************************************************************************)
EXTENDS Integers

\* The status this module gives to "go on": no HttpError is thrown.
Proceed == 200

\* What the body of a token endpoint's answer can be to the code: a token
\* response, one without an ID token, anything else that is valid JSON, or an
\* OAuth error response.
TokenBodies == {"tokens", "no_id_token", "malformed"}
ErrorBodies == {"invalid_grant", "other_error"}

\* The answers of /-/internal/request-token; 502 and 504 also stand for an
\* endpoint that nginx could not reach or that did not answer in time.
TokenAnswers == [status : {200}, body : TokenBodies]
                  \cup [status : {400, 401}, body : ErrorBodies]
                  \cup [status : {500, 502, 504}, body : {"malformed"}]

\* requestToken: the status it throws, or Proceed.
RequestTokenStatus(answer) ==
    IF answer.status = 200 THEN IF answer.body = "tokens" THEN Proceed ELSE 500
    ELSE IF answer.status \in {400, 401}
         THEN IF answer.body = "invalid_grant" THEN 401 ELSE 500
         ELSE 502

\* The answers of /-/internal/validate-jwt: auth_jwt lets the request pass to
\* =204 or refuses it with 401; 500 is a key file that cannot be read.
JwtAnswers == {204, 401, 500}

\* validateJwtSign: the status it throws, or Proceed.
ValidateJwtStatus(status) ==
    IF status = 401 THEN 401 ELSE IF status = 204 THEN Proceed ELSE 500

====
