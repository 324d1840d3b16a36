------------------------------- MODULE RequestStep -------------------------------
(***************************************************************************)
(* One execution of a step that asks a peer: an http step or an llm step   *)
(* (internal/workflow/step_http.go, step_llm.go).                          *)
(*                                                                         *)
(* The peer, and for OpenAI and Anthropic the SDK with its retries, are    *)
(* external: a call is one exchange, which may break at any moment or stay *)
(* without an answer for ever.  The text of prompts and answers is left    *)
(* out; that expressions may fail is WorkflowRun's.                        *)
(***************************************************************************)
EXTENDS Naturals

CONSTANTS
    RequestMayFail   \* the request cannot be built: a bad URL, body, or no API key

ASSUME RequestAssumption == RequestMayFail \in BOOLEAN

VARIABLES
    provider,  \* http, openai, anthropic, mock
    limited,   \* the client gives up after some time
    rpc,       \* where Execute is: build, call, body, done
    peer,      \* the peer: idle, asked, begun, whole, refused, broken
    rlate,     \* the time is up
    rresult    \* what Execute returned: nothing yet, ok, error

reqVars == <<provider, limited, rpc, peer, rlate, rresult>>

Requests == {"http", "openai", "anthropic", "mock"}

RequestInit ==
    /\ provider = "http" /\ limited = FALSE
    /\ rpc = "build" /\ peer = "idle"
    /\ rlate = FALSE /\ rresult = "none"

\* The step's timeout counts for http alone: 30 seconds if it is 0, and none at
\* all if it is negative.
Begin(kind, timeout) ==
    /\ provider' = kind
    /\ limited' = (kind = "http" /\ timeout # "negative")
    /\ rpc' = "build" /\ peer' = "idle"
    /\ rlate' = FALSE /\ rresult' = "none"

RequestReturns(r) == rpc' = "done" /\ rresult' = r

----------------------------------------------------------------------------
(* The program *)

BuildFails ==
    /\ rpc = "build" /\ RequestMayFail /\ provider # "mock"
    /\ RequestReturns("error")
    /\ UNCHANGED <<provider, limited, peer, rlate>>

\* By what the prompt says.
MockAnswers ==
    /\ rpc = "build" /\ provider = "mock"
    /\ RequestReturns("ok") \/ RequestReturns("error")
    /\ UNCHANGED <<provider, limited, peer, rlate>>

Send ==
    /\ rpc = "build" /\ provider # "mock"
    /\ rpc' = "call" /\ peer' = "asked"
    /\ UNCHANGED <<provider, limited, rlate, rresult>>

\* client.Do returns with the header, whatever its status.
HeaderComes ==
    /\ rpc = "call" /\ provider = "http" /\ peer \in {"begun", "whole", "refused"}
    /\ rpc' = "body"
    /\ UNCHANGED <<provider, limited, peer, rlate, rresult>>

\* Mutant: the error of reading the body is dropped.
BodyTakenAsIs ==
    /\ rpc = "body" /\ peer \in {"whole", "refused", "broken"}
    /\ RequestReturns("ok")
    /\ UNCHANGED <<provider, limited, peer, rlate>>

\* To its end; JSON or not, it is the answer.
BodyRead ==
    /\ rpc = "body" /\ peer \in {"whole", "refused"}
    /\ RequestReturns("ok")
    /\ UNCHANGED <<provider, limited, peer, rlate>>

\* The SDK makes an error of a status; an answer may have no choices or content.
CompletionComes ==
    /\ rpc = "call" /\ provider # "http" /\ peer \in {"whole", "refused"}
    /\ RequestReturns("error") \/ (peer = "whole" /\ RequestReturns("ok"))
    /\ UNCHANGED <<provider, limited, peer, rlate>>

CallFails ==
    /\ rpc \in {"call", "body"} /\ (peer = "broken" \/ rlate)
    /\ RequestReturns("error")
    /\ UNCHANGED <<provider, limited, peer, rlate>>

TimeIsUp ==
    /\ limited /\ ~rlate /\ rpc \in {"call", "body"}
    /\ rlate' = TRUE
    /\ UNCHANGED <<provider, limited, rpc, peer, rresult>>

----------------------------------------------------------------------------
(* The peer *)

PeerMoves(from, to) ==
    /\ peer = from /\ peer' = to
    /\ UNCHANGED <<provider, limited, rpc, rlate, rresult>>

Peer ==
    \/ PeerMoves("asked", "begun")
    \/ PeerMoves("begun", "whole") \/ PeerMoves("begun", "refused")
    \/ PeerMoves("asked", "broken") \/ PeerMoves("begun", "broken")

----------------------------------------------------------------------------
RequestProceeds ==
    BuildFails \/ MockAnswers \/ Send \/ HeaderComes \/ BodyRead \/ CompletionComes \/ CallFails

\* The program waits for a peer that keeps silent, and nothing ends the wait.
Unanswered == rpc \in {"call", "body"} /\ ~limited /\ peer \in {"asked", "begun"}

\* A step that succeeds has the whole answer of its peer, of OpenAI and Anthropic
\* one that is not an error.
AnswerIsWhole ==
    rresult = "ok" => peer = "whole" \/ (provider = "http" /\ peer = "refused") \/ provider = "mock"
================================================================================
