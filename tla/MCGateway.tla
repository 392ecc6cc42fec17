------------------------------ MODULE MCGateway ------------------------------
(***************************************************************************)
(* The dispatch of a synchronous request, one run: the selection of an      *)
(* account (extended), the loop over accounts and retries, and the          *)
(* conversion of the answer for OpenAI clients (instanced). The loop may be *)
(* given any untried account, and the conversion reads any stream, so the   *)
(* properties of one part need only the behaviours in which it moves: focus *)
(* says which.                                                              *)
(***************************************************************************)
EXTENDS MCSelection

CONSTANTS
    \* of the loop over accounts and retries
    Pool, Jwt, Empty, Line, MaxAttempts, MaxCaptcha, MaxBusy, MaxRate,
    MaxOverload, MaxTimeouts, BusySwitchAfter, RiskLines, CoolOnFailure,
    MaxRounds,
    \* of the conversion
    Indices, MaxEvents

VARIABLES
    focus,          \* the part that moves
    \* the loop over accounts and retries
    pc, gone, late, acc, probe, probed, tried, avoid, n, b, guard, answer,
    scope, reply, mark, cut, replay, round, broke,
    \* the conversion of a stream
    policy, read, ends, chat, resp

EN == INSTANCE Engine WITH Accounts <- Pool

OA == INSTANCE OpenAIStreams

\* Two accounts share a line, the third has another one.
MCLine == [a \in Pool |-> IF a = "e2" THEN "x2" ELSE "x1"]

enVars == <<pc, gone, late, acc, probe, probed, tried, avoid, n, b, guard, answer,
    scope, reply, mark, cut, replay, round, broke>>
oaVars == <<policy, read, ends, chat, resp>>
allVars == <<focus, vars, enVars, oaVars>>

RunInit ==
    /\ focus \in {"selection", "engine", "openai"}
    /\ Init
    /\ focus = "selection" \/ acct = [a \in Accounts |-> Plain]
    /\ EN!Init
    /\ OA!Init
    /\ focus = "openai" \/ policy = "retryable"

Choice(A) ==
    /\ focus = "selection" /\ A
    /\ UNCHANGED <<focus, enVars, oaVars>>
Loop(A) ==
    /\ focus = "engine" /\ A
    /\ UNCHANGED <<focus, vars, oaVars>>
Convert(A) ==
    /\ focus = "openai" /\ A
    /\ UNCHANGED <<focus, vars, enVars>>

RunNext ==
    \/ Choice(Next)
    \/ Loop(EN!Next)
    \/ Convert(OA!Next)

RunSpec ==
    /\ RunInit /\ [][RunNext]_allVars

(* Of every call of the selection: it refuses only when nobody could serve and
   picks a maximum of one lexicographic order (Selection). *)
ChoosesWell == focus = "selection" => TypeOK /\ RefusedOnlyWhenEmpty /\ PicksTheBest

(* Whatever cursor other calls left, a call repeated over an unchanged pool goes
   round its equals (Selection). *)
SharesLoad == focus = "selection" => TakesTurns

(* The loop over accounts ends by one of its budgets, never by running out of
   rounds (Engine). *)
EveryRetryBooked == EN!EveryRetryBooked

(* The loop implements OneReply (Engine). *)
KeepsPromise == EN!KeepsPromise

(* The loop avoids the lines that broke the content (Engine). *)
RetryAvoidsCut == EN!RetryAvoidsCut

(* A client of the OpenAI interfaces that reads success holds every tool call
   whole, and the two interfaces agree on what success is but for the two events
   they judge differently (OpenAIStreams). *)
ConvertedWhole == OA!WholeToolCalls /\ OA!SameVerdict

=============================================================================
