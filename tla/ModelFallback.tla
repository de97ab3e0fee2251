----------------------------- MODULE ModelFallback -----------------------------
(***************************************************************************)
(* One call of the language-model client (app/services/llm_client.py): a   *)
(* chat asks the candidate models in order until one answers; a stream     *)
(* does so too, piece by piece, and if no candidate streams anything it    *)
(* makes one chat of it.  What a provider answers is an external choice.   *)
(***************************************************************************)
EXTENDS Naturals

CONSTANT Candidates     \* how many models there are, the requested one first

ASSUME CandidatesAssumption == Candidates \in Nat \ {0}

VARIABLES
    call,       \* what was called: "chat" or "stream"
    phase,      \* "stream", "chat" or "over"
    next,       \* the candidate to be asked
    voices,     \* the candidates whose text the caller has been given
    outcome,    \* how the call ended: "text", "silence" or "raised"
    refused     \* ghost: the candidates that gave no text, or broke it off

fallbackVars == <<call, phase, next, voices, outcome, refused>>

Models == 1 .. Candidates

FallbackInit ==
    /\ call \in {"chat", "stream"}
    /\ phase = call
    /\ next = 1
    /\ voices = {}
    /\ outcome = "none"
    /\ refused = {}

Over(how) == phase' = "over" /\ outcome' = how /\ UNCHANGED <<call, next>>

\* The loop goes on to the next candidate.  After the last, a stream asks them
\* all again by a chat, and a chat raises: a stream's chat is caught, and gives
\* the caller an empty text.
GoOn ==
    IF next < Candidates THEN next' = next + 1 /\ UNCHANGED <<call, phase, outcome>>
    ELSE IF phase = "stream" THEN phase' = "chat" /\ next' = 1 /\ UNCHANGED <<call, outcome>>
    ELSE Over(IF call = "chat" THEN "raised" ELSE IF voices = {} THEN "silence" ELSE "text")

\* 429, 5xx, another error status, a timeout, no connection.
Refused ==
    /\ phase # "over"
    /\ refused' = refused \cup {next}
    /\ GoOn
    /\ UNCHANGED voices

\* Fault: an empty stream counts as an answer.
StreamEndsAnyhow ==
    /\ phase = "stream"
    /\ refused' = refused \cup {next}
    /\ Over("silence")
    /\ UNCHANGED voices

\* A stream that ends without a piece of text is passed over.
StreamEmpty ==
    /\ phase = "stream"
    /\ refused' = refused \cup {next}
    /\ GoOn
    /\ UNCHANGED voices

StreamAnswers ==
    /\ phase = "stream"
    /\ voices' = voices \cup {next}
    /\ Over("text")
    /\ UNCHANGED refused

\* The connection breaks after some pieces: the next candidate begins anew,
\* behind what the caller has already been given.
StreamBreaks ==
    /\ phase = "stream"
    /\ voices' = voices \cup {next}
    /\ refused' = refused \cup {next}
    /\ GoOn

\* A chat's answer is the caller's, although its text may be empty: then it
\* carries tool calls, or nothing.
ChatAnswers ==
    /\ phase = "chat"
    /\ \/ voices' = voices \cup {next} /\ UNCHANGED refused
       \/ refused' = refused \cup {next} /\ UNCHANGED voices
    /\ Over(IF call = "stream" /\ voices' = {} THEN "silence" ELSE "text")

\* An answer that is no JSON, or not of the expected shape, is no error of the
\* transport: it ends the call, but a stream's chat is caught.
Malformed ==
    /\ phase # "over"
    /\ refused' = refused \cup {next}
    /\ voices' \in {voices} \cup (IF phase = "stream" THEN {voices \cup {next}} ELSE {})
    /\ Over(IF phase = call THEN "raised" ELSE IF voices = {} THEN "silence" ELSE "text")

FallbackNext ==
    \/ Refused \/ Malformed
    \/ StreamEmpty \/ StreamAnswers \/ StreamBreaks
    \/ ChatAnswers

FallbackSpec == FallbackInit /\ [][FallbackNext]_fallbackVars

-----------------------------------------------------------------------------
(* Properties.                                                             *)

\* A caller of the stream is left without a word only if every candidate was
\* asked and none had any, and of two voices in one text all but one broke off.
SilenceIsExhausted ==
    /\ outcome = "silence" => voices = {} /\ refused = Models
    /\ \A a, b \in voices : a # b => a \in refused \/ b \in refused
===============================================================================
