------------------------------ MODULE LanguageModel ------------------------------
(***************************************************************************)
(* One call of a language model, through LM Studio, OpenAI or Gemini.      *)
(* There is no retry.  What comes back is an answer that fits the schema   *)
(* of the agent that asked, a refusal (LLMProviderError: no connection, a  *)
(* time-out, no text, no JSON, a field out of bounds) or, when the         *)
(* connection breaks after the request was sent, an exception of another   *)
(* class.                                                                  *)
(***************************************************************************)
EXTENDS Integers

CONSTANTS
  Provider,  \* "lmstudio", "openai" or "gemini"
  One        \* steps in a score of 1

ValidScore(n) == 0 - One <= n /\ n <= One

(* What the other side does: the text stands where the content is expected, *)
(* in the reasoning, or nowhere.                                            *)
Replies(drafts) ==
  [came : {"no", "broken", "yes"}, in : {"nowhere", "content", "reasoning"}, json : BOOLEAN,
   draft : drafts]

(* _openai_compatible_chat_content takes the reasoning of LM Studio for an  *)
(* answer when the content is empty; OpenAI's it does not.                  *)
LMStudioText(reply) == reply.in \in {"content", "reasoning"}
OpenAIText(reply) == reply.in = "content"
GeminiText(reply) == reply.in = "content"

(* The method of a role sends its prompt and hands the text to its parser;  *)
(* fits says whether the draft satisfies the schema of the role.            *)
LMStudioAnswers(reply, fits) == LMStudioText(reply) /\ fits
OpenAIAnswers(reply, fits) == OpenAIText(reply) /\ fits
GeminiAnswers(reply, fits) == GeminiText(reply) /\ fits

Outcome(reply, fits) ==
  CASE reply.came = "no" -> "refused"
    [] reply.came = "broken" -> "exception"
    [] OTHER ->
         IF /\ reply.json
            /\ \/ Provider = "lmstudio" /\ LMStudioAnswers(reply, fits)
               \/ Provider = "openai" /\ OpenAIAnswers(reply, fits)
               \/ Provider = "gemini" /\ GeminiAnswers(reply, fits)
         THEN "answer" ELSE "refused"

(* The schemas, as far as the agents tell answers apart.                    *)
TraderActions == {"BUY", "HOLD", "NO_TRADE", "REDUCE", "EXIT"}
FitsReport(draft) == ValidScore(draft.score)
FitsThesis(draft) == ValidScore(draft)
FitsSummary(draft) == ValidScore(draft)
FitsTrade(draft) == draft.action \in TraderActions
FitsExplanation(draft) == draft = "words"
=============================================================================
