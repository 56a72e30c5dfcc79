--------------------------- MODULE RequestOptions ---------------------------
(***************************************************************************)
(* StreamSimple of every adapter, over src/ai/apis/simpleopts.go and       *)
(* src/ai/estimate.go: how many tokens a request asks for, and how many of *)
(* them a model may think with.                                            *)
(*                                                                         *)
(* Texts and arguments are abstracted to the tokens of their kind.         *)
(***************************************************************************)
EXTENDS TransformMessages, FiniteSetsExt

contextSafetyTokens == 4096
minMaxTokens == 1
minOutputTokens == 1024
Least(a, b) == Min({a, b})
Most(a, b) == Max({a, b})

-----------------------------------------------------------------------------
(* EstimateContextTokens                                                   *)

PartTokens(p) ==
    IF p.blank THEN 0
    ELSE CASE p.kind = "image" -> 1200
           [] p.kind \in {"text", "thinking", "redacted"} -> 1000
           [] p.kind = "call" -> 100

EstimateMessageTokens(msg) == SumFunction([i \in DOMAIN msg.parts |-> PartTokens(msg.parts[i])])

\* What the system prompt and the tools are estimated at.
PrefixTokens == 500

\* The last turn that did not fail and reported its usage counts for everything
\* up to it; without one everything is estimated.
EstimateContextTokens(history) ==
    LET anchors == {i \in DOMAIN history : history[i].role = "assistant" /\ ~Failed(history[i]) /\ history[i].usage > 0}
        anchor == IF anchors = {} THEN 0 ELSE Max(anchors)
        trailing == anchor + 1..Len(history)
    IN  (IF anchor = 0 THEN PrefixTokens ELSE history[anchor].usage)
          + SumFunction([i \in trailing |-> EstimateMessageTokens(history[i])])

-----------------------------------------------------------------------------
(* Options, for a history of that estimate                                 *)

Unset == -1

ClampMaxTokensToContext(model, estimate, maxTokens) ==
    IF model.window <= 0 THEN Most(minMaxTokens, maxTokens)
    ELSE Least(maxTokens, Most(minMaxTokens, model.window - estimate - contextSafetyTokens))

\* BuildBaseOptions: the caller's cap or the model's.
BaseMaxTokens(model, estimate, requested) ==
    ClampMaxTokensToContext(model, estimate, IF requested = Unset THEN model.maxTokens ELSE requested)

Levels == {"off", "minimal", "low", "medium", "high", "xhigh"}
ClampReasoning(level) == IF level = "xhigh" THEN "high" ELSE level
defaultThinkingBudgets == [minimal |-> 1024, low |-> 2048, medium |-> 8192, high |-> 16384]

\* The budgets of the caller override the defaults.
LevelBudget(level, custom) ==
    IF custom[ClampReasoning(level)] # Unset THEN custom[ClampReasoning(level)]
    ELSE defaultThinkingBudgets[ClampReasoning(level)]

\* The budget comes on top of the cap as far as the model's cap allows.
AdjustMaxTokensForThinking(base, model, level, custom) ==
    LET budget == LevelBudget(level, custom)
        maxTokens == Least(base + budget, model.maxTokens)
    IN  [max |-> maxTokens, budget |-> IF maxTokens <= budget THEN Most(0, maxTokens - minOutputTokens) ELSE budget]

\* Mutated ThinkingWithBudget: the budget is not fitted to the clamped cap.
ThinkingUnfitted(model, estimate, base, level, custom) ==
    LET adjusted == AdjustMaxTokensForThinking(base, model, level, custom)
    IN  [max |-> ClampMaxTokensToContext(model, estimate, adjusted.max), budget |-> adjusted.budget]

\* Claude models that think by budget.
ThinkingWithBudget(model, estimate, base, level, custom) ==
    LET adjusted == AdjustMaxTokensForThinking(base, model, level, custom)
        clamped == ClampMaxTokensToContext(model, estimate, adjusted.max)
    IN  [max |-> clamped, budget |-> Least(adjusted.budget, Most(0, clamped - 1024))]

\* Bedrock hands the fitted budget on as the caller's budget of that level.
BedrockThinking(model, estimate, base, level, custom) ==
    LET fitted == ThinkingWithBudget(model, estimate, base, level, custom)
        merged == [custom EXCEPT ![ClampReasoning(level)] = fitted.budget]
    IN  [max |-> fitted.max, budget |-> LevelBudget(level, merged)]

\* Gemini's budget is not fitted to the cap; -1 leaves it to the model.
GoogleBudget(model, level, custom) ==
    IF custom[ClampReasoning(level)] # Unset THEN custom[ClampReasoning(level)] ELSE model.budgets[ClampReasoning(level)]

ThinksByBudget(model) ==
    /\ model.api = "anthropic" \/ (model.api = "bedrock" /\ "claude" \in model.traits)
    /\ "adaptive" \notin model.traits

StreamSimple(model, estimate, requested, level, custom) ==
    LET base == BaseMaxTokens(model, estimate, requested)
    IN  CASE level = "off" -> [max |-> base, budget |-> Unset]
          [] level # "off" /\ ThinksByBudget(model) /\ model.api = "anthropic" ->
                ThinkingWithBudget(model, estimate, base, level, custom)
          [] level # "off" /\ ThinksByBudget(model) /\ model.api = "bedrock" ->
                BedrockThinking(model, estimate, base, level, custom)
          [] level # "off" /\ model.api = "google" -> [max |-> base, budget |-> GoogleBudget(model, level, custom)]
          [] OTHER -> [max |-> base, budget |-> Unset]
=============================================================================
