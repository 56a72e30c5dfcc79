--------------------------- MODULE MCConversation ---------------------------
EXTENDS Conversation

Model(name, provider, api, traits, window, maxTokens, usage) ==
    [name |-> name, provider |-> provider, api |-> api, traits |-> traits, window |-> window,
     maxTokens |-> maxTokens, usage |-> usage,
     budgets |-> [minimal |-> 128, low |-> 2048, medium |-> 8192, high |-> 32768]]

Claude == Model("claude", "anthropic", "anthropic", {"images"}, 16000, 8192, 6000)
GPT == Model("gpt", "openai", "responses", {"images", "pipes"}, 0, 16384, 0)
Gemini == Model("gemini", "google", "google", {"images"}, 32000, 8192, 3000)

Chat == Model("chat", "groq", "completions", {"bridge"}, 10000, 4096, 0)

MCSpeakers == {Claude, GPT, Gemini, Chat}
MCModels == MCSpeakers \cup
    { Model("gpt mini", "openai", "responses", {"pipes"}, 8000, 4096, 0),
      Model("gpt elsewhere", "copilot", "responses", {"images"}, 8000, 4096, 0),
      Model("claude next", "anthropic", "anthropic", {"images", "adaptive"}, 16000, 8192, 0),
      Model("bedrock claude", "bedrock", "bedrock", {"images", "claude"}, 12000, 64000, 0),
      Model("nova", "bedrock", "bedrock", {}, 12000, 4096, 0),
      Model("gateway claude", "cloud code", "google", {"images", "ids", "nested"}, 40000, 64000, 0),
      Model("large", "mistral", "mistral", {}, 40000, 4096, 0) }

NoCustom == [l \in {"minimal", "low", "medium", "high"} |-> Unset]
MCCustoms == {NoCustom, [NoCustom EXCEPT !["high"] = 3000]}
=============================================================================
