------------------------------ MODULE Routing ------------------------------
(***************************************************************************)
(* What main makes of the configuration's part on turn routing: the router *)
(* it wires or does not, the model and the effort of each tier, and what   *)
(* the router shows Jev of a transcript (src/main.ts, agent/route-turn.ts, *)
(* agent/call-model.ts).  A message carries its role, its sender, whether  *)
(* that is one of the system's own lines (system:...), and its text.       *)
(***************************************************************************)
EXTENDS Config, Sequences

\* Off, and no router is there at all.
WiresRouter(config) == config["TURN_ROUTING"] # {"off"}

\* makeTurnRouting makes Jev's client, which needs the key.
WiringThrows(config) == WiresRouter(config) /\ config["TYPESAFE_API_KEY"] = Undefined

\* A tier that is not fast or deep, or comes without a router, is the model of the
\* turn loop and its effort; an effort belongs to the model of its tier.
ModelFor(config, tier) ==
  IF WiresRouter(config) /\ tier = "fast" THEN [model |-> config["FAST_MODEL_ID"], effort |-> config["FAST_EFFORT"]]
  ELSE IF WiresRouter(config) /\ tier = "deep" THEN [model |-> config["DEEP_MODEL_ID"], effort |-> config["DEEP_EFFORT"]]
  ELSE [model |-> config["REASONING_MODEL_ID"], effort |-> config["REASONING_EFFORT"]]

LabelFor(config, sender) ==
  IF sender \in config["WA_JID_HUSBAND"] THEN "husband"
  ELSE IF sender \in config["WA_JID_WIFE"] THEN "wife" ELSE "member"

\* People's messages and what the assistant said; tools and system lines are left out.
Shown(m) == (m.role = "user" /\ ~m.system) \/ (m.role = "assistant" /\ m.text # "")

RouteMessages(config, messages) ==
  LET shown == SelectSeq(messages, Shown) IN
  [i \in DOMAIN shown |->
     [from |-> IF shown[i].role = "user" THEN LabelFor(config, shown[i].sender) ELSE "assistant",
      text |-> shown[i].text]]
=============================================================================
